----------------------------- MODULE MCDispatch -----------------------------
\* Instances of Dispatch for TLC: model values, and the environments the runs use.
EXTENDS DispatchProperties

CONSTANTS x1, x2, d1, q1, sweep

OneDelivery == {x1}
TwoDeliveries == {x1, x2}
OneDriver == {d1}
OneSlot == {q1, sweep}

LostCalls == {"releaseFault", "lostAnswer", "overlap"}
Retries == {"repeatFinish"}
=============================================================================
