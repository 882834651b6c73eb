----------------------------- MODULE MCPayments -----------------------------
\* Instances of Payments for TLC.
EXTENDS PaymentsProperties, TLC

CONSTANTS p1, p2, r1, r2, k1

TwoPayments == {p1, p2}
OnePayment == {p1}
TwoRequests == {r1, r2}
OneKey == {k1}
NoKeys == {}

NothingFails == {}
FaultsAndRefunds == {"fault", "slow", "refund"}

Symmetry == Permutations({p1, p2}) \cup Permutations({r1, r2})
=============================================================================
