----------------------------- MODULE MCRecovery -----------------------------
(* What recovers by itself, as one instance for TLC: a payment's effects and *)
(* the shared consumer of events.  They share nothing but the log, so each   *)
(* behaviour is of one of them.                                              *)
EXTENDS PaymentsProperties, Consumer, TLC

CONSTANTS p1, r1, c1, c2

OnePayment == {p1}
OneRequest == {r1}
NoKeys == {}
FaultsAndRefunds == {"fault", "refund"}
TwoConsumers == {c1, c2}

VARIABLE part \* the one that runs

RecoveryInit ==
  /\ part \in {"payment", "consumer"}
  /\ Init
  /\ ConsumerInit /\ assignee = c1 \* the other may take over

RecoveryNext ==
  \/ part = "payment" /\ Next /\ UNCHANGED <<groupVars, part>>
  \/ part = "consumer" /\ ConsumerNext /\ UNCHANGED <<vars, part>>

RecoverySpec ==
  RecoveryInit /\ [][RecoveryNext]_<<vars, groupVars, part>> /\ Fairness /\ ConsumerFairness
=============================================================================
