------------------------------ MODULE EventLog ------------------------------
(***************************************************************************)
(* What the outbox promises (shared/src/outbox/outbox.ts): each aggregate  *)
(* (an order's, a delivery's row) has a history of committed changes, and  *)
(* Kafka is told every one of them, in that order.  A message told again   *)
(* changes nothing here.                                                   *)
(***************************************************************************)
EXTENDS Naturals

CONSTANT Aggregate

VARIABLES
  happened,  \* changes of each aggregate committed so far
  told       \* how many of them Kafka has accepted

logVars == <<happened, told>>

Init ==
  /\ happened = [a \in Aggregate |-> 0]
  /\ told = [a \in Aggregate |-> 0]

Happen(a) ==
  /\ happened' = [happened EXCEPT ![a] = @ + 1]
  /\ UNCHANGED told

\* The oldest change not told yet.
Tell(a) ==
  /\ told[a] < happened[a]
  /\ told' = [told EXCEPT ![a] = @ + 1]
  /\ UNCHANGED happened

Next == \E a \in Aggregate : Happen(a) \/ Tell(a)

History == Init /\ [][Next]_logVars

Spec == History /\ \A a \in Aggregate : WF_logVars(Tell(a))
=============================================================================
