------------------------------ MODULE MCEvents ------------------------------
(***************************************************************************)
(* Instances of Outbox and Tracking for TLC.  They share no state: a       *)
(* behaviour is of one of them, `part`, and the other stays as it starts,  *)
(* where nothing of it is due.                                             *)
(***************************************************************************)
EXTENDS Outbox, Tracking

CONSTANTS a1, a2, r1, r2

TwoAggregates == {a1, a2}
TwoRelays == {r1, r2}
AllFaults == FailureKind

VARIABLE part

eventsVars == <<vars, trackingVars, part>>

EventsInit == Init /\ TrackingInit /\ part \in {"outbox", "tracking"}

EventsNext ==
  /\ UNCHANGED part
  /\ \/ part = "outbox" /\ Next /\ UNCHANGED trackingVars
     \/ part = "tracking" /\ TrackingNext /\ UNCHANGED vars

EventsSpec == EventsInit /\ [][EventsNext]_eventsVars /\ Fairness /\ TrackingFairness
=============================================================================
