------------------------------- MODULE Outbox -------------------------------
(***************************************************************************)
(* The transactional outbox (shared/src/outbox/outbox.ts): services stage  *)
(* an event in the transaction that changes a row, relays publish staged   *)
(* events to Kafka afterwards.                                             *)
(*                                                                         *)
(* An event is its outbox id (a bigserial), taken when it is inserted; its *)
(* transaction holds the lock of the row it changed until it commits or    *)
(* rolls back, so ids may commit out of order across rows but not for one. *)
(* Kafka is the set of events it has accepted: a re-sent message is a      *)
(* duplicate that consumers skip.  Waking the relay (kick, interval) only  *)
(* affects when a batch starts, which may be any time here.                *)
(***************************************************************************)
EXTENDS Naturals, FiniteSets

CONSTANTS
  Aggregate,  \* rows that change and stage events
  Relay,      \* service instances, each with one relay
  NoOne,      \* no aggregate: the id is not taken yet
  MaxId,      \* bound: at most this many events are staged
  BatchSize,  \* options.batchSize
  Faults      \* which of the failures below may happen

(***************************************************************************)
(*   "rollback"   a transaction that staged an event does not commit       *)
(*   "refused"    Kafka refuses a message, or accepts it without our       *)
(*                hearing of it                                            *)
(*   "connection" a relay loses its database session: its transaction and  *)
(*                advisory lock are gone, its loop is not                  *)
(*   "crash"      a relay's process dies and restarts                      *)
(***************************************************************************)
FailureKind == {"rollback", "refused", "connection", "crash"}

ASSUME OutboxAssumption ==
  /\ NoOne \notin Aggregate
  /\ MaxId \in Nat
  /\ BatchSize \in Nat \ {0}
  /\ Faults \subseteq FailureKind

VARIABLES
  owner,      \* the aggregate each id belongs to
  row,        \* "free", "open" (inserted, not committed), "committed" or "gone"
  published,  \* ids with a published_at
  onTopic,    \* ids Kafka has accepted at least once
  relay       \* what each relay is doing

rowVars == <<owner, row>>
vars == <<rowVars, published, onTopic, relay>>

Id == 1 .. MaxId
committed == {i \in Id : row[i] = "committed"}
Asleep == [pc |-> "idle", todo |-> {}, sent |-> {}, connected |-> TRUE]

RelayState ==
  [pc : {"idle", "busy"},
   todo : SUBSET Id,       \* rows of the batch not tried yet
   sent : SUBSET Id,       \* rows of the batch Kafka acknowledged
   connected : BOOLEAN]    \* the batch's transaction is alive

TypeOK ==
  /\ owner \in [Id -> Aggregate \cup {NoOne}]
  /\ row \in [Id -> {"free", "open", "committed", "gone"}]
  /\ published \subseteq Id
  /\ onTopic \subseteq Id
  /\ relay \in [Relay -> RelayState]

Init ==
  /\ owner = [i \in Id |-> NoOne]
  /\ row = [i \in Id |-> "free"]
  /\ published = {}
  /\ onTopic = {}
  /\ relay = [r \in Relay |-> Asleep]

-----------------------------------------------------------------------------
(***************************************************************************)
(* The transactions that stage                                             *)
(***************************************************************************)

\* The row's lock: the insert follows the compare-and-set that took it.
rowFree_NoLock(a) == TRUE
rowFree(a) == \A i \in Id : owner[i] = a => row[i] # "open"

\* bigserial hands out ids in increasing order.
isNext(i) == row[i] = "free" /\ \A j \in Id : j < i => row[j] # "free"

StageEvent(a, i) ==
  /\ rowFree(a)
  /\ isNext(i)
  /\ owner' = [owner EXCEPT ![i] = a]
  /\ row' = [row EXCEPT ![i] = "open"]
  /\ UNCHANGED <<published, onTopic, relay>>

Commit(i) ==
  /\ row[i] = "open"
  /\ row' = [row EXCEPT ![i] = "committed"]
  /\ UNCHANGED <<owner, published, onTopic, relay>>

RollBack(i) ==
  /\ "rollback" \in Faults
  /\ row[i] = "open"
  /\ row' = [row EXCEPT ![i] = "gone"]
  /\ UNCHANGED <<owner, published, onTopic, relay>>

-----------------------------------------------------------------------------
(***************************************************************************)
(* drainOnce                                                               *)
(***************************************************************************)

\* pg_try_advisory_xact_lock: held by the session of a live batch.
locked == \E r \in Relay : relay[r].pc = "busy" /\ relay[r].connected

visible == committed \ published

\* SELECT ... WHERE published_at IS NULL ORDER BY id LIMIT batchSize
isBatch(B) ==
  /\ Cardinality(B) <= BatchSize
  /\ \A i \in B, j \in visible \ B : i < j
  /\ Cardinality(B) = BatchSize \/ B = visible

BeginBatch(r) ==
  /\ relay[r].pc = "idle"
  /\ ~ locked
  /\ \E B \in SUBSET visible \ {{}} :
       /\ isBatch(B)
       /\ relay' = [relay EXCEPT ![r] = [pc |-> "busy", todo |-> B, sent |-> {}, connected |-> TRUE]]
  /\ UNCHANGED <<rowVars, published, onTopic>>

isOldest(i, S) == i \in S /\ \A j \in S : i <= j

Publish(r, i) ==
  /\ isOldest(i, relay[r].todo)
  /\ onTopic' = onTopic \cup {i}
  /\ relay' = [relay EXCEPT ![r].todo = @ \ {i}, ![r].sent = @ \cup {i}]
  /\ UNCHANGED <<rowVars, published>>

\* The batch stops at the first failure.  Recording the failure fails when the
\* session is gone: then the run is over and nothing is marked.
PublishFails_GoesOn(r, i) ==
  /\ "refused" \in Faults
  /\ isOldest(i, relay[r].todo)
  /\ relay' = [relay EXCEPT ![r].todo = @ \ {i}]
  /\ UNCHANGED <<rowVars, published, onTopic>>

PublishFails(r, i) ==
  /\ "refused" \in Faults
  /\ isOldest(i, relay[r].todo)
  /\ onTopic' \in {onTopic, onTopic \cup {i}}
  /\ relay' = [relay EXCEPT ![r] = IF @.connected THEN [@ EXCEPT !.todo = {}] ELSE Asleep]
  /\ UNCHANGED <<rowVars, published>>

\* The last statement and the commit of the batch.
MarkPublished(r) ==
  /\ relay[r].pc = "busy" /\ relay[r].todo = {}
  /\ published' = IF relay[r].connected THEN published \cup relay[r].sent ELSE published
  /\ relay' = [relay EXCEPT ![r] = Asleep]
  /\ UNCHANGED <<rowVars, onTopic>>

LoseConnection(r) ==
  /\ "connection" \in Faults
  /\ relay[r].pc = "busy" /\ relay[r].connected
  /\ relay' = [relay EXCEPT ![r].connected = FALSE]
  /\ UNCHANGED <<rowVars, published, onTopic>>

Crash(r) ==
  /\ "crash" \in Faults
  /\ relay[r].pc = "busy"
  /\ relay' = [relay EXCEPT ![r] = Asleep]
  /\ UNCHANGED <<rowVars, published, onTopic>>

-----------------------------------------------------------------------------
RowStep ==
  \/ \E a \in Aggregate, i \in Id : StageEvent(a, i)
  \/ \E i \in Id : Commit(i) \/ RollBack(i)

RelayStep(r) ==
  \/ BeginBatch(r)
  \/ \E i \in Id : Publish(r, i) \/ PublishFails(r, i)
  \/ MarkPublished(r)
  \/ LoseConnection(r)
  \/ Crash(r)

Next == RowStep \/ \E r \in Relay : RelayStep(r)

Spec == Init /\ [][Next]_vars

(***************************************************************************)
(* Fairness.  The relay runs every intervalMs; Kafka, the session and the  *)
(* process may fail again and again but not every time, so a step enabled  *)
(* again and again is taken (strong fairness): a batch begins, Kafka       *)
(* accepts its oldest row, a batch with accepted rows commits.             *)
(***************************************************************************)
GoesOn(r) == MarkPublished(r) \/ \E i \in Id : Publish(r, i) \/ PublishFails(r, i)

Fairness ==
  /\ \A r \in Relay : WF_vars(GoesOn(r))
  /\ SF_vars(\E r \in Relay : BeginBatch(r))
  /\ \A i \in Id : SF_vars(\E r \in Relay : relay[r].connected /\ Publish(r, i))
  /\ SF_vars(\E r \in Relay : relay[r].connected /\ relay[r].sent # {} /\ MarkPublished(r))

FairSpec == Spec /\ Fairness

-----------------------------------------------------------------------------
(***************************************************************************)
(* "An event is published if and only if its state change committed"       *)
(* (outbox.ts:7), the only-if half: nothing uncommitted or rolled back     *)
(* reaches Kafka, whoever crashes when.                                    *)
(***************************************************************************)
OnlyCommitted == onTopic \subseteq committed

(***************************************************************************)
(* An event is marked published only after Kafka accepted it: no crash,    *)
(* refused message or lost session between publishing and marking can lose *)
(* one (drainOnce).                                                        *)
(***************************************************************************)
MarkedWasTold == published \subseteq onTopic

(***************************************************************************)
(* "A later event for the same order never overtakes an earlier one"       *)
(* (outbox.ts:71), with any number of relays, one of them possibly still   *)
(* publishing after its session - and lock - were lost.                    *)
(***************************************************************************)
NeverOvertakes ==
  \A i \in onTopic, j \in committed : j < i /\ owner[j] = owner[i] => j \in onTopic

(***************************************************************************)
(* The outbox implements the event log: every committed change is told, in *)
(* its aggregate's order, in the end.  What is told of a history is what   *)
(* was accepted before its first gap.                                      *)
(***************************************************************************)
historyOf(a, S) == {i \in S : owner[i] = a}
inOrder == {i \in onTopic : \A j \in historyOf(owner[i], committed) : j < i => j \in onTopic}
Abstract == INSTANCE EventLog WITH
  happened <- [a \in Aggregate |-> Cardinality(historyOf(a, committed))],
  told <- [a \in Aggregate |-> Cardinality(historyOf(a, inOrder))]
ImplementsEventLog == Abstract!Spec

-----------------------------------------------------------------------------
(***************************************************************************)
(* The inductive invariant: one open insert per row, later than the row's  *)
(* committed ones, and batches that are downward closed per aggregate.     *)
(***************************************************************************)
IdsInOrder ==
  /\ \A i \in Id : row[i] # "free" <=> owner[i] \in Aggregate
  /\ \A i, j \in Id : j < i /\ row[j] = "free" => row[i] = "free"
  /\ \A i, j \in Id : j < i /\ row[j] = "open" /\ owner[i] = owner[j] => row[i] = "free"

BatchesClosed ==
  \A r \in Relay :
    /\ relay[r].pc = "idle" => relay[r].todo = {} /\ relay[r].sent = {}
    /\ relay[r].todo \subseteq committed
    /\ relay[r].sent \subseteq onTopic
    /\ \A i \in relay[r].todo, j \in committed :
         j < i /\ owner[j] = owner[i] => j \in onTopic \cup relay[r].todo

OutboxInv == TypeOK /\ IdsInOrder /\ BatchesClosed /\ OnlyCommitted /\ MarkedWasTold /\ NeverOvertakes
=============================================================================
