---------------------------- MODULE OutboxProofs ----------------------------
(***************************************************************************)
(* OutboxInv is inductive for any number of aggregates, relays and events, *)
(* any batch size and any failures.                                        *)
(***************************************************************************)
EXTENDS Outbox, FiniteSetTheorems, TLAPS

LEMMA InitOutbox == Init => OutboxInv
BY OutboxAssumption DEF Init, OutboxInv, TypeOK, IdsInOrder, BatchesClosed, OnlyCommitted, MarkedWasTold, NeverOvertakes, RelayState,
   Asleep, committed

\* An insert takes an id larger than every id of its row; nothing else moves.
LEMMA StageStep ==
  ASSUME OutboxInv, NEW a \in Aggregate, NEW i \in Id, StageEvent(a, i)
  PROVE  OutboxInv'
<1> USE OutboxAssumption DEF OutboxInv, StageEvent
<1>1. TypeOK'
  BY DEF TypeOK
<1>2. IdsInOrder'
  BY DEF TypeOK, IdsInOrder, rowFree, isNext, Id
<1>3. committed' = committed /\ \A j \in committed : owner'[j] = owner[j]
  BY DEF TypeOK, committed, isNext
<1>4. onTopic \subseteq committed /\ \A r \in Relay : relay[r].todo \subseteq committed
  BY DEF OnlyCommitted, BatchesClosed
<1>5. BatchesClosed' /\ NeverOvertakes' /\ OnlyCommitted' /\ MarkedWasTold'
  BY <1>3, <1>4 DEF BatchesClosed, NeverOvertakes, OnlyCommitted, MarkedWasTold
<1> QED
  BY <1>1, <1>2, <1>5

\* A committing event is younger than everything of its row already told.
LEMMA CommitStep ==
  ASSUME OutboxInv, NEW i \in Id, Commit(i)
  PROVE  OutboxInv'
<1> USE OutboxAssumption DEF OutboxInv, Commit
<1>1. TypeOK'
  BY DEF TypeOK
<1>2. IdsInOrder'
  BY DEF TypeOK, IdsInOrder, Id
<1>3. committed' = committed \cup {i}
  BY DEF TypeOK, committed
<1>4. \A j \in committed : owner[j] = owner[i] => ~ (i < j)
  BY DEF TypeOK, IdsInOrder, committed, Id
<1>5. onTopic \subseteq committed /\ \A r \in Relay : relay[r].todo \subseteq committed
  BY DEF OnlyCommitted, BatchesClosed
<1>6. BatchesClosed'
  BY <1>3, <1>4, <1>5 DEF BatchesClosed
<1>7. NeverOvertakes' /\ OnlyCommitted' /\ MarkedWasTold'
  BY <1>3, <1>4, <1>5 DEF NeverOvertakes, OnlyCommitted, MarkedWasTold
<1> QED
  BY <1>1, <1>2, <1>6, <1>7

LEMMA RollBackStep ==
  ASSUME OutboxInv, NEW i \in Id, RollBack(i)
  PROVE  OutboxInv'
<1> USE OutboxAssumption DEF OutboxInv, RollBack
<1>1. TypeOK'
  BY DEF TypeOK
<1>2. IdsInOrder'
  BY DEF TypeOK, IdsInOrder, Id
<1>3. committed' = committed
  BY DEF TypeOK, committed
<1>4. BatchesClosed' /\ NeverOvertakes' /\ OnlyCommitted' /\ MarkedWasTold'
  BY <1>3 DEF BatchesClosed, NeverOvertakes, OnlyCommitted, MarkedWasTold
<1> QED
  BY <1>1, <1>2, <1>4

\* A relay's steps leave the rows alone.
LEMMA RowsUnchanged ==
  ASSUME IdsInOrder, UNCHANGED rowVars
  PROVE  IdsInOrder' /\ committed' = committed
BY DEF IdsInOrder, rowVars, committed

\* A batch holds the smallest unpublished ids, and what is published was told.
LEMMA BeginStep ==
  ASSUME OutboxInv, NEW r \in Relay, BeginBatch(r)
  PROVE  OutboxInv'
<1> USE OutboxAssumption DEF OutboxInv
<1>1. PICK B \in SUBSET visible : isBatch(B) /\ relay' = [relay EXCEPT ![r] = [pc |-> "busy", todo |-> B, sent |-> {}, connected |-> TRUE]]
  BY DEF BeginBatch
<1>2. UNCHANGED <<rowVars, published, onTopic>>
  BY DEF BeginBatch
<1>3. B \subseteq committed /\ B \subseteq Id
  BY DEF visible, committed
<1>4. TypeOK'
  BY <1>1, <1>2, <1>3 DEF TypeOK, RelayState, rowVars
<1>5. \A j \in B, k \in committed : k < j => k \in onTopic \cup B
  BY <1>1, <1>3 DEF isBatch, visible, committed, Id, MarkedWasTold
<1>6. BatchesClosed'
  BY <1>1, <1>2, <1>3, <1>5, RowsUnchanged DEF TypeOK, BatchesClosed, rowVars
<1>7. NeverOvertakes' /\ OnlyCommitted' /\ MarkedWasTold'
  BY <1>2, RowsUnchanged DEF NeverOvertakes, OnlyCommitted, MarkedWasTold, rowVars
<1> QED
  BY <1>2, <1>4, <1>6, <1>7, RowsUnchanged

\* Telling the oldest event of a batch, heard or not: all older ones of its row are told.
LEMMA Told ==
  ASSUME OutboxInv, NEW r \in Relay, NEW i \in Id, isOldest(i, relay[r].todo)
  PROVE  /\ i \in committed
         /\ \A j \in committed : j < i /\ owner[j] = owner[i] => j \in onTopic
<1>1. i \in relay[r].todo /\ \A j \in relay[r].todo : i <= j
  BY DEF isOldest
<1> QED
  BY <1>1 DEF OutboxInv, BatchesClosed, committed, Id

LEMMA PublishStep ==
  ASSUME OutboxInv, NEW r \in Relay, NEW i \in Id, Publish(r, i)
  PROVE  OutboxInv'
<1> USE OutboxAssumption DEF OutboxInv
<1>1. /\ onTopic' = onTopic \cup {i}
      /\ relay' = [relay EXCEPT ![r].todo = @ \ {i}, ![r].sent = @ \cup {i}]
      /\ UNCHANGED <<rowVars, published>>
      /\ relay[r] \in RelayState
      /\ i \in relay[r].todo
  BY DEF Publish, TypeOK, isOldest
<1>2. i \in committed /\ \A j \in committed : j < i /\ owner[j] = owner[i] => j \in onTopic
  BY Told DEF Publish
<1>3. TypeOK'
  BY <1>1 DEF TypeOK, RelayState, rowVars
<1>4. BatchesClosed'
  BY <1>1, <1>2, RowsUnchanged DEF TypeOK, RelayState, BatchesClosed, rowVars
<1>5. NeverOvertakes' /\ OnlyCommitted' /\ MarkedWasTold'
  BY <1>1, <1>2, RowsUnchanged DEF NeverOvertakes, OnlyCommitted, MarkedWasTold, rowVars
<1> QED
  BY <1>1, <1>3, <1>4, <1>5, RowsUnchanged

LEMMA PublishFailsStep ==
  ASSUME OutboxInv, NEW r \in Relay, NEW i \in Id, PublishFails(r, i)
  PROVE  OutboxInv'
<1> USE OutboxAssumption DEF OutboxInv
<1>1. /\ onTopic' \in {onTopic, onTopic \cup {i}}
      /\ relay' = [relay EXCEPT ![r] = IF @.connected THEN [@ EXCEPT !.todo = {}] ELSE Asleep]
      /\ UNCHANGED <<rowVars, published>>
      /\ relay[r] \in RelayState
  BY DEF PublishFails, TypeOK
<1>2. i \in committed /\ \A j \in committed : j < i /\ owner[j] = owner[i] => j \in onTopic
  BY Told DEF PublishFails
<1>3. relay' \in [Relay -> RelayState]
  BY <1>1 DEF TypeOK, RelayState, Asleep
<1>4. TypeOK'
  BY <1>1, <1>3 DEF TypeOK, rowVars
<1>5. \A q \in Relay : /\ relay'[q].todo \in {relay[q].todo, {}} /\ relay'[q].sent \in {relay[q].sent, {}}
                       /\ relay'[q].pc = "idle" => relay'[q].todo = {} /\ relay'[q].sent = {}
  BY <1>1 DEF TypeOK, Asleep, BatchesClosed
<1>6. BatchesClosed'
  BY <1>1, <1>5, RowsUnchanged DEF BatchesClosed, rowVars
<1>7. NeverOvertakes' /\ OnlyCommitted' /\ MarkedWasTold'
  BY <1>1, <1>2, RowsUnchanged DEF NeverOvertakes, OnlyCommitted, MarkedWasTold, rowVars
<1> QED
  BY <1>1, <1>4, <1>6, <1>7, RowsUnchanged

\* Ending a batch, or losing its session, only forgets rows still to be tried.
LEMMA EndStep ==
  ASSUME OutboxInv, NEW r \in Relay, MarkPublished(r) \/ LoseConnection(r) \/ Crash(r)
  PROVE  OutboxInv'
<1> USE OutboxAssumption DEF OutboxInv
<1>1. /\ relay' \in {[relay EXCEPT ![r] = Asleep], [relay EXCEPT ![r].connected = FALSE]}
      /\ published' \subseteq published \cup relay[r].sent
      /\ UNCHANGED <<rowVars, onTopic>>
  BY DEF MarkPublished, LoseConnection, Crash
<1>2. relay' \in [Relay -> RelayState]
  <2>1. Asleep \in RelayState /\ [relay[r] EXCEPT !.connected = FALSE] \in RelayState
    BY DEF TypeOK, RelayState, Asleep
  <2> QED
    BY <1>1, <2>1 DEF TypeOK
<1>3. TypeOK'
  BY <1>1, <1>2 DEF TypeOK, RelayState, rowVars
<1>4. \A q \in Relay : /\ relay'[q].todo \in {relay[q].todo, {}} /\ relay'[q].sent \in {relay[q].sent, {}}
                       /\ relay'[q].pc = "idle" => relay'[q].todo = {} /\ relay'[q].sent = {}
  <2>1. CASE relay' = [relay EXCEPT ![r] = Asleep]
    BY <2>1 DEF TypeOK, Asleep, BatchesClosed
  <2>2. CASE relay' = [relay EXCEPT ![r].connected = FALSE]
    BY <2>2 DEF TypeOK, RelayState, BatchesClosed
  <2> QED
    BY <1>1, <2>1, <2>2
<1>5. BatchesClosed'
  BY <1>1, <1>4, RowsUnchanged DEF BatchesClosed, rowVars
<1>6. NeverOvertakes' /\ OnlyCommitted' /\ MarkedWasTold'
  BY <1>1, RowsUnchanged DEF NeverOvertakes, OnlyCommitted, MarkedWasTold, BatchesClosed, rowVars
<1> QED
  BY <1>1, <1>3, <1>5, <1>6, RowsUnchanged

LEMMA OutboxStep ==
  ASSUME OutboxInv, [Next]_vars
  PROVE  OutboxInv'
<1>1. CASE UNCHANGED vars
  BY <1>1 DEF vars, rowVars, OutboxInv, TypeOK, IdsInOrder, BatchesClosed, OnlyCommitted, MarkedWasTold, NeverOvertakes, committed
<1>2. ASSUME NEW r \in Relay, RelayStep(r) PROVE OutboxInv'
  BY <1>2, BeginStep, PublishStep, PublishFailsStep, EndStep DEF RelayStep
<1>3. CASE RowStep
  BY <1>3, StageStep, CommitStep, RollBackStep DEF RowStep
<1> QED
  BY <1>1, <1>2, <1>3 DEF Next

(***************************************************************************)
(* The outbox's inductive invariant holds throughout, whatever fails.      *)
(***************************************************************************)
THEOREM OutboxCorrect == Spec => []OutboxInv
<1>1. Init => OutboxInv
  BY InitOutbox
<1>2. OutboxInv /\ [Next]_vars => OutboxInv'
  BY OutboxStep
<1> QED
  BY <1>1, <1>2, PTL DEF Spec

(***************************************************************************)
(* A later event of an aggregate never overtakes an earlier one, even with *)
(* a relay that publishes on after losing its session and its lock.        *)
(***************************************************************************)
THEOREM OrderKept == Spec => []NeverOvertakes
<1>1. OutboxInv => NeverOvertakes
  BY DEF OutboxInv
<1> QED
  BY <1>1, OutboxCorrect, PTL

(***************************************************************************)
(* What is marked published was accepted by Kafka, and what Kafka accepted *)
(* was committed: no event is lost, and none announces a change that was   *)
(* rolled back.                                                            *)
(***************************************************************************)
THEOREM NothingLostNothingInvented == Spec => [](MarkedWasTold /\ OnlyCommitted)
<1>1. OutboxInv => MarkedWasTold /\ OnlyCommitted
  BY DEF OutboxInv
<1> QED
  BY <1>1, OutboxCorrect, PTL

-----------------------------------------------------------------------------
(***************************************************************************)
(* The refinement: as nothing is overtaken, what is told of a history is   *)
(* exactly what Kafka accepted of it.                                      *)
(***************************************************************************)
LEMMA InOrderIsOnTopic ==
  ASSUME OutboxInv
  PROVE  inOrder = onTopic
BY DEF OutboxInv, NeverOvertakes, inOrder, historyOf

LEMMA HistoriesFinite ==
  ASSUME NEW S, S \subseteq Id, NEW a
  PROVE  /\ IsFiniteSet(historyOf(a, S))
         /\ Cardinality(historyOf(a, S)) \in Nat
<1>1. IsFiniteSet(Id)
  BY OutboxAssumption, FS_Interval DEF Id
<1>2. historyOf(a, S) \subseteq Id
  BY DEF historyOf
<1> QED
  BY <1>1, <1>2, FS_Subset, FS_CardinalityType

\* A history grows by one event, or not at all.
LEMMA HistoryGrows ==
  ASSUME NEW S, S \subseteq Id, NEW i \in Id \ S, NEW a
  PROVE  Cardinality(historyOf(a, S \cup {i})) =
           IF owner[i] = a THEN Cardinality(historyOf(a, S)) + 1 ELSE Cardinality(historyOf(a, S))
<1>1. IsFiniteSet(historyOf(a, S)) /\ i \notin historyOf(a, S)
  BY HistoriesFinite DEF historyOf
<1>2. CASE owner[i] = a
  <2>1. historyOf(a, S \cup {i}) = historyOf(a, S) \cup {i}
    BY <1>2 DEF historyOf
  <2> QED
    BY <1>1, <1>2, <2>1, FS_AddElement
<1>3. CASE owner[i] # a
  <2>1. historyOf(a, S \cup {i}) = historyOf(a, S)
    BY <1>3 DEF historyOf
  <2> QED
    BY <1>3, <2>1
<1> QED
  BY <1>2, <1>3

\* Until it is told, a change that happened makes the history told a shorter one.
LEMMA ToldIsBehind ==
  ASSUME OutboxInv, NEW i \in committed \ onTopic
  PROVE  Cardinality(historyOf(owner[i], onTopic)) < Cardinality(historyOf(owner[i], committed))
<1> DEFINE H == historyOf(owner[i], committed)
           T == historyOf(owner[i], onTopic)
<1>1. T \subseteq H /\ i \in H \ T
  BY DEF OutboxInv, OnlyCommitted, historyOf
<1>2. IsFiniteSet(H) /\ Cardinality(H) \in Nat /\ Cardinality(T) \in Nat
  BY HistoriesFinite DEF committed, OutboxInv, TypeOK
<1> QED
  BY <1>1, <1>2, FS_Subset

\* A step that neither commits nor tells is no step of the log.
LEMMA LogStutters ==
  ASSUME OutboxInv, OutboxInv', committed' = committed, onTopic' = onTopic,
         \A i \in committed : owner'[i] = owner[i]
  PROVE  UNCHANGED Abstract!logVars
<1>1. onTopic \subseteq committed
  BY DEF OutboxInv, OnlyCommitted
<1>2. inOrder = onTopic /\ inOrder' = onTopic'
  BY DEF OutboxInv, NeverOvertakes, inOrder, historyOf
<1>3. \A a \in Aggregate : /\ historyOf(a, committed)' = historyOf(a, committed)
                           /\ historyOf(a, inOrder)' = historyOf(a, inOrder)
  BY <1>1, <1>2 DEF historyOf
<1> QED
  BY <1>3 DEF Abstract!logVars

LEMMA CommitHappens ==
  ASSUME OutboxInv, OutboxInv', NEW i \in Id, Commit(i)
  PROVE  owner[i] \in Aggregate /\ Abstract!Happen(owner[i])
<1>1. /\ owner[i] \in Aggregate /\ owner' = owner /\ onTopic' = onTopic
      /\ i \notin committed /\ committed' = committed \cup {i} /\ committed \subseteq Id
  BY DEF OutboxInv, TypeOK, IdsInOrder, Commit, committed
<1>2. inOrder = onTopic /\ inOrder' = onTopic'
  BY DEF OutboxInv, NeverOvertakes, inOrder, historyOf
<1>3. \A a \in Aggregate : Cardinality(historyOf(a, committed))' =
        IF owner[i] = a THEN Cardinality(historyOf(a, committed)) + 1 ELSE Cardinality(historyOf(a, committed))
  <2>1. \A a \in Aggregate : historyOf(a, committed)' = historyOf(a, committed \cup {i})
    BY <1>1 DEF historyOf
  <2> QED
    BY <1>1, <2>1, HistoryGrows
<1>4. \A a \in Aggregate : historyOf(a, inOrder)' = historyOf(a, inOrder)
  BY <1>1, <1>2 DEF historyOf
<1> QED
  BY <1>1, <1>3, <1>4 DEF Abstract!Happen

\* Kafka accepts an event for the first time: the log's next change is told.
LEMMA AcceptedIsTold ==
  ASSUME OutboxInv, OutboxInv', NEW i \in committed, i \notin onTopic, UNCHANGED rowVars, onTopic' = onTopic \cup {i}
  PROVE  owner[i] \in Aggregate /\ Abstract!Tell(owner[i])
<1>1. /\ owner[i] \in Aggregate /\ owner' = owner /\ i \in Id
      /\ committed' = committed /\ onTopic \subseteq Id
  BY DEF OutboxInv, TypeOK, IdsInOrder, committed, rowVars
<1>2. inOrder = onTopic /\ inOrder' = onTopic \cup {i}
  BY DEF OutboxInv, NeverOvertakes, inOrder, historyOf
<1>3. \A a \in Aggregate : historyOf(a, committed)' = historyOf(a, committed)
  BY <1>1 DEF historyOf
<1>4. \A a \in Aggregate : Cardinality(historyOf(a, inOrder))' =
        IF owner[i] = a THEN Cardinality(historyOf(a, inOrder)) + 1 ELSE Cardinality(historyOf(a, inOrder))
  <2>1. \A a \in Aggregate : historyOf(a, inOrder)' = historyOf(a, onTopic \cup {i})
    BY <1>1, <1>2 DEF historyOf
  <2> QED
    BY <1>1, <1>2, <2>1, HistoryGrows, SMTT(30)
<1>5. Cardinality(historyOf(owner[i], inOrder)) < Cardinality(historyOf(owner[i], committed))
  BY <1>2, ToldIsBehind
<1> QED
  BY <1>1, <1>3, <1>4, <1>5 DEF Abstract!Tell

LEMMA LogInit ==
  ASSUME Init
  PROVE  Abstract!Init
<1>1. committed = {} /\ inOrder = {}
  BY DEF Init, committed, inOrder
<1>2. \A a \in Aggregate : historyOf(a, {}) = {}
  BY DEF historyOf
<1> QED
  BY <1>1, <1>2, FS_EmptySet DEF Abstract!Init

LEMMA LogStep ==
  ASSUME OutboxInv, OutboxInv', [Next]_vars
  PROVE  [Abstract!Next]_(Abstract!logVars)
<1>1. ASSUME UNCHANGED rowVars, onTopic' = onTopic PROVE UNCHANGED Abstract!logVars
  BY <1>1, LogStutters DEF rowVars, committed
<1>2. ASSUME NEW r \in Relay, NEW i \in Id, Publish(r, i) \/ PublishFails(r, i)
      PROVE  [Abstract!Next]_(Abstract!logVars)
  <2>1. i \in committed /\ UNCHANGED rowVars /\ onTopic' \in {onTopic, onTopic \cup {i}}
    BY <1>2, Told DEF Publish, PublishFails
  <2>2. CASE onTopic' = onTopic
    BY <1>1, <2>1, <2>2
  <2>3. CASE i \notin onTopic /\ onTopic' = onTopic \cup {i}
    BY <2>1, <2>3, AcceptedIsTold DEF Abstract!Next
  <2> QED
    BY <2>1, <2>2, <2>3
<1>3. ASSUME NEW r \in Relay, BeginBatch(r) \/ MarkPublished(r) \/ LoseConnection(r) \/ Crash(r)
      PROVE  UNCHANGED Abstract!logVars
  BY <1>1, <1>3 DEF BeginBatch, MarkPublished, LoseConnection, Crash
<1>4. ASSUME NEW i \in Id, Commit(i) PROVE Abstract!Next
  BY <1>4, CommitHappens DEF Abstract!Next
<1>5. ASSUME NEW i \in Id, RollBack(i) PROVE UNCHANGED Abstract!logVars
  <2>1. committed' = committed /\ onTopic' = onTopic /\ owner' = owner
    BY <1>5 DEF RollBack, OutboxInv, TypeOK, committed
  <2> QED
    BY <2>1, LogStutters
<1>6. ASSUME NEW a \in Aggregate, NEW i \in Id, StageEvent(a, i) PROVE UNCHANGED Abstract!logVars
  <2>1. committed' = committed /\ onTopic' = onTopic /\ \A j \in committed : owner'[j] = owner[j]
    BY <1>6 DEF StageEvent, isNext, OutboxInv, TypeOK, committed
  <2> QED
    BY <2>1, LogStutters
<1>7. CASE UNCHANGED vars
  BY <1>1, <1>7 DEF vars
<1> QED
  BY <1>2, <1>3, <1>4, <1>5, <1>6, <1>7 DEF Next, RowStep, RelayStep

(***************************************************************************)
(* The outbox refines the event log: a step of a service or a relay is     *)
(* one change that happens, the oldest change untold that is told, or no   *)
(* step of the log at all, whatever fails (the safety half of              *)
(* ImplementsEventLog).                                                    *)
(***************************************************************************)
THEOREM OutboxTellsHistory == Spec => Abstract!History
<1>1. Spec => Abstract!Init
  BY LogInit DEF Spec
<1>2. OutboxInv /\ OutboxInv' /\ [Next]_vars => [Abstract!Next]_(Abstract!logVars)
  BY LogStep
<1>3. Spec => [][Abstract!Next]_(Abstract!logVars)
  BY <1>2, OutboxCorrect, PTL DEF Spec
<1> QED
  BY <1>1, <1>3, PTL DEF Abstract!History
=============================================================================
