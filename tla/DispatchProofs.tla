--------------------------- MODULE DispatchProofs ---------------------------
(***************************************************************************)
(* Proofs about Dispatch for any number of deliveries, drivers and         *)
(* requests, and in every environment: RowInv and TokenInv are inductive.  *)
(***************************************************************************)
EXTENDS DispatchProperties, TLAPS

LEMMA InitType == Init => TypeOK
BY DispatchAssumption DEF Init, TypeOK, DriverStatus, DeliveryStatus, RequestState, Idle, NoEntry, LedgerEntryType

LEMMA IdleType == Idle \in RequestState
BY DispatchAssumption DEF Idle, RequestState, NoEntry

LEMMA DriverMoveType ==
  ASSUME TypeOK, NEW d \in Driver, NEW s \in DriverStatus, SetDriver(d, s)
  PROVE  driverStatus' \in [Driver -> DriverStatus] /\ quiet' \subseteq Driver /\ reconTodo' \subseteq Driver
BY DEF TypeOK, SetDriver

LEMMA PatchType ==
  ASSUME TypeOK, NEW d \in Driver, PatchAvailable(d)
  PROVE  driverStatus' \in [Driver -> DriverStatus] /\ quiet' \subseteq Driver /\ reconTodo' \subseteq Driver
BY DriverMoveType DEF TypeOK, PatchAvailable, DriverStatus

LEMMA StepType ==
  ASSUME TypeOK, RequestsAgree, NEW r \in Request, RequestStep(r)
  PROVE  TypeOK'
<1> USE DispatchAssumption DEF driverVars, deliveryVars, reconVars
<1>0. /\ req[r] \in RequestState
      /\ req[r].drv \in Driver \cup {NoDriver}
      /\ req[r].delivery \in Delivery \cup {NoDriver}
  BY DEF TypeOK, RequestState
<1>1. ASSUME NEW d \in Driver, FindDriver(r, d) PROVE TypeOK'
  BY <1>1, <1>0 DEF FindDriver, TypeOK, RequestState
<1>2. CASE NoDriverFree(r)
  BY <1>2, <1>0, IdleType DEF NoDriverFree, TypeOK, Fail
<1>3. CASE ClaimDriver(r)
  BY <1>3, <1>0, DriverMoveType DEF ClaimDriver, TypeOK, RequestState, RequestsAgree, DriverStatus, Expose
<1>4. CASE ClaimRefused(r)
  BY <1>4, <1>0, IdleType DEF ClaimRefused, TypeOK, RequestState, Fail, mayTryAgain
<1>5. CASE CommitAssign(r) \/ AssignUnanswered(r)
  <2>1. /\ req[r].delivery \in Delivery /\ req[r].drv \in Driver
        /\ recordAssignment(req[r].delivery, req[r].drv)
    BY <1>5, <1>0 DEF CommitAssign, AssignUnanswered, RequestsAgree
  <2>2. req' \in [Request -> RequestState]
    <3>1. CASE CommitAssign(r)
      BY <3>1, IdleType DEF CommitAssign, TypeOK, Done
    <3>2. CASE AssignUnanswered(r)
      BY <3>2, <1>0 DEF AssignUnanswered, TypeOK, RequestState
    <3> QED
      BY <1>5, <3>1, <3>2
  <2>3. exposed' \subseteq Driver /\ sweepQueue' \subseteq Delivery
    BY <1>5, <2>1 DEF CommitAssign, AssignUnanswered, TypeOK, Done, Expose
  <2> QED
    BY <2>1, <2>2, <2>3 DEF recordAssignment, TypeOK, DeliveryStatus, DeliveryEventType
<1>6. CASE AssignLost(r)
  BY <1>6, <1>0 DEF AssignLost, TypeOK, RequestState
<1>7. CASE GiveBack(r)
  BY <1>7, <1>0, PatchType, IdleType DEF GiveBack, TypeOK, RequestsAgree, Done
<1>8. CASE FinishCommit(r)
  <2>1. /\ req[r].delivery \in Delivery
        /\ target(req[r].op) \in DeliveryStatus
        /\ finishEvent(req[r].op) \in DeliveryEventType
    BY <1>8, <1>0 DEF FinishCommit, RequestsAgree, target, finishEvent, DeliveryStatus, DeliveryEventType
  <2>2. {req[r].entry} \ {NoEntry} \subseteq LedgerEntryType
    BY <1>0 DEF RequestState
  <2>3. req' \in [Request -> RequestState]
    BY <1>8, <1>0, <2>1 DEF FinishCommit, TypeOK, RequestState
  <2>4. /\ deliveryStatus' \in [Delivery -> DeliveryStatus \cup {"NONE"}]
        /\ staged' \in [Delivery -> SUBSET DeliveryEventType]
        /\ ledger' \in [Delivery -> SUBSET LedgerEntryType]
    BY <1>8, <2>1, <2>2 DEF FinishCommit, TypeOK
  <2> QED
    BY <1>8, <2>3, <2>4 DEF FinishCommit, TypeOK
<1>9. CASE FinishLost(r)
  BY <1>9, <1>0, IdleType, ZenonT(30) DEF FinishLost, TypeOK, RequestsAgree, RequestState
<1>10. CASE CheckRelease(r)
  BY <1>10, <1>0, IdleType DEF CheckRelease, TypeOK, RequestState, Expose
<1>11. CASE ReleaseDriver(r)
  BY <1>11, <1>0, PatchType, IdleType DEF ReleaseDriver, TypeOK, RequestsAgree
<1>12. CASE Abort(r)
  BY <1>12, <1>0, IdleType DEF Abort, TypeOK, Fail, Done
<1> QED
  BY <1>1, <1>2, <1>3, <1>4, <1>5, <1>6, <1>7, <1>8, <1>9, <1>10, <1>11, <1>12 DEF RequestStep

LEMMA AssignRequestType ==
  ASSUME NEW x \in Delivery
  PROVE  assignRequest(x) \in RequestState
BY DispatchAssumption DEF assignRequest, RequestState, Idle, NoEntry, DeliveryStatus

LEMMA FinishRequestType ==
  ASSUME TypeOK, NEW x \in Delivery, NEW op \in {"complete", "cancel"}, NEW pc \in {"commit", "check"},
         NEW drv \in Driver \cup {NoDriver}, NEW entry \in LedgerEntryType \cup {NoEntry}
  PROVE  finishRequest(x, op, pc, drv, entry) \in RequestState
BY DispatchAssumption DEF TypeOK, finishRequest, RequestState

LEMMA BeginType ==
  ASSUME TypeOK, NEW r \in Request, NEW x \in Delivery, RequestBegin(r, x)
  PROVE  TypeOK'
<1> USE DispatchAssumption DEF driverVars, deliveryVars, reconVars
<1>1. CASE AssignBegin(r, x)
  BY <1>1, AssignRequestType DEF AssignBegin, TypeOK
<1>2. ASSUME NEW op \in {"complete", "cancel"}, FinishBegin(r, x, op) PROVE TypeOK'
  <2>1. earningFor(x, op) \in LedgerEntryType \cup {NoEntry}
    BY DEF earningFor, LedgerEntryType
  <2>2. req' \in [Request -> RequestState]
    BY <1>2, <2>1, FinishRequestType DEF FinishBegin, TypeOK
  <2> QED
    BY <1>2, <2>2 DEF FinishBegin, TypeOK
<1>3. ASSUME NEW op \in {"complete", "cancel"}, FinishAgain(r, x, op) PROVE TypeOK'
  BY <1>3, FinishRequestType DEF FinishAgain, TypeOK
<1> QED
  BY <1>1, <1>2, <1>3 DEF RequestBegin

LEMMA RowStepType ==
  ASSUME TypeOK, NEW x \in Delivery, DeliveryStep(x)
  PROVE  TypeOK'
<1> USE DispatchAssumption DEF driverVars, deliveryVars, reconVars
<1>1. CASE Create(x)
  BY <1>1 DEF Create, TypeOK, DeliveryStatus, DeliveryEventType
<1>2. CASE Pickup(x)
  BY <1>2 DEF Pickup, TypeOK, DeliveryStatus, DeliveryEventType
<1>3. CASE Start(x)
  BY <1>3 DEF Start, TypeOK, DeliveryStatus, DeliveryEventType
<1>4. CASE SweepNext(x)
  BY <1>4, AssignRequestType DEF SweepNext, TypeOK
<1> QED
  BY <1>1, <1>2, <1>3, <1>4 DEF DeliveryStep

LEMMA DriverStepType ==
  ASSUME TypeOK, NEW d \in Driver, DriverStep(d)
  PROVE  TypeOK'
<1> USE DispatchAssumption DEF driverVars, deliveryVars, reconVars
<1>1. CASE GoOnline(d)
  BY <1>1, DriverMoveType DEF GoOnline, TypeOK, DriverStatus
<1>2. CASE GoOffline(d)
  BY <1>2, DriverMoveType DEF GoOffline, TypeOK, DriverStatus
<1>3. ASSUME NEW to \in DriverStatus, AdminMove(d, to) PROVE TypeOK'
  BY <1>3, DriverMoveType DEF AdminMove, TypeOK, Expose
<1>4. CASE GraceElapses(d)
  BY <1>4 DEF GraceElapses, TypeOK, Expose
<1>5. CASE ReconcileCheck(d)
  BY <1>5 DEF ReconcileCheck, TypeOK
<1> QED
  BY <1>1, <1>2, <1>3, <1>4, <1>5 DEF DriverStep

LEMMA SweepStepType ==
  ASSUME TypeOK, SweepStart \/ ReconcileStart \/ ReconcileRead \/ ReconcileRelease \/ ReconcileFails
  PROVE  TypeOK'
<1> USE DispatchAssumption DEF driverVars, deliveryVars, reconVars
<1>1. CASE SweepStart
  BY <1>1 DEF SweepStart, TypeOK
<1>2. CASE ReconcileStart
  BY <1>2 DEF ReconcileStart, TypeOK, oldEnough
<1>3. CASE ReconcileRead
  BY <1>3 DEF ReconcileRead, TypeOK
<1>4. CASE ReconcileRelease
  BY <1>4, PatchType DEF ReconcileRelease, TypeOK
<1>5. CASE ReconcileFails
  BY <1>5 DEF ReconcileFails, TypeOK
<1> QED
  BY <1>1, <1>2, <1>3, <1>4, <1>5

-----------------------------------------------------------------------------
(***************************************************************************)
(* RowInv.  RequestsAgree speaks of requests only and the other parts of   *)
(* deliveries only, so each is proved for the steps that change its half.  *)
(***************************************************************************)
LEMMA RequestsUnchanged ==
  ASSUME RequestsAgree, UNCHANGED req
  PROVE  RequestsAgree'
BY DEF RequestsAgree, EntryFor, target

Rows == RowsAgree /\ LedgerMatchesOutcome /\ EventsTellHistory

LEMMA RowsUnchanged ==
  ASSUME Rows, UNCHANGED deliveryVars
  PROVE  Rows'
BY DEF Rows, RowsAgree, LedgerMatchesOutcome, EventsTellHistory, deliveryVars

LEMMA StepRequests ==
  ASSUME TypeOK, RequestsAgree, NEW r \in Request, RequestStep(r)
  PROVE  RequestsAgree'
<1> USE DEF TypeOK, RequestState, RequestsAgree, target
<1>1. ASSUME NEW d \in Driver, FindDriver(r, d) PROVE RequestsAgree'
  BY <1>1, DispatchAssumption DEF FindDriver
<1>2. CASE NoDriverFree(r) \/ CommitAssign(r) \/ GiveBack(r) \/ ReleaseDriver(r) \/ Abort(r)
  <2>1. req' = [req EXCEPT ![r] = Idle]
    BY <1>2 DEF NoDriverFree, CommitAssign, GiveBack, ReleaseDriver, Abort, Fail, Done
  <2> QED
    BY <2>1 DEF Idle
<1>3. CASE ClaimDriver(r)
  BY <1>3 DEF ClaimDriver
<1>4. CASE ClaimRefused(r)
  BY <1>4 DEF ClaimRefused, Fail, Idle
<1>5. CASE AssignLost(r) \/ AssignUnanswered(r)
  <2>1. req' = [req EXCEPT ![r].pc = "giveBack"] /\ req[r].op = "assign" /\ req[r].pc = "commit"
    BY <1>5 DEF AssignLost, AssignUnanswered
  <2> QED
    BY <2>1
<1>6. CASE FinishCommit(r)
  BY <1>6 DEF FinishCommit
<1>7. CASE FinishLost(r)
  BY <1>7 DEF FinishLost, Idle
<1>8. CASE CheckRelease(r)
  BY <1>8 DEF CheckRelease, Idle
<1> QED
  BY <1>1, <1>2, <1>3, <1>4, <1>5, <1>6, <1>7, <1>8 DEF RequestStep

LEMMA BeginRequests ==
  ASSUME TypeOK, RowsAgree, RequestsAgree, NEW r \in Request, NEW x \in Delivery, RequestBegin(r, x)
  PROVE  RequestsAgree'
<1> USE DEF TypeOK, RequestState, RequestsAgree, target
<1>1. CASE AssignBegin(r, x)
  BY <1>1 DEF AssignBegin, assignRequest
<1>2. ASSUME NEW op \in {"complete", "cancel"}, FinishBegin(r, x, op) PROVE RequestsAgree'
  <2>1. <<deliveryStatus[x], target(op)>> \in DELIVERY_TRANSITIONS
    BY <1>2 DEF FinishBegin, isTransitionAllowed
  <2>2. earningFor(x, op) = EntryFor(x, op, deliveryStatus[x])
    BY <2>1 DEF earningFor, EntryFor, RowsAgree, AfterPickup, DELIVERY_TRANSITIONS
  <2> QED
    BY <1>2, <2>1, <2>2 DEF FinishBegin, finishRequest
<1>3. ASSUME NEW op \in {"complete", "cancel"}, FinishAgain(r, x, op) PROVE RequestsAgree'
  BY <1>3 DEF FinishAgain, finishRequest
<1> QED
  BY <1>1, <1>2, <1>3 DEF RequestBegin

LEMMA RowStepRequests ==
  ASSUME TypeOK, RequestsAgree, NEW x \in Delivery, DeliveryStep(x)
  PROVE  RequestsAgree'
<1>1. CASE Create(x) \/ Pickup(x) \/ Start(x)
  BY <1>1, RequestsUnchanged DEF Create, Pickup, Start
<1>2. CASE SweepNext(x)
  BY <1>2, DispatchAssumption DEF SweepNext, assignRequest, TypeOK, RequestState, RequestsAgree, target
<1> QED
  BY <1>1, <1>2 DEF DeliveryStep

LEMMA StepRows ==
  ASSUME TypeOK, Rows, RequestsAgree, NEW r \in Request, RequestStep(r)
  PROVE  Rows'
<1> USE DEF Rows
<1>1. CASE UNCHANGED deliveryVars
  BY <1>1, RowsUnchanged
<1>2. CASE CommitAssign(r) \/ AssignUnanswered(r)
  <2> DEFINE x == req[r].delivery
  <2>1. /\ x \in Delivery /\ deliveryStatus[x] = "CREATED"
        /\ req[r].drv # NoDriver
        /\ recordAssignment(x, req[r].drv)
    BY <1>2 DEF CommitAssign, AssignUnanswered, unmoved, RequestsAgree
  <2>2. RowsAgree'
    BY <2>1 DEF recordAssignment, TypeOK, RowsAgree
  <2>3. LedgerMatchesOutcome'
    BY <2>1 DEF recordAssignment, TypeOK, LedgerMatchesOutcome
  <2>4. EventsTellHistory'
    BY <2>1 DEF recordAssignment, TypeOK, EventsTellHistory
  <2> QED
    BY <2>2, <2>3, <2>4
<1>3. CASE FinishCommit(r)
  <2> DEFINE x == req[r].delivery
             op == req[r].op
  <2>1. /\ x \in Delivery /\ op \in {"complete", "cancel"}
        /\ <<deliveryStatus[x], target(op)>> \in DELIVERY_TRANSITIONS
        /\ req[r].entry = EntryFor(x, op, deliveryStatus[x])
    BY <1>3 DEF FinishCommit, unmoved, RequestsAgree
  <2>2. /\ op = "complete" => deliveryStatus[x] = "IN_TRANSIT"
        /\ deliveryStatus[x] \in {"CREATED", "DRIVER_ASSIGNED", "PICKED_UP", "IN_TRANSIT"}
    BY <2>1 DEF DELIVERY_TRANSITIONS, target
  <2>3. RowsAgree'
    BY <1>3, <2>1, <2>2 DEF FinishCommit, TypeOK, RowsAgree, target
  <2>4. ledger[x] = {} /\ (x \in pickedUp <=> deliveryStatus[x] \in AfterPickup)
    BY <2>1, <2>2 DEF LedgerMatchesOutcome, RowsAgree, AfterPickup
  <2>5. LedgerMatchesOutcome'
    <3>1. ledger'[x] = {EntryFor(x, op, deliveryStatus[x])} \ {NoEntry}
      BY <1>3, <2>1, <2>4 DEF FinishCommit, TypeOK
    <3>2. deliveryStatus'[x] = target(op) /\ pickedUp' = pickedUp
      BY <1>3, <2>1 DEF FinishCommit, TypeOK
    <3>3. ledger'[x] = IF x \notin Paid THEN {}
                ELSE IF deliveryStatus'[x] = "DELIVERED" THEN {"DELIVERY_EARNING"}
                ELSE IF deliveryStatus'[x] = "CANCELLED" /\ x \in pickedUp'
                     THEN {"CANCELLATION_COMPENSATION"}
                ELSE {}
      BY <3>1, <3>2, <2>1, <2>4 DEF EntryFor, NoEntry, target
    <3>4. \A y \in Delivery \ {x} : deliveryStatus'[y] = deliveryStatus[y] /\ ledger'[y] = ledger[y]
      BY <1>3, <2>1 DEF FinishCommit, TypeOK
    <3> QED
      BY <3>2, <3>3, <3>4 DEF LedgerMatchesOutcome
  <2>6. EventsTellHistory'
    BY <1>3, <2>1, <2>2 DEF FinishCommit, TypeOK, EventsTellHistory, target, finishEvent
  <2> QED
    BY <2>3, <2>5, <2>6
<1> QED
  BY <1>1, <1>2, <1>3 DEF RequestStep, FindDriver, NoDriverFree, ClaimDriver, ClaimRefused, AssignLost, GiveBack,
     FinishLost, CheckRelease, ReleaseDriver, Abort

LEMMA RowStepRows ==
  ASSUME TypeOK, Rows, NEW x \in Delivery, DeliveryStep(x)
  PROVE  Rows'
<1> USE DEF Rows
<1>1. CASE Create(x)
  BY <1>1 DEF Create, TypeOK, RowsAgree, LedgerMatchesOutcome, EventsTellHistory
<1>2. CASE Pickup(x)
  BY <1>2 DEF Pickup, TypeOK, RowsAgree, LedgerMatchesOutcome, EventsTellHistory
<1>3. CASE Start(x)
  BY <1>3 DEF Start, TypeOK, RowsAgree, LedgerMatchesOutcome, EventsTellHistory
<1>4. CASE SweepNext(x)
  BY <1>4, RowsUnchanged DEF SweepNext
<1> QED
  BY <1>1, <1>2, <1>3, <1>4 DEF DeliveryStep

\* The remaining steps leave deliveries and requests alone.
LEMMA OtherSteps ==
  ASSUME (\E d \in Driver : DriverStep(d)) \/ SweepStart \/ ReconcileStart \/ ReconcileRead
           \/ ReconcileRelease \/ ReconcileFails \/ UNCHANGED vars
  PROVE  UNCHANGED <<deliveryVars, req>>
BY DEF DriverStep, GoOnline, GoOffline, AdminMove, GraceElapses, ReconcileCheck, SweepStart, ReconcileStart,
   ReconcileRead, ReconcileRelease, ReconcileFails, vars

LEMMA InitRows == Init => RowsAgree /\ RequestsAgree /\ LedgerMatchesOutcome /\ EventsTellHistory
BY DEF Init, RowsAgree, RequestsAgree, LedgerMatchesOutcome, EventsTellHistory, Idle

LEMMA RowStep ==
  ASSUME RowInv, [Next]_vars
  PROVE  RowInv'
<1> USE DEF RowInv, Rows
<1>1. ASSUME NEW r \in Request, RequestStep(r) PROVE RowInv'
  BY <1>1, StepType, StepRequests, StepRows
<1>2. ASSUME NEW r \in Request, NEW x \in Delivery, RequestBegin(r, x) PROVE RowInv'
  <2>1. UNCHANGED deliveryVars
    BY <1>2 DEF RequestBegin, AssignBegin, FinishBegin, FinishAgain
  <2> QED
    BY <1>2, <2>1, BeginType, BeginRequests, RowsUnchanged
<1>3. ASSUME NEW x \in Delivery, DeliveryStep(x) PROVE RowInv'
  BY <1>3, RowStepType, RowStepRequests, RowStepRows
<1>4. ASSUME NEW d \in Driver, DriverStep(d) PROVE RowInv'
  BY <1>4, DriverStepType, OtherSteps, RequestsUnchanged, RowsUnchanged
<1>5. CASE SweepStart \/ ReconcileStart \/ ReconcileRead \/ ReconcileRelease \/ ReconcileFails
  BY <1>5, SweepStepType, OtherSteps, RequestsUnchanged, RowsUnchanged
<1>6. CASE UNCHANGED vars
  <2>1. TypeOK'
    BY <1>6 DEF vars, driverVars, deliveryVars, reconVars, TypeOK
  <2> QED
    BY <1>6, <2>1, OtherSteps, RequestsUnchanged, RowsUnchanged
<1> QED
  BY <1>1, <1>2, <1>3, <1>4, <1>5, <1>6 DEF Next

(***************************************************************************)
(* In every environment - retries, faults, overlapping sweeps, admins -    *)
(* the rows of a delivery, its ledger entries and its staged events agree  *)
(* (repository.transition, earningFor).                                    *)
(***************************************************************************)
THEOREM RowsCorrect == Spec => []RowInv
<1>1. Init => RowInv
  BY InitType, InitRows DEF RowInv
<1>2. RowInv /\ [Next]_vars => RowInv'
  BY RowStep
<1> QED
  BY <1>1, <1>2, PTL DEF Spec

(***************************************************************************)
(* A delivery keeps the first driver it was given (assignDriver): the      *)
(* assignment is compare-and-set from CREATED, and a CREATED delivery has  *)
(* no driver.                                                              *)
(***************************************************************************)
THEOREM DriverAssignedOnce == Spec => AssignedOnce
<1>1. ASSUME RowInv, [Next]_vars
      PROVE  \A x \in Delivery : driverOf[x] # NoDriver => driverOf'[x] = driverOf[x]
  <2>1. ASSUME NEW r \in Request, CommitAssign(r) \/ AssignUnanswered(r)
        PROVE  \A x \in Delivery : driverOf[x] # NoDriver => driverOf'[x] = driverOf[x]
    BY <1>1, <2>1 DEF CommitAssign, AssignUnanswered, recordAssignment, RowInv, TypeOK, RowsAgree, RequestsAgree, unmoved
  <2>2. UNCHANGED driverOf \/ \E r \in Request : CommitAssign(r) \/ AssignUnanswered(r)
    BY <1>1, OtherSteps DEF Next, RequestStep, FindDriver, NoDriverFree, ClaimDriver, ClaimRefused, AssignLost,
       GiveBack, FinishCommit, FinishLost, CheckRelease, ReleaseDriver, Abort, RequestBegin, AssignBegin,
       FinishBegin, FinishAgain, DeliveryStep, Create, Pickup, Start, SweepNext, deliveryVars
  <2> QED
    BY <2>1, <2>2
<1>2. RowInv /\ [Next]_vars
        => [\A x \in Delivery : driverOf[x] # NoDriver => driverOf'[x] = driverOf[x]]_vars
  BY <1>1
<1> QED
  BY <1>2, RowsCorrect, PTL DEF Spec, AssignedOnce

-----------------------------------------------------------------------------
(***************************************************************************)
(* TokenInv.  A driver who is not exposed is held by at most one of: an    *)
(* active delivery, a claim.  Each step passes the token on, drops it, or  *)
(* creates one for a driver nobody holds; a step that would let a release  *)
(* meet a held driver exposes them.                                        *)
(***************************************************************************)
LEMMA InitTokens == Init => TokenInv
BY DispatchAssumption DEF Init, TokenInv, HeldBusy, HeldOnce, QuietUnheld, ReleaseAfterEnd, Held, claimed,
   releaseUnderWay, ClaimHolds, OnActiveDelivery, Active, Finished, Idle

\* The parts speak of drivers, requests, deliveries and the sweep only.
Tokens == <<driverVars, deliveryStatus, driverOf, req, reconVars>>

LEMMA TokensUnchanged ==
  ASSUME TokenInv, UNCHANGED Tokens, exposed \subseteq exposed'
  PROVE  TokenInv'
BY DEF TokenInv, HeldBusy, HeldOnce, QuietUnheld, ReleaseAfterEnd, Held, claimed,
   releaseUnderWay, ClaimHolds, OnActiveDelivery, Active, Tokens, driverVars, reconVars

LEMMA ExposedGrows ==
  ASSUME NEW d, NEW cause, Expose(d, cause)
  PROVE  exposed \subseteq exposed' /\ (cause => d \in exposed')
BY DEF Expose

(***************************************************************************)
(* A driver's row moves: what is said of the others stays, and of this one *)
(* it holds when they are not held afterwards, or now rightly BUSY.        *)
(***************************************************************************)
LEMMA MoveUnheld ==
  ASSUME TypeOK, TokenInv, NEW d \in Driver, NEW s, SetDriver(d, s), UNCHANGED <<deliveryVars, req>>,
         exposed \subseteq exposed', Held(d) => d \in exposed',
         recon' = recon \/ recon' = [pc |-> "idle", drv |-> NoDriver]
  PROVE  TokenInv'
BY DEF TypeOK, TokenInv, HeldBusy, HeldOnce, QuietUnheld, ReleaseAfterEnd, Held, claimed,
   releaseUnderWay, ClaimHolds, OnActiveDelivery, Active, deliveryVars, SetDriver

\* A delivery still holds whom it held; a finished request holds nobody.
LEMMA SameRows ==
  ASSUME UNCHANGED <<deliveryStatus, driverOf>>
  PROVE  \A e \in Driver : OnActiveDelivery(e)' <=> OnActiveDelivery(e)
BY DEF OnActiveDelivery, Active

LEMMA LetGo ==
  ASSUME req \in [Request -> RequestState], NEW r \in Request, req' = [req EXCEPT ![r] = Idle]
  PROVE  \A s \in Request, e \in Driver : ClaimHolds(s, e)' => ClaimHolds(s, e) /\ s # r
BY DEF ClaimHolds, RequestState, Idle

LEMMA LastClaim ==
  ASSUME NEW r \in Request, NEW d \in Driver, \A s \in Request : ClaimHolds(s, d) => s = r,
         \A s \in Request, e \in Driver : ClaimHolds(s, e)' => ClaimHolds(s, e) /\ s # r
  PROVE  ~ claimed(d)'
BY DEF claimed

LEMMA NoNewRelease ==
  ASSUME req \in [Request -> RequestState], NEW r \in Request, UNCHANGED recon,
         req' = [req EXCEPT ![r] = Idle] \/ req' = [req EXCEPT ![r].pc = "giveBack"]
  PROVE  \A e \in Driver : releaseUnderWay(e)' => releaseUnderWay(e)
<1>1. CASE req' = [req EXCEPT ![r] = Idle]
  BY <1>1 DEF releaseUnderWay, RequestState, Idle
<1>2. CASE req' = [req EXCEPT ![r].pc = "giveBack"]
  BY <1>2 DEF releaseUnderWay, RequestState
<1> QED
  BY <1>1, <1>2

LEMMA StepTokens ==
  ASSUME RowInv, TokenInv, NEW r \in Request, RequestStep(r)
  PROVE  TokenInv'
<1> USE DispatchAssumption DEF RowInv, TypeOK, RequestState, RequestsAgree, TokenInv, HeldBusy, HeldOnce, QuietUnheld,
   ReleaseAfterEnd, Held, claimed, releaseUnderWay, ClaimHolds, OnActiveDelivery, Active, driverVars, deliveryVars, reconVars
<1>1. ASSUME NEW d \in Driver, FindDriver(r, d) PROVE TokenInv'
  BY <1>1 DEF FindDriver
<1>2. ASSUME req' = [req EXCEPT ![r] = Idle], UNCHANGED <<driverVars, deliveryVars, reconVars, exposed>>
      PROVE  TokenInv'
  <2>1. /\ Idle.pc = "idle" /\ Idle.op = "none"
        /\ \A s \in Request, d \in Driver : ClaimHolds(s, d)' => ClaimHolds(s, d) /\ s # r
    BY <1>2 DEF Idle
  <2>2. HeldBusy'
    BY <1>2, <2>1
  <2>3. HeldOnce'
    BY <1>2, <2>1
  <2>4. QuietUnheld' /\ ReleaseAfterEnd'
    BY <1>2, <2>1
  <2> QED
    BY <2>2, <2>3, <2>4
<1>3. CASE ClaimDriver(r)
  <2> DEFINE d == req[r].drv
  <2>1. /\ d \in Driver /\ driverStatus[d] = "AVAILABLE" /\ driverStatus' = [driverStatus EXCEPT ![d] = "BUSY"]
        /\ quiet' = quiet \ {d} /\ reconTodo' = reconTodo \ {d}
        /\ req' = [req EXCEPT ![r].pc = "commit"] /\ req[r].pc = "claim" /\ req[r].op = "assign"
        /\ exposed \subseteq exposed' /\ (releaseUnderWay(d) => d \in exposed')
        /\ UNCHANGED <<deliveryVars, recon>>
    BY <1>3 DEF ClaimDriver, SetDriver, claimable, isTransitionAllowed, DRIVER_TRANSITIONS, DriverStatus, Expose
  <2>2. d \notin exposed => ~ Held(d)
    BY <2>1
  <2>3. \A s \in Request, e \in Driver : ClaimHolds(s, e)' => ClaimHolds(s, e) \/ (s = r /\ e = d)
    BY <2>1
  <2>4. HeldBusy'
    BY <2>1, <2>2, <2>3
  <2>5. HeldOnce'
    BY <2>1, <2>2, <2>3
  <2>6. QuietUnheld'
    BY <2>1, <2>3
  <2>7. ReleaseAfterEnd'
    BY <2>1
  <2> QED
    BY <2>4, <2>5, <2>6, <2>7
<1>4. CASE ClaimRefused(r)
  <2>1. CASE req' = [req EXCEPT ![r] = Idle]
    BY <1>4, <2>1, <1>2 DEF ClaimRefused
  <2>2. CASE req' = [req EXCEPT ![r].pc = "find", ![r].drv = NoDriver, ![r].tries = @ + 1]
    BY <1>4, <2>2 DEF ClaimRefused
  <2> QED
    BY <1>4, <2>1, <2>2 DEF ClaimRefused, Fail
<1>5. CASE CommitAssign(r) \/ AssignUnanswered(r)
  <2> DEFINE x == req[r].delivery
             d == req[r].drv
  <2>1. /\ x \in Delivery /\ d \in Driver /\ ClaimHolds(r, d)
        /\ deliveryStatus[x] = "CREATED" /\ driverOf[x] = NoDriver
        /\ deliveryStatus' = [deliveryStatus EXCEPT ![x] = "DRIVER_ASSIGNED"]
        /\ driverOf' = [driverOf EXCEPT ![x] = d]
        /\ UNCHANGED <<driverVars, reconVars>>
    <3>1. /\ x \in Delivery /\ d \in Driver /\ ClaimHolds(r, d) /\ unmoved(x, "CREATED") /\ recordAssignment(x, d)
      BY <1>5 DEF CommitAssign, AssignUnanswered
    <3> QED
      BY <3>1 DEF recordAssignment, unmoved, RowsAgree
  <2>2. /\ exposed \subseteq exposed'
        /\ \/ req' = [req EXCEPT ![r] = Idle]
           \/ req' = [req EXCEPT ![r].pc = "giveBack"] /\ d \in exposed'
    BY <1>5 DEF CommitAssign, AssignUnanswered, Done, Expose
  <2>3. \A e \in Driver : OnActiveDelivery(e)' => OnActiveDelivery(e) \/ e = d
    BY <2>1
  <2>4. \A e \in Driver \ exposed' : claimed(e)' => claimed(e) /\ e # d
    <3>1. CASE req' = [req EXCEPT ![r] = Idle]
      <4>1. \A s \in Request, e \in Driver : ClaimHolds(s, e)' => ClaimHolds(s, e) /\ s # r
        BY <3>1, LetGo
      <4>2. d \notin exposed' => \A s \in Request : ClaimHolds(s, d) => s = r
        BY <2>1, <2>2
      <4> QED
        BY <4>1, <4>2
    <3>2. CASE req' = [req EXCEPT ![r].pc = "giveBack"] /\ d \in exposed'
      <4>1. \A s \in Request, e \in Driver : ClaimHolds(s, e)' => ClaimHolds(s, e)
        BY <2>1, <3>2
      <4> QED
        BY <3>2, <4>1
    <3> QED
      BY <2>2, <3>1, <3>2
  <2>5. HeldBusy'
    <3>1. \A e \in Driver \ exposed' : Held(e)' => Held(e)
      BY <2>1, <2>3, <2>4
    <3>2. UNCHANGED <<recon, driverStatus>> /\ req \in [Request -> RequestState] /\ exposed \subseteq exposed'
      BY <2>1, <2>2
    <3>3. \A e \in Driver \ exposed : Held(e) => driverStatus[e] = "BUSY" /\ ~ releaseUnderWay(e)
      OBVIOUS
    <3> HIDE DEF Held, releaseUnderWay
    <3>4. \A e \in Driver : releaseUnderWay(e)' => releaseUnderWay(e)
      BY <2>2, <3>2, NoNewRelease
    <3> QED
      BY <3>1, <3>2, <3>3, <3>4
  <2>6. HeldOnce'
    <3>1. \A e \in Driver \ exposed', y, z \in Delivery :
            (driverOf[y] = e /\ driverOf[z] = e /\ Active(y) /\ Active(z))' => y = z
      BY <2>1, <2>2
    <3>2. \A e \in Driver \ exposed', s, t \in Request : (ClaimHolds(s, e) /\ ClaimHolds(t, e))' => s = t
      BY <2>1, <2>2 DEF Idle
    <3>3. \A e \in Driver \ exposed' : claimed(e)' => ~ OnActiveDelivery(e)'
      BY <2>2, <2>3, <2>4
    <3> QED
      BY <3>1, <3>2, <3>3
  <2>7. QuietUnheld'
    BY <2>1, <2>2, <2>3, <2>4
  <2>8. ReleaseAfterEnd'
    <3>1. \A s \in Request : req'[s].pc \in {"check", "release"} => s # r /\ req'[s] = req[s]
      BY <2>2 DEF Idle
    <3>2. \A s \in Request : req[s].pc \in {"check", "release"} => req[s].delivery # x
      BY <2>1 DEF Finished
    <3> QED
      BY <2>1, <3>1, <3>2
  <2> QED
    BY <2>5, <2>6, <2>7, <2>8
<1>6. CASE AssignLost(r)
  BY <1>6 DEF AssignLost
<1>7. CASE GiveBack(r)
  <2>0. PICK d \in Driver : d = req[r].drv
    BY <1>7 DEF GiveBack
  <2>1. /\ ClaimHolds(r, d)
        /\ req' = [req EXCEPT ![r] = Idle]
        /\ UNCHANGED <<deliveryVars, recon, exposed>>
        /\ \A e \in Driver \ {d} : driverStatus'[e] = driverStatus[e]
        /\ quiet' \subseteq quiet /\ reconTodo' \subseteq reconTodo
    <3>1. PatchAvailable(d) /\ ClaimHolds(r, d)
      BY <1>7, <2>0 DEF GiveBack
    <3>2. req' = [req EXCEPT ![r] = Idle] /\ UNCHANGED <<deliveryVars, recon, exposed>>
      BY <1>7 DEF GiveBack, Done
    <3> QED
      BY <3>1, <3>2 DEF PatchAvailable, SetDriver
  <2>2. \A s \in Request, e \in Driver : ClaimHolds(s, e)' => ClaimHolds(s, e) /\ s # r
    BY <2>1 DEF Idle
  <2>3. d \notin exposed => ~ Held(d)'
    <3>1. d \notin exposed => ~ OnActiveDelivery(d)
      BY <2>1
    <3>2. d \notin exposed => \A t \in Request : ClaimHolds(t, d) => t = r
      BY <2>1
    <3> HIDE DEF OnActiveDelivery, Active, claimed, ClaimHolds
    <3>3. OnActiveDelivery(d)' <=> OnActiveDelivery(d)
      BY <2>1, SameRows
    <3>4. d \notin exposed => ~ claimed(d)'
      BY <2>1, <2>2, <3>2, LastClaim
    <3> QED
      BY <3>1, <3>3, <3>4
  <2>4. HeldBusy'
    BY <2>1, <2>2, <2>3 DEF Idle
  <2>5. HeldOnce'
    BY <2>1, <2>2
  <2>6. QuietUnheld'
    BY <2>1, <2>2
  <2>7. ReleaseAfterEnd'
    BY <2>1 DEF Idle
  <2> QED
    BY <2>4, <2>5, <2>6, <2>7
<1>8. CASE FinishCommit(r)
  <2> DEFINE x == req[r].delivery
             op == req[r].op
  <2>1. /\ x \in Delivery /\ op \in {"complete", "cancel"} /\ req[r].pc = "commit"
        /\ deliveryStatus' = [deliveryStatus EXCEPT ![x] = target(op)] /\ target(op) \in Finished
        /\ req' = [req EXCEPT ![r].pc = "check", ![r].drv = driverOf[x]]
        /\ UNCHANGED <<driverVars, driverOf, reconVars, exposed>>
    BY <1>8 DEF FinishCommit, target, Finished
  <2>2. \A y \in Delivery : Active(y)' => Active(y)
    BY <2>1
  <2>3. \A s \in Request, e \in Driver : ClaimHolds(s, e)' <=> ClaimHolds(s, e)
    BY <2>1
  <2>4. HeldBusy'
    BY <2>1, <2>2, <2>3
  <2>5. HeldOnce'
    BY <2>1, <2>2, <2>3
  <2>6. QuietUnheld'
    BY <2>1, <2>2, <2>3
  <2>7. ReleaseAfterEnd'
    BY <2>1
  <2> QED
    BY <2>4, <2>5, <2>6, <2>7
<1>9. CASE FinishLost(r)
  <2>1. CASE req' = [req EXCEPT ![r] = Idle]
    BY <1>9, <2>1, <1>2 DEF FinishLost
  <2>2. CASE /\ req' = [req EXCEPT ![r].pc = "check", ![r].drv = driverOf[req[r].delivery]]
             /\ deliveryStatus[req[r].delivery] = target(req[r].op)
    <3>1. /\ req[r].op \in {"complete", "cancel"} /\ req[r].pc = "commit"
          /\ UNCHANGED <<driverVars, deliveryVars, reconVars, exposed>>
      BY <1>9 DEF FinishLost
    <3>2. \A s \in Request, e \in Driver : ClaimHolds(s, e)' <=> ClaimHolds(s, e)
      BY <2>2, <3>1
    <3>3. \A e \in Driver : releaseUnderWay(e)' => releaseUnderWay(e)
      BY <2>2, <3>1
    <3>4. HeldBusy'
      BY <3>1, <3>2, <3>3
    <3>5. HeldOnce'
      BY <3>1, <3>2
    <3>6. QuietUnheld'
      BY <3>1, <3>2
    <3>7. ReleaseAfterEnd'
      BY <2>2, <3>1 DEF target, Finished
    <3> QED
      BY <3>4, <3>5, <3>6, <3>7
  <2> QED
    BY <1>9, <2>1, <2>2 DEF FinishLost
<1>10. CASE CheckRelease(r)
  <2> DEFINE d == req[r].drv
             x == req[r].delivery
  <2>1. CASE d = NoDriver \/ otherActive(d, x)
    BY <1>10, <2>1, <1>2 DEF CheckRelease, Expose
  <2>2. CASE ~ (d = NoDriver \/ otherActive(d, x))
    <3>1. /\ d \in Driver /\ req[r].pc = "check" /\ req' = [req EXCEPT ![r].pc = "release"]
          /\ exposed \subseteq exposed' /\ (claimed(d) => d \in exposed')
          /\ UNCHANGED <<driverVars, deliveryVars, reconVars>>
      BY <1>10, <2>2 DEF CheckRelease, Expose
    <3>2. ~ OnActiveDelivery(d)
      BY <2>2, <3>1 DEF otherActive
    <3>3. \A s \in Request, e \in Driver : ClaimHolds(s, e)' <=> ClaimHolds(s, e)
      BY <3>1
    <3>4. \A e \in Driver : releaseUnderWay(e)' => releaseUnderWay(e) \/ e = d
      BY <3>1
    <3>5. HeldBusy'
      BY <3>1, <3>2, <3>3, <3>4
    <3>6. HeldOnce'
      BY <3>1, <3>3
    <3>7. QuietUnheld'
      BY <3>1, <3>3
    <3>8. ReleaseAfterEnd'
      BY <3>1
    <3> QED
      BY <3>5, <3>6, <3>7, <3>8
  <2> QED
    BY <2>1, <2>2
<1>11. CASE ReleaseDriver(r)
  <2>0. PICK d \in Driver : d = req[r].drv
    BY <1>11 DEF ReleaseDriver
  <2>1. /\ releaseUnderWay(d)
        /\ req' = [req EXCEPT ![r] = Idle]
        /\ UNCHANGED <<deliveryVars, recon, exposed>>
        /\ \A e \in Driver \ {d} : driverStatus'[e] = driverStatus[e]
        /\ quiet' \subseteq quiet /\ reconTodo' \subseteq reconTodo
    <3>1. PatchAvailable(d) /\ releaseUnderWay(d)
      BY <1>11, <2>0 DEF ReleaseDriver
    <3>2. req' = [req EXCEPT ![r] = Idle] /\ UNCHANGED <<deliveryVars, recon, exposed>>
      BY <1>11 DEF ReleaseDriver
    <3> QED
      BY <3>1, <3>2 DEF PatchAvailable, SetDriver
  <2>2. \A s \in Request, e \in Driver : ClaimHolds(s, e)' => ClaimHolds(s, e) /\ s # r
    BY <2>1 DEF Idle
  <2>3. d \notin exposed => ~ Held(d)'
    <3>1. d \notin exposed => ~ Held(d)
      BY <2>1
    <3> HIDE DEF OnActiveDelivery, Active, ClaimHolds
    <3>2. OnActiveDelivery(d)' <=> OnActiveDelivery(d)
      BY <2>1, SameRows
    <3>3. claimed(d)' => claimed(d)
      BY <2>1, <2>2
    <3> HIDE DEF claimed
    <3> QED
      BY <3>1, <3>2, <3>3
  <2>4. HeldBusy'
    BY <2>1, <2>2, <2>3 DEF Idle
  <2>5. HeldOnce'
    BY <2>1, <2>2
  <2>6. QuietUnheld'
    BY <2>1, <2>2
  <2>7. ReleaseAfterEnd'
    BY <2>1 DEF Idle
  <2> QED
    BY <2>4, <2>5, <2>6, <2>7
<1>12. CASE NoDriverFree(r) \/ Abort(r)
  BY <1>12, <1>2 DEF NoDriverFree, Abort, Fail, Done
<1> QED
  BY <1>1, <1>3, <1>4, <1>5, <1>6, <1>7, <1>8, <1>9, <1>10, <1>11, <1>12 DEF RequestStep

\* A beginning request claims nobody and releases nobody yet.
LEMMA BeginTokens ==
  ASSUME RowInv, TokenInv, NEW r \in Request, NEW x \in Delivery, RequestBegin(r, x)
  PROVE  TokenInv'
<1> USE DispatchAssumption DEF RowInv, TypeOK, RequestState, TokenInv, HeldBusy, HeldOnce, QuietUnheld,
   ReleaseAfterEnd, Held, claimed, releaseUnderWay, ClaimHolds, OnActiveDelivery, Active, driverVars, deliveryVars, reconVars
<1>1. ASSUME NEW q, req' = [req EXCEPT ![r] = q], q.pc \notin {"giveBack", "release"},
             q.pc = "commit" => q.op # "assign",
             q.pc = "check" => deliveryStatus[q.delivery] \in Finished,
             UNCHANGED <<driverVars, deliveryVars, reconVars, exposed>>
      PROVE  TokenInv'
  <2>1. \A s \in Request, e \in Driver : ClaimHolds(s, e)' => ClaimHolds(s, e)
    BY <1>1
  <2>2. \A e \in Driver : releaseUnderWay(e)' => releaseUnderWay(e)
    BY <1>1
  <2>3. HeldBusy' /\ HeldOnce' /\ QuietUnheld'
    BY <1>1, <2>1, <2>2
  <2>4. ReleaseAfterEnd'
    BY <1>1
  <2> QED
    BY <2>3, <2>4
<1>2. CASE AssignBegin(r, x)
  BY <1>1, <1>2 DEF AssignBegin, assignRequest
<1>3. ASSUME NEW op \in {"complete", "cancel"}, FinishBegin(r, x, op) PROVE TokenInv'
  BY <1>1, <1>3 DEF FinishBegin, finishRequest
<1>4. ASSUME NEW op \in {"complete", "cancel"}, FinishAgain(r, x, op) PROVE TokenInv'
  BY <1>1, <1>4 DEF FinishAgain, finishRequest, target, Finished
<1> QED
  BY <1>2, <1>3, <1>4 DEF RequestBegin

\* Pickup and start keep an active delivery active; a new one has no driver.
LEMMA RowStepTokens ==
  ASSUME RowInv, TokenInv, NEW x \in Delivery, DeliveryStep(x)
  PROVE  TokenInv'
<1> USE DispatchAssumption DEF RowInv, TypeOK, RequestState, RequestsAgree, TokenInv, HeldBusy, HeldOnce, QuietUnheld,
   ReleaseAfterEnd, Held, claimed, releaseUnderWay, ClaimHolds, OnActiveDelivery, Active, Finished,
   driverVars, deliveryVars, reconVars
<1>1. ASSUME NEW s \in {"CREATED", "PICKED_UP", "IN_TRANSIT"}, deliveryStatus[x] \notin Finished,
             s # "CREATED" => Active(x),
             deliveryStatus' = [deliveryStatus EXCEPT ![x] = s],
             UNCHANGED <<driverVars, driverOf, req, reconVars, exposed>>
      PROVE  TokenInv'
  <2>1. \A y \in Delivery : Active(y)' => Active(y)
    BY <1>1
  <2>2. HeldBusy' /\ HeldOnce' /\ QuietUnheld'
    BY <1>1, <2>1
  <2>3. ReleaseAfterEnd'
    BY <1>1
  <2> QED
    BY <2>2, <2>3
<1>2. CASE Create(x)
  BY <1>1, <1>2 DEF Create
<1>3. CASE Pickup(x)
  BY <1>1, <1>3 DEF Pickup
<1>4. CASE Start(x)
  BY <1>1, <1>4 DEF Start
<1>5. CASE SweepNext(x)
  <2>1. \A s \in Request, e \in Driver : ClaimHolds(s, e)' => ClaimHolds(s, e)
    BY <1>5 DEF SweepNext, assignRequest
  <2>2. \A e \in Driver : releaseUnderWay(e)' => releaseUnderWay(e)
    BY <1>5 DEF SweepNext, assignRequest
  <2> QED
    BY <1>5, <2>1, <2>2 DEF SweepNext, assignRequest
<1> QED
  BY <1>2, <1>3, <1>4, <1>5 DEF DeliveryStep

(***************************************************************************)
(* A driver's own moves start from OFFLINE or AVAILABLE, which nobody held *)
(* is; an admin's move of a held driver and a grace period that runs out   *)
(* on a claim expose them.                                                 *)
(***************************************************************************)
LEMMA DriverStepTokens ==
  ASSUME RowInv, TokenInv, NEW d \in Driver, DriverStep(d)
  PROVE  TokenInv'
<1> USE DEF RowInv
<1>1. driverStatus[d] # "BUSY" => (Held(d) => d \in exposed)
  BY DEF TokenInv, HeldBusy
<1>2. CASE GoOnline(d)
  BY <1>1, <1>2, MoveUnheld DEF GoOnline
<1>3. CASE GoOffline(d)
  BY <1>1, <1>3, MoveUnheld DEF GoOffline
<1>4. ASSUME NEW to \in DriverStatus, AdminMove(d, to) PROVE TokenInv'
  <2>1. exposed \subseteq exposed' /\ (Held(d) => d \in exposed')
    BY <1>4 DEF AdminMove, Expose, Held
  <2> QED
    BY <1>4, <2>1, MoveUnheld DEF AdminMove
<1>5. CASE GraceElapses(d)
  BY <1>5 DEF GraceElapses, Expose, TypeOK, TokenInv, HeldBusy, HeldOnce, QuietUnheld, ReleaseAfterEnd, Held,
     claimed, releaseUnderWay, ClaimHolds, OnActiveDelivery, Active, deliveryVars, reconVars
<1>6. CASE ReconcileCheck(d)
  BY <1>6, DispatchAssumption DEF ReconcileCheck, TypeOK, TokenInv, HeldBusy, HeldOnce, QuietUnheld, ReleaseAfterEnd, Held,
     claimed, releaseUnderWay, ClaimHolds, OnActiveDelivery, Active, driverVars, deliveryVars
<1> QED
  BY <1>2, <1>3, <1>4, <1>5, <1>6 DEF DriverStep

\* The reconciliation takes a driver nobody holds, and lets go of them.
LEMMA SweepStepTokens ==
  ASSUME RowInv, TokenInv, SweepStart \/ ReconcileStart \/ ReconcileRead \/ ReconcileRelease \/ ReconcileFails
  PROVE  TokenInv'
<1> USE DispatchAssumption DEF RowInv, TypeOK, TokenInv, HeldBusy, HeldOnce, QuietUnheld, ReleaseAfterEnd, Held, claimed,
   releaseUnderWay, ClaimHolds, OnActiveDelivery, Active, driverVars, deliveryVars, reconVars
<1>1. CASE SweepStart
  BY <1>1 DEF SweepStart
<1>2. CASE ReconcileStart
  BY <1>2 DEF ReconcileStart, oldEnough
<1>3. CASE ReconcileRead
  <2> DEFINE d == recon.drv
  <2>1. /\ d \in Driver /\ recon.pc = "read"
        /\ reconTodo' = reconTodo \ {d}
        /\ UNCHANGED <<driverVars, deliveryVars, req, exposed>>
        /\ \/ recon' = [pc |-> "release", drv |-> d] /\ d \in reconTodo
           \/ recon' = [pc |-> "idle", drv |-> NoDriver]
    BY <1>3 DEF ReconcileRead, stillStuck
  <2> QED
    BY <2>1
<1>4. CASE ReconcileRelease
  <2> DEFINE d == recon.drv
  <2>1. /\ d \in Driver /\ releaseUnderWay(d) /\ PatchAvailable(d)
        /\ recon' = [pc |-> "idle", drv |-> NoDriver]
        /\ UNCHANGED <<deliveryVars, req, exposed>>
    BY <1>4 DEF ReconcileRelease
  <2>2. d \notin exposed => ~ Held(d)
    BY <2>1
  <2>3. CASE SetDriver(d, "AVAILABLE")
    BY <2>1, <2>2, <2>3, MoveUnheld
  <2>4. CASE UNCHANGED <<driverStatus, quiet, reconTodo>>
    BY <2>1, <2>4
  <2> QED
    BY <2>1, <2>3, <2>4 DEF PatchAvailable
<1>5. CASE ReconcileFails
  BY <1>5 DEF ReconcileFails
<1> QED
  BY <1>1, <1>2, <1>3, <1>4, <1>5

LEMMA TokenStep ==
  ASSUME RowInv, TokenInv, [Next]_vars
  PROVE  TokenInv'
<1>1. CASE UNCHANGED vars
  BY <1>1, TokensUnchanged DEF vars, Tokens, deliveryVars
<1> QED
  BY <1>1, StepTokens, BeginTokens, RowStepTokens, DriverStepTokens, SweepStepTokens DEF Next

LEMMA TokensInvariant == Spec => [](RowInv /\ TokenInv)
<1>1. Init => RowInv /\ TokenInv
  BY InitType, InitRows, InitTokens DEF RowInv
<1>2. RowInv /\ TokenInv /\ [Next]_vars => RowInv' /\ TokenInv'
  BY RowStep, TokenStep
<1> QED
  BY <1>1, <1>2, PTL DEF Spec

LEMMA TokensTell == RowInv /\ TokenInv => Exclusive /\ ActiveDriverBusy
<1> SUFFICES ASSUME RowInv, TokenInv PROVE Exclusive /\ ActiveDriverBusy
  OBVIOUS
<1>1. \A x \in Delivery : Active(x) => driverOf[x] \in Driver /\ OnActiveDelivery(driverOf[x])
  BY DEF RowInv, TypeOK, RowsAgree, Active, Finished, OnActiveDelivery, DeliveryStatus
<1> QED
  BY <1>1 DEF TokenInv, HeldOnce, HeldBusy, Held, Exclusive, ActiveDriverBusy

(***************************************************************************)
(* Claims are exclusive although claim, assignment and release are         *)
(* separate calls to two services: in every environment, whatever dies, is *)
(* repeated or overlaps, only a driver who is exposed can be on two active *)
(* deliveries (assignDriver, releaseDriverOf, sweep).                      *)
(***************************************************************************)
THEOREM ExclusiveClaims == Spec => []Exclusive
BY TokensTell, TokensInvariant, PTL

(***************************************************************************)
(* ... and a driver who is not exposed stays BUSY while on a delivery: no  *)
(* release, give-back, sweep or move of their own ends that.               *)
(***************************************************************************)
THEOREM ActiveIsBusy == Spec => []ActiveDriverBusy
BY TokensTell, TokensInvariant, PTL
=============================================================================
