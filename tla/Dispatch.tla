------------------------------ MODULE Dispatch ------------------------------
(***************************************************************************)
(* Dispatching: deliveries of delivery-service, driver statuses of         *)
(* driver-service, and the requests that move both.                        *)
(*                                                                         *)
(* A delivery and a driver live in two databases.  An assignment claims a  *)
(* driver over HTTP (AVAILABLE -> BUSY) and then records the assignment in *)
(* its own database; completing or cancelling commits the delivery first   *)
(* and releases the driver over HTTP afterwards.  Between any two of those *)
(* calls other requests, the auto-dispatch sweep, the reconciliation sweep *)
(* and the drivers themselves run, and a request may die.                  *)
(*                                                                         *)
(* One action per call that reads or writes shared state.  A PATCH of a    *)
(* driver is one action although driver-service reads the row and then     *)
(* writes it compare-and-set: it takes effect at the write, and a lost     *)
(* compare-and-set leaves the driver alone, which Abort and ClaimDriver    *)
(* cover.                                                                  *)
(***************************************************************************)
EXTENDS Lifecycle, Naturals

CONSTANTS
  Delivery,          \* deliveries; an order has at most one (unique orderId)
  Driver,            \* drivers
  Request,           \* request slots: at most this many requests in flight
  Sweeper,           \* the slot the auto-dispatch sweep assigns with
  NoDriver,          \* "driverId is null"
  Paid,              \* deliveries whose order has a positive driver fee share
  MaxClaimAttempts,  \* MAX_DRIVER_CLAIM_ATTEMPTS
  Environment        \* which of the behaviours below may happen

(***************************************************************************)
(* What clients, operators and the network may do beyond the plain flow:   *)
(*   "fault"        a request dies between two of its calls                *)
(*   "lostAnswer"   an assignment is recorded and the answer is lost       *)
(*   "releaseFault" a request dies before it released its driver           *)
(*   "repeatFinish" complete/cancel is sent again for the same delivery    *)
(*   "overlap"      the reconciliation sweep looks at a driver while a     *)
(*                  complete/cancel holding that driver is in flight       *)
(*   "slowClaim"    a claimed driver waits longer than the grace period    *)
(*                  for the assignment to be recorded                      *)
(*   "adminOnBusy"  an admin changes the status of a BUSY driver           *)
(*   "leave"        drivers go offline, admins change other drivers        *)
(***************************************************************************)
Behaviours == {"fault", "lostAnswer", "releaseFault", "repeatFinish", "overlap", "slowClaim", "adminOnBusy", "leave"}

ASSUME DispatchAssumption ==
  /\ NoDriver \notin Driver
  /\ Sweeper \in Request
  /\ Paid \subseteq Delivery
  /\ MaxClaimAttempts \in Nat \ {0}
  /\ Environment \subseteq Behaviours

VARIABLES
  driverStatus,    \* driver-service: drivers.status
  quiet,           \* drivers whose row has not changed for driverReconcileGraceMs
  deliveryStatus,  \* delivery-service: deliveries.status, "NONE" before the row exists
  driverOf,        \* deliveries.driverId
  pickedUp,        \* deliveries with a pickedUpAt
  ledger,          \* driver_ledger_entries: entry types of each delivery
  staged,          \* outbox_events: event types staged for each delivery
  req,             \* the requests in flight
  sweepQueue,      \* the auto-dispatch sweep's remaining deliveries
  recon,           \* where the reconciliation sweep is
  reconTodo,       \* its remaining drivers whose row is still unchanged
  exposed          \* history: drivers a release or an admin met while they were claimed

driverVars   == <<driverStatus, quiet>>
deliveryVars == <<deliveryStatus, driverOf, pickedUp, ledger, staged>>
reconVars    == <<recon, reconTodo>>
vars == <<driverVars, deliveryVars, req, sweepQueue, reconVars, exposed>>

-----------------------------------------------------------------------------
LedgerEntryType == {"DELIVERY_EARNING", "CANCELLATION_COMPENSATION"}
NoEntry == "NO_ENTRY"

DeliveryEventType == {"CREATED", "DRIVER_ASSIGNED", "PICKED_UP", "IN_TRANSIT", "COMPLETED", "CANCELLED"}

\* Names of the form Operator_Variant are plausible regressions of Operator,
\* kept next to it; no specification uses them.
Idle == [op |-> "none", pc |-> "idle", delivery |-> NoDriver, seen |-> "NONE",
         drv |-> NoDriver, tries |-> 0, entry |-> NoEntry]

RequestState ==
  [op : {"none", "assign", "complete", "cancel"},
   pc : {"idle", "find", "claim", "commit", "giveBack", "check", "release"},
   delivery : Delivery \cup {NoDriver},      \* NoDriver: the slot is idle
   seen  : DeliveryStatus \cup {"NONE"},     \* status read at the start
   drv   : Driver \cup {NoDriver},           \* driver found, claimed or to release
   tries : 0 .. (MaxClaimAttempts - 1),
   entry : LedgerEntryType \cup {NoEntry}]   \* ledger entry decided from `seen'

Finished == {"DELIVERED", "CANCELLED"}
Active(x) == deliveryStatus[x] \notin Finished \cup {"NONE", "CREATED"}
OnActiveDelivery(d) == \E x \in Delivery : driverOf[x] = d /\ Active(x)
AfterPickup == {"PICKED_UP", "IN_TRANSIT"}

target(op) == IF op = "complete" THEN "DELIVERED" ELSE "CANCELLED"
finishEvent(op) == IF op = "complete" THEN "COMPLETED" ELSE "CANCELLED"

\* Request r is between claiming or inheriting driver d and letting go of it.
ClaimHolds(r, d) == req[r].op = "assign" /\ req[r].pc \in {"commit", "giveBack"} /\ req[r].drv = d
FinishHolds(r, d) == req[r].pc \in {"check", "release"} /\ req[r].drv = d

claimed(d) == \E r \in Request : ClaimHolds(r, d)

\* A release that has passed its check and has yet to reach driver-service.
releaseUnderWay(d) ==
  \/ \E r \in Request : req[r].pc = "release" /\ req[r].drv = d
  \/ recon.pc = "release" /\ recon.drv = d

\* The history: from here on driver d may be freed although someone counts on
\* them.  It is recorded where the cause arises, and nothing reads it.
Expose(d, cause) == exposed' = IF cause THEN exposed \cup {d} ELSE exposed

TypeOK ==
  /\ driverStatus \in [Driver -> DriverStatus]
  /\ quiet \subseteq Driver
  /\ deliveryStatus \in [Delivery -> DeliveryStatus \cup {"NONE"}]
  /\ driverOf \in [Delivery -> Driver \cup {NoDriver}]
  /\ pickedUp \subseteq Delivery
  /\ ledger \in [Delivery -> SUBSET LedgerEntryType]
  /\ staged \in [Delivery -> SUBSET DeliveryEventType]
  /\ req \in [Request -> RequestState]
  /\ sweepQueue \subseteq Delivery
  /\ recon \in [pc : {"idle"}, drv : {NoDriver}] \cup [pc : {"read", "release"}, drv : Driver]
  /\ reconTodo \subseteq Driver
  /\ exposed \subseteq Driver

Init ==
  /\ driverStatus = [d \in Driver |-> "OFFLINE"]
  /\ quiet = {}
  /\ deliveryStatus = [x \in Delivery |-> "NONE"]
  /\ driverOf = [x \in Delivery |-> NoDriver]
  /\ pickedUp = {}
  /\ ledger = [x \in Delivery |-> {}]
  /\ staged = [x \in Delivery |-> {}]
  /\ req = [r \in Request |-> Idle]
  /\ sweepQueue = {}
  /\ recon = [pc |-> "idle", drv |-> NoDriver]
  /\ reconTodo = {}
  /\ exposed = {}

-----------------------------------------------------------------------------
(***************************************************************************)
(* driver-service                                                          *)
(***************************************************************************)

\* A committed status change; the row's updatedAt moves with it.
SetDriver(d, status) ==
  /\ driverStatus' = [driverStatus EXCEPT ![d] = status]
  /\ quiet' = quiet \ {d}
  /\ reconTodo' = reconTodo \ {d}

\* PATCH /drivers/:id/status AVAILABLE with the system token, as releaseDriver
\* sends it: a refusal (409) and a driver already AVAILABLE both resolve.
PatchAvailable(d) ==
  IF isTransitionAllowed(DRIVER_TRANSITIONS, driverStatus[d], "AVAILABLE")
  THEN SetDriver(d, "AVAILABLE")
  ELSE UNCHANGED <<driverStatus, quiet, reconTodo>>

GoOnline(d) ==
  /\ driverStatus[d] = "OFFLINE"
  /\ SetDriver(d, "AVAILABLE")
  /\ UNCHANGED <<deliveryVars, req, sweepQueue, recon, exposed>>

GoOffline(d) ==
  /\ "leave" \in Environment
  /\ driverStatus[d] = "AVAILABLE"
  /\ SetDriver(d, "OFFLINE")
  /\ UNCHANGED <<deliveryVars, req, sweepQueue, recon, exposed>>

\* updateStatusById called by a person with the ADMIN role.
AdminMove(d, to) ==
  /\ "leave" \in Environment
  /\ driverStatus[d] = "BUSY" => "adminOnBusy" \in Environment
  /\ isTransitionAllowed(DRIVER_TRANSITIONS, driverStatus[d], to)
  /\ SetDriver(d, to)
  /\ Expose(d, claimed(d) \/ OnActiveDelivery(d))
  /\ UNCHANGED <<deliveryVars, req, sweepQueue, recon>>

\* driverReconcileGraceMs pass without a change to the driver's row.
GraceElapses(d) ==
  /\ d \notin quiet
  /\ claimed(d) => "slowClaim" \in Environment
  /\ quiet' = quiet \cup {d}
  /\ Expose(d, claimed(d))
  /\ UNCHANGED <<driverStatus, deliveryVars, req, sweepQueue, reconVars>>

-----------------------------------------------------------------------------
(***************************************************************************)
(* Writes of delivery-service: one transaction each (row, event, ledger).  *)
(***************************************************************************)

Create(x) ==
  /\ deliveryStatus[x] = "NONE"
  /\ deliveryStatus' = [deliveryStatus EXCEPT ![x] = "CREATED"]
  /\ staged' = [staged EXCEPT ![x] = @ \cup {"CREATED"}]
  /\ UNCHANGED <<driverVars, driverOf, pickedUp, ledger, req, sweepQueue, reconVars, exposed>>

\* The compare-and-set of repository.transition: it applies only to a row
\* still in the status the request read.
unmoved_LastWriteWins(x, from) == deliveryStatus[x] # "NONE"
unmoved(x, from) == deliveryStatus[x] = from

\* pickup and start read the delivery and commit; nothing they read besides
\* the status is used by the write, so the whole write is one action.
Pickup(x) ==
  /\ deliveryStatus[x] = "DRIVER_ASSIGNED"
  /\ deliveryStatus' = [deliveryStatus EXCEPT ![x] = "PICKED_UP"]
  /\ pickedUp' = pickedUp \cup {x}
  /\ staged' = [staged EXCEPT ![x] = @ \cup {"PICKED_UP"}]
  /\ UNCHANGED <<driverVars, driverOf, ledger, req, sweepQueue, reconVars, exposed>>

Start(x) ==
  /\ deliveryStatus[x] = "PICKED_UP"
  /\ deliveryStatus' = [deliveryStatus EXCEPT ![x] = "IN_TRANSIT"]
  /\ staged' = [staged EXCEPT ![x] = @ \cup {"IN_TRANSIT"}]
  /\ UNCHANGED <<driverVars, driverOf, pickedUp, ledger, req, sweepQueue, reconVars, exposed>>

-----------------------------------------------------------------------------
(***************************************************************************)
(* assignDriver                                                            *)
(***************************************************************************)

\* The request is over.  One that ends without an assignment or a lost race
\* also ends the auto-dispatch sweep it ran for.
Done(r) == req' = [req EXCEPT ![r] = Idle] /\ UNCHANGED sweepQueue
Fail(r) ==
  /\ req' = [req EXCEPT ![r] = Idle]
  /\ sweepQueue' = IF r = Sweeper THEN {} ELSE sweepQueue

assignRequest(x) ==
  [op |-> "assign", pc |-> "find", delivery |-> x, seen |-> "CREATED", drv |-> NoDriver, tries |-> 0, entry |-> NoEntry]

\* Manual dispatch and the order.ready_for_pickup consumer.
AssignBegin(r, x) ==
  /\ r # Sweeper /\ req[r].pc = "idle"
  /\ deliveryStatus[x] = "CREATED"
  /\ req' = [req EXCEPT ![r] = assignRequest(x)]
  /\ UNCHANGED <<driverVars, deliveryVars, sweepQueue, reconVars, exposed>>

SweepStart ==
  /\ req[Sweeper].pc = "idle" /\ sweepQueue = {}
  /\ sweepQueue' = {x \in Delivery : deliveryStatus[x] = "CREATED"}
  /\ sweepQueue' # {}
  /\ UNCHANGED <<driverVars, deliveryVars, req, reconVars, exposed>>

\* The sweep takes its next delivery; one assigned or cancelled since the
\* query needs nothing.
SweepNext(x) ==
  /\ req[Sweeper].pc = "idle" /\ x \in sweepQueue
  /\ sweepQueue' = sweepQueue \ {x}
  /\ req' = IF deliveryStatus[x] = "CREATED"
            THEN [req EXCEPT ![Sweeper] = assignRequest(x)]
            ELSE req
  /\ UNCHANGED <<driverVars, deliveryVars, reconVars, exposed>>

FindDriver(r, d) ==
  /\ req[r].pc = "find"
  /\ driverStatus[d] = "AVAILABLE"
  /\ req' = [req EXCEPT ![r].pc = "claim", ![r].drv = d]
  /\ UNCHANGED <<driverVars, deliveryVars, sweepQueue, reconVars, exposed>>

NoDriverFree(r) ==
  /\ req[r].pc = "find"
  /\ \A d \in Driver : driverStatus[d] # "AVAILABLE"
  /\ Fail(r)
  /\ UNCHANGED <<driverVars, deliveryVars, reconVars, exposed>>

\* The claim: BUSY is no idempotent target, so claiming a BUSY driver is refused.
claimable_Idempotent(d) == driverStatus[d] \in {"AVAILABLE", "BUSY"}
claimable(d) == isTransitionAllowed(DRIVER_TRANSITIONS, driverStatus[d], "BUSY")

ClaimDriver(r) ==
  /\ req[r].pc = "claim"
  /\ claimable(req[r].drv)
  /\ SetDriver(req[r].drv, "BUSY")
  /\ Expose(req[r].drv, releaseUnderWay(req[r].drv))
  /\ req' = [req EXCEPT ![r].pc = "commit"]
  /\ UNCHANGED <<deliveryVars, sweepQueue, recon>>

\* 409: someone else changed the driver first; try the next one, a few times.
mayTryAgain(tries) == tries + 1 < MaxClaimAttempts

ClaimRefused(r) ==
  /\ req[r].pc = "claim"
  /\ ~ claimable(req[r].drv)
  /\ \/ /\ mayTryAgain(req[r].tries)
        /\ req' = [req EXCEPT ![r].pc = "find", ![r].drv = NoDriver, ![r].tries = @ + 1]
        /\ UNCHANGED sweepQueue
     \/ ~ mayTryAgain(req[r].tries) /\ Fail(r)
  /\ UNCHANGED <<driverVars, deliveryVars, reconVars, exposed>>

recordAssignment(x, d) ==
  /\ deliveryStatus' = [deliveryStatus EXCEPT ![x] = "DRIVER_ASSIGNED"]
  /\ driverOf' = [driverOf EXCEPT ![x] = d]
  /\ staged' = [staged EXCEPT ![x] = @ \cup {"DRIVER_ASSIGNED"}]
  /\ UNCHANGED <<driverVars, pickedUp, ledger, reconVars>>

CommitAssign(r) ==
  /\ req[r].op = "assign" /\ req[r].pc = "commit"
  /\ unmoved(req[r].delivery, req[r].seen)
  /\ recordAssignment(req[r].delivery, req[r].drv)
  /\ Done(r)
  /\ UNCHANGED exposed

\* The COMMIT took effect and its answer was lost.  To the catch that is an
\* error like any other: the driver is given back, though now assigned.
AssignUnanswered(r) ==
  /\ "lostAnswer" \in Environment
  /\ req[r].op = "assign" /\ req[r].pc = "commit"
  /\ unmoved(req[r].delivery, req[r].seen)
  /\ recordAssignment(req[r].delivery, req[r].drv)
  /\ req' = [req EXCEPT ![r].pc = "giveBack"]
  /\ sweepQueue' = IF r = Sweeper THEN {} ELSE sweepQueue
  /\ Expose(req[r].drv, TRUE)

\* Another request moved the delivery first, or the transaction failed; a
\* failed transaction ends the sweep once the driver is given back.
AssignLost_KeepsDriver(r) ==
  /\ req[r].op = "assign" /\ req[r].pc = "commit"
  /\ ~ unmoved(req[r].delivery, req[r].seen)
  /\ Done(r)
  /\ UNCHANGED <<driverVars, deliveryVars, reconVars, exposed>>

AssignLost(r) ==
  /\ req[r].op = "assign" /\ req[r].pc = "commit"
  /\ req' = [req EXCEPT ![r].pc = "giveBack"]
  /\ \/ ~ unmoved(req[r].delivery, req[r].seen) /\ UNCHANGED sweepQueue
     \/ "fault" \in Environment /\ sweepQueue' = IF r = Sweeper THEN {} ELSE sweepQueue
  /\ UNCHANGED <<driverVars, deliveryVars, reconVars, exposed>>

GiveBack(r) ==
  /\ req[r].pc = "giveBack"
  /\ PatchAvailable(req[r].drv)
  /\ Done(r)
  /\ UNCHANGED <<deliveryVars, recon, exposed>>

-----------------------------------------------------------------------------
(***************************************************************************)
(* complete and cancel                                                     *)
(***************************************************************************)

\* earningFor: what the move will pay, decided from the status just read.
earningFor(x, op) ==
  IF x \notin Paid \/ driverOf[x] = NoDriver THEN NoEntry
  ELSE IF op = "complete" THEN "DELIVERY_EARNING"
  ELSE IF deliveryStatus[x] \in AfterPickup THEN "CANCELLATION_COMPENSATION"
  ELSE NoEntry

finishRequest(x, op, pc, drv, entry) ==
  [op |-> op, pc |-> pc, delivery |-> x, seen |-> deliveryStatus[x], drv |-> drv, tries |-> 0, entry |-> entry]

\* The request moves the delivery: the read and the transition check.
FinishBegin(r, x, op) ==
  /\ r # Sweeper /\ req[r].pc = "idle"
  /\ isTransitionAllowed(DELIVERY_TRANSITIONS, deliveryStatus[x], target(op))
  /\ (\E s \in Request : req[s].delivery = x /\ req[s].op = op) => "repeatFinish" \in Environment
  /\ req' = [req EXCEPT ![r] = finishRequest(x, op, "commit", NoDriver, earningFor(x, op))]
  /\ UNCHANGED <<driverVars, deliveryVars, sweepQueue, reconVars, exposed>>

\* A repeated request: the write is skipped and the effects run again.
FinishAgain(r, x, op) ==
  /\ "repeatFinish" \in Environment
  /\ r # Sweeper /\ req[r].pc = "idle"
  /\ deliveryStatus[x] = target(op)
  /\ req' = [req EXCEPT ![r] = finishRequest(x, op, "check", driverOf[x], NoEntry)]
  /\ UNCHANGED <<driverVars, deliveryVars, sweepQueue, reconVars, exposed>>

FinishCommit(r) ==
  LET x == req[r].delivery
      op == req[r].op IN
  /\ op \in {"complete", "cancel"} /\ req[r].pc = "commit"
  /\ unmoved(x, req[r].seen)
  /\ deliveryStatus' = [deliveryStatus EXCEPT ![x] = target(op)]
  /\ staged' = [staged EXCEPT ![x] = @ \cup {finishEvent(op)}]
  /\ ledger' = [ledger EXCEPT ![x] = @ \cup ({req[r].entry} \ {NoEntry})]
  /\ req' = [req EXCEPT ![r].pc = "check", ![r].drv = driverOf[x]]
  /\ UNCHANGED <<driverVars, driverOf, pickedUp, sweepQueue, reconVars, exposed>>

\* The race was lost: to the same move, then the effects run; else 409.
FinishLost(r) ==
  LET x == req[r].delivery
      op == req[r].op IN
  /\ op \in {"complete", "cancel"} /\ req[r].pc = "commit"
  /\ ~ unmoved(x, req[r].seen)
  /\ req' = IF deliveryStatus[x] = target(op)
            THEN [req EXCEPT ![r].pc = "check", ![r].drv = driverOf[x]]
            ELSE [req EXCEPT ![r] = Idle]
  /\ UNCHANGED <<driverVars, deliveryVars, sweepQueue, reconVars, exposed>>

\* releaseDriverOf, first half: no driver, or one on another delivery, is left alone.
otherActive_Ignored(d, x) == FALSE
otherActive(d, x) == \E y \in Delivery \ {x} : driverOf[y] = d /\ Active(y)

CheckRelease(r) ==
  LET d == req[r].drv
      leaveAlone == d = NoDriver \/ otherActive(d, req[r].delivery) IN
  /\ req[r].pc = "check"
  /\ req' = IF leaveAlone THEN [req EXCEPT ![r] = Idle] ELSE [req EXCEPT ![r].pc = "release"]
  /\ Expose(d, ~ leaveAlone /\ claimed(d))
  /\ UNCHANGED <<driverVars, deliveryVars, sweepQueue, reconVars>>

\* ... and second half.  The order sync that follows is order-service's state.
ReleaseDriver(r) ==
  /\ req[r].pc = "release"
  /\ PatchAvailable(req[r].drv)
  /\ req' = [req EXCEPT ![r] = Idle]
  /\ UNCHANGED <<deliveryVars, sweepQueue, recon, exposed>>

\* The request dies: a call fails or times out, or the process restarts.  A
\* failed give-back is only logged.
Abort(r) ==
  /\ req[r].pc # "idle"
  /\ \/ "fault" \in Environment
     \/ "releaseFault" \in Environment /\ req[r].pc \in {"check", "release"}
  /\ Fail(r) \/ (req[r].pc = "giveBack" /\ Done(r))
  /\ UNCHANGED <<driverVars, deliveryVars, reconVars, exposed>>

-----------------------------------------------------------------------------
(***************************************************************************)
(* DriverReconciliationService.sweep                                       *)
(***************************************************************************)

\* Drivers of finished deliveries.  A row younger than the grace period when
\* the sweep starts is never released by it, so it is left out at once; a row
\* that changes later leaves reconTodo with the change (SetDriver).
hasFinished_DeliveredOnly(d) == \E x \in Delivery : driverOf[x] = d /\ deliveryStatus[x] = "DELIVERED"
hasFinished(d) == \E x \in Delivery : driverOf[x] = d /\ deliveryStatus[x] \in Finished

oldEnough_NoGrace == Driver
oldEnough == quiet

ReconcileStart ==
  /\ recon.pc = "idle" /\ reconTodo = {}
  /\ reconTodo' = {d \in oldEnough : hasFinished(d)}
  /\ reconTodo' # {}
  /\ UNCHANGED <<driverVars, deliveryVars, req, sweepQueue, recon, exposed>>

ReconcileCheck(d) ==
  /\ recon.pc = "idle" /\ d \in reconTodo
  /\ \/ OnActiveDelivery(d) /\ reconTodo' = reconTodo \ {d} /\ UNCHANGED recon
     \/ ~ OnActiveDelivery(d) /\ recon' = [pc |-> "read", drv |-> d] /\ UNCHANGED reconTodo
  /\ UNCHANGED <<driverVars, deliveryVars, req, sweepQueue, exposed>>

\* GET /drivers/:id: still BUSY, and unchanged since before the sweep started.
stillStuck(d) == d \in reconTodo /\ driverStatus[d] = "BUSY"

ReconcileRead ==
  LET d == recon.drv IN
  /\ recon.pc = "read"
  /\ (\E r \in Request : FinishHolds(r, d)) => "overlap" \in Environment
  /\ recon' = IF stillStuck(d)
              THEN [pc |-> "release", drv |-> d]
              ELSE [pc |-> "idle", drv |-> NoDriver]
  /\ reconTodo' = reconTodo \ {d}
  /\ UNCHANGED <<driverVars, deliveryVars, req, sweepQueue, exposed>>

ReconcileRelease ==
  /\ recon.pc = "release"
  /\ PatchAvailable(recon.drv)
  /\ recon' = [pc |-> "idle", drv |-> NoDriver]
  /\ UNCHANGED <<deliveryVars, req, sweepQueue, exposed>>

\* One driver's calls failed; the sweep carries on with the next.
ReconcileFails ==
  /\ Environment \cap {"fault", "releaseFault"} # {}
  /\ recon.pc # "idle"
  /\ recon' = [pc |-> "idle", drv |-> NoDriver]
  /\ reconTodo' = reconTodo \ {recon.drv}
  /\ UNCHANGED <<driverVars, deliveryVars, req, sweepQueue, exposed>>

-----------------------------------------------------------------------------
RequestStep(r) ==
  \/ \E d \in Driver : FindDriver(r, d)
  \/ NoDriverFree(r)
  \/ ClaimDriver(r)
  \/ ClaimRefused(r)
  \/ CommitAssign(r)
  \/ AssignUnanswered(r)
  \/ AssignLost(r)
  \/ GiveBack(r)
  \/ FinishCommit(r)
  \/ FinishLost(r)
  \/ CheckRelease(r)
  \/ ReleaseDriver(r)
  \/ Abort(r)

RequestBegin(r, x) ==
  \/ AssignBegin(r, x)
  \/ \E op \in {"complete", "cancel"} : FinishBegin(r, x, op) \/ FinishAgain(r, x, op)

DeliveryStep(x) == Create(x) \/ Pickup(x) \/ Start(x) \/ SweepNext(x)

DriverStep(d) ==
  \/ GoOnline(d)
  \/ GoOffline(d)
  \/ \E to \in DriverStatus : AdminMove(d, to)
  \/ GraceElapses(d)
  \/ ReconcileCheck(d)

Next ==
  \/ \E r \in Request : RequestStep(r)
  \/ \E r \in Request, x \in Delivery : RequestBegin(r, x)
  \/ \E x \in Delivery : DeliveryStep(x)
  \/ \E d \in Driver : DriverStep(d)
  \/ SweepStart
  \/ ReconcileStart
  \/ ReconcileRead
  \/ ReconcileRelease
  \/ ReconcileFails

Spec == Init /\ [][Next]_vars
=============================================================================
