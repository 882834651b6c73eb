------------------------- MODULE DispatchProperties -------------------------
(***************************************************************************)
(* What dispatching promises, and the inductive invariant behind it.       *)
(***************************************************************************)
EXTENDS Dispatch

(***************************************************************************)
(* Claims are exclusive (#33): no driver is on two active deliveries, even *)
(* though the claim, the assignment and the release are three separate     *)
(* calls to two services (assignDriver, releaseDriverOf).  Whatever runs,  *)
(* dies, is repeated or overlaps, it takes one of five meetings to break   *)
(* this for a driver (`exposed'): a release already checked reaches them   *)
(* after their claim, or is checked before their assignment is recorded;   *)
(* the assignment's answer is lost; the claim outlives the grace period;   *)
(* or an admin moves them.                                                 *)
(***************************************************************************)
Exclusive ==
  \A x, y \in Delivery :
    x # y /\ Active(x) /\ Active(y) /\ driverOf[x] = driverOf[y] => driverOf[x] \in exposed

(***************************************************************************)
(* A driver with an active delivery is BUSY, so no other assignment can    *)
(* find or claim them: the end of another delivery, a completion sent      *)
(* again, the give-back of a lost race and the reconciliation free them    *)
(* only through the same five meetings (releaseDriverOf, sweep).           *)
(***************************************************************************)
ActiveDriverBusy ==
  \A x \in Delivery : Active(x) /\ driverOf[x] \notin exposed => driverStatus[driverOf[x]] = "BUSY"

(***************************************************************************)
(* The ledger pays exactly what happened: a delivered delivery its earning,*)
(* one cancelled after pickup its compensation, anything else nothing.     *)
(* The entry is decided from a status read before the write (earningFor),  *)
(* and pickups, starts and the opposite move may commit in between.        *)
(***************************************************************************)
LedgerMatchesOutcome ==
  \A x \in Delivery :
    ledger[x] = IF x \notin Paid THEN {}
                ELSE IF deliveryStatus[x] = "DELIVERED" THEN {"DELIVERY_EARNING"}
                ELSE IF deliveryStatus[x] = "CANCELLED" /\ x \in pickedUp
                     THEN {"CANCELLATION_COMPENSATION"}
                ELSE {}

(***************************************************************************)
(* The outbox tells each delivery's history and nothing else: an event is  *)
(* staged exactly when the change it announces has committed, whichever of *)
(* the racing requests won (repository.transition).                        *)
(***************************************************************************)
EventsTellHistory ==
  \A x \in Delivery :
    /\ "CREATED" \in staged[x] <=> deliveryStatus[x] # "NONE"
    /\ "DRIVER_ASSIGNED" \in staged[x] <=> driverOf[x] # NoDriver
    /\ "PICKED_UP" \in staged[x] <=> x \in pickedUp
    /\ "COMPLETED" \in staged[x] <=> deliveryStatus[x] = "DELIVERED"
    /\ "CANCELLED" \in staged[x] <=> deliveryStatus[x] = "CANCELLED"

(***************************************************************************)
(* A delivery gets its driver once: concurrent and retried assignments     *)
(* (manual, event, sweep) never replace the first one (assignDriver).      *)
(***************************************************************************)
AssignedOnce ==
  [][\A x \in Delivery : driverOf[x] # NoDriver => driverOf'[x] = driverOf[x]]_vars

(***************************************************************************)
(* "A retried completion must never free a driver who has since been       *)
(* assigned elsewhere" (releaseDriverOf).  The check for other deliveries  *)
(* and the release are two calls, and an assignment fits between them.     *)
(***************************************************************************)
RetryFreesNobody ==
  [][\A r \in Request : ReleaseDriver(r) /\ OnActiveDelivery(req[r].drv) => UNCHANGED driverStatus]_vars

(***************************************************************************)
(* Fairness.  Requests in flight go on; the two sweeps run on timers, and  *)
(* an HTTP call that may fail each time does not fail for ever (strong     *)
(* fairness on the steps a fault can pre-empt).                            *)
(***************************************************************************)
SweepFairness ==
  /\ \A r \in Request : WF_vars(RequestStep(r))
  /\ WF_vars(SweepStart)
  /\ \A x \in Delivery : WF_vars(SweepNext(x))

ReconcileFairness ==
  /\ \A d \in Driver : WF_vars(GraceElapses(d)) /\ SF_vars(ReconcileCheck(d))
  /\ WF_vars(ReconcileStart)
  /\ SF_vars(ReconcileRead)
  /\ SF_vars(ReconcileRelease)

\* Drivers come online and do the work they are given.
DriverFairness ==
  /\ \A d \in Driver : WF_vars(GoOnline(d))
  /\ \A x \in Delivery : WF_vars(Pickup(x)) /\ WF_vars(Start(x))
  /\ \A x \in Delivery : SF_vars(\E r \in Request : FinishBegin(r, x, "complete"))

RecoverySpec == Spec /\ SweepFairness /\ ReconcileFairness /\ DriverFairness

(***************************************************************************)
(* A driver left BUSY after a finished delivery is freed or assigned again *)
(* without anyone retrying the failed request (DriverReconciliation).      *)
(***************************************************************************)
StuckDriverFreed ==
  \A d \in Driver :
    (driverStatus[d] = "BUSY" /\ \E x \in Delivery : driverOf[x] = d /\ deliveryStatus[x] \in Finished)
      ~> (driverStatus[d] # "BUSY" \/ OnActiveDelivery(d))

(***************************************************************************)
(* A waiting delivery is assigned or cancelled in the end, however many    *)
(* assignments compete for the drivers (AutoDispatchService.sweep) and     *)
(* however many releases are lost (the reconciliation frees the driver).   *)
(***************************************************************************)
WaitingIsDispatched ==
  \A x \in Delivery : deliveryStatus[x] = "CREATED" ~> deliveryStatus[x] # "CREATED"

-----------------------------------------------------------------------------
(***************************************************************************)
(* The inductive invariants.  Rows: the columns of a delivery agree, and a *)
(* finishing request carries the ledger entry its status called for.       *)
(***************************************************************************)
RowsAgree ==
  \A x \in Delivery :
    /\ deliveryStatus[x] \in {"NONE", "CREATED"} => driverOf[x] = NoDriver
    /\ deliveryStatus[x] \in {"DRIVER_ASSIGNED", "PICKED_UP", "IN_TRANSIT", "DELIVERED"}
         => driverOf[x] # NoDriver
    /\ deliveryStatus[x] \in {"PICKED_UP", "IN_TRANSIT", "DELIVERED"} => x \in pickedUp
    /\ deliveryStatus[x] \in {"NONE", "CREATED", "DRIVER_ASSIGNED"} => x \notin pickedUp

EntryFor(x, op, from) ==
  IF x \notin Paid THEN NoEntry
  ELSE IF op = "complete" THEN "DELIVERY_EARNING"
  ELSE IF from \in AfterPickup THEN "CANCELLATION_COMPENSATION"
  ELSE NoEntry

RequestsAgree ==
  \A r \in Request :
    /\ req[r].pc # "idle" => req[r].delivery \in Delivery
    /\ req[r].pc \in {"find", "claim", "giveBack"} => req[r].op = "assign"
    /\ req[r].pc \in {"check", "release"} => req[r].op \in {"complete", "cancel"}
    /\ req[r].pc \in {"claim", "giveBack", "release"} => req[r].drv # NoDriver
    /\ req[r].op = "assign" => req[r].pc # "idle" /\ req[r].seen = "CREATED"
    /\ req[r].op = "assign" /\ req[r].pc = "commit" => req[r].drv # NoDriver
    /\ req[r].pc = "commit" /\ req[r].op # "assign" =>
         /\ req[r].op \in {"complete", "cancel"}
         /\ <<req[r].seen, target(req[r].op)>> \in DELIVERY_TRANSITIONS
         /\ req[r].entry = EntryFor(req[r].delivery, req[r].op, req[r].seen)

(***************************************************************************)
(* Tokens: an active delivery and a request's claim each hold the driver.  *)
(* As long as a driver is not exposed, one who is held is BUSY, held once, *)
(* and no release that has passed its check is meant for them.             *)
(***************************************************************************)
Held(d) == OnActiveDelivery(d) \/ claimed(d)

HeldBusy == \A d \in Driver \ exposed : Held(d) => driverStatus[d] = "BUSY" /\ ~ releaseUnderWay(d)

HeldOnce ==
  \A d \in Driver \ exposed :
    /\ \A x, y \in Delivery : driverOf[x] = d /\ driverOf[y] = d /\ Active(x) /\ Active(y) => x = y
    /\ \A r, s \in Request : ClaimHolds(r, d) /\ ClaimHolds(s, d) => r = s
    /\ claimed(d) => ~ OnActiveDelivery(d)

\* The reconciliation: a row as old as the grace period is not being claimed,
\* and a driver it is about to read, unchanged, is not held.
QuietUnheld ==
  \A d \in Driver \ exposed :
    /\ d \in quiet \cup reconTodo => ~ claimed(d)
    /\ recon.pc = "read" /\ recon.drv = d /\ d \in reconTodo => ~ Held(d)

\* A release is of a delivery that is over.
ReleaseAfterEnd ==
  \A r \in Request : req[r].pc \in {"check", "release"} => deliveryStatus[req[r].delivery] \in Finished

TokenInv == HeldBusy /\ HeldOnce /\ QuietUnheld /\ ReleaseAfterEnd
RowInv == TypeOK /\ RowsAgree /\ RequestsAgree /\ LedgerMatchesOutcome /\ EventsTellHistory
=============================================================================
