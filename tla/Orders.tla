------------------------------- MODULE Orders -------------------------------
(***************************************************************************)
(* One order's row in order-service under everyone who moves it: customers *)
(* and owners over HTTP, the platform's ADMIN token, and the consumers of  *)
(* payment and delivery events, which redeliver in any order.              *)
(*                                                                         *)
(* A request reads the row, is judged on what it read, and writes with a   *)
(* compare-and-set that stages the event in the same transaction           *)
(* (updateStatus).  An event handler records the payment first, then does  *)
(* the same, and is run again when it throws.                              *)
(***************************************************************************)
EXTENDS Lifecycle, Naturals, Sequences, SequencesExt

CONSTANTS
  OrderRequest,  \* slots for requests and handlers at work
  Attempts       \* runs of a handler before its event is dead-lettered

ASSUME OrdersAssumption == Attempts \in Nat \ {0}

VARIABLES
  row,     \* the order: status, endedBy (cancelledBy), payment (paymentStatus)
  staged,  \* its events in the outbox, oldest first
  job      \* what each slot is doing

ordersVars == <<row, staged, job>>

Roles == {"CUSTOMER", "RESTAURANT_OWNER", "ADMIN"}
EndedBy == {"none", "CUSTOMER", "RESTAURANT", "SYSTEM", "PAYMENT"}
PaymentKnown == {"none", "PENDING", "COMPLETED", "FAILED"}
OrderIdle == [pc |-> "idle", role |-> "ADMIN", target |-> "CREATED", payment |-> "none",
              read |-> "CREATED", tries |-> 0]
Job == [pc : {"idle", "record", "sync", "load", "write"}, role : Roles, target : OrderStatus,
        payment : PaymentKnown, read : OrderStatus, tries : 0..Attempts]

OrdersTypeOK ==
  /\ row \in [status : OrderStatus, endedBy : EndedBy, payment : PaymentKnown]
  /\ staged \in Seq(OrderStatus)
  /\ job \in [OrderRequest -> Job]

OrdersInit ==
  /\ row = [status |-> "CREATED", endedBy |-> "none", payment |-> "none"]
  /\ staged = <<"CREATED">>
  /\ job = [r \in OrderRequest |-> OrderIdle]

\* TRANSITION_ROLES
isRoleAllowedForTransition(target, role) ==
  \/ role = "ADMIN"
  \/ role = "RESTAURANT_OWNER" /\ target \in {"PREPARING", "READY_FOR_PICKUP", "CANCELLED"}
  \/ role = "CUSTOMER" /\ target = "CANCELLED"

outcomeFor(target, role) ==
  CASE target = "FAILED" -> "PAYMENT"
    [] target = "CANCELLED" /\ role = "CUSTOMER" -> "CUSTOMER"
    [] target = "CANCELLED" /\ role = "RESTAURANT_OWNER" -> "RESTAURANT"
    [] target = "CANCELLED" /\ role = "ADMIN" -> "SYSTEM"
    [] OTHER -> "none"

finish(r) == job' = [job EXCEPT ![r] = OrderIdle]
isHandler(r) == job[r].tries > 0

\* A handler that throws is run from its beginning; a caller gets the error.
throw(r) ==
  IF isHandler(r) /\ job[r].tries # Attempts
    THEN job' = [job EXCEPT ![r].pc = "record", ![r].tries = @ + 1]
    ELSE finish(r)

-----------------------------------------------------------------------------
(* PATCH /orders/:id/status, and what the consumers subscribed to *)
Ask(r, role, target) ==
  /\ job[r].pc = "idle"
  /\ isRoleAllowedForTransition(target, role)
  /\ job' = [job EXCEPT ![r] = [OrderIdle EXCEPT !.pc = "load", !.role = role, !.target = target]]
  /\ UNCHANGED <<row, staged>>

\* <<payment status to record, order status to sync>> of each event.
HandledEvent ==
  {<<"PENDING", "PAYMENT_PENDING">>, <<"COMPLETED", "CONFIRMED">>, <<"FAILED", "FAILED">>,
   <<"none", "DRIVER_ASSIGNED">>, <<"none", "PICKED_UP">>, <<"none", "DELIVERED">>}

Receive(r, event) ==
  /\ job[r].pc = "idle"
  /\ job' = [job EXCEPT ![r] = [OrderIdle EXCEPT !.pc = "record", !.payment = event[1],
                                                 !.target = event[2], !.tries = 1]]
  /\ UNCHANGED <<row, staged>>

\* recordPaymentStatus: an outcome replaces PENDING and nothing replaces an outcome.
RecordPayment(r) ==
  /\ job[r].pc = "record"
  /\ row' = IF /\ job[r].payment # "none"
               /\ row.payment \in IF job[r].payment = "PENDING" THEN {"none"} ELSE {"none", "PENDING"}
              THEN [row EXCEPT !.payment = job[r].payment] ELSE row
  /\ job' = [job EXCEPT ![r].pc = "sync"]
  /\ UNCHANGED staged

\* A late or repeated event is no error.
stale(r) ==
  \/ row.status = job[r].target
  \/ ~isTransitionAllowed(ORDER_TRANSITIONS, row.status, job[r].target)

SyncStatusFromEvent(r) ==
  /\ job[r].pc = "sync"
  /\ IF stale(r) THEN finish(r) ELSE job' = [job EXCEPT ![r].pc = "load"]
  /\ UNCHANGED <<row, staged>>

-----------------------------------------------------------------------------
(* updateStatus *)
rejectedMidway(r, status) ==
  /\ job[r].role = "RESTAURANT_OWNER" /\ job[r].target = "CANCELLED"
  /\ status \notin {"CONFIRMED", "CANCELLED"}

LoadOrder(r) ==
  /\ job[r].pc = "load"
  /\ LET s == row.status IN
     CASE rejectedMidway(r, s) -> throw(r)
       [] ~rejectedMidway(r, s) /\ s = job[r].target -> finish(r)
       [] ~rejectedMidway(r, s) /\ s # job[r].target ->
            IF isTransitionAllowed(ORDER_TRANSITIONS, s, job[r].target)
              THEN job' = [job EXCEPT ![r].pc = "write", ![r].read = s] ELSE throw(r)
  /\ UNCHANGED <<row, staged>>

write(r) ==
  /\ job[r].pc = "write"
  /\ row' = [row EXCEPT !.status = job[r].target,
                        !.endedBy = LET by == outcomeFor(job[r].target, job[r].role) IN
                                    IF by = "none" THEN @ ELSE by]
  /\ staged' = Append(staged, job[r].target)
  /\ finish(r)

UpdateStatus_Blind(r) == write(r)
UpdateStatus(r) == row.status = job[r].read /\ write(r)

\* Lost to a writer of the same target: applied already.  Lost to another: an error.
LoseRace(r) ==
  /\ job[r].pc = "write" /\ row.status # job[r].read
  /\ IF row.status = job[r].target THEN finish(r) ELSE throw(r)
  /\ UNCHANGED <<row, staged>>

-----------------------------------------------------------------------------
OrdersStep(r) ==
  \/ RecordPayment(r) \/ SyncStatusFromEvent(r)
  \/ LoadOrder(r) \/ UpdateStatus(r) \/ LoseRace(r)

OrdersNext ==
  \E r \in OrderRequest :
    \/ \E role \in Roles, target \in OrderStatus \ {"CREATED"} : Ask(r, role, target)
    \/ \E event \in HandledEvent : Receive(r, event)
    \/ OrdersStep(r)

OrdersSpec == OrdersInit /\ [][OrdersNext]_ordersVars

-----------------------------------------------------------------------------
(* What order-service promises *)

\* Each status of the order was announced once, in the order it was reached,
\* along the table, whoever raced for it (OrdersRepository.updateStatus).
AnnouncedOnce ==
  /\ Last(staged) = row.status
  /\ \A i \in 1..(Len(staged) - 1) :
       isTransitionAllowed(ORDER_TRANSITIONS, staged[i], staged[i + 1])

\* An order that ended says who ended it, and no other does; a declined payment
\* fails an order and never cancels it (outcomeFor).
EndedTellsWho ==
  /\ row.status \in {"CANCELLED", "FAILED"} <=> row.endedBy # "none"
  /\ row.status = "FAILED" <=> row.endedBy = "PAYMENT"

\* A restaurant rejects an order before it cooks, never midway, even when the
\* two requests of its staff cross (updateStatus).
RejectedBeforeCooking ==
  row.endedBy = "RESTAURANT" => \A i \in DOMAIN staged : staged[i] # "PREPARING"

\* No event of another service ends in the dead-letter topic for coming late,
\* twice, or while others move the order: a lost race is lost once, and the next
\* run finds the event stale (syncStatusFromEvent).
NeverPoisons == \A r \in OrderRequest : job[r].tries < Attempts

\* All of these at once, whoever races for the order (OrdersService.updateStatus,
\* syncStatusFromEvent): what was announced, who ended it, and when.
OrdersInv ==
  OrdersTypeOK /\ AnnouncedOnce /\ EndedTellsWho /\ RejectedBeforeCooking /\ NeverPoisons

Life == INSTANCE OrderLife WITH orderStatus <- row.status, orderEvents <- ToSet(staged)

\* Everyone else may rely on OrderLife: the row moves along the table, and each
\* move and its event are one step (OrdersRepository.updateStatus).
ImplementsOrderLife == Life!OrderSpec
=============================================================================
