------------------------------ MODULE OrderSync ------------------------------
(***************************************************************************)
(* One delivery of delivery-service and the order of order-service it      *)
(* belongs to.  A request commits the delivery's move and stages its event *)
(* in one transaction, and then moves the order over HTTP, a step of the   *)
(* path at a time; whatever the calls do, order-service hears the events   *)
(* too, in order and at least once (EventLog), and follows them.           *)
(*                                                                         *)
(* A PATCH of the order is one action, as OrderLife allows.  A call that   *)
(* fails and a process that dies end the request (SyncDies), and anyone    *)
(* may send it again.  Only the platform's token moves an order along this *)
(* path; customers, restaurants and admins may cancel it.                  *)
(***************************************************************************)
EXTENDS Lifecycle, Naturals, Sequences, SequencesExt

CONSTANT SyncSlot  \* requests at work on the delivery

VARIABLES
  trip,    \* deliveries.status, "NONE" before the row
  told,    \* its events, oldest first
  heard,   \* how many of them order-service has handled
  placed,  \* orders.status
  trek,    \* what each slot is doing
  sworn    \* targets of the requests that were answered without an error

syncVars == <<trip, told, heard, placed, trek, sworn>>

ORDER_DELIVERY_PATH == <<"READY_FOR_PICKUP", "DRIVER_ASSIGNED", "PICKED_UP", "DELIVERED">>
PathIndex(s) == IF s \in ToSet(ORDER_DELIVERY_PATH) THEN CHOOSE i \in 1..4 : ORDER_DELIVERY_PATH[i] = s ELSE 0

\* The order status each delivery status stands for.
counterpart(s) ==
  CASE s \in {"NONE", "CREATED"} -> "READY_FOR_PICKUP"
    [] s = "IN_TRANSIT" -> "PICKED_UP"
    [] OTHER -> s

TrekIdle == [pc |-> "idle", target |-> "CREATED", read |-> "NONE", step |-> 0]
Trek == [pc : {"idle", "insert", "move", "look", "patch"}, target : DeliveryStatus,
         read : DeliveryStatus \cup {"NONE"}, step : 0..4]

OrderSyncTypeOK ==
  /\ trip \in DeliveryStatus \cup {"NONE"}
  /\ told \in Seq(DeliveryStatus) /\ heard \in 0..Len(told)
  /\ placed \in OrderStatus
  /\ trek \in [SyncSlot -> Trek]
  /\ sworn \subseteq DeliveryStatus

OrderSyncInit ==
  /\ trip = "NONE" /\ told = <<>> /\ heard = 0
  /\ placed = "READY_FOR_PICKUP"
  /\ trek = [s \in SyncSlot |-> TrekIdle]
  /\ sworn = {}

goes(s, pc) == trek' = [trek EXCEPT ![s].pc = pc]
ends(s) == trek' = [trek EXCEPT ![s] = TrekIdle]
swears(s) == sworn' = sworn \cup {trek[s].target} /\ ends(s)

\* PATCH /orders/:id/status of the ADMIN token: accepted if there or allowed.
takes(t) == placed = t \/ isTransitionAllowed(ORDER_TRANSITIONS, placed, t)

-----------------------------------------------------------------------------
(* create: the checks, and the insert on the unique index of orderId *)
CreateTrip(s) ==
  /\ trek[s].pc = "idle" /\ trip = "NONE"
  /\ placed = "READY_FOR_PICKUP"
  /\ goes(s, "insert")
  /\ UNCHANGED <<trip, told, heard, placed, sworn>>

InsertTrip(s) ==
  /\ trek[s].pc = "insert"
  /\ IF trip = "NONE" THEN trip' = "CREATED" /\ told' = <<"CREATED">>
                      ELSE UNCHANGED <<trip, told>> \* 409
  /\ ends(s)
  /\ UNCHANGED <<heard, placed, sworn>>

-----------------------------------------------------------------------------
(* assignDriver, pickup, start, complete, cancel *)

\* What runs after the write; cancel moves the order in one call.
effects(t) == IF t = "CANCELLED" THEN "patch" ELSE "look"

\* The read and the check; a delivery already there only runs the effects again.
AskMove(s, t) ==
  /\ trek[s].pc = "idle"
  /\ \/ /\ trip = t
        /\ trek' = [trek EXCEPT ![s] = [TrekIdle EXCEPT !.pc = effects(t), !.target = t]]
     \/ /\ isTransitionAllowed(DELIVERY_TRANSITIONS, trip, t)
        /\ trek' = [trek EXCEPT ![s] = [TrekIdle EXCEPT !.pc = "move", !.target = t, !.read = trip]]
  /\ UNCHANGED <<trip, told, heard, placed, sworn>>

CommitMove_SyncFirst(s) ==
  /\ trek[s].pc = "move" /\ trip = trek[s].read
  /\ goes(s, effects(trek[s].target))
  /\ UNCHANGED <<trip, told, heard, placed, sworn>>

CommitMove(s) ==
  LET t == trek[s].target IN
  /\ trek[s].pc = "move" /\ trip = trek[s].read
  /\ trip' = t
  /\ told' = Append(told, t)
  /\ goes(s, effects(t))
  /\ UNCHANGED <<heard, placed, sworn>>

\* The race was lost: to the same move, then the effects run; else 409.
LoseMove(s) ==
  LET t == trek[s].target IN
  /\ trek[s].pc = "move" /\ trip # trek[s].read
  /\ IF trip = t THEN goes(s, effects(t)) ELSE ends(s)
  /\ UNCHANGED <<trip, told, heard, placed, sworn>>

\* syncOrderAlongDelivery: where the order is now, and then each step after it.
LookAtOrder(s) ==
  LET from == PathIndex(placed)
      to == PathIndex(counterpart(trek[s].target))
  IN
  /\ trek[s].pc = "look"
  /\ IF from = 0 \/ from >= to
       THEN swears(s)
       ELSE /\ trek' = [trek EXCEPT ![s].pc = "patch", ![s].step = from + 1]
            /\ UNCHANGED sworn
  /\ UNCHANGED <<trip, told, heard, placed>>

patched(s) == IF trek[s].target = "CANCELLED" THEN "CANCELLED" ELSE ORDER_DELIVERY_PATH[trek[s].step]

isLastStep(s) ==
  trek[s].target = "CANCELLED" \/ trek[s].step = PathIndex(counterpart(trek[s].target))

PatchOrder(s) ==
  /\ trek[s].pc = "patch" /\ takes(patched(s))
  /\ placed' = patched(s)
  /\ IF isLastStep(s) THEN swears(s)
     ELSE trek' = [trek EXCEPT ![s].step = @ + 1] /\ UNCHANGED sworn
  /\ UNCHANGED <<trip, told, heard>>

PatchRefused(s) ==
  /\ trek[s].pc = "patch" /\ ~takes(patched(s))
  /\ ends(s)
  /\ UNCHANGED <<trip, told, heard, placed, sworn>>

SyncDies(s) ==
  /\ trek[s].pc # "idle"
  /\ ends(s)
  /\ UNCHANGED <<trip, told, heard, placed, sworn>>

-----------------------------------------------------------------------------
(* order-service *)

\* The events it subscribed to, and where each moves the order.
subscribed == {"DRIVER_ASSIGNED", "PICKED_UP", "DELIVERED"}

\* The next event, or one redelivered; a stale one is ignored.
HearEvent(k) ==
  /\ k \in 1..Len(told) /\ k <= heard + 1
  /\ heard' = IF k > heard THEN k ELSE heard
  /\ placed' = IF told[k] \in subscribed /\ takes(told[k]) THEN told[k] ELSE placed
  /\ UNCHANGED <<trip, told, trek, sworn>>

CancelOrder ==
  /\ takes("CANCELLED")
  /\ placed' = "CANCELLED"
  /\ UNCHANGED <<trip, told, heard, trek, sworn>>

-----------------------------------------------------------------------------
OrderSyncStep(s) ==
  \/ CreateTrip(s) \/ InsertTrip(s) \/ CommitMove(s) \/ LoseMove(s)
  \/ LookAtOrder(s) \/ PatchOrder(s) \/ PatchRefused(s) \/ SyncDies(s)

OrderSyncNext ==
  \/ \E s \in SyncSlot : OrderSyncStep(s) \/ \E t \in DeliveryStatus \ {"CREATED"} : AskMove(s, t)
  \/ \E k \in DOMAIN told : HearEvent(k)
  \/ CancelOrder

OrderSyncSpec == OrderSyncInit /\ [][OrderSyncNext]_syncVars

-----------------------------------------------------------------------------
(* What the two services promise together *)

\* The order never shows a step the delivery has not made, whichever requests
\* and events race and whatever they find when they arrive (advance: the write
\* comes first).
NeverAhead == PathIndex(placed) > 1 => \E i \in DOMAIN told : counterpart(told[i]) = placed

\* A request answered without an error left its order there or further, or
\* found it off the path; "an order left behind by an earlier failed sync
\* catches up" (syncOrderAlongDelivery).
AnswerHolds ==
  \A t \in sworn :
    \/ placed = "CANCELLED"
    \/ t # "CANCELLED" /\ PathIndex(placed) >= PathIndex(counterpart(t))

Quiet == heard = Len(told) /\ \A s \in SyncSlot : trek[s].pc = "idle"

\* Once the events are handled, the order of a delivery that was not cancelled
\* is where the delivery is, though every call over HTTP may have failed; only
\* an order cancelled on its own stays behind (syncStatusFromEvent).
EventsConverge ==
  Quiet /\ trip \notin {"NONE", "CANCELLED"} => placed \in {counterpart(trip), "CANCELLED"}

\* All of these at once, whichever calls fail and whoever dies in between
\* (DeliveriesService.advance, OrdersService.onModuleInit).
OrderFollows == OrderSyncTypeOK /\ NeverAhead /\ AnswerHolds /\ EventsConverge

\* "The event is published whatever happens next, and order-service converges
\* from it, so the order catches up even if the HTTP sync fails" (the comment
\* on retry safety in deliveries.service.ts), said of a cancellation.
CancelConverges == Quiet /\ trip = "CANCELLED" => placed = "CANCELLED"
=============================================================================
