------------------------------ MODULE OrderLife ------------------------------
(***************************************************************************)
(* The life of one order as everyone else may rely on it: its status moves *)
(* along ORDER_TRANSITIONS, and the move and its event are one step        *)
(* (order-service, OrdersRepository.updateStatus).                         *)
(***************************************************************************)
EXTENDS Lifecycle

VARIABLES
  orderStatus,  \* orders.status
  orderEvents   \* event types staged for the order

orderVars == <<orderStatus, orderEvents>>

OrderInit == orderStatus = "CREATED" /\ orderEvents = {"CREATED"}

\* PATCH /orders/:id/status answers 200: the order is there already or may go.
accepts(target) ==
  \/ orderStatus = target
  \/ isTransitionAllowed(ORDER_TRANSITIONS, orderStatus, target)

SetStatus(target) ==
  /\ accepts(target)
  /\ orderStatus' = target
  /\ orderEvents' = orderEvents \cup {target}

OrderSpec == OrderInit /\ [][\E target \in OrderStatus : SetStatus(target)]_orderVars

\* TERMINAL_ORDER_STATUSES of payment-service.
Closed == {"FAILED", "CANCELLED", "DELIVERED"}
Placed == {"CONFIRMED", "PREPARING", "READY_FOR_PICKUP", "DRIVER_ASSIGNED", "PICKED_UP", "DELIVERED"}
=============================================================================
