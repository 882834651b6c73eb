------------------------------ MODULE Lifecycle ------------------------------
(***************************************************************************)
(* The domain state machines every service shares                          *)
(* (shared/src/types/enums.ts): the statuses, and for each machine the     *)
(* table of allowed moves as a set of <<from, to>> pairs.                  *)
(***************************************************************************)

OrderStatus ==
  {"CREATED", "PAYMENT_PENDING", "CONFIRMED", "PREPARING", "READY_FOR_PICKUP",
   "DRIVER_ASSIGNED", "PICKED_UP", "DELIVERED", "CANCELLED", "FAILED"}

PaymentStatus == {"PENDING", "PROCESSING", "COMPLETED", "FAILED", "REFUNDED"}

DriverStatus == {"OFFLINE", "AVAILABLE", "BUSY", "SUSPENDED"}

DeliveryStatus ==
  {"CREATED", "DRIVER_ASSIGNED", "PICKED_UP", "IN_TRANSIT", "DELIVERED", "CANCELLED"}

ORDER_TRANSITIONS ==
  {<<"CREATED", "PAYMENT_PENDING">>, <<"CREATED", "CANCELLED">>,
   <<"PAYMENT_PENDING", "CONFIRMED">>, <<"PAYMENT_PENDING", "FAILED">>,
   <<"PAYMENT_PENDING", "CANCELLED">>,
   <<"CONFIRMED", "PREPARING">>, <<"CONFIRMED", "CANCELLED">>,
   <<"PREPARING", "READY_FOR_PICKUP">>, <<"PREPARING", "CANCELLED">>,
   <<"READY_FOR_PICKUP", "DRIVER_ASSIGNED">>, <<"READY_FOR_PICKUP", "CANCELLED">>,
   <<"DRIVER_ASSIGNED", "PICKED_UP">>, <<"DRIVER_ASSIGNED", "CANCELLED">>,
   <<"PICKED_UP", "DELIVERED">>, <<"PICKED_UP", "CANCELLED">>}

DELIVERY_TRANSITIONS ==
  {<<"CREATED", "DRIVER_ASSIGNED">>, <<"CREATED", "CANCELLED">>,
   <<"DRIVER_ASSIGNED", "PICKED_UP">>, <<"DRIVER_ASSIGNED", "CANCELLED">>,
   <<"PICKED_UP", "IN_TRANSIT">>, <<"PICKED_UP", "CANCELLED">>,
   <<"IN_TRANSIT", "DELIVERED">>, <<"IN_TRANSIT", "CANCELLED">>}

PAYMENT_TRANSITIONS ==
  {<<"PENDING", "PROCESSING">>, <<"PENDING", "FAILED">>,
   <<"PROCESSING", "COMPLETED">>, <<"PROCESSING", "FAILED">>,
   <<"COMPLETED", "REFUNDED">>}

DRIVER_TRANSITIONS ==
  {<<"OFFLINE", "AVAILABLE">>, <<"OFFLINE", "SUSPENDED">>,
   <<"AVAILABLE", "OFFLINE">>, <<"AVAILABLE", "BUSY">>, <<"AVAILABLE", "SUSPENDED">>,
   <<"BUSY", "AVAILABLE">>, <<"BUSY", "SUSPENDED">>,
   <<"SUSPENDED", "OFFLINE">>}

isTransitionAllowed(transitions, from, to) == <<from, to>> \in transitions
=============================================================================
