-------------------------- MODULE MCDispatchSafety --------------------------
(***************************************************************************)
(* Dispatch for TLC from two situations the services may be in: of two     *)
(* drivers one was claimed by a request that died, so two deliveries share *)
(* the other; or of two deliveries one was cancelled before it had a       *)
(* driver, so requests with two drivers to choose from race for the other. *)
(***************************************************************************)
EXTENDS DispatchProperties, TLC

CONSTANTS x1, x2, d1, d2, q1, sweep

Deliveries == {x1, x2}
Drivers == {d1, d2}
Slots == {q1, sweep}
Symmetry == Permutations(Deliveries) \cup Permutations(Drivers)

\* Nobody frees a driver whose claim was never recorded, and an admin who would
\* is left out: it brings back both drivers for both deliveries.
AdminsSpareBusy == Behaviours \ {"adminOnBusy"}

NothingYet ==
  /\ ledger = [x \in Delivery |-> {}] /\ pickedUp = {}
  /\ driverOf = [x \in Delivery |-> NoDriver]
  /\ req = [r \in Request |-> Idle] /\ sweepQueue = {}
  /\ recon = [pc |-> "idle", drv |-> NoDriver] /\ reconTodo = {} /\ exposed = {}

DriverShared ==
  /\ NothingYet
  /\ \E d \in Driver :
       /\ driverStatus = [e \in Driver |-> IF e = d THEN "BUSY" ELSE "OFFLINE"] /\ quiet = {d}
  /\ deliveryStatus = [x \in Delivery |-> "NONE"] /\ staged = [x \in Delivery |-> {}]

DeliveryRaced ==
  /\ NothingYet
  /\ driverStatus = [d \in Driver |-> "OFFLINE"] /\ quiet = {}
  /\ \E x \in Delivery :
       /\ deliveryStatus = [y \in Delivery |-> IF y = x THEN "CANCELLED" ELSE "NONE"]
       /\ staged = [y \in Delivery |-> IF y = x THEN {"CREATED", "CANCELLED"} ELSE {}]

SafetyInit == DriverShared \/ DeliveryRaced

SafetySpec == SafetyInit /\ [][Next]_vars
=============================================================================
