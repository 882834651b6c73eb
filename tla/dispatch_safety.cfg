SPECIFICATION SafetySpec
CONSTANTS
  x1 = x1
  x2 = x2
  d1 = d1
  d2 = d2
  q1 = q1
  sweep = sweep
  NoDriver = NoDriver
  Delivery <- Deliveries
  Driver <- Drivers
  Request <- Slots
  Sweeper = sweep
  Paid <- Deliveries
  MaxClaimAttempts = 2
  Environment <- AdminsSpareBusy
SYMMETRY Symmetry
INVARIANTS
  Exclusive
  ActiveDriverBusy
  RowInv
PROPERTIES
  AssignedOnce
CHECK_DEADLOCK FALSE
