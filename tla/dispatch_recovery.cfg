SPECIFICATION RecoverySpec
CONSTANTS
  x1 = x1
  x2 = x2
  d1 = d1
  q1 = q1
  sweep = sweep
  Delivery <- TwoDeliveries
  Driver <- OneDriver
  Request <- OneSlot
  Sweeper = sweep
  NoDriver = NoDriver
  Paid <- OneDelivery
  MaxClaimAttempts = 2
  Environment <- LostCalls
PROPERTIES
  StuckDriverFreed
  WaitingIsDispatched
CHECK_DEADLOCK FALSE
