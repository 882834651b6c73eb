SPECIFICATION Spec
CONSTANTS
  x1 = x1
  x2 = x2
  d1 = d1
  q1 = q1
  sweep = sweep
  NoDriver = NoDriver
  Delivery <- TwoDeliveries
  Driver <- OneDriver
  Request <- OneSlot
  Sweeper = sweep
  Paid <- OneDelivery
  MaxClaimAttempts = 1
  Environment <- Retries
PROPERTIES
  RetryFreesNobody
CHECK_DEADLOCK FALSE
