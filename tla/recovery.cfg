SPECIFICATION RecoverySpec
CONSTANTS
  p1 = p1
  r1 = r1
  c1 = c1
  c2 = c2
  NoKey = NoKey
  Nobody = Nobody
  Orphan = Orphan
  Payment <- OnePayment
  Request <- OneRequest
  Key <- NoKeys
  Environment <- FaultsAndRefunds
  Garbage = Garbage
  Ignored = Ignored
  NoClaim = NoClaim
  DeadClaim = DeadClaim
  MaxEvent = 1
  Consumer <- TwoConsumers
  MaxAttempts = 2
  MaxLog = 2
  MaxGeneration = 1
  MaxFailures = 1
  MaxExpiries = 0
PROPERTIES
  OutcomeSpreads
  EverythingCommitted
CHECK_DEADLOCK FALSE
