SPECIFICATION OrderSyncSpec
CONSTANTS
  SyncSlot = {r1, r2}
INVARIANT
  CancelConverges
CHECK_DEADLOCK FALSE
