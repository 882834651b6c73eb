SPECIFICATION TrackingSpec
CONSTANTS
  MaxReport = 1
INVARIANT ClosedIsQuiet
CHECK_DEADLOCK FALSE
