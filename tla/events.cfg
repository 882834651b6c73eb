SPECIFICATION EventsSpec
CONSTANTS
  a1 = a1
  a2 = a2
  r1 = r1
  r2 = r2
  NoOne = NoOne
  Aggregate <- TwoAggregates
  Relay <- TwoRelays
  MaxId = 3
  BatchSize = 2
  Faults <- AllFaults
  MaxReport = 1
INVARIANTS
  OutboxInv
  NeverOvertakes
  StreamTellsTruth
PROPERTIES
  ImplementsEventLog
  CatchesUp
CHECK_DEADLOCK FALSE
