SPECIFICATION Spec
CONSTANTS
  p1 = p1
  p2 = p2
  r1 = r1
  r2 = r2
  k1 = k1
  NoKey = NoKey
  Nobody = Nobody
  Orphan = Orphan
  Payment <- TwoPayments
  Request <- TwoRequests
  Key <- OneKey
  Environment <- NothingFails
SYMMETRY Symmetry
INVARIANTS
  NeverChargedTwice
  OrderKnowsTruth
  PublishedOnce
