SPECIFICATION Spec
CONSTANTS
  p1 = p1
  p2 = p2
  r1 = r1
  r2 = r2
  k1 = k1
  NoKey = NoKey
  Nobody = Nobody
  Orphan = Orphan
  Payment <- OnePayment
  Request <- TwoRequests
  Key <- NoKeys
  Environment <- FaultsAndRefunds
SYMMETRY Symmetry
INVARIANTS
  PaymentsInv
PROPERTIES
  OutcomeFinal
