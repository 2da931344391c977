SPECIFICATION Spec
CONSTANTS
  Order = {o1}
  Ref = {A, B}
  Request = {p1}
  Expiry = Expiry
  Reconciliation = Reconciliation
  NoRef = NoRef
  Mode = {"pickup", "delivery"}
  MaxCrashes = 1
SYMMETRY Symmetry
INVARIANT ExpiredIsUnpaid
CHECK_DEADLOCK FALSE
