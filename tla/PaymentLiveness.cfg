SPECIFICATION Spec
CONSTANTS
  Order = {o1}
  Ref = {A}
  Request = {p1}
  Expiry = Expiry
  Reconciliation = Reconciliation
  NoRef = NoRef
  Mode = {"pickup", "delivery"}
  MaxCrashes = 2
PROPERTY ReconciliationRescues
CHECK_DEADLOCK FALSE
