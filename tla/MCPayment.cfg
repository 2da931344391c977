SPECIFICATION Spec
CONSTANTS
  Order = {o1}
  Ref = {A, B}
  Request = {p1}
  Expiry = Expiry
  Reconciliation = Reconciliation
  NoRef = NoRef
  Mode = {"pickup"}
  MaxCrashes = 1
SYMMETRY Symmetry
INVARIANTS TypeOK MoneyCameIn WalletIsRows PaidByOne RefundIsBooked
CHECK_DEADLOCK FALSE
