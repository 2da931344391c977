SPECIFICATION Spec
CONSTANTS
  Order = {o1, o2}
  Admin = {a1, a2}
  Delivery <- MCDelivery
  Settled = {2}
  Door = {0}
  Counted <- MCCounted
  FloatAmount = {2}
  MaxBatches = 2
  MaxMovements = 1
SYMMETRY Symmetry
INVARIANTS TypeOK PocketExplained FailureSettledOnce
PROPERTIES HandoverPaysDown
CHECK_DEADLOCK FALSE
