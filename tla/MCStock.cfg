SPECIFICATION Spec
CONSTANTS
  Order = {o1, o2}
  Request = {p1, p2}
  Published <- MCPublished
  NoLimit = NoLimit
  MaxGone = 1
SYMMETRY Symmetry
INVARIANTS TypeOK SlotWithinMax CountersCoverOrders
PROPERTIES OnlyAnEditOvercommits CashBagSoldOnce
CHECK_DEADLOCK FALSE
