SPECIFICATION Spec
CONSTANTS
  Order = {o1, o2}
  Request = {p1, p2}
  Published <- MCLastBag
  NoLimit = NoLimit
  MaxGone = 1
SYMMETRY Symmetry
INVARIANT NeverOversold
CHECK_DEADLOCK FALSE
