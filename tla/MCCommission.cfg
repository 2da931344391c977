SPECIFICATION Spec
CONSTANTS
  Order = {o1, o2}
  Worker = {w1, w2}
  Sale <- MCSale
  Threshold = 5000
SYMMETRY Symmetry
INVARIANTS
  TypeOK
  LedgerReplays
  DecisionMatchesLedger
  SettlementIsEarned
  UndoneSaleOwesNothing
  RevenueMatchesLedger
CHECK_DEADLOCK FALSE
