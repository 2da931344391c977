SPECIFICATION Spec
CONSTANTS
    o1 = o1
    o2 = o2
    Order = {o1, o2}
    Worker = {w1, w2}
    Amount <- Amounts
    Online = {o1, o2}
    Legacy = {o1}
    LastGoal = 1
    Target = 2
    Targets = {1, 2}
    MaxInterventions = 1
    None = none
SYMMETRY WorkerSymmetry
CHECK_DEADLOCK FALSE
INVARIANTS
    TypeOK
    LedgerMatchesCharity
    PoolsHoldPledges
    FundedIsSucceededOnce
    RefundedPledgeOnlyInRace
