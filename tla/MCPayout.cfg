SPECIFICATION FairSpec
CONSTANTS
    Weekly = weekly
    Retry = retry
    Job = {weekly, retry}
    Runner = {r1, r2}
    Token = {t1, t2, t3, t4}
    None = none
    e1 = e1
    e2 = e2
    m1 = m1
    m2 = m2
    Entry = {e1, e2}
    Merchant = {m1, m2}
    MerchantOf <- TwoMerchants
INVARIANTS
    TypeOK
    DoubleTransferExplained
    WalletConserved
PROPERTIES
    RunsExclusively
    JobsKeepRunning
