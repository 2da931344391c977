CONSTANTS
    None = None
    o1 = o1  o2 = o2  o3 = o3
    j1 = j1  j2 = j2  r1 = r1  r2 = r2  t1 = t1  t2 = t2
    User = {1, 2}
    Prize = {1, 2, 3}
    Editions <- MCEditions
    Order = {o1, o2, o3}
    Past = {o1, o2}
    Owner <- MCOwner
    Points <- MCPoints
    Removable = {2}
    Job = {j1}
    Request = {r1}
    Teller = {t1}
    Goal = 2
    MinimumBags = 1
    Recipients = {1, 2}
    MaxFailures = 1
SPECIFICATION Spec
CHECK_DEADLOCK FALSE
INVARIANTS TypeOK BagsCountOnce OutcomeAsAnnounced
