CONSTANTS
    R = 1
    Threads = {t1, t2}
    Exits = {x1}
    None = None
    LEASE = 1
    MaxGen = 2
    MaxFaults = 1
    Changes = {"dash", "users", "missing"}
    Outcomes = {"unfit", "allow", "risk"}
SPECIFICATION FairSpec
INVARIANTS TypeOK OfferedIsCurrent
PROPERTIES VerdictInOrder Qualified
