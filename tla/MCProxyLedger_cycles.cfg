CONSTANTS
    MaxProxies = 1
    u1 = u1
    Users = {u1}
    Owner <- OneOwner
    IPs = {x1, x2}
    None = None
    MaxTime = 3
    STALE = 1
    PROBATION = 2
    DEAD = 1
    HealthKinds = {"trusted", "untrusted", "blocked"}
    Failing = {}
    EarnappVerdicts = {"allow", "pending"}
    EarnappExits = {x1, x2, None}
    UserStates = {"active", "paused"}
    EditKinds = {"archive", "replace"}
SPECIFICATION Spec
SYMMETRY Symmetry
INVARIANTS TypeOK LedgerDisjoint PaidWasObserved OnlyEarnersHoldPending
PROPERTIES ProbationServed
