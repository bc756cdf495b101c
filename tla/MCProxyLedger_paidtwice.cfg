CONSTANTS
    MaxProxies = 2
    u1 = u1
    Users = {u1}
    Owner <- OneOwner
    IPs = {x1}
    None = None
    MaxTime = 2
    STALE = 1
    PROBATION = 2
    DEAD = 1
    HealthKinds = {"trusted"}
    Failing = {1}
    EarnappVerdicts = {"allow"}
    EarnappExits = {x1, None}
    UserStates = {"active"}
    EditKinds = {}
SPECIFICATION Spec
SYMMETRY Symmetry
INVARIANTS PaidOnce
