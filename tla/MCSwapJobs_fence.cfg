CONSTANTS
    Slots = {s1, s2}
    Workers = {w1, w2}
    Tokens = {t1, t2, t3, t4, t5}
    None = None
    MaxJobs = 2
    MaxVersion = 1
    MaxTime = 1
    LEASE = 1
    DEFER = 1
    COOLDOWN = 1
    MAXAGE = 2
    RETRIES = 1
    Gates = {"auto"}
    AdminOps = {"cancel", "retry", "manual"}
    Readers = {}
SPECIFICATION Spec
SYMMETRY Symmetry
INVARIANTS OneAtATime FencedCalls
