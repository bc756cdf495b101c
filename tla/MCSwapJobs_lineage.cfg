CONSTANTS
    Slots = {s1}
    Workers = {w1}
    Tokens = {t1, t2, t3}
    None = None
    MaxJobs = 1
    MaxVersion = 1
    MaxTime = 2
    LEASE = 1
    DEFER = 1
    COOLDOWN = 1
    MAXAGE = 2
    RETRIES = 2
    Gates = {}
    AdminOps = {}
    Readers = {"sync", "dash"}
SPECIFICATION Spec
INVARIANT TypeOK
PROPERTIES PostMutationEvidence NeverRecalled
