CONSTANTS
    Proxies = {p1}
    h1 = h1
    Host <- OneHost
    HealthWorkers = {w1}
    EarnappWorkers = {e1}
    Tokens = {t1, t2, t3, t4}
    None = None
    BATCH = 2
    Limits = {1}
    INTERVAL = 1
    RETRY = 1
    REFRESH = 1
    LEASE = 1
    HealthResults = {"live", "unattested", "moved", "late", "inconclusive", "blocked", "failed", "down"}
    MaxGen = 2
SPECIFICATION FairSpec
INVARIANTS OnlyFreshResultsStored EarnappClaimMeansOnline
PROPERTIES EarnappServed HealthServed
