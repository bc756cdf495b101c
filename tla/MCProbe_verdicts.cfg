CONSTANTS
    N = 3
    Rows = {r1}
    Ips = {x1, x2}
    None = None
    Liars = {3}
    THRESHOLD = 2
    COOLDOWN = 1
    ATTEMPTS = 2
    Others = {1}
    MaxEvents = 1
SPECIFICATION FairSpec
INVARIANT TypeOK
PROPERTIES WorkingNotDead TrustedIsTrue EndpointsReturn Concluded
