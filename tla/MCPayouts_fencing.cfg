\* One payout, two transactions that may be submitted for it, two verifier
\* processes whose leases run out under each other.
CONSTANTS
    Users = {u1}
    Addresses = {a1}
    Hashes = {h1, h2}
    Workers = {w1, w2}
    Tokens = {t1, t2, t3}
    MaxPayouts = 1
    Amounts = {10, 11}
    MaxAvailable = 10
    MaxOutstanding = 2
    LOCK = 1
    CLAIM = 1
    RETRY = 1
    None = None
    MIN_PAYOUT = 10
    FEE_TIER_THRESHOLD = 50
    FEE_TIER_LOW_BPS = 1000
    FEE_TIER_HIGH_BPS = 200
SPECIFICATION Spec
SYMMETRY Symmetry
INVARIANT ConfirmedIsPaid
