\* Two accounts, one address, two payouts of which the balance covers one at a
\* time, one verifier process.
CONSTANTS
    Users = {u1, u2}
    Addresses = {a1}
    Hashes = {h1}
    Workers = {w1}
    Tokens = {t1, t2}
    MaxPayouts = 2
    Amounts = {10}
    MaxAvailable = 10
    MaxOutstanding = 1
    LOCK = 0
    CLAIM = 1
    RETRY = 1
    None = None
    MIN_PAYOUT = 10
    FEE_TIER_THRESHOLD = 50
    FEE_TIER_LOW_BPS = 1000
    FEE_TIER_HIGH_BPS = 200
SPECIFICATION FairSpec
INVARIANTS ReservedWithinAvailable PayoutKeepsItsWallet
PROPERTIES LiveWalletKept FinalTransactionSettles
