CONSTANTS
    Workers = {w1, w2}
    Runs = {r1, r2, r3, r4}
    N = 2
    None = None
    LEASE = 1
    RETRIES = 2
    MaxVersion = 1
    MaxFaults = 2
SPECIFICATION FairSpec
INVARIANT OneRun
PROPERTIES ImplementsHold InventoryNeverOlder SuccessIsComplete FollowUpServed RequestsTaken
