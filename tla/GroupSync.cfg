SPECIFICATION SyncFairSpec
CONSTANTS
    alice = alice
    c1 = c1
    c2 = c2
    Calls = {c1, c2}
    ACIs = {alice}
    Self = alice
    Timers = {0}
    MaxRev = 2
    MaxFaults = 1
    MaxPages = 2
    PageSize = 1
    Endorses = FALSE
INVARIANTS CacheNotAhead SyncNotStale
PROPERTIES ForgetsOnlyOnRefusal CatchesUp
CHECK_DEADLOCK FALSE
