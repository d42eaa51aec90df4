SPECIFICATION SyncSpec
CONSTANTS
    alice = alice
    c1 = c1
    c2 = c2
    Calls = {c1}
    ACIs = {alice}
    Self = alice
    Timers = {0, 1}
    MaxRev = 2
    MaxFaults = 1
    MaxPages = 2
    PageSize = 1
    Endorses = FALSE
INVARIANT TimerFollowsGroup
CHECK_DEADLOCK FALSE
