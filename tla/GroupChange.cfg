SPECIFICATION MCSpec
CONSTANTS
    alice = alice
    bob = bob
    c1 = c1
    c2 = c2
    Calls = {c1, c2}
    ACIs = {alice, bob}
    Self = alice
    Timers = {0}
    MaxRev = 2
    MaxFaults = 1
    MaxPages = 1
    PageSize = 2
    Endorses = FALSE
SYMMETRY Symmetry
INVARIANTS PatchAuthorised NoticeCoversChange
PROPERTY ChangeIsCached
CHECK_DEADLOCK FALSE
VIEW View
