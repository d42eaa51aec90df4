SPECIFICATION GroupSendSpec
CONSTANTS
    alice = alice
    bob = bob
    carol = carol
    c1 = c1
    c2 = c2
    Calls = {c1}
    ACIs = {alice, bob, carol}
    Self = alice
    Timers = {0}
    MaxRev = 1
    MaxFaults = 1
    MaxPages = 1
    PageSize = 1
    Endorses = TRUE
    MaxChain = 2
    MaxIter = 2
    MaxDist = 2
SYMMETRY Symmetry
INVARIANTS SentDecryptable IterationsFresh
CHECK_DEADLOCK FALSE
