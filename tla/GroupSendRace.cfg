SPECIFICATION GroupSendSpec
CONSTANTS
    alice = alice
    bob = bob
    carol = carol
    c1 = c1
    c2 = c2
    Calls = {c1, c2}
    ACIs = {alice, bob}
    Self = alice
    Timers = {0}
    MaxRev = 2
    MaxFaults = 0
    MaxPages = 1
    PageSize = 1
    Endorses = TRUE
    MaxChain = 2
    MaxIter = 2
    MaxDist = 2
INVARIANTS SentDecryptable
CHECK_DEADLOCK FALSE
