SPECIFICATION PreKeySpec
CONSTANTS
    m1 = m1
    Maintainers = {m1}
    MinAvailable = 2
    TopUpBatch = 2
    MaxID = 8
    MaxGen = 6
    MaxMessages = 2
    MaxFaults = 0
    MaxLost = 0
    MaxCrashes = 1
INVARIANTS HandedOutDecryptable
CHECK_DEADLOCK FALSE
