SPECIFICATION PreKeySpec
CONSTANTS
    m1 = m1
    m2 = m2
    Maintainers = {m1, m2}
    MinAvailable = 2
    TopUpBatch = 2
    MaxID = 8
    MaxGen = 6
    MaxMessages = 2
    MaxFaults = 0
    MaxLost = 0
    MaxCrashes = 0
SYMMETRY MaintainerSymmetry
INVARIANTS HandedOutDecryptable
CHECK_DEADLOCK FALSE
