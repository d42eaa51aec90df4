SPECIFICATION PreKeyFairSpec
CONSTANTS
    m1 = m1
    Maintainers = {m1}
    MinAvailable = 1
    TopUpBatch = 2
    MaxID = 8
    MaxGen = 6
    MaxMessages = 2
    MaxFaults = 1
    MaxLost = 0
    MaxCrashes = 0
PROPERTIES ServerReplenished
CHECK_DEADLOCK FALSE
