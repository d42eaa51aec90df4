SPECIFICATION PreKeyFairSpec
CONSTANTS
    m1 = m1
    Maintainers = {m1}
    MinAvailable = 2
    TopUpBatch = 2
    MaxID = 8
    MaxGen = 6
    MaxMessages = 2
    MaxFaults = 1
    MaxLost = 1
    MaxCrashes = 1
INVARIANTS PublishedDecryptable PublishedHasRow KyberIDsValid InventoryAccurate
PROPERTIES SmoothlyReplenished
CHECK_DEADLOCK FALSE
