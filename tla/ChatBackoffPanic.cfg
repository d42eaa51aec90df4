SPECIFICATION ChatSpec
CONSTANTS
    k1 = k1
    k2 = k2
    ChatClosers = {k1, k2}
    MaxDials = 3
    MaxAttempt = 3
    InitialBackoff = 7
    MaxBackoff = 20
    Width = 6
INVARIANT NoPanic
CHECK_DEADLOCK FALSE
