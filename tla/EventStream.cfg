SPECIFICATION StreamFairSpec
CONSTANTS
    e1 = e1
    k1 = k1
    ChatClosers = {k1}
    MaxDials = 2
    MaxAttempt = 1
    InitialBackoff = 2
    MaxBackoff = 2
    Width = 3
    Envelopes = {e1}
    Silent = {}
    EventBuffer = 1
INVARIANT AckedAfterEmit
PROPERTIES RunReturns AllAcked
CHECK_DEADLOCK FALSE
