SPECIFICATION ChatReachableSpec
CONSTANTS
    k1 = k1
    k2 = k2
    ChatClosers = {k1, k2}
    MaxDials = 3
    MaxAttempt = 3
    InitialBackoff = 7
    MaxBackoff = 20
    Width = 6
INVARIANTS OneReader DelayCapped
PROPERTIES NoReconnectAfterClose CloseReturns Reconnects
CHECK_DEADLOCK FALSE
