SPECIFICATION FairSpec
CONSTANTS
    c1 = c1
    c2 = c2
    k1 = k1
    k2 = k2
    q1 = q1
    NoCall = NoCall
    Calls = {c1}
    Closers = {k1}
    Requests = {}
    MaxInbound = 1
PROPERTIES
    CloseTearsDownConnection
CHECK_DEADLOCK FALSE
