SPECIFICATION Spec
CONSTANTS
    c1 = c1
    c2 = c2
    k1 = k1
    k2 = k2
    q1 = q1
    NoCall = NoCall
    Calls = {c1, c2}
    Closers = {k1, k2}
    Requests = {}
    MaxInbound = 1
SYMMETRY Symmetric
INVARIANTS NoChannelPanic ResponseMatchesRequest ClosedIsDrained
PROPERTY ImplementsRpcChannel
CHECK_DEADLOCK FALSE
