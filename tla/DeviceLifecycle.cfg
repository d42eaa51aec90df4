SPECIFICATION LifeFairSpec
CONSTANTS
    c1 = c1
    c2 = c2
    bob = bob
    club = club
    Calls = {c1, c2}
    Contacts = {bob}
    Groups = {}
    MaxKey = 2
    MaxVersion = 2
    MaxPool = 2
    MaxFaults = 1
    MaxRestarts = 1
    MaxAttempts = 2
    MaxLinkFaults = 1
    Counts <- MCCounts
    MaxFrames = 1
    HTTPTimeout = 1
    PollChunk = 2
    TotalWait = 2
INVARIANTS SyncedIfCurrent UAKFollowsKey PublishedHeld
PROPERTIES VersionGoesBackOnlyWhenOvertaken SyncCatchesUp HandshakeEnds
CHECK_DEADLOCK FALSE
