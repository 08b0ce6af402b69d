SPECIFICATION FairSpec
CONSTANTS
    u1 = u1
    u2 = u2
    r1 = r1
    Accounts = {u1, u2}
    Calls = {r1}
    MaxIssued = 3
    MaxCalls = 1
    MaxStops = 1
CHECK_DEADLOCK FALSE
INVARIANTS OwnToken OwnRows StoredAgrees
PROPERTY EveryTransitionEnds
