SPECIFICATION FairSpec
CONSTANTS
    w1 = w1
    Payments = {1, 2, 3}
    Writers = {w1}
    BatchSize = 1
    MaxWrites = 1
    MaxStops = 1
CHECK_DEADLOCK FALSE
INVARIANT TypeOK
INVARIANT NothingMissed
INVARIANT WritesSurvive
INVARIANT RemovedIsRecoverable
PROPERTY RemovalEnds
