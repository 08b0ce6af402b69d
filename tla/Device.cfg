SPECIFICATION FairSpec
CONSTANTS
    k1 = k1
    Records = {k1}
    Columns = {col}
    col = col
    Values = {0, 1}
    MaxChanges = 2
    MaxEvents = 2
CHECK_DEADLOCK FALSE
INVARIANT TypeOK
INVARIANT Converges
INVARIANT EditsOnSeenSurvive
PROPERTY Life
PROPERTY EveryChangeSettles
