SPECIFICATION FairSpec
CONSTANTS
    s1 = s1
    r1 = r1
    k1 = k1
    Servers = {s1}
    Slots = {r1}
    Pool = 3
    Schedules = {k1}
    Every = 1
    Ends = {0, 1}
    YearInNumber = TRUE
    SequenceLast = TRUE
    NewYear = 2
    MaxDay = 2
    MaxStarts = 3
    MaxStops = 1
CHECK_DEADLOCK FALSE
INVARIANTS TypeOK OrderlyNumbers NeverAfterEnd EveryInvoiceCounted
PROPERTY EveryCreationEnds
