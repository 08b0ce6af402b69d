SPECIFICATION Spec
CONSTANTS
    h1 = h1
    r1 = r1
    r2 = r2
    Handlers = {h1}
    Requests = {r1, r2}
    Totals = {1, 2}
    MaxIntents = 2
    MaxEvents = 4
    MaxTries = 1
    MaxEdits = 0
SYMMETRY Symmetry
CHECK_DEADLOCK FALSE
INVARIANT LedgerAgrees
