SPECIFICATION Spec
CONSTANTS
    h1 = h1
    h2 = h2
    r1 = r1
    r2 = r2
    Handlers = {h1, h2}
    Requests = {r1, r2}
    Totals = {1, 2}
    MaxIntents = 2
    MaxEvents = 2
    MaxTries = 1
    MaxEdits = 2
SYMMETRY Symmetry
CHECK_DEADLOCK FALSE
INVARIANTS TypeOK OnePendingAttempt RetiredIsCanceled PayableIsKnown
PROPERTY CompletedStays
