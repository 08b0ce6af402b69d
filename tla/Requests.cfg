SPECIFICATION MCSpec
CONSTANTS
    i1 = i1
    c1 = c1
    i2 = i2
    Invoices = {i1, i2}
    Clients = {c1}
    MaxRequests = 2
    MaxTries = 2
    MaxStops = 1
SYMMETRY Alike
CHECK_DEADLOCK FALSE
INVARIANT TypeOK
INVARIANT Accounted
INVARIANT LinkedDocumentCurrent
INVARIANT ErasureLeavesNothing
