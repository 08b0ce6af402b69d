SPECIFICATION Spec
CONSTANTS
    c1 = c1
    i1 = i1
    i2 = i2
    k1 = k1
    Clients = {c1}
    Invoices = {i1, i2}
    Items = {k1}
    MaxChanges = 2
    Protocols = {1, 2}
    DeviceRecords = {k1}
    WebRecords = {}
    PaidInvoices = {i1}
    MaxAmount = 1
    MaxTime = 2
    MaxColumns = 2
    MaxPrunes = 0
CHECK_DEADLOCK FALSE
PROPERTY ResolutionKeepsTotals
