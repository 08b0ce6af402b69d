SPECIFICATION Spec
CONSTANTS
    c1 = c1
    i1 = i1
    k1 = k1
    Clients = {c1}
    Invoices = {i1}
    Items = {k1}
    MaxChanges = 1
    Protocols = {1, 2}
    DeviceRecords = {i1, k1}
    WebRecords = {i1}
    PaidInvoices = {i1}
    MaxAmount = 1
    MaxTime = 2
    MaxColumns = 2
    MaxPrunes = 1
CHECK_DEADLOCK FALSE
INVARIANT TypeOK
INVARIANT OneEffectPerChange
INVARIANT LiveHasNoTombstone
PROPERTY ProtectedUntouched
PROPERTY NoBlindOverwrite
