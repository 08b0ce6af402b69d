SPECIFICATION DeliverySpec
CONSTANTS
    Clients = {}
    Invoices = {1, 2}
    Items = {3}
    Attachments = {}
    MaxXid = 2
    MaxClock = 1
    Retention = 0
INVARIANT DeliveryTypeOK
INVARIANT Delivered
