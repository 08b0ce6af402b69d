SPECIFICATION DeliveryFairSpec
CONSTANTS
    Clients = {1}
    Invoices = {}
    Items = {}
    Attachments = {2}
    MaxXid = 2
    MaxClock = 1
    Retention = 0
PROPERTY EventuallyInSync
