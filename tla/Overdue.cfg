SPECIFICATION OverdueSpec
CONSTANTS
    s1 = s1
    s2 = s2
    r1 = r1
    i1 = i1
    i2 = i2
    Servers = {s1, s2}
    Requests = {r1}
    Invoices = {i1, i2}
    MaxDay = 3
    MaxEdits = 2
    MaxProcessStops = 1
SYMMETRY Alike
CHECK_DEADLOCK FALSE
INVARIANTS OneNoticePerMark BacklogStaysSilent
