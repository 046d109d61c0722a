SPECIFICATION AuditSpec
CONSTANTS
    auditor = auditor
    other = other
    home = home
    Nobody = Nobody
    MaxLeaves = 7
    MaxAudit = 2
    Samples = 1
    PageSize = 1
    Auditor = auditor
    Home = home
    Requests <- MCRequests
    Clients <- MCClients
    Rate = 1
    Burst = 2
    TrimAfter = 0
    IdleAfter = 4
    MaxStall = 1
    MaxClock = 5
CHECK_DEADLOCK FALSE
INVARIANT
    AcceptedLogsReplay
