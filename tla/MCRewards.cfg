SPECIFICATION FairSpec
CONSTANTS
    h1 = h1
    h2 = h2
    cli = cli
    Workers <- MCWorkers
    ProcessOf <- MCProcessOf
    Events = {signup}
    Outsider = Outsider
    None = None
    Amounts = {0, 1}
    Funds = 3
    MaxAttempts = 2
    MaxOutside = 1
    MaxChanges = 1
    FaultKinds = {"crash", "lost_reply", "db_error", "overrun"}
    MaxFaults = 2
CHECK_DEADLOCK FALSE
INVARIANTS
    TypeOK
    RetriesNeedOutsiders
    ExtraPaymentsNeedFaults
PROPERTIES
    CompletedIsFinal
    WorkersEnd
    DeliveredIsPaid
