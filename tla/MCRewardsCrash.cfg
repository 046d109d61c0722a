SPECIFICATION Spec
CONSTANTS
    h1 = h1
    h2 = h2
    cli = cli
    Workers <- MCWorkers
    ProcessOf <- MCProcessOf
    Events = {signup}
    Outsider = Outsider
    None = None
    Amounts = {0, 1}
    Funds = 3
    MaxAttempts = 2
    MaxOutside = 1
    MaxChanges = 1
    FaultKinds = {"crash"}
    MaxFaults = 1
CHECK_DEADLOCK FALSE
INVARIANT
    PaidAtMostOnce
