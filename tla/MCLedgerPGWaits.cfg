SPECIFICATION FairSpec
CONSTANTS
    kt = kt
    k1 = k1
    k2 = k2
    k3 = k3
    desk = desk
    u1 = u1
    u2 = u2
    Ids <- MCIds
    Keys <- MCKeys
    NoKey = NoKey
    SupplyCap = 3
    Amounts <- MCAmounts
    MaxLog = 3
    Procs <- MCProcs
    Work <- Waits
    None = None
CHECK_DEADLOCK FALSE
PROPERTY
    RequestsFinish
