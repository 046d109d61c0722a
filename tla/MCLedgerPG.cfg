SPECIFICATION Spec
CONSTANTS
    kt = kt
    k1 = k1
    k2 = k2
    k3 = k3
    desk = desk
    u1 = u1
    u2 = u2
    Ids <- MCIds
    Keys <- MCKeys
    NoKey = NoKey
    SupplyCap = 3
    Amounts <- MCAmounts
    MaxLog = 4
    Procs <- MCProcs
    Work <- Traffic
    None = None
CHECK_DEADLOCK FALSE
INVARIANTS
    TypeOK
    CirclesNeedRegistration
    RacesOnlyLose
PROPERTY
    ImplementsLedger
