SPECIFICATION Spec
CONSTANTS
    r1 = r1
    r2 = r2
    r3 = r3
    sidecar = sidecar
    command = command
    None = None
    Calendars = {c1}
    Processes = {sidecar, command}
    Requests = {r1, r2, r3}
    ProcessOf <- MCProcessOf
    Kinds <- MCKinds
    SthKeys = {k1, k2}
    MaxSize = 2
    MaxClock = 2
    MaxRestarts = 1
SYMMETRY KeySymmetry
CHECK_DEADLOCK FALSE
INVARIANTS
    SnapshotsArePrefixes
    IssuedVerify
    OneTreeHeadPerSize
    ReceiptsMatch
PROPERTY
    CachesGrow
