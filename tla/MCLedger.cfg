SPECIFICATION Spec
CONSTANTS
    Ids <- MCIds
    Keys = {k1, k2, k3}
    NoKey = NoKey
    SupplyCap = 3
    Amounts <- MCAmounts
    MaxLog = 5
SYMMETRY KeySymmetry
CHECK_DEADLOCK FALSE
INVARIANTS
    TypeOK
    SupplyConserved
    BalancesReplayLog
    NoncesCountLeaves
    OneHolderPerKey
PROPERTIES
    DebitsAreSigned
    KeyChangesAreSigned
    StrandedPointsOnlyReturn
