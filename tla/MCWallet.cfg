SPECIFICATION Spec
CONSTANTS
    target = target
    Ids = {target}
    NumViews = 2
    IdOf <- MCIdOf
    None = None
    MaxTips = 2
    MaxLoads = 3
    MaxSubmits = 2
CHECK_DEADLOCK FALSE
INVARIANTS
    StaleNeedsOverlap
    ShownIncludesTip
    TipsNeedLostReplies
PROPERTY
    LoadsSettle
