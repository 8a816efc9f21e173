SPECIFICATION MCSpec
CONSTANTS
    NumWindows = 3
    StagingMax = 1
    MaxFaults = 2
    MaxRuns = 2
INVARIANTS
    WindowsAccounted
    InUseIsLeftAlone
    ObjectHasManifest
    BudgetIsMet
    FloorIsOldest
PROPERTY
    SettleReturns
CHECK_DEADLOCK FALSE
