SPECIFICATION Spec
CONSTANTS
    Capacity = 2
    DebtMax = 2
    Bytes = 2
    AfterStop = 1
    KernelLoss = {0}
    MaxWire = 5
    MaxPanics = 0
    NoWindow = NoWindow
INVARIANT
    OverflowFreeIsClean
CHECK_DEADLOCK FALSE
