SPECIFICATION Spec
CONSTANTS
    Capacity = 2
    DebtMax = 2
    Bytes = 2
    AfterStop = 1
    KernelLoss = {0, 3}
    MaxWire = 5
    MaxPanics = 2
    NoWindow = NoWindow
INVARIANTS
    SlotsConserved
    LossIsAdmitted
    CertainIsAdjacent
PROPERTY
    StopDrains
CHECK_DEADLOCK FALSE
