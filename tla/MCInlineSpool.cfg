SPECIFICATION Spec
CONSTANTS
    NumWindows = 3
    Budget = 2
    NumGrains = 2
    MaxFaults = 3
INVARIANTS
    NothingForgotten
    NeverInsertedTwice
PROPERTIES
    PromiseKept
    EveryWindowSettles
CHECK_DEADLOCK FALSE
