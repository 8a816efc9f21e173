SPECIFICATION Spec
CONSTANTS
    a = a
    b = b
    Symbol = {a, b}
    MaxId = 5
    Second = 2
    Horizon = 1
    Floor = 1
    SeedCap = 1
    Cap = 2
    MaxNow = 7
    Absent = Absent
    Listed = Listed
    NoRecord = NoRecord
    Damaged = Damaged
INVARIANTS
    RecordServes
PROPERTY
    IdentityKept
CHECK_DEADLOCK FALSE
