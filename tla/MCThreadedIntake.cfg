SPECIFICATION Spec
CONSTANTS
    Connection = {a, b}
    Kind <- MCKind
    Number <- MCNumber
    PayloadEnds <- MCPayloadEnds
    CounterLimit = 8
    QueueDepth = 1
    Batch = 2
    IdentityWindow = 1
    MaxFailures = 1
    a = a
    b = b
INVARIANTS
    QuotesInVenueOrder
    TradeOnce
    ClaimedIsCarried
PROPERTIES
    HeldDrains
    OrderKept
CHECK_DEADLOCK FALSE
