SPECIFICATION MCSpec
CONSTANTS
    i1 = i1
    i2 = i2
    ch1 = ch1
    ch2 = ch2
    None = None
    Inst = {i1, i2}
    Channel = {ch1, ch2}
    ChannelOf <- MCChannelOf
    Qty = {1}
    Price = {1, 2}
    Ops <- MCOps
    MktdataSeqs = {1, 2}
    InstrumentSeqs = {1, 2, 3}
    SnapshotBegins <- MCSnapshotBegins
    MaxLevels = 2
    ManifestSeqs = {1, 3}
    ReorderWindow = 1
    MaxBuffered = 2
INVARIANTS
    TypeOK
    ReadyIsCaughtUp
    DeltasWaitInOrder
    BudgetExact
    CrossedIsExact
