SPECIFICATION MCSpec
CONSTANTS
    i1 = i1
    ch = ch
    None = None
    Inst = {i1}
    Channel = {ch}
    ChannelOf <- MCChannelOf
    Qty = {1, 2}
    Price = {1}
    Ops <- MCOps
    Books <- MCBooks
    MktdataSeqs = {0, 1, 2, 3, 4}
    InstrumentSeqs = {1, 2}
    SnapshotBegins <- MCBegins
    MaxLevels = 2
    ManifestSeqs = {}
    ReorderWindow = 1
    MaxBuffered = 2
    DatagramCap = 1
    SnapshotCap = 1
    SendOutcomes = {TRUE}
    Heartbeats = FALSE
    MaxMktdataSeq = 4
    MaxDeltas = 2
    MaxSnapshots = 2
    MaxResets = 1
    DuplicateSnapshots = FALSE
INVARIANT
    ReadyBookIsTruth
    DiscardedOnlyAtAnchor
PROPERTY
    ImplementsShard
CHECK_DEADLOCK FALSE
