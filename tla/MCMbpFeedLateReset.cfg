SPECIFICATION MCSpec
CONSTANTS
    i1 = i1
    ch = ch
    None = None
    Inst = {i1}
    Channel = {ch}
    ChannelOf <- MCChannelOf
    Qty = {1, 2}
    Price = {1}
    Ops <- MCOps
    Books <- MCBooks
    MktdataSeqs = {0, 1, 2, 3, 4, 5}
    InstrumentSeqs = {1, 2, 3}
    SnapshotBegins <- MCBegins
    MaxLevels = 2
    ManifestSeqs = {}
    ReorderWindow = 1
    MaxBuffered = 2
    DatagramCap = 2
    SnapshotCap = 2
    SendOutcomes = {TRUE}
    Heartbeats = FALSE
    MaxMktdataSeq = 5
    MaxDeltas = 0
    MaxSnapshots = 2
    MaxResets = 2
    DuplicateSnapshots = FALSE
INVARIANT
    ResetNeverForgotten
CHECK_DEADLOCK FALSE
