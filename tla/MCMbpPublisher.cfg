SPECIFICATION PubSpec
CONSTANTS
    Price = {1}
    Qty = {1}
    Inst = {i1}
    Ops <- MCOps
    Books <- MCBooks
    DatagramCap = 2
    SnapshotCap = 2
    SendOutcomes = {TRUE, FALSE}
    Heartbeats = TRUE
    MaxMktdataSeq = 5
    MaxDeltas = 3
    MaxSnapshots = 2
    MaxResets = 2
INVARIANTS
    ChannelOrder
    AnchorSeparates
    ResetBounds
CHECK_DEADLOCK FALSE
