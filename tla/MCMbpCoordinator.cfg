SPECIFICATION MCSpec
CONSTANTS
    a = a
    b = b
    x = x
    s1 = s1
    s2 = s2
    c1 = c1
    c2 = c2
    Shard = {s1, s2}
    Channel = {c1, c2}
    Inst = {a, b, x}
    ChannelOf <- MCChannelOf
    ShardOf <- MCShardOf
    InboxCap = 1
    MaxBarriers = 2
    Records <- MCAllRecords
    Stream <- MCGroupStream
    MaxRecords = 5
INVARIANTS
    OneEraPerBook
    BarrierDrains
    RecordsGoHome
PROPERTY
    DispatchReturns
CHECK_DEADLOCK FALSE
