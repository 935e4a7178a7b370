SPECIFICATION FairSpec
CONSTANTS
    e1 = e1
    e2 = e2
    x = x
    y = y
    k1 = k1
    k2 = k2
    p1 = p1
    p2 = p2
    t1 = t1
    t2 = t2
    t3 = t3
    EventId = {e1, e2}
    Payload = {x, y}
    Key = {k1, k2}
    Threads = {t1, t2, t3}
    Processes = {p1, p2}
    ProcessOf <- MCProcessOf
    pool_max = 1
    Batches <- MCBatches
    Stagings <- MCStagings
    NoThread = NoThread
    MaxFaults = 1
INVARIANTS
    TypeOK
    ChainIntact
    AckedDurable
    TablesAgree
PROPERTIES
    HistoryOnlyGrows
    CallsEnd
    StagedIsPromoted
