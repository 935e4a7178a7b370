SPECIFICATION Spec
CONSTANTS
    e1 = e1
    e2 = e2
    e3 = e3
    x = x
    y = y
    k1 = k1
    k2 = k2
    p1 = p1
    p2 = p2
    t1 = t1
    t2 = t2
    EventId = {e1, e2, e3}
    Payload = {x, y}
    Key = {k1, k2}
    Threads = {t1, t2}
    Processes = {p1, p2}
    ProcessOf <- ProcessEach
    Batches <- MCBatches
    Stagings <- MCStagings
    NoThread = NoThread
    MaxFaults = 0
INVARIANT
    ChainIntact
