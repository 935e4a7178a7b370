SPECIFICATION Spec
CONSTANTS
    A = A
    B = B
    f = f
    g = g
    r1 = r1
    r2 = r2
    e1 = e1
    e2 = e2
    e3 = e3
    e4 = e4
    k = k
    NoKey = NoKey
    NoAnswer = NoAnswer
    NoField = NoField
    Threads = {t1, t2}
    RunId = {r1, r2}
    Dataset = {A, B}
    Field = {f, g}
    Payload = {e1, e2, e3, e4}
    Content <- MCContent
    EventId <- MCEventId
    Key <- MCKey
    Requests <- KeyedBatches
    MaxIds = 3
    MaxFaults = 0
INVARIANT
    AcknowledgedIsLedgered
CHECK_DEADLOCK FALSE
