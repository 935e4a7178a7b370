SPECIFICATION FairSpec
CONSTANTS
    A = A
    B = B
    C = C
    f = f
    g = g
    r1 = r1
    r2 = r2
    NoField = NoField
    NoWriter = NoWriter
    RunId = {r1, r2}
    Dataset = {A, B, C}
    Field = {f, g}
    Writers = {w1, w2}
    Readers = {q1}
    Events <- MCEvents
    Asked <- MCAsked
    MaxFaults = 1
INVARIANTS
    TypeOK
    ImpactIsComplete
    ImpactIsDownstream
PROPERTY
    QueriesEnd
