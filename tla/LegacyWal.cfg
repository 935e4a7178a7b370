SPECIFICATION FairSpec
CONSTANTS
    e1 = e1
    e2 = e2
    e3 = e3
    x = x
    y = y
    EventId = {e1, e2, e3}
    Payload = {x, y}
    Key = {}
    Stagings <- MCStagings
    MaxFaults = 2
INVARIANTS
    TypeOK
    FlaggedIsLedgered
    LedgeredAsStaged
PROPERTIES
    ReplayDrains
    StagedIsReplayed
