SPECIFICATION FairSpec
CONSTANTS
    Processes = {p1, p2, p3}
    Latest = 2
    Creates = 2
    MaxFaults = 1
INVARIANTS
    TypeOK
    RecordedIsBuilt
    OpenIsMigrated
PROPERTY
    OpensInTheEnd
