SPECIFICATION FairSpec
CONSTANTS
    w1 = w1
    w2 = w2
    w3 = w3
    Workers = {w1, w2, w3}
    max_queue = 2
    MaxAccepted = 4
    MaxDropped = 1
    MaxStops = 3
INVARIANTS
    TypeOK
    AcceptedInOnePlace
    ReturnedIsDrained
PROPERTIES
    AcceptedIsTaken
    StopEnds
CHECK_DEADLOCK FALSE
