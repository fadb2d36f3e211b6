SPECIFICATION MCSpec
CONSTANTS
    Client = {c1, c2}
    MaxQueue = 2
    MaxPackets = 6
    MaxSignals = 2
CHECK_DEADLOCK FALSE
INVARIANTS
    TypeOK
    WaitsForClosingConnections
PROPERTIES
    DeadlineIsFinal
    DrainingEnds
    DueIsServed
