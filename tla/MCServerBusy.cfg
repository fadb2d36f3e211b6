SPECIFICATION BusySpec
CONSTANTS
    Client = {c1}
    MaxQueue = 2
    MaxPackets = 6
    MaxSignals = 1
CHECK_DEADLOCK FALSE
PROPERTY
    DrainingEnds
