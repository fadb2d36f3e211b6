SPECIFICATION MCSpec
CONSTANTS
    Client = {c1}
    MaxQueue = 2
    MaxPackets = 6
    MaxSignals = 2
CHECK_DEADLOCK FALSE
PROPERTY
    ShutdownIsNoticed
