SPECIFICATION MCSpec
VIEW MCView
CONSTANTS
    Payload <- MCPayload
    Stream <- MCStream
    Half = 16
    Byte = {1, 2}
    MaxPayload = 3
    WndMax = 3
    MaxRetries = 1
    InitialSeq = {30}
    ClientIsn = 29
    ClientBuf = 1
    ClientMss = 2
    MaxFaults = 1
    Patient = FALSE
    Interrupt = TRUE
    MayClose = TRUE
    StreamLen = 2
    MaxInFlight = 2
    MaxCopies = 0
CHECK_DEADLOCK FALSE
INVARIANTS
    EchoInOrder
    SidesAgree
