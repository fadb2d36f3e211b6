SPECIFICATION SessionSpec
CONSTANTS
    Payload <- MCPayload
    Stream <- MCStream
    Half = 16
    Byte = {1, 2}
    MaxPayload = 3
    WndMax = 3
    MaxRetries = 1
    InitialSeq = {30}
    ClientIsn = 29
    ClientBuf = 2
    ClientMss = 1
    MaxFaults = 0
    Patient = TRUE
    Interrupt = TRUE
    MayClose = FALSE
    StreamLen = 1
    MaxInFlight = 2
    MaxCopies = 0
CHECK_DEADLOCK FALSE
INVARIANT
    NeverReset
