SPECIFICATION MCSpec
CONSTANTS
    Half = 8
    Byte = {1, 2}
    Payload <- MCPayload
    MaxPayload = 2
    WndMax = 3
    MaxRetries = 1
    InitialSeq = {14}
    PeerIsn = 14
    MaxStream = 3
    MaxCopies = 1
    MaxResent = 1
INVARIANT
    EveryReplyFits
