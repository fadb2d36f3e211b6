SPECIFICATION MCSpec
VIEW MCView
CONSTANTS
    Half = 8
    Byte = {1, 2}
    Payload <- MCPayload
    MaxPayload = 2
    WndMax = 2
    MaxRetries = 1
    InitialSeq = {14}
    PeerIsn = 14
    MaxStream = 3
    MaxCopies = 1
    MaxResent = 1
INVARIANTS
    TypeOK
    FlightBounded
    NothingUnackedForgotten
    OnlyUnackedPending
    EchoIsFaithful
    PendingMatchesStream
    OnlySynAckPending
PROPERTIES
    SendSideClosesForGood
    RespectsWindow
    ImplementsLifecycle
