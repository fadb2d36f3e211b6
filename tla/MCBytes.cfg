SPECIFICATION BytesSpec
CONSTANTS
    ByteSize = 256
    ChunkBytes = 2
    AccSize = 1073741824
    NarrowSize = 1073741824
    ETHERNET_MTU = 48
    Packets <- MCPackets
    SendInfos <- MCSendInfos
    Flows <- MCFlows
    Noise = {128}
    MaxBytes = 12
INVARIANTS
    DamageIsNoticed
    IntactIsUnderstood
    EchoReachesClient
    UdpIsChecked
    CalculateIsRfc1071
    AlwaysFoldedIsRfc1071
    RangeCheckedIsRfc1071
    NaiveIsRightUpToLimit
    StoredChecksumVerifies
