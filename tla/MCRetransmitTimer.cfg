SPECIFICATION TimerSpec
CONSTANTS
    Conn = {c1, c2}
    InitialRto = 2
    TCP_RTO_MIN = 3
    TCP_RTO_MAX = 6
    PowMax = 3
    MaxRetries = 2
    GracePeriod = 5
    TicksPerMs = 2
    MaxLate = 1
    MaxSends = 2
INVARIANTS
    TimerTypeOK
    PollIsPunctual
    OlderDueFirst
PROPERTIES
    GivesUpOnSchedule
    NeverPendingForever
CHECK_DEADLOCK FALSE
