SPECIFICATION MonFairSpec
CONSTANTS
    a = a
    b = b
    other = other
    Messages <- TwoMessages
    OtherAddress = other
    Bus = 0
    OtherBus = 128
    Values = {0, 1}
    Zero = 0
    Nanos <- TimeoutNanos
    NanosMod = 64
    NanosPerSecond = 2
    Frequency <- SlowAndFast
    CounterMod <- NoCounters
    HasChecksum <- OneMessage
    TrackAll = FALSE
    IgnoreChecksum = FALSE
    IgnoreCounter = FALSE
    MAX_BAD_COUNTER = 5
    CAN_INVALID_CNT = 5
    UINT8 = 256
    QueryTimes = {0, 12}
    MonotoneTime = TRUE
    MaxPending = 2
INVARIANTS
    BusTimeoutCountsAsInvalid
    ValidMeansFresh
    CycleComplete
PROPERTIES
    InvalidHasCause
    AllValuesFromThisCycle
    LateIsNoticed
