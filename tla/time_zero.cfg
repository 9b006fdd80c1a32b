SPECIFICATION MonFairSpec
CONSTANTS
    a = a
    b = b
    other = other
    Messages <- OneMessage
    OtherAddress = other
    Bus = 0
    OtherBus = 128
    Values = {0, 1}
    Zero = 0
    Nanos = {0, 1}
    NanosMod = 4
    NanosPerSecond = 2
    Frequency <- Untimed
    CounterMod <- NoCounters
    HasChecksum = {}
    TrackAll = FALSE
    IgnoreChecksum = FALSE
    IgnoreCounter = FALSE
    MAX_BAD_COUNTER = 5
    CAN_INVALID_CNT = 5
    UINT8 = 256
    QueryTimes = {}
    MonotoneTime = TRUE
    MaxPending = 1
PROPERTIES
    AllValuesFromThisCycle
