SPECIFICATION ChanSpec
CONSTANTS
    a = a
    other = other
    Message = a
    Messages <- OneMessage
    OtherAddress = other
    Bus = 0
    OtherBus = 128
    Values = {0}
    Zero = 0
    Nanos = {1}
    NanosMod = 4
    NanosPerSecond = 2
    Frequency <- Untimed
    CounterMod <- SixteenBitCounter
    HasChecksum = {}
    TrackAll = FALSE
    IgnoreChecksum = FALSE
    IgnoreCounter = FALSE
    MAX_BAD_COUNTER = 5
    CAN_INVALID_CNT = 5
    UINT8 = 256
    QueryTimes = {}
    MonotoneTime = TRUE
    MaxPending = 1
    Overrides = {}
    NoOverride = NoOverride
    NoEntry = NoEntry
    NoFrame = NoFrame
    MaxFaults = 0
INVARIANTS
    FaultsAbsorbed
