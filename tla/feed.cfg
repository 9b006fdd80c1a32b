SPECIFICATION PySpec
CONSTANTS
    a = a
    b = b
    other = other
    Messages <- TwoMessages
    OtherAddress = other
    Bus = 0
    OtherBus = 128
    Values = {0, 1}
    Zero = 0
    Nanos = {1, 2}
    NanosMod = 4
    NanosPerSecond = 2
    Frequency <- Untimed
    CounterMod <- CounterOnA
    HasChecksum <- ChecksumOnB
    TrackAll = FALSE
    IgnoreChecksum = FALSE
    IgnoreCounter = FALSE
    MAX_BAD_COUNTER = 2
    CAN_INVALID_CNT = 1
    UINT8 = 256
    QueryTimes = {}
    MonotoneTime = TRUE
    MaxPending = 2
    Unset = Unset
    MaxLog = 2
INVARIANTS
    TypeOK
    ReadyMeansPopulated
    ViewIsCurrent
PROPERTIES
    ImplementsFeed
