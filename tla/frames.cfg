SPECIFICATION PackSpec
CONSTANTS
    WordBits = 20
    MagicPad <- GraPad
    Messages <- AllMessages
    Senders <- Users
    OtherAddress = OtherAddress
    Buses = {0}
    Size <- MessageSize
    Layout <- MessageLayout
    Checksum <- MessageChecksum
    Make <- MessageMake
    Address <- MessageAddress
    Given <- Calls
    Overrides = {2, 9}
    NoOverride = NoOverride
    NoEntry = NoEntry
    NoFrame = NoFrame
INVARIANTS
    ParsesBack
    BitErrorsRejected
    OwnBitsExcluded
    ChecksumsAreCrcs
PROPERTIES
    ImplementsPacker
    CountsPerMessage
