SPECIFICATION FairSpec
CONSTANTS
    Threads = {t1, t2}
    Names = {honda, toyota}
    Contents = {v1}
    Absent = Absent
    Malformed = Malformed
    NoThread = NoThread
    NoEntry = NoEntry
    NoPath = NoPath
    MaxWrites = 1
INVARIANTS
    TypeOK
    SameDbc
PROPERTIES
    WrittenOnce
    LookupEnds
