SPECIFICATION FairSpec
CONSTANTS
    Uses <- AllUses
    s1 = s1
    s2 = s2
    s3 = s3
    Streams = {s1, s2, s3}
    Handles = {h1, h2, h3}
    Addresses = {a1, a2}
    Tasks = {t1, t2}
    MaxIds = 2
    NoStream = NoStream
    NoHandle = NoHandle
    NoAddress = NoAddress
INVARIANTS
    OwnCallbacksOnly
    LostOnlyInline
    NoPoolCorruption
    DataKept
    DataReleased
    TasksKept
PROPERTIES
    ImplementsBridge
    TasksRun
CHECK_DEADLOCK FALSE
