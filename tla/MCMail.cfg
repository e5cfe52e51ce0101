SPECIFICATION MCSpec
CONSTANTS
    Producers = {p1, p2}
    Consumers = {c1, c2}
    QueueSize = 3
    BlockSize = 4
    LinkSize = 4
    MaxMsgs = 2
    Nil = Nil
    Torn = Torn
INVARIANTS
    PutNeverFails
    NoBlockLost
    Exclusive
    FreeListIntact
    SmallMailsKept
PROPERTIES
    Implements
    EveryMailReceived
    PoolRecovers
\* The producers stop after MaxMsgs messages; the consumers then wait forever.
CHECK_DEADLOCK FALSE
