SPECIFICATION ParserSpec
CONSTANTS
    ByteSize = 8
    LengthBase = 4
    MaxTopic = 3
    Publishes <- MCPublishes
    MaxPackets = 2
\* The broker may fall silent.
CHECK_DEADLOCK FALSE
INVARIANTS
    InStep
    WholeMessages
    EveryPacketOnce
    NothingLeaks
