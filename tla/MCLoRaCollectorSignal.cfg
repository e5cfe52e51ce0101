SPECIFICATION Spec
CONSTANTS
    g1 = g1
    g2 = g2
    b1 = b1
    b2 = b2
    Tags = {g1, empty}
    NoTag = empty
    Beacons = {b1, b2}
    Default <- MCDefault
    Configs <- MCConfigs
    Long <- MCLong
    InboxSize = 2
    SignalSize = 2
    MaxMsgs = 5
INVARIANT SignalAllocated
\* After MaxMsgs messages everything is published and the threads wait.
CHECK_DEADLOCK FALSE
