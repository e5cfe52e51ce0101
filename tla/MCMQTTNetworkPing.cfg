SPECIFICATION FairSpec
CONSTANTS
    Topics = {t1}
    Sockets = {s1}
    BoxSize = 2
    Nil = Nil
    MaxFaults = 1
PROPERTY PingTimeoutHandled
CHECK_DEADLOCK FALSE
