SPECIFICATION FairSpec
CONSTANTS
    Topics = {t1, t2}
    Sockets = {s1, s2}
    BoxSize = 2
    Nil = Nil
    MaxFaults = 2
INVARIANTS
    FlagsAgree
    NotStranded
    Covered
PROPERTIES
    Reconnects
    Subscribes
\* WiFiEvent ignores a second STA_DISCONNECTED in a row: once the one-shot
\* timer has fired and the driver gives up, nobody joins the WiFi again.
CHECK_DEADLOCK FALSE
