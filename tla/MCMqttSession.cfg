SPECIFICATION Spec
CONSTANTS
    u1 = u1
    u2 = u2
    Users = {u1,u2}
    Ops = {"QOS0", "QOS2"}
    MaxId = 2
    Window = 2
    BrokerIds = {1}
    MaxWork = 3
    MaxMessages = 2
    MaxRepeated = 1
    MaxConnections = 2
    MaxFailures = 1
\* Everybody may fall silent, and the bounds end the run.
CHECK_DEADLOCK FALSE
INVARIANTS
    Framed
    ExactlyOnce
    IdsApart
PROPERTIES
    Acknowledged
