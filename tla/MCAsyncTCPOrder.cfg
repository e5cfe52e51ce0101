SPECIFICATION Spec
CONSTANTS
    Clients = {c1, c2}
    QueueSize = 3
    MaxEvents = 4
INVARIANT OrderKept
\* The clients stop after MaxEvents events; and the task can block itself.
CHECK_DEADLOCK FALSE
