SPECIFICATION FairSpec
CONSTANTS
    Clients = {c1, c2}
    QueueSize = 3
    MaxEvents = 3
INVARIANTS
    Conserved
    NoneLate
PROPERTY AllTaken
\* The clients stop after MaxEvents events; and the task can block itself.
CHECK_DEADLOCK FALSE
