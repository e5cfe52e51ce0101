SPECIFICATION ClientsSpec
CONSTANTS
    c1 = c1
    c2 = c2
    c3 = c3
    mqtt = mqtt
    t1 = t1
    t2 = t2
    p1 = p1
    p2 = p2
    Accepted = {c1, c2, c3}
    Own = {mqtt}
    Tasks = {t1, t2}
    Pcbs = {p1, p2}
    SlotCount = 2
    MaxConnections = 3
\* The bounds end the run.
CHECK_DEADLOCK FALSE
INVARIANTS
    Guarded
    SlotsApart
PROPERTIES
    EldestFirst
