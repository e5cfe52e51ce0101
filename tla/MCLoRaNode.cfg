SPECIFICATION Spec
CONSTANTS
    Services = {"gateway"}
    Quiet = 2
    Retries = 3
    Wrap = 4
    NetworkMails = 2
    ServiceMails = 1
    CommandMails = 1
    MaxPackets = 2
    MaxCommands = 1
INVARIANTS
    Spaced
PROPERTIES
    RelayedInOrder
    BlocksReturn
    Served
