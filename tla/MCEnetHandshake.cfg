\* Two connections of one client, one restart, a server of two peers.
SPECIFICATION Spec
CONSTANTS
    Client = "client"
    Server = "server"
    Slots <- MCSlots
    Abrupt = {"server"}
    MaxConnects = 2
    MaxRestarts = 1
    MaxCopies = 2
INVARIANTS TypeOK EstablishedOnce EndsAgree EndedByItsEnds
PROPERTIES AcknowledgedIsOver
CHECK_DEADLOCK FALSE
