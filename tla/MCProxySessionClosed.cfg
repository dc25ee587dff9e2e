\* A socket that closes while its INIT is being inflated.
SPECIFICATION Spec
CONSTANTS
    Sockets = {s1}
    MaxMessages = 2
    MaxPackets = 1
INVARIANTS
    ClosedSocketHasNoConnection
CHECK_DEADLOCK FALSE
