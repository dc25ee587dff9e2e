\* Two sockets of one worker, which share the process-wide ENet initialization:
\* safety and liveness of both sessions.
SPECIFICATION LiveSpec
CONSTANTS
    Sockets = {s1, s2}
    MaxMessages = 2
    MaxPackets = 2
INVARIANTS
    OneClient
    InitBalanced
PROPERTIES
    CloseEndsEnet
    EnetEndsSocket
    FailureAnswered
CHECK_DEADLOCK FALSE
