\* 12 numbers in 6 windows of 2: 18 commands go round them one and a half times.
SPECIFICATION Spec
CONSTANTS
    ReliableWindows = 6
    ReliableWindowSize = 2
    FreeReliableWindows = 3
    InTransit = 3
    MaximumWaiting = 3
    Lifetime = 2
    Backlog = 1
    MaxCommands = 18
    Workloads <- Mixed
INVARIANTS
    TypeOK
    ListInOrder
    WindowsCounted
    AcknowledgedIsHeld
PROPERTY ImplementsFifo
CHECK_DEADLOCK FALSE
