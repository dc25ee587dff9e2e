\* 14 commands go round the 12 numbers; the windows let fewer than 5 wait.
SPECIFICATION LiveSpec
CONSTANTS
    ReliableWindows = 6
    ReliableWindowSize = 2
    FreeReliableWindows = 3
    InTransit = 2
    MaximumWaiting = 5
    Lifetime = 2
    Backlog = 1
    MaxCommands = 14
    Workloads <- Mixed
PROPERTY Delivered
CHECK_DEADLOCK FALSE
