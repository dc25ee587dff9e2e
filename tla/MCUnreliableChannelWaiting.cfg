\* Two packets in fragments and one whole one: enough for a fragment that waits
\* to be dropped.
SPECIFICATION Spec
CONSTANTS
    ReliableWindows = 6
    ReliableWindowSize = 2
    FreeReliableWindows = 3
    UnsequencedWindows = 4
    UnsequencedWindowSize = 2
    FreeUnsequencedWindows = 2
    MaximumUnreliable = 4
    MaximumWaiting = 9
    InTransit = 2
    Lifetime = 4
    Workloads <- Mixed
INVARIANT WaitingDataExact
CHECK_DEADLOCK FALSE
