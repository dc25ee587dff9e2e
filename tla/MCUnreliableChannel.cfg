\* 6 windows of 2 reliable numbers, 4 windows of 2 groups, 4 unreliable numbers.
SPECIFICATION Spec
CONSTANTS
    ReliableWindows = 6
    ReliableWindowSize = 2
    FreeReliableWindows = 3
    UnsequencedWindows = 4
    UnsequencedWindowSize = 2
    FreeUnsequencedWindows = 2
    MaximumUnreliable = 4
    MaximumWaiting = 9
    InTransit = 2
    Lifetime = 4
    Workloads <- Mixed
INVARIANTS
    TypeOK
    SequencedInOrder
    UnsequencedOnce
    Whole
    NothingStranded
    FragmentUsable
CHECK_DEADLOCK FALSE
