\* The clock wraps at 32, the sent time of the headers at 8; the constants keep
\* the order of the real ones: TimeoutMaximum <= Half \div 2 < MaxDelay.
SPECIFICATION Spec
CONSTANTS
    Clock = 32
    Overflow = 16
    Half = 8
    TimeoutLimit = 2
    TimeoutMinimum = 2
    TimeoutMaximum = 4
    DefaultRoundTripTime = 1
    Share = 4
    WindowSize = 2
    Mtu = 1
    ThrottleScale = 2
    ThrottleCounter = 1
    ThrottleStep = 2
    Start = 29
    End = 34
    Packets <- MCPackets
    MaxDelay = 5
    MaxIdle = 1
    MaxPackets = 2
    MaxPings = 1
INVARIANTS Accounted RoundTripRight
PROPERTIES Patience SendingGoesOn
CHECK_DEADLOCK FALSE
