\* Two peers, calls with an event and with NULL: each peer by itself, and the
\* queue and the counters the two share, with the flush of one of them.  What is
\* not sent reliably is left to MCEnetHostLive.cfg.
SPECIFICATION Spec
CONSTANTS
    PeerCount = 2
    MaxStrikes = 1
    MaxDispatched = 1
    EventArgs = {TRUE, FALSE}
    Limits = {TRUE}
    Sends = {TRUE}
    Aborts = TRUE
INVARIANTS
    TypeOK
    LimitedCount
    OwedEventIsQueued
    DisconnectedIsClean
    LaterIsWaiting
    EventOrder
    ConnectedCount
    DispatchQueueLinked
PROPERTIES
    EventKept
    NoResurrection
