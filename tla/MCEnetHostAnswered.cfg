\* What the comment of enet_peer_disconnect promises.
SPECIFICATION Spec
CONSTANTS
    PeerCount = 1
    MaxStrikes = 1
    MaxDispatched = 1
    EventArgs = {TRUE}
    Limits = {TRUE}
    Sends = {TRUE}
    Aborts = FALSE
INVARIANTS
    DisconnectAnswered
