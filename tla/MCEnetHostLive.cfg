\* One peer, as in proxy/lib/src/client.cc:48; calls with an event and with NULL:
\* liveness, and the refinement of EnetPeerLife.
SPECIFICATION LiveSpec
CONSTANTS
    PeerCount = 1
    MaxStrikes = 1
    MaxDispatched = 2
    EventArgs = {TRUE, FALSE}
    Limits = {TRUE, FALSE}
    Sends = {TRUE, FALSE}
    Aborts = FALSE
PROPERTIES DisconnectCompletes HandshakeEnds ZombieIsBuried ImplementsLife
