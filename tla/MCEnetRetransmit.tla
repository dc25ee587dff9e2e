--------------------------- MODULE MCEnetRetransmit ---------------------------
EXTENDS EnetRetransmit

\* A reliable packet in two fragments, and an unreliable one.
MCPackets == {<<TRUE, 2>>, <<FALSE, 1>>}
=============================================================================
