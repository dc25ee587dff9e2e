--------------------------- MODULE MCEnetHandshake ---------------------------
\* One client, as in client.cc, and a server of two peers.
EXTENDS EnetHandshake, TLC

MCSlots == "client" :> 1 @@ "server" :> 2
=============================================================================
