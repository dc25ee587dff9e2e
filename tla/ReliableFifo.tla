---------------------------- MODULE ReliableFifo ----------------------------
(***************************************************************************)
(* What ENET_PACKET_FLAG_RELIABLE promises for one channel: "packet must   *)
(* be received by the target peer", each once, whole and in the order they *)
(* were sent.  A packet is the set of its commands, which are numbered     *)
(* from 1; a packet that fits a datagram is one command.                   *)
(***************************************************************************)
EXTENDS Naturals, Sequences

CONSTANT MaxCommands    \* bound: commands sent altogether

VARIABLES
    queue,      \* the packets sent and not received yet
    received    \* the packets the receiving application got

vars == <<queue, received>>

Init == queue = <<>> /\ received = <<>>

\* The commands of all the packets sent so far.
Sent == UNION ({queue[i] : i \in DOMAIN queue} \cup {received[i] : i \in DOMAIN received})

Send ==
    /\ \E last \in 1 .. MaxCommands :
          /\ last \notin Sent
          /\ queue' = Append(queue, (1 .. last) \ Sent)
    /\ UNCHANGED received

Receive ==
    /\ queue # <<>>
    /\ received' = Append(received, Head(queue))
    /\ queue' = Tail(queue)

Next == Send \/ Receive

Spec == Init /\ [][Next]_vars
=============================================================================
