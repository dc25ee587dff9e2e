------------------------ MODULE MCUnreliableChannel ------------------------
(* TLC instances of UnreliableChannel. *)
EXTENDS UnreliableChannel

R == [flags |-> "RELIABLE", length |-> 1]
N == [flags |-> "NONE", length |-> 1]
S == [flags |-> "UNSEQUENCED", length |-> 1]
F == [flags |-> "UNRELIABLE_FRAGMENT", length |-> 2]

\* Reliable numbers that wrap under unreliable packets, whole and in fragments;
\* unreliable numbers that run out; unsequenced groups that wrap.
Mixed == {<<N, R, R, F, R, R, N, R, R, N, R, R, F, N, R, R, N, F, R, R, N, R, N>>,
          <<F, F, F, N, N, F, R, F, F, N>>,
          <<S, S, N, S, S, R, S, S, F, S, S, S, N, S, S>>}
=============================================================================
