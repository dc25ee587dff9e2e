------------------------- MODULE MCReliableChannel -------------------------
(* TLC instances of ReliableChannel. *)
EXTENDS ReliableChannel

\* What the application sends: single commands only; packets of two and three
\* fragments that begin at either place of a window.
Mixed == {<<1, 1, 1, 1, 1, 1, 1, 1, 1, 1, 1, 1, 1, 1, 1, 1, 1, 1>>,
          <<2, 1, 3, 1, 2, 2, 1, 3, 3>>}
=============================================================================
