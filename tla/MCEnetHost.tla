----------------------------- MODULE MCEnetHost -----------------------------
(* TLC instances of EnetHost. *)
EXTENDS EnetHost
=============================================================================
