--------------------------- MODULE MCX402Gateway ---------------------------
(* X402Gateway for TLC: no symmetry, as the run has a liveness property. *)
EXTENDS X402Gateway
===========================================================================
