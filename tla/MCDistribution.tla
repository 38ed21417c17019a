--------------------------- MODULE MCDistribution ---------------------------
(* Distribution for TLC: no symmetry, as one of the holders is the creator. *)
EXTENDS Distribution
===========================================================================
