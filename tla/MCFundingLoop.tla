--------------------------- MODULE MCFundingLoop ---------------------------
(* FundingLoop for TLC: no symmetry, all constants are numbers. *)
EXTENDS FundingLoop
===========================================================================
