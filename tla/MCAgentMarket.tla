--------------------------- MODULE MCAgentMarket ---------------------------
(* AgentMarket for TLC: the two persons play the same roles. *)
EXTENDS AgentMarket, TLC

Symmetry == Permutations(Person)
===========================================================================
