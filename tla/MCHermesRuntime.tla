-------------------------- MODULE MCHermesRuntime --------------------------
(* HermesRuntime for TLC: the later tasks play the same roles. *)
EXTENDS HermesRuntime, TLC

CONSTANT MaxMishaps

Symmetry == Permutations(Task \ {First})

\* A state with more of the races and faults excuses nearly all and is not continued.
FewMishaps == Cardinality(mishaps) =< MaxMishaps
===========================================================================
