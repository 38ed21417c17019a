------------------------------- MODULE Sums -------------------------------
(***************************************************************************)
(* The sum of a function with values in Nat, defined by counting: f is     *)
(* seen as a bag in which x occurs f[x] times, and its sum is the number   *)
(* of occurrences.  Counting needs no recursion, so the facts the proofs   *)
(* use follow from the theorems about Cardinality (module Sums_proofs);    *)
(* the folds of the community modules would need an induction that the     *)
(* provers cannot do.                                                      *)
(***************************************************************************)
EXTENDS Naturals, FiniteSets

Units(f) == UNION {{x} \X (1..f[x]) : x \in DOMAIN f}

SumOf(f) == Cardinality(Units(f))
===========================================================================
