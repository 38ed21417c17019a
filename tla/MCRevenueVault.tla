-------------------------- MODULE MCRevenueVault --------------------------
(* Bounded instance of RevenueVault for TLC. Holders are interchangeable: no definition *)
(* names one, and the recipient of the shares is any of them.                           *)
EXTENDS RevenueVault, TLC

HolderSymmetry == Permutations(Holder)
===========================================================================
