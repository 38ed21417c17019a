---------------------------- MODULE MCLaunchpad ----------------------------
(* Launchpad with the launch page, for TLC: no symmetry, as the run has a liveness property. *)
EXTENDS LaunchClient
===========================================================================
