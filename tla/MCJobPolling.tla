---------------------------- MODULE MCJobPolling ----------------------------
(* JobPolling with one client: clients only read, so they do not disturb   *)
(* each other.                                                             *)
EXTENDS JobPolling, TLC

Symmetry == Permutations(Jobs) \cup Permutations(Workers)
=============================================================================
