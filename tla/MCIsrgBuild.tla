---------------------------- MODULE MCIsrgBuild ----------------------------
(* Small instances of IsrgBuild for TLC. *)
EXTENDS IsrgBuild, TLC

Symm == Permutations(Revisions)
=============================================================================
