---------------------------- MODULE MCDiscovery ----------------------------
(* Small instances of Discovery for TLC.                                   *)
EXTENDS Discovery, TLC

Symmetry == Permutations(Users \ Viewers)
=============================================================================
