-------------------------- MODULE MCIndexVersions --------------------------
(* Small instances of IndexVersions for TLC.                               *)
EXTENDS IndexVersions, TLC

Symmetry == Permutations(Requests)
=============================================================================
