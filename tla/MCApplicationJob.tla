-------------------------- MODULE MCApplicationJob --------------------------
(* Small instances of ApplicationJob for TLC.                              *)
EXTENDS ApplicationJob, TLC

Symmetry == Permutations(Workers)
=============================================================================
