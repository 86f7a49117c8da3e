------------------------------ MODULE MCOutbox ------------------------------
(* Small instances of Outbox for TLC.                                      *)
EXTENDS Outbox, TLC

Symmetry == Permutations(Jobs) \cup Permutations(Dispatchers)
=============================================================================
