-------------------------- MODULE MCSessionClient --------------------------
(* Small instances of SessionClient for TLC.                               *)
EXTENDS SessionClient, TLC

Symmetry == Permutations(Tabs) \cup Permutations(Requests) \cup Permutations(SignIns)
=============================================================================
