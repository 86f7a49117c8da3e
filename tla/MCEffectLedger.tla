-------------------------- MODULE MCEffectLedger --------------------------
(* Small instances of EffectLedger for TLC.                               *)
EXTENDS EffectLedger, TLC

Symmetry == Permutations(Deliveries)
=============================================================================
