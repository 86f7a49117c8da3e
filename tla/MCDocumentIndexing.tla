------------------------ MODULE MCDocumentIndexing ------------------------
(* Small instances of DocumentIndexing for TLC.                            *)
EXTENDS DocumentIndexing, TLC

Symmetry == Permutations(Jobs) \cup Permutations(Indexers)
===========================================================================
