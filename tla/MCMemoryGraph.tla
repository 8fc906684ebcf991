---------------------------- MODULE MCMemoryGraph ----------------------------
(* Instances of MemoryGraph for TLC.                                        *)
EXTENDS MemoryGraphIterator, TLC

Symmetry == Permutations(LinkID) \cup Permutations(EdgeID)
=============================================================================
