----------------------------- MODULE MCBSPGraph -----------------------------
(* Instances of BSPGraph for TLC.  Vertices and workers are interchangeable *)
(* in every safety property.                                                *)
EXTENDS BSPGraphInv, TLC

Symmetry == Permutations(VertexID) \cup Permutations(Worker)
=============================================================================
