------------------------------ MODULE MCSigchain ------------------------------
(* Small instances of Sigchain. *)
EXTENDS Sigchain, TLC

CONSTANTS handle, other, platform, b1, b2, g1, g2, g3, none, graded

IdSymmetry == Permutations(SigId) \cup Permutations(Body) \cup Permutations(Provenance)
===============================================================================
