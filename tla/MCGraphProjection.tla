------------------------- MODULE MCGraphProjection --------------------------
(***************************************************************************)
(* Constants for checking GraphProjection.                                 *)
(***************************************************************************)
EXTENDS GraphProjection, TLC

MCSymmetry == Permutations(Rebuild) \cup Permutations(Fact)
=============================================================================
