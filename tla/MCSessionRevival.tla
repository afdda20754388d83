-------------------------- MODULE MCSessionRevival --------------------------
(***************************************************************************)
(* Constants for checking SessionRevival.                                  *)
(***************************************************************************)
EXTENDS SessionRevival, TLC

MCSymmetry == Permutations(Session) \cup Permutations(Reviver)
=============================================================================
