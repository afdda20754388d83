-------------------------- MODULE MCNativeSessions --------------------------
(***************************************************************************)
(* Constants for checking NativeSessions.                                  *)
(***************************************************************************)
EXTENDS NativeSessions, TLC

MCSymmetry == Permutations(Session) \cup Permutations(Binding) \cup Permutations(Caller)
=============================================================================
