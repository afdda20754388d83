----------------------------- MODULE MCMessages -----------------------------
(***************************************************************************)
(* Constants for checking Messages: two sessions that ask each other, one  *)
(* of them under an idempotency key.                                       *)
(***************************************************************************)
EXTENDS Messages, TLC

CONSTANTS s1, s2, k1

MCAsks == {<<s1, s2, k1>>, <<s2, s1, None>>}
MCSymmetry == Permutations(Message)
=============================================================================
