---------------------------- MODULE MCInboxBridge ----------------------------
(***************************************************************************)
(* Constants for checking InboxBridge.                                     *)
(***************************************************************************)
EXTENDS InboxBridge

CONSTANTS s1, s2, k1

MCAsks == {<<s1, s2, k1>>}
==============================================================================
