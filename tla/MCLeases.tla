------------------------------ MODULE MCLeases ------------------------------
(***************************************************************************)
(* Constants for checking Leases: nested paths for the exclusion run,      *)
(* disjoint ones for the limit and the liveness run.                       *)
(***************************************************************************)
EXTENDS Leases, TLC

MCNested == {<<"src">>, <<"src", "api">>}
MCDisjoint == {<<"src">>, <<"docs">>}
MCSymmetry == Permutations(Session) \cup Permutations(LeaseId) \cup Permutations(Caller)
=============================================================================
