---------------------------- MODULE MCConfigPlan ----------------------------
(***************************************************************************)
(* Constants for checking ConfigPlan: two files, a plan for both, and a    *)
(* rollback.                                                               *)
(***************************************************************************)
EXTENDS ConfigPlan, TLC

CONSTANTS file1, file2, render, rollback, new, old

MCWant == render :> (file1 :> new @@ file2 :> new)
MCSymmetry == Permutations(Path) \cup Permutations(Caller)

=============================================================================
