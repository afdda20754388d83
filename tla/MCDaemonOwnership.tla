-------------------------- MODULE MCDaemonOwnership --------------------------
(***************************************************************************)
(* DaemonOwnership for TLC: two daemons, of which one may take over from   *)
(* the other, with one failure and one key that lapses.                    *)
(***************************************************************************)
EXTENDS DaemonOwnership

MCMaxFaults == 1
MCMaxLapses == 1
=============================================================================
