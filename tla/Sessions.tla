------------------------------ MODULE Sessions ------------------------------
(***************************************************************************)
(* What the daemon's records of sessions and the clients that register     *)
(* them have in common.                                                    *)
(***************************************************************************)
CONSTANTS
    Session,  \* session ids, minted once each
    None      \* no session, and nothing of any other kind

=============================================================================
