-------------------------- MODULE SessionBootstrap --------------------------
(***************************************************************************)
(* The client side of a LUWI session: a process registers one, beats for   *)
(* it, registers another when the daemon says it is gone, and closes it    *)
(* when it stops.  One bootstrap object per client; its owner starts it    *)
(* once and stops it at most once, so that the lifecycle counter of the    *)
(* code says no more than whether the object is still on.                  *)
(*                                                                         *)
(* A registration is served by the daemon in one step and answered in      *)
(* another; what the other requests do or read, and what their answer      *)
(* does, is one step, as nothing in between could tell.  A request may     *)
(* fail, a registration also with its answer lost.                         *)
(* Backoff only delays a tick, and a tick may come at any time.            *)
(***************************************************************************)
EXTENDS Integers, FiniteSets, Sessions

CONSTANTS
    Client,          \* bootstrap objects
    RecoverUnready,  \* clients that replace a session no reader ever bound
    Reporting,       \* clients whose owner is told of changes
    Silent           \* nothing was reported to the owner yet

\* The requests that may be under way, and a registration whose answer is.
Operation == {"register", "registered", "beat", "inspect", "discard"}

ASSUME BootstrapAssumption ==
    /\ RecoverUnready \subseteq Client
    /\ Reporting \subseteq Client
    /\ None \notin Session \cup Operation
    /\ Silent \notin Session \cup {None}

VARIABLES
    sessionStatus,  \* of each session, in the daemon
    boot,           \* of each client: its bootstrap object
    adrift          \* history: sessions left open by a lost answer, a failed close or a crash

bootVars == <<sessionStatus, boot, adrift>>

\* A session that has ended, and one that was never registered, are "gone".
RecordStatus == {"starting", "ready", "gone"}

Bootstrap ==
    [phase: {"on", "off"},
     kept: Session \cup {None},           \* the session it keeps alive
     ready: BOOLEAN,                      \* it saw that session leave starting
     op: Operation \cup {None},           \* one operation at a time
     hand: Session \cup {None},           \* the session that operation is about
     closing: Session \cup {None},        \* the session its stop is closing
     told: Session \cup {None, Silent}]   \* what it last reported to its owner

Fresh == [phase |-> "off", kept |-> None, ready |-> FALSE, op |-> None,
          hand |-> None, closing |-> None, told |-> Silent]

BootInit ==
    /\ sessionStatus = [s \in Session |-> "gone"]
    /\ boot = [c \in Client |-> Fresh]
    /\ adrift = {}

Open(s) == sessionStatus[s] # "gone"
On(c) == boot[c].phase = "on"

-----------------------------------------------------------------------------
(* The daemon: presence runs out, or the reaper takes a session that stays *)
(* in starting; a reader binds a session by setting its status.            *)

End(s) ==
    /\ sessionStatus' = [sessionStatus EXCEPT ![s] = "gone"]
    /\ adrift' = adrift \ {s}

SessionEnds(s) == Open(s) /\ End(s) /\ UNCHANGED boot

ReaderBinds(s) ==
    sessionStatus' = [sessionStatus EXCEPT ![s] = IF @ = "starting" THEN "ready" ELSE @]

-----------------------------------------------------------------------------
(* Operations *)

\* The object after an operation, with nothing else changed.
Finished(c) == [boot[c] EXCEPT !.op = None, !.hand = None]

\* The owner is told of a new session, or of None when its session was stopped.
Report(c, s) == IF c \in Reporting THEN s ELSE Silent

Start(c) == boot' = [boot EXCEPT ![c] = [Fresh EXCEPT !.phase = "on", !.op = "register"]]

\* The heartbeat timer: one operation at a time, a registration if there is no
\* session, a beat if there is one.
Tick(c) ==
    /\ On(c) /\ boot[c].op = None
    /\ boot' = [boot EXCEPT ![c].op = IF boot[c].kept = None THEN "register" ELSE "beat",
                            ![c].hand = boot[c].kept]
    /\ UNCHANGED <<sessionStatus, adrift>>

RegisterServed(c, s) ==
    /\ boot[c].op = "register"
    /\ sessionStatus' = [sessionStatus EXCEPT ![s] = "starting"]
    /\ boot' = [boot EXCEPT ![c].op = "registered", ![c].hand = s]
    /\ UNCHANGED adrift

\* Mutant: a registration that comes too late is dropped, not closed.
LateForgotten(c) == Finished(c)

\* A registration that was answered after the stop: the session is closed.
Late(c) == [boot[c] EXCEPT !.op = "discard"]

RegisterReturns(c) ==
    /\ boot[c].op = "registered"
    /\ boot' = [boot EXCEPT ![c] =
         IF On(c) THEN [Finished(c) EXCEPT !.kept = boot[c].hand,
                                           !.told = Report(c, boot[c].hand)]
                  ELSE Late(c)]
    /\ UNCHANGED <<sessionStatus, adrift>>

DiscardServed(c) ==
    /\ boot[c].op = "discard"
    /\ End(boot[c].hand)
    /\ boot' = [boot EXCEPT ![c] = Finished(c)]

Settled(c) == c \in RecoverUnready \/ boot[c].ready

\* After a beat the client that does not recover unready sessions looks
\* whether a reader has bound its session.
Beaten(c) == IF Settled(c) THEN Finished(c) ELSE [boot[c] EXCEPT !.op = "inspect"]

\* The session is gone: the next tick registers another, or the object drops it
\* and goes quiet.
GivesUp(c) ==
    [Finished(c) EXCEPT !.kept = None, !.ready = FALSE,
                        !.phase = IF Settled(c) THEN "on" ELSE "off"]

Beat(c) ==
    /\ boot[c].op = "beat"
    /\ boot' = [boot EXCEPT ![c] =
         IF Open(boot[c].hand) THEN Beaten(c) ELSE IF On(c) THEN GivesUp(c) ELSE Finished(c)]
    /\ UNCHANGED <<sessionStatus, adrift>>

\* Any status but starting counts as bound, a terminal one too.
Inspect(c) ==
    /\ boot[c].op = "inspect"
    /\ boot' = [boot EXCEPT ![c] =
         [Finished(c) EXCEPT !.ready = @ \/ (On(c) /\ sessionStatus[boot[c].hand] # "starting")]]
    /\ UNCHANGED <<sessionStatus, adrift>>

\* The session of a registration that the object has not taken over.
Answers(c) == {s \in {boot[c].hand} : boot[c].op \in {"registered", "discard"}}

\* A request that fails, or whose answer is lost: reported, and tried again at
\* a later tick.
OperationFails(c) ==
    /\ boot[c].op # None
    /\ boot' = [boot EXCEPT ![c] = Finished(c)]
    /\ adrift' = adrift \cup {s \in Answers(c) : Open(s)}
    /\ UNCHANGED sessionStatus

-----------------------------------------------------------------------------
(* Stopping *)

\* The session is forgotten before it is closed, so that no beat follows.  An
\* object that is off already has nothing to stop.
Stopped(c) ==
    IF On(c) THEN [boot[c] EXCEPT !.phase = "off", !.kept = None, !.ready = FALSE,
                                      !.closing = boot[c].kept]
             ELSE boot[c]

StopReturns(c) == [boot EXCEPT ![c].closing = None, ![c].told = Report(c, None)]

CloseServed(c) ==
    /\ boot[c].closing # None
    /\ End(boot[c].closing)
    /\ boot' = StopReturns(c)

CloseFails(c) ==
    /\ boot[c].closing # None
    /\ boot' = StopReturns(c)
    /\ adrift' = adrift \cup {s \in {boot[c].closing} : Open(s)}
    /\ UNCHANGED sessionStatus

\* The object has nothing under way and is not used again.
Done(c) == ~On(c) /\ boot[c].op = None /\ boot[c].closing = None

\* The open sessions an object answers for: the one it keeps alive, the one it
\* was given or has to close, and the one its stop closes.
Holds(c) == {s \in Answers(c) \cup {boot[c].kept, boot[c].closing} : s # None /\ Open(s)}

\* A new session has an id that nobody names.
OperationStep(c, unnamed) ==
    \/ \E s \in unnamed : RegisterServed(c, s)
    \/ RegisterReturns(c)
    \/ DiscardServed(c)
    \/ Beat(c)
    \/ Inspect(c)
    \/ CloseServed(c)
=============================================================================
