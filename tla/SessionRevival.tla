--------------------------- MODULE SessionRevival ---------------------------
(***************************************************************************)
(* An attached session and its reader.  The attach process keeps a session *)
(* alive and names it in a file; the MCP server reads the file at each     *)
(* tool call and, when luwi_join finds the session ended, registers a      *)
(* successor that it keeps alive itself.                                   *)
(*                                                                         *)
(* Tool calls overlap: each of their requests to the daemon, and the read  *)
(* of the file, lets the others go on.  What a call does between two of    *)
(* them is one step.                                                       *)
(***************************************************************************)
EXTENDS SessionBootstrap

CONSTANTS
    Attach,      \* the bootstrap of the attach process
    ToolCaller,  \* tool calls the MCP server is serving at once
    Joiner,      \* those of them that are a luwi_join
    MaxFaults    \* bound: requests of a bootstrap that fail, and processes that die

\* The bootstraps of the MCP server.
Reviver == Client \ {Attach}

\* Whom a successor replaces, and its bootstrap.
Successor == [of: Session, client: Reviver]

ASSUME RevivalAssumption ==
    /\ Attach \in Client
    /\ RecoverUnready = {} /\ Reporting = {Attach}
    /\ Joiner \subseteq ToolCaller
    /\ MaxFaults \in Nat
    /\ None \notin Successor

VARIABLES
    file,       \* the session that the binding file names, None without a file
    successor,  \* of the MCP server, None without one
    toolCall,   \* per caller: the tool call
    faults      \* bounded by MaxFaults

revivalVars == <<bootVars, file, successor, toolCall, faults>>

Stage == {"idle", "read", "retire", "verify", "terminal", "reread", "look", "replace",
          "start", "bound"}

ToolCall ==
    [at: Stage,
     reviving: BOOLEAN,                \* it has found the session ended
     id: Session \cup {None},          \* the session it read in the file
     to: Session \cup {None},          \* the session it goes to
     client: Reviver \cup {None}]      \* the bootstrap it waits for

Idle == [at |-> "idle", reviving |-> FALSE, id |-> None, to |-> None,
         client |-> None]

RevivalInit ==
    /\ BootInit
    /\ file = None
    /\ successor = None
    /\ toolCall = [k \in ToolCaller |-> Idle]
    /\ faults = 0

Fault == faults < MaxFaults /\ faults' = faults + 1

\* Ids of sessions that are gone and that nobody names any more.
Unnamed ==
    {s \in Session : ~Open(s)}
        \ ({file}
            \cup {toolCall[k].id : k \in ToolCaller} \cup {toolCall[k].to : k \in ToolCaller}
            \cup (IF successor = None THEN {} ELSE {successor.of})
            \cup UNION {{boot[c].kept, boot[c].hand, boot[c].closing, boot[c].told}
                         : c \in Client})

-----------------------------------------------------------------------------
(* Bootstraps *)

\* A caller waits for the first attempt of this bootstrap, whose timer is not
\* armed before.
Awaited(c) == \E k \in ToolCaller : toolCall[k].at = "start" /\ toolCall[k].client = c

BootStep(c) ==
    /\ \/ Tick(c) /\ ~Awaited(c)
       \/ OperationStep(c, Unnamed)
    /\ UNCHANGED <<file, successor, toolCall, faults>>

BootFault(c) ==
    /\ OperationFails(c) \/ CloseFails(c)
    /\ Fault
    /\ UNCHANGED <<file, successor, toolCall>>

DaemonEnds(s) == SessionEnds(s) /\ UNCHANGED <<file, successor, toolCall, faults>>

-----------------------------------------------------------------------------
(* The attach process *)

AttachStart ==
    /\ Done(Attach)
    /\ boot[Attach].told \in {Silent, file}
    /\ Start(Attach)
    /\ UNCHANGED <<sessionStatus, adrift, file, successor, toolCall, faults>>

AttachStop ==
    /\ On(Attach)
    /\ boot' = [boot EXCEPT ![Attach] = Stopped(Attach)]
    /\ UNCHANGED <<sessionStatus, adrift, file, successor, toolCall, faults>>

\* The file follows the last change that was reported: renamed into place, or
\* removed after the stop.  A drop leaves it as it is.
FileWritten ==
    /\ boot[Attach].told # Silent
    /\ file # boot[Attach].told
    /\ file' = boot[Attach].told
    /\ UNCHANGED <<bootVars, successor, toolCall, faults>>

AttachDies ==
    /\ ~Done(Attach)
    /\ adrift' = adrift \cup Holds(Attach)
    /\ boot' = [boot EXCEPT ![Attach] = Fresh]
    /\ Fault
    /\ UNCHANGED <<sessionStatus, file, successor, toolCall>>

-----------------------------------------------------------------------------
(* Tool calls *)

Goes(k, stage) == toolCall' = [toolCall EXCEPT ![k].at = stage]
Ends(k) == toolCall' = [toolCall EXCEPT ![k] = Idle]
GoesTo(k, s) ==
    toolCall' = [toolCall EXCEPT ![k].at = "verify", ![k].id = None, ![k].to = s,
                                 ![k].client = None]

\* BOUND_SESSION_TERMINAL: a join that has not revived yet does so, any other
\* call fails.
FindsTerminal(k) ==
    IF k \in Joiner /\ ~toolCall[k].reviving
    THEN toolCall' = [toolCall EXCEPT ![k] = [Idle EXCEPT !.at = "terminal", !.reviving = TRUE]]
    ELSE Ends(k)

CallBegins(k) ==
    /\ toolCall[k].at = "idle" /\ file # None
    /\ toolCall' = [toolCall EXCEPT ![k].at = "read", ![k].id = file]
    /\ UNCHANGED <<bootVars, file, successor, faults>>

\* Mutant: the successor is only forgotten.
RetireForgets ==
    /\ successor' = None
    /\ UNCHANGED boot

\* The successor, if there is one, is forgotten and its bootstrap stopped.
Retire ==
    /\ successor' = None
    /\ boot' = IF successor = None THEN boot
               ELSE [boot EXCEPT ![successor.client] = Stopped(successor.client)]

RetiringClient == IF successor = None THEN None ELSE successor.client

\* A call waits for the session of the bootstrap that it stopped to be closed.
Retired(k) == toolCall[k].client # None => boot[toolCall[k].client].closing = None

Resolve(k) ==
    /\ toolCall[k].at = "read"
    /\ LET id == toolCall[k].id
           same == successor # None /\ successor.of = id
       IN  \/ /\ same /\ boot[successor.client].kept = None
              /\ FindsTerminal(k)
              /\ UNCHANGED <<boot, successor>>
           \/ /\ same /\ boot[successor.client].kept # None
              /\ GoesTo(k, boot[successor.client].kept)
              /\ UNCHANGED <<boot, successor>>
           \/ /\ successor = None
              /\ GoesTo(k, id)
              /\ UNCHANGED <<boot, successor>>
           \/ /\ successor # None /\ ~same
              /\ Retire
              /\ toolCall' = [toolCall EXCEPT ![k].at = "retire", ![k].client = successor.client]
    /\ UNCHANGED <<sessionStatus, adrift, file, faults>>

ResolveRetired(k) ==
    /\ toolCall[k].at = "retire" /\ Retired(k)
    /\ GoesTo(k, toolCall[k].id)
    /\ UNCHANGED <<bootVars, file, successor, faults>>

\* What a call that is not a join does for its session is left out.
Verify(k) ==
    /\ toolCall[k].at = "verify"
    /\ IF ~Open(toolCall[k].to) THEN FindsTerminal(k)
       ELSE IF k \in Joiner THEN Goes(k, "bound") ELSE Ends(k)
    /\ UNCHANGED <<bootVars, file, successor, faults>>

\* A join sets the session's status to idle, if it is still there.
Binds(k) ==
    /\ toolCall[k].at = "bound"
    /\ ReaderBinds(toolCall[k].to)
    /\ Ends(k)
    /\ UNCHANGED <<boot, adrift, file, successor, faults>>

CallFails(k) ==
    /\ toolCall[k].at \in {"verify", "look", "bound"}
    /\ Ends(k)
    /\ UNCHANGED <<bootVars, file, successor, faults>>

-----------------------------------------------------------------------------
(* Revival *)

RevivalBegins(k) ==
    /\ toolCall[k].at = "terminal"
    /\ IF file = None THEN Ends(k)
       ELSE toolCall' = [toolCall EXCEPT ![k].at = "reread", ![k].id = file]
    /\ UNCHANGED <<bootVars, file, successor, faults>>

RevivalDecides(k) ==
    /\ toolCall[k].at = "reread"
    /\ LET alive == /\ successor # None
                    /\ successor.of = toolCall[k].id
                    /\ boot[successor.client].kept # None
       IN IF alive THEN GoesTo(k, boot[successor.client].kept) ELSE Goes(k, "look")
    /\ UNCHANGED <<bootVars, file, successor, faults>>

\* The session is alive after all, or it has ended and the successor that
\* there may be goes.
RevivalLooks(k) ==
    /\ toolCall[k].at = "look"
    /\ \/ /\ Open(toolCall[k].id)
          /\ GoesTo(k, toolCall[k].id)
          /\ UNCHANGED <<boot, successor>>
       \/ /\ ~Open(toolCall[k].id)
          /\ Retire
          /\ toolCall' = [toolCall EXCEPT ![k].at = "replace", ![k].client = RetiringClient]
    /\ UNCHANGED <<sessionStatus, adrift, file, faults>>

\* An object for the successor: one that is done, and nobody's.
Usable(c) ==
    /\ Done(c)
    /\ successor # None => successor.client # c
    /\ \A j \in ToolCaller : toolCall[j].at # "replace" => toolCall[j].client # c

RevivalStarts(k, c) ==
    /\ toolCall[k].at = "replace" /\ Retired(k)
    /\ Usable(c)
    /\ Start(c)
    /\ toolCall' = [toolCall EXCEPT ![k].at = "start", ![k].client = c]
    /\ UNCHANGED <<sessionStatus, adrift, file, successor, faults>>

\* The first attempt is over: it registered a session, or the call fails.
RevivalStarted(k) ==
    /\ toolCall[k].at = "start"
    /\ LET c == toolCall[k].client
       IN  /\ boot[c].op = None
           /\ \/ /\ boot[c].kept = None
                 /\ boot' = [boot EXCEPT ![c] = Stopped(c)]
                 /\ Ends(k)
                 /\ UNCHANGED successor
              \/ /\ boot[c].kept # None
                 /\ successor' = [of |-> toolCall[k].id, client |-> c]
                 /\ GoesTo(k, boot[c].kept)
                 /\ UNCHANGED boot
    /\ UNCHANGED <<sessionStatus, adrift, file, faults>>

\* The MCP server is killed with its host: it closes nothing.
ServerDies ==
    /\ \E c \in Reviver : ~Done(c)
    /\ adrift' = adrift \cup UNION {Holds(c) : c \in Reviver}
    /\ boot' = [c \in Client |-> IF c = Attach THEN boot[c] ELSE Fresh]
    /\ successor' = None
    /\ toolCall' = [k \in ToolCaller |-> Idle]
    /\ Fault
    /\ UNCHANGED <<sessionStatus, file>>

-----------------------------------------------------------------------------
CallStep(k) ==
    \/ Resolve(k)
    \/ ResolveRetired(k)
    \/ Verify(k)
    \/ Binds(k)
    \/ RevivalBegins(k)
    \/ RevivalDecides(k)
    \/ RevivalLooks(k)
    \/ \E c \in Reviver : RevivalStarts(k, c)
    \/ RevivalStarted(k)

RevivalNext ==
    \/ \E c \in Client : BootStep(c) \/ BootFault(c)
    \/ \E s \in Session : DaemonEnds(s)
    \/ AttachStart
    \/ AttachStop
    \/ FileWritten
    \/ AttachDies
    \/ \E k \in ToolCaller : CallBegins(k) \/ CallStep(k) \/ CallFails(k)
    \/ ServerDies

RevivalSpec == RevivalInit /\ [][RevivalNext]_revivalVars

-----------------------------------------------------------------------------
(* Properties *)

\* Types of the variables.
RevivalTypeOK ==
    /\ sessionStatus \in [Session -> RecordStatus]
    /\ boot \in [Client -> Bootstrap]
    /\ adrift \subseteq Session
    /\ file \in Session \cup {None}
    /\ successor \in Successor \cup {None}
    /\ toolCall \in [ToolCaller -> ToolCall]
    /\ faults \in 0..MaxFaults

\* A session that is open is somebody's: a running bootstrap keeps it alive, or
\* its close is under way, also when the registration was answered after the
\* stop.  Only a failure of a request or a process leaves one to its presence.
NoSessionLeaks ==
    \A s \in Session : Open(s) => s \in adrift \/ \E c \in Client : s \in Holds(c)

\* A bootstrap that the MCP server runs is the one of its successor, or the one
\* a join is waiting for: none beats for a session that no call will stop.
NoRunawaySuccessor ==
    \A c \in Reviver : On(c) =>
        \/ successor # None /\ successor.client = c
        \/ Awaited(c)

\* What the comment says of a bootstrap that does not recover unready sessions:
\* it takes its session for bound, and will replace it, when a reader has bound
\* it, and not when it saw that it was gone.
ReadyWhenBound ==
    [][\A c \in Client :
         ~boot[c].ready /\ boot'[c].ready => sessionStatus[boot[c].kept] = "ready"]_revivalVars
=============================================================================
