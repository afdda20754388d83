--------------------------- MODULE NativeSessions ---------------------------
(***************************************************************************)
(* LUWI sessions and the native sessions they declare: registration,       *)
(* presence, declaration, the paths that make a session terminal, and the  *)
(* retention of closed links.                                              *)
(*                                                                         *)
(* A Redis Function is one atomic step.  A service first reads (the        *)
(* binding, its open link, that link's session), decides, and then calls   *)
(* the Function with the version it read.  Those reads are one step here:  *)
(* a write only goes through if the version did not move in between, a     *)
(* closed link stays closed and a terminal session terminal.  A retry      *)
(* after VERSION_CONFLICT starts over, so it is a request like a new one.  *)
(* A link's key is made of its binding and its session: link[b, s].        *)
(***************************************************************************)
EXTENDS Integers, FiniteSets, Sessions

CONSTANTS
    Binding,       \* native references, one binding key each
    Caller,        \* HTTP requests the daemon can be serving at once
    RetentionMax,  \* closed links a binding keeps
    MaxDeadline    \* bound: presence deadlines are told apart up to here

\* The daemon's own periodic tasks: each has one candidate in hand at most.
Sweeper == {"presence", "reaper", "retention"}
Slot == Caller \cup Sweeper

\* idle, thinking, tool_running, waiting_*, blocked are one status, "active".
Live == {"starting", "active"}
Terminal == {"completed", "disconnected"}
Status == {"unregistered"} \cup Live \cup Terminal
LinkState == {"none", "open", "closed"}
Deadline == 0..MaxDeadline

BindingRecord == [version: Nat, open: Session \cup {None}]

\* What a Function is told to check: the version read, and the link that was open.
Declaration == [binding: Binding, version: Nat, stale: Session \cup {None}]
Unlink == [binding: Binding, version: Nat]

DeclareCall == [op: {"register", "declare"}, session: Session, native: Declaration]
CompleteCall == [op: {"complete"}, session: Session, native: Unlink \cup {None}]
DisconnectCall == [op: {"disconnect"}, session: Session, native: Unlink \cup {None},
                   deadline: Deadline]
ReapCall == [op: {"reap"}, session: Session, native: Unlink \cup {None}]
TrimCall == [op: {"trim"}, binding: Binding, version: Nat, links: SUBSET Session]
Call == DeclareCall \cup CompleteCall \cup DisconnectCall \cup ReapCall \cup TrimCall

ASSUME ConstantsAssumption ==
    /\ IsFiniteSet(Session)
    /\ RetentionMax \in Nat \ {0}
    /\ MaxDeadline \in Nat
    /\ None \notin Session
    /\ None \notin Binding
    /\ None \notin Nat
    /\ None \notin BindingRecord
    /\ None \notin Unlink
    /\ None \notin Call

VARIABLES
    status,    \* per session
    presence,  \* per session: its presence key exists
    deadline,  \* per session: its score in the heartbeat deadline index
    binding,   \* per native reference: the binding record
    link,      \* per binding and session: the link record
    reverse,   \* per session: the binding its reverse key names
    call       \* per slot: the Function call about to be made

vars == <<status, presence, deadline, binding, link, reverse, call>>

native == <<binding, link, reverse>>
lifecycle == <<status, presence, deadline>>

-----------------------------------------------------------------------------
Init ==
    /\ status = [s \in Session |-> "unregistered"]
    /\ presence = [s \in Session |-> FALSE]
    /\ deadline = [s \in Session |-> None]
    /\ binding = [b \in Binding |-> None]
    /\ link = [k \in Binding \X Session |-> "none"]
    /\ reverse = [s \in Session |-> None]
    /\ call = [c \in Slot |-> None]

Begin(c, request) ==
    /\ call[c] = None
    /\ call' = [call EXCEPT ![c] = request]
    /\ UNCHANGED <<lifecycle, native>>

Return(c) == call' = [call EXCEPT ![c] = None]

Minted(s) ==
    \/ status[s] # "unregistered"
    \/ \E c \in Slot : call[c] # None /\ call[c].op = "register" /\ call[c].session = s

IsLive(s) == status[s] \in Live

\* The open link of the binding is this session's, by the pointer and by the record.
Opens(b, s) == binding[b] # None /\ binding[b].open = s /\ link[b, s] = "open"

-----------------------------------------------------------------------------
(* Declaring a native session *)

\* Mutant: a reference is taken over whatever its holder's status.
DecisionsIgnoringStatus(b, s) ==
    IF binding[b] = None
    THEN {[binding |-> b, version |-> 0, stale |-> None]}
    ELSE {[binding |-> b, version |-> binding[b].version, stale |-> x] :
            x \in {x \in Session \cup {None} :
                     /\ x = binding[b].open
                     /\ x # None => x # s /\ Opens(b, x)}}

\* evaluateNativeDeclaration: create the binding, link it when no link is
\* open, or take it over from a terminal session.  Anything else (held by a
\* live session, already this session's, unreadable) plans no write.
Decisions(b, s) ==
    IF binding[b] = None
    THEN {[binding |-> b, version |-> 0, stale |-> None]}
    ELSE {[binding |-> b, version |-> binding[b].version, stale |-> x] :
            x \in {x \in Session \cup {None} :
                     /\ x = binding[b].open
                     /\ x # None => x # s /\ Opens(b, x) /\ status[x] \in Terminal}}

\* Mutant: the link key alone is checked, not what was observed.
NativeValidateLinkOnly(n, s) == link[n.binding, s] = "none"

\* The observation still holds, and this pair was never linked.
NativeValidate(n, s) ==
    /\ n.version = 0 => binding[n.binding] = None
    /\ n.version # 0 =>
         /\ binding[n.binding] # None
         /\ binding[n.binding].version = n.version
         /\ binding[n.binding].open = n.stale
    /\ n.stale # None => link[n.binding, n.stale] = "open"
    /\ link[n.binding, s] = "none"

\* The stale link is closed, the new one opened, the reverse key set (over
\* whatever it named), and the binding created or its version moved.
NativeApply(n, s) ==
    LET b == n.binding
    IN  /\ link' = [k \in Binding \X Session |->
                      IF k = <<b, s>> THEN "open"
                      ELSE IF n.stale # None /\ k = <<b, n.stale>> THEN "closed"
                      ELSE link[k]]
        /\ reverse' = [reverse EXCEPT ![s] = b]
        /\ binding' = [binding EXCEPT ![b] = [version |-> n.version + 1, open |-> s]]

\* A registration that declares nothing: no decision to go stale.
RegisterPlain(s) ==
    /\ ~Minted(s)
    /\ status' = [status EXCEPT ![s] = "starting"]
    /\ presence' = [presence EXCEPT ![s] = TRUE]
    /\ deadline' = [deadline EXCEPT ![s] = 0]
    /\ UNCHANGED <<native, call>>

RegisterRead(c, s, b) ==
    /\ ~Minted(s)
    /\ \E n \in Decisions(b, s) : Begin(c, [op |-> "register", session |-> s, native |-> n])

\* session_register: the id must be new, and all is written or nothing.
SessionRegister(c) ==
    /\ call[c] \in DeclareCall
    /\ call[c].op = "register"
    /\ LET s == call[c].session
           accepted == status[s] = "unregistered" /\ NativeValidate(call[c].native, s)
       IN  \/ /\ accepted
              /\ NativeApply(call[c].native, s)
              /\ status' = [status EXCEPT ![s] = "starting"]
              /\ presence' = [presence EXCEPT ![s] = TRUE]
              /\ deadline' = [deadline EXCEPT ![s] = 0]
           \/ /\ ~accepted
              /\ UNCHANGED <<lifecycle, native>>
    /\ Return(c)

DeclareRead(c, s, b) ==
    /\ IsLive(s)
    /\ \E n \in Decisions(b, s) : Begin(c, [op |-> "declare", session |-> s, native |-> n])

\* native_declare: the session must still be live.
NativeDeclare(c) ==
    /\ call[c] \in DeclareCall
    /\ call[c].op = "declare"
    /\ LET s == call[c].session
           accepted == IsLive(s) /\ NativeValidate(call[c].native, s)
       IN  \/ accepted /\ NativeApply(call[c].native, s)
           \/ ~accepted /\ UNCHANGED native
    /\ Return(c)
    /\ UNCHANGED lifecycle

-----------------------------------------------------------------------------
(* Status and presence of a live session *)

\* Any of the non-terminal targets of the status endpoint.
SessionStatus(s) ==
    /\ IsLive(s)
    /\ status' = [status EXCEPT ![s] = "active"]
    /\ UNCHANGED <<presence, deadline, native, call>>

\* Mutant: a heartbeat is taken from a session that has ended.
MayBeatAnyStatus(s) == status[s] # "unregistered"

MayBeat(s) == IsLive(s)

\* The score moves to now + ttl, which within one millisecond is where it was.
LaterDeadline(s) == {d \in Deadline : deadline[s] # None => d \in deadline[s] .. deadline[s] + 1}

SessionHeartbeat(s) ==
    /\ MayBeat(s)
    /\ presence' = [presence EXCEPT ![s] = TRUE]
    /\ \E d \in LaterDeadline(s) : deadline' = [deadline EXCEPT ![s] = d]
    /\ UNCHANGED <<status, native, call>>

\* The presence key's time to live runs out.
PresenceLapses(s) ==
    /\ presence[s]
    /\ presence' = [presence EXCEPT ![s] = FALSE]
    /\ UNCHANGED <<status, deadline, native, call>>

-----------------------------------------------------------------------------
(* Ending a session *)

\* The unlink a terminal transition carries: the open link this session holds.
OwnUnlink(s) == [binding |-> reverse[s], version |-> binding[reverse[s]].version]

\* native_unlink's guards: nothing about the binding has moved.
UnlinkHolds(n, s) ==
    /\ binding[n.binding] # None
    /\ binding[n.binding].version = n.version
    /\ Opens(n.binding, s)

\* Mutant: the link record goes with the pointer.
NativeUnlinkForgets(n, s) ==
    /\ link' = [link EXCEPT ![<<n.binding, s>>] = "none"]
    /\ binding' = [binding EXCEPT ![n.binding] = [version |-> n.version + 1, open |-> None]]
    /\ UNCHANGED reverse

NativeUnlink(n, s) ==
    /\ link' = [link EXCEPT ![<<n.binding, s>>] = "closed"]
    /\ binding' = [binding EXCEPT ![n.binding] = [version |-> n.version + 1, open |-> None]]
    /\ UNCHANGED reverse

\* What the terminal Functions write, once their own guards have passed.
Terminate(s, n, target) ==
    /\ n # None => UnlinkHolds(n, s) /\ NativeUnlink(n, s)
    /\ n = None => UNCHANGED native
    /\ status' = [status EXCEPT ![s] = target]
    /\ presence' = [presence EXCEPT ![s] = FALSE]
    /\ deadline' = [deadline EXCEPT ![s] = None]

UnlinkLost(s, n) == n # None /\ ~UnlinkHolds(n, s)

\* close, and status -> completed: without a reverse key there is nothing to
\* unlink; with one, the open link must be this session's or the call is refused.
CompleteRead(c, s) ==
    /\ status[s] # "unregistered"
    /\ \/ /\ reverse[s] = None
          /\ Begin(c, [op |-> "complete", session |-> s, native |-> None])
       \/ /\ reverse[s] # None
          /\ Opens(reverse[s], s)
          /\ Begin(c, [op |-> "complete", session |-> s, native |-> OwnUnlink(s)])

\* session_close, and session_status with target completed: the same guards
\* and the same writes.
SessionComplete(c) ==
    /\ call[c] \in CompleteCall
    /\ LET s == call[c].session
           n == call[c].native
           refused == ~IsLive(s) \/ UnlinkLost(s, n)
       IN  \/ ~refused /\ Terminate(s, n, "completed")
           \/ refused /\ UNCHANGED <<lifecycle, native>>
    /\ Return(c)

\* The sweepers' resolution never refuses: what is not this session's open
\* link is left alone.
ExpiringUnlink(s) == IF reverse[s] # None /\ Opens(reverse[s], s) THEN OwnUnlink(s) ELSE None

\* The sweep takes a deadline that its own clock says has passed.
SweepRead(s) ==
    /\ deadline[s] # None
    /\ Begin("presence", [op |-> "disconnect", session |-> s, native |-> ExpiringUnlink(s),
                          deadline |-> deadline[s]])

\* Mutant: the deadline is compared the wrong way round.
SameDeadlineMoved(s, d) == deadline[s] # None /\ deadline[s] # d

SameDeadline(s, d) == deadline[s] = d

\* session_disconnect: the deadline listed must be the current one, and a
\* presence key that is still there puts the deadline back in step with it.
SessionDisconnect(s) ==
    /\ call["presence"] \in DisconnectCall
    /\ call["presence"].session = s
    /\ LET n == call["presence"].native
           listed == SameDeadline(s, call["presence"].deadline)
       IN  \/ /\ ~(listed /\ IsLive(s))
              /\ deadline' = [deadline EXCEPT ![s] = IF listed THEN None ELSE @]
              /\ UNCHANGED <<status, presence, native>>
           \/ /\ listed /\ IsLive(s) /\ presence[s]
              /\ \E d \in LaterDeadline(s) : deadline' = [deadline EXCEPT ![s] = d]
              /\ UNCHANGED <<status, presence, native>>
           \/ /\ listed /\ IsLive(s) /\ ~presence[s] /\ ~UnlinkLost(s, n)
              /\ Terminate(s, n, "disconnected")
           \/ /\ listed /\ IsLive(s) /\ ~presence[s] /\ UnlinkLost(s, n)
              /\ UNCHANGED <<lifecycle, native>>
    /\ Return("presence")

\* A bridge session that is still starting when its grace time is over.
ReapRead(s) ==
    /\ status[s] = "starting"
    /\ Begin("reaper", [op |-> "reap", session |-> s, native |-> ExpiringUnlink(s)])

MayReap(s) == status[s] = "starting"

\* session_reap_starting: presence or not, if it is still starting.
SessionReapStarting ==
    /\ call["reaper"] \in ReapCall
    /\ LET s == call["reaper"].session
           n == call["reaper"].native
           refused == ~MayReap(s) \/ UnlinkLost(s, n)
       IN  \/ ~refused /\ Terminate(s, n, "disconnected")
           \/ refused /\ UNCHANGED <<lifecycle, native>>
    /\ Return("reaper")

-----------------------------------------------------------------------------
(* Retention of closed links *)

\* A binding some session's reverse key names, with more closed links than it
\* keeps, gives up as many as are too many.  The code takes the oldest.
RetentionRead(b) ==
    LET closed == {s \in Session : link[b, s] = "closed"}
        excess == Cardinality(closed) - RetentionMax
    IN  /\ \E s \in Session : reverse[s] = b
        /\ binding[b] # None
        /\ excess > 0
        /\ \E links \in SUBSET closed :
             /\ Cardinality(links) = excess
             /\ Begin("retention", [op |-> "trim", binding |-> b,
                                    version |-> binding[b].version, links |-> links])

\* native_link_trim: one refusal refuses the batch.
TrimHolds(b, version, links) ==
    /\ binding[b] # None
    /\ binding[b].version = version
    /\ \A s \in links : binding[b].open # s /\ link[b, s] = "closed" /\ reverse[s] = b

\* Mutant: the reverse keys of trimmed links stay, the records go.
TrimmedKeepsReverse(b, links) ==
    /\ link' = [k \in Binding \X Session |->
                  IF k[1] = b /\ k[2] \in links THEN "none" ELSE link[k]]
    /\ UNCHANGED reverse

Trimmed(b, links) ==
    /\ link' = [k \in Binding \X Session |->
                  IF k[1] = b /\ k[2] \in links THEN "none" ELSE link[k]]
    /\ reverse' = [s \in Session |-> IF s \in links THEN None ELSE reverse[s]]

NativeLinkTrim ==
    /\ call["retention"] \in TrimCall
    /\ LET b == call["retention"].binding
           links == call["retention"].links
           holds == TrimHolds(b, call["retention"].version, links)
       IN  \/ /\ holds
              /\ Trimmed(b, links)
              /\ binding' = [binding EXCEPT ![b].version = @ + 1]
           \/ ~holds /\ UNCHANGED native
    /\ Return("retention")
    /\ UNCHANGED lifecycle

-----------------------------------------------------------------------------
\* A request in flight is lost with its client or with the daemon.
Abandon(c) ==
    /\ call[c] # None
    /\ Return(c)
    /\ UNCHANGED <<lifecycle, native>>

Request(c) ==
    \/ \E s \in Session, b \in Binding : RegisterRead(c, s, b) \/ DeclareRead(c, s, b)
    \/ \E s \in Session : CompleteRead(c, s)
    \/ SessionRegister(c)
    \/ NativeDeclare(c)
    \/ SessionComplete(c)
    \/ Abandon(c)

PresenceSweep(s) == SweepRead(s) \/ SessionDisconnect(s)

Reaper ==
    \/ \E s \in Session : ReapRead(s)
    \/ SessionReapStarting

Retention ==
    \/ \E b \in Binding : RetentionRead(b)
    \/ NativeLinkTrim

Next ==
    \/ \E c \in Caller : Request(c)
    \/ \E s \in Session :
         \/ RegisterPlain(s)
         \/ SessionStatus(s)
         \/ SessionHeartbeat(s)
         \/ PresenceLapses(s)
         \/ PresenceSweep(s)
    \/ Reaper
    \/ Retention

Spec == Init /\ [][Next]_vars

\* The presence sweep runs on a timer and takes every due session in turn, so
\* each session's turn comes again and again.
FairSpec == Spec /\ \A s \in Session : SF_vars(SweepRead(s)) /\ WF_vars(SessionDisconnect(s))

-----------------------------------------------------------------------------
(* Properties *)

\* Types of the variables.
TypeOK ==
    /\ status \in [Session -> Status]
    /\ presence \in [Session -> BOOLEAN]
    /\ deadline \in [Session -> Deadline \cup {None}]
    /\ binding \in [Binding -> BindingRecord \cup {None}]
    /\ link \in [Binding \X Session -> LinkState]
    /\ reverse \in [Session -> Binding \cup {None}]
    /\ call \in [Slot -> Call \cup {None}]

\* The binding's pointer and the link records name the same open interval, so
\* a native session has at most one open link, however many daemons' decisions
\* about it were taken from old reads.
OpenLinkAgrees ==
    \A b \in Binding, s \in Session :
        link[b, s] = "open" <=> binding[b] # None /\ binding[b].open = s

\* A reverse key names a binding this session is or was linked to: what the
\* terminal paths resolve through, and what retention enumerates by, is never
\* a key whose link is gone.
ReverseNamesALink ==
    \A s \in Session : reverse[s] # None => link[reverse[s], s] # "none"

\* A live session is in the deadline index, so the sweep will find it when its
\* client goes silent; an ended one has neither deadline nor presence, so a
\* late heartbeat has not brought it back.
PresenceFollowsStatus ==
    \A s \in Session :
        /\ IsLive(s) => deadline[s] # None
        /\ ~IsLive(s) => deadline[s] = None /\ ~presence[s]

\* A live session that holds a native reference keeps it until it ends: no
\* takeover decided from an old read, no other session's end and no trimming
\* takes it away.
LiveHolderKeepsReference ==
    [][\A b \in Binding, s \in Session :
         Opens(b, s) /\ IsLive(s) => Opens(b, s)' \/ status'[s] \in Terminal]_vars

\* The history of links is append-only: an interval that is closed never opens
\* again and an open one is closed before its record is dropped.
LinkHistoryKept ==
    [][\A b \in Binding, s \in Session :
         /\ link[b, s] = "closed" => link'[b, s] # "open"
         /\ link[b, s] = "open" => link'[b, s] # "none"]_vars

\* The first terminal status stands, whichever of close, status, sweep and
\* reaper get there.
TerminalIsFinal ==
    [][\A s \in Session : status[s] \in Terminal => status'[s] = status[s]]_vars

\* What the documents promise of the terminal paths: none leaves an open link.
TerminalClosesLink ==
    \A b \in Binding, s \in Session : Opens(b, s) => status[s] \notin Terminal

\* A session whose client is gone ends, whatever races its sweep loses.
SilentSessionEnds ==
    \A s \in Session : IsLive(s) /\ ~presence[s] ~> ~IsLive(s) \/ presence[s]

=============================================================================
