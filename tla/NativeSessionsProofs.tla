------------------------ MODULE NativeSessionsProofs ------------------------
(***************************************************************************)
(* Theorems about NativeSessions, for every set of sessions, references    *)
(* and requests.  The inductive invariant falls into what it says of the   *)
(* native records, of the life of a session, and of the calls in flight;   *)
(* every step changes the native records in one of three ways and the      *)
(* life of a session in one of four, and each way has a lemma.             *)
(*                                                                         *)
(* The second half is about the clients that register those sessions and   *)
(* the tool calls they serve: SessionRevival, for every set of sessions,   *)
(* clients and tool calls.                                                 *)
(***************************************************************************)
EXTENDS NativeSessions, SessionRevival, TLAPS

NativeOK ==
    /\ binding \in [Binding -> BindingRecord \cup {None}]
    /\ link \in [Binding \X Session -> LinkState]
    /\ reverse \in [Session -> Binding \cup {None}]
    /\ OpenLinkAgrees
    /\ ReverseNamesALink

LifeOK ==
    /\ status \in [Session -> Status]
    /\ presence \in [Session -> BOOLEAN]
    /\ deadline \in [Session -> Deadline \cup {None}]
    /\ PresenceFollowsStatus

\* A takeover that is under way was decided for a session that had ended.
Sound(k) ==
    k \in DeclareCall /\ k.native.stale # None => status[k.native.stale] \in Terminal

CallsOK ==
    /\ call \in [Slot -> Call \cup {None}]
    /\ \A c \in Slot : call[c] # None => Sound(call[c])

IInv == NativeOK /\ LifeOK /\ CallsOK

\* What a step does not do, one line per action property.
KeepsHolders ==
    \A b \in Binding, s \in Session :
        Opens(b, s) /\ IsLive(s) => Opens(b, s)' \/ status'[s] \in Terminal

KeepsHistory ==
    \A b \in Binding, s \in Session :
        /\ link[b, s] = "closed" => link'[b, s] # "open"
        /\ link[b, s] = "open" => link'[b, s] # "none"

KeepsEnds == \A s \in Session : status[s] \in Terminal => status'[s] = status[s]

NativeStep == NativeOK' /\ KeepsHistory /\ KeepsHolders
LifeStep == LifeOK' /\ KeepsEnds

-----------------------------------------------------------------------------
LEMMA InitOK == Init => IInv
<1> SUFFICES ASSUME Init PROVE IInv
  OBVIOUS
<1>1. NativeOK
  BY DEF Init, NativeOK, LinkState, OpenLinkAgrees, ReverseNamesALink
<1>2. LifeOK
  BY DEF Init, LifeOK, Status, PresenceFollowsStatus, IsLive, Live
<1>3. CallsOK
  BY DEF Init, CallsOK
<1> QED BY <1>1, <1>2, <1>3 DEF IInv

-----------------------------------------------------------------------------
(* The ways a step changes the native records. *)

LEMMA NativeSame ==
    ASSUME IInv, UNCHANGED native
    PROVE  NativeStep
  BY DEF IInv, NativeStep, NativeOK, OpenLinkAgrees, ReverseNamesALink, KeepsHistory,
         KeepsHolders, Opens, native, LinkState

\* A declaration that is valid: its stale link, if any, is the only open one.
LEMMA NativeApplied ==
    ASSUME IInv, NEW s \in Session, NEW n \in Declaration,
           n.stale # None => status[n.stale] \in Terminal,
           NativeValidate(n, s), NativeApply(n, s)
    PROVE  NativeStep
<1> DEFINE b == n.binding
<1>1. /\ b \in Binding /\ n.version \in Nat /\ n.stale \in Session \cup {None}
      /\ NativeOK
  BY DEF Declaration, IInv
<1>2. link[b, s] = "none" /\ (n.stale # None => link[b, n.stale] = "open")
  BY DEF NativeValidate
<1>3. \A x \in Session : link[b, x] = "open" <=> x = n.stale
  <2>1. \A x \in Session : link[b, x] = "open" <=> binding[b] # None /\ binding[b].open = x
    BY <1>1 DEF NativeOK, OpenLinkAgrees
  <2>2. CASE n.version = 0
    BY <1>1, <1>2, <2>1, <2>2, ConstantsAssumption DEF NativeValidate
  <2>3. CASE n.version # 0
    BY <1>1, <2>1, <2>3 DEF NativeValidate
  <2> QED BY <2>2, <2>3
<1>4. /\ link' = [k \in Binding \X Session |->
                    IF k = <<b, s>> THEN "open"
                    ELSE IF n.stale # None /\ k = <<b, n.stale>> THEN "closed"
                    ELSE link[k]]
      /\ reverse' = [reverse EXCEPT ![s] = b]
      /\ binding' = [binding EXCEPT ![b] = [version |-> n.version + 1, open |-> s]]
  BY DEF NativeApply
<1>5. \A a \in Binding, x \in Session :
        link'[a, x] = IF a = b /\ x = s THEN "open"
                      ELSE IF n.stale # None /\ a = b /\ x = n.stale THEN "closed"
                      ELSE link[a, x]
  BY <1>4
<1>6. /\ [version |-> n.version + 1, open |-> s] \in BindingRecord
      /\ binding'[b] = [version |-> n.version + 1, open |-> s]
      /\ \A a \in Binding : a # b => binding'[a] = binding[a]
  BY <1>1, <1>4 DEF BindingRecord, NativeOK
<1>7. /\ binding' \in [Binding -> BindingRecord \cup {None}]
      /\ reverse' \in [Session -> Binding \cup {None}]
  BY <1>1, <1>4, <1>6 DEF NativeOK
<1>8. link' \in [Binding \X Session -> LinkState]
  BY <1>1, <1>4 DEF NativeOK, LinkState
<1>9. OpenLinkAgrees'
  <2> SUFFICES ASSUME NEW a \in Binding, NEW x \in Session
               PROVE  link'[a, x] = "open" <=> binding'[a] # None /\ binding'[a].open = x
    BY DEF OpenLinkAgrees
  <2>1. link[a, x] = "open" <=> binding[a] # None /\ binding[a].open = x
    BY <1>1 DEF NativeOK, OpenLinkAgrees
  <2>2. CASE a # b
    <3>1. link'[a, x] = link[a, x] /\ binding'[a] = binding[a]
      BY <2>2, <1>5, <1>6
    <3> QED BY <2>1, <3>1
  <2>3. CASE a = b
    <3>1. binding'[a] # None
      BY <2>3, <1>6, ConstantsAssumption
    <3>2. binding'[a].open = s
      BY <2>3, <1>6
    <3>3. link'[b, x] = "open" <=> x = s
      BY <1>1, <1>3, <1>5, ConstantsAssumption
    <3> QED BY <2>3, <3>1, <3>2, <3>3
  <2> QED BY <2>2, <2>3
<1>10. ReverseNamesALink'
  BY <1>1, <1>4, <1>5 DEF NativeOK, ReverseNamesALink
<1>11. KeepsHistory
  BY <1>2, <1>3, <1>5 DEF KeepsHistory
<1>12. KeepsHolders
  <2> SUFFICES ASSUME NEW a \in Binding, NEW x \in Session, Opens(a, x), IsLive(x)
               PROVE  Opens(a, x)'
    BY DEF KeepsHolders
  <2>1. a # b
    BY <1>3, ConstantsAssumption DEF Opens, IsLive, Live, Terminal
  <2> QED BY <2>1, <1>5, <1>6 DEF Opens
<1> QED BY <1>7, <1>8, <1>9, <1>10, <1>11, <1>12 DEF NativeStep, NativeOK

\* An ending session closes the open link it holds, and no other.
LEMMA NativeUnlinked ==
    ASSUME IInv, NEW s \in Session, NEW n \in Unlink,
           UnlinkHolds(n, s), NativeUnlink(n, s), status'[s] \in Terminal
    PROVE  NativeStep
<1> DEFINE b == n.binding
<1>1. b \in Binding /\ n.version \in Nat /\ NativeOK
  BY DEF Unlink, IInv
<1>2. binding[b] # None /\ binding[b].open = s /\ link[b, s] = "open"
  BY DEF UnlinkHolds, Opens
<1>3. /\ link' = [link EXCEPT ![<<b, s>>] = "closed"]
      /\ binding' = [binding EXCEPT ![b] = [version |-> n.version + 1, open |-> None]]
      /\ reverse' = reverse
  BY DEF NativeUnlink
<1>4. \A a \in Binding, x \in Session :
        link'[a, x] = IF a = b /\ x = s THEN "closed" ELSE link[a, x]
  BY <1>1, <1>3 DEF NativeOK
<1>5. /\ [version |-> n.version + 1, open |-> None] \in BindingRecord
      /\ binding'[b] = [version |-> n.version + 1, open |-> None]
      /\ \A a \in Binding : a # b => binding'[a] = binding[a]
  BY <1>1, <1>3 DEF BindingRecord, NativeOK
<1>6. /\ binding' \in [Binding -> BindingRecord \cup {None}]
      /\ link' \in [Binding \X Session -> LinkState]
      /\ reverse' \in [Session -> Binding \cup {None}]
  BY <1>1, <1>3, <1>5 DEF NativeOK, LinkState
<1>7. OpenLinkAgrees'
  <2> SUFFICES ASSUME NEW a \in Binding, NEW x \in Session
               PROVE  link'[a, x] = "open" <=> binding'[a] # None /\ binding'[a].open = x
    BY DEF OpenLinkAgrees
  <2>1. link[a, x] = "open" <=> binding[a] # None /\ binding[a].open = x
    BY <1>1 DEF NativeOK, OpenLinkAgrees
  <2>2. CASE a # b
    <3>1. link'[a, x] = link[a, x] /\ binding'[a] = binding[a]
      BY <2>2, <1>4, <1>5
    <3> QED BY <2>1, <3>1
  <2>3. CASE a = b
    <3>1. binding'[a] # None
      BY <2>3, <1>5, ConstantsAssumption
    <3>2. binding'[a].open = None
      BY <2>3, <1>5
    <3>3. link'[b, x] # "open"
      BY <1>1, <1>2, <1>4, <2>1, <2>3
    <3> QED BY <2>3, <3>1, <3>2, <3>3, ConstantsAssumption
  <2> QED BY <2>2, <2>3
<1>8. ReverseNamesALink'
  BY <1>1, <1>3, <1>4 DEF NativeOK, ReverseNamesALink
<1>9. KeepsHistory
  BY <1>2, <1>4 DEF KeepsHistory
<1>10. KeepsHolders
  <2> SUFFICES ASSUME NEW a \in Binding, NEW x \in Session, Opens(a, x), x # s
               PROVE  Opens(a, x)'
    BY DEF KeepsHolders
  <2>1. a # b
    BY <1>2 DEF Opens
  <2> QED BY <2>1, <1>4, <1>5 DEF Opens
<1> QED BY <1>6, <1>7, <1>8, <1>9, <1>10 DEF NativeStep, NativeOK

\* Trimming drops closed links, with the reverse keys that led to them.
LEMMA NativeTrimmed ==
    ASSUME IInv, NEW b \in Binding, NEW v, NEW links \in SUBSET Session,
           TrimHolds(b, v, links), Trimmed(b, links),
           binding' = [binding EXCEPT ![b].version = @ + 1]
    PROVE  NativeStep
<1>1. NativeOK /\ binding[b] # None /\ binding[b] \in BindingRecord
  BY DEF IInv, NativeOK, TrimHolds
<1>2. \A x \in links : link[b, x] = "closed" /\ reverse[x] = b
  BY DEF TrimHolds
<1>3. /\ link' = [k \in Binding \X Session |->
                    IF k[1] = b /\ k[2] \in links THEN "none" ELSE link[k]]
      /\ reverse' = [s \in Session |-> IF s \in links THEN None ELSE reverse[s]]
  BY DEF Trimmed
<1>4. \A a \in Binding, x \in Session :
        link'[a, x] = IF a = b /\ x \in links THEN "none" ELSE link[a, x]
  BY <1>3
<1>5. /\ binding'[b] \in BindingRecord
      /\ binding'[b].open = binding[b].open
      /\ \A a \in Binding : a # b => binding'[a] = binding[a]
  BY <1>1 DEF BindingRecord, NativeOK
<1>6. /\ binding' \in [Binding -> BindingRecord \cup {None}]
      /\ reverse' \in [Session -> Binding \cup {None}]
  BY <1>1, <1>3, <1>5 DEF NativeOK
<1>7. link' \in [Binding \X Session -> LinkState]
  BY <1>1, <1>3 DEF NativeOK, LinkState
<1>8. OpenLinkAgrees'
  <2> SUFFICES ASSUME NEW a \in Binding, NEW x \in Session
               PROVE  link'[a, x] = "open" <=> binding'[a] # None /\ binding'[a].open = x
    BY DEF OpenLinkAgrees
  <2>1. link[a, x] = "open" <=> binding[a] # None /\ binding[a].open = x
    BY <1>1 DEF NativeOK, OpenLinkAgrees
  <2>2. CASE a # b
    <3>1. link'[a, x] = link[a, x] /\ binding'[a] = binding[a]
      BY <2>2, <1>4, <1>5
    <3> QED BY <2>1, <3>1
  <2>3. CASE a = b
    <3>1. binding'[a] # None
      BY <2>3, <1>5, ConstantsAssumption
    <3>2. binding'[a].open = binding[a].open /\ binding[a] # None
      BY <2>3, <1>1, <1>5
    <3>3. link'[b, x] = "open" <=> link[b, x] = "open"
      BY <1>2, <1>4
    <3> QED BY <2>1, <2>3, <3>1, <3>2, <3>3
  <2> QED BY <2>2, <2>3
<1>9. ReverseNamesALink'
  BY <1>1, <1>3, <1>4 DEF NativeOK, ReverseNamesALink
<1>10. KeepsHistory
  BY <1>2, <1>4 DEF KeepsHistory
<1>11. KeepsHolders
  <2> SUFFICES ASSUME NEW a \in Binding, NEW x \in Session, Opens(a, x)
               PROVE  Opens(a, x)'
    BY DEF KeepsHolders
  <2>1. link'[a, x] = "open"
    BY <1>2, <1>4 DEF Opens
  <2>2. binding'[a] # None /\ binding'[a].open = binding[a].open
    BY <1>1, <1>5, ConstantsAssumption DEF Opens
  <2> QED BY <2>1, <2>2 DEF Opens
<1> QED BY <1>6, <1>7, <1>8, <1>9, <1>10, <1>11 DEF NativeStep, NativeOK

-----------------------------------------------------------------------------
(* The ways a step changes the life of a session. *)

LEMMA LifeSame ==
    ASSUME IInv, UNCHANGED lifecycle
    PROVE  LifeStep
  BY DEF IInv, LifeStep, LifeOK, PresenceFollowsStatus, IsLive, KeepsEnds, lifecycle

\* Only the presence key or the score of a session moves, and the score not
\* between being there and not.
LEMMA LifeBeats ==
    ASSUME IInv, status' = status,
           presence' \in [Session -> BOOLEAN],
           deadline' \in [Session -> Deadline \cup {None}],
           \A s \in Session : IsLive(s) => deadline'[s] # None,
           \A s \in Session : ~IsLive(s) => deadline'[s] = None /\ ~presence'[s]
    PROVE  LifeStep
  BY DEF IInv, LifeStep, LifeOK, PresenceFollowsStatus, IsLive, KeepsEnds

LEMMA LifeStarts ==
    ASSUME IInv, NEW s \in Session, status[s] = "unregistered",
           status' = [status EXCEPT ![s] = "starting"],
           presence' = [presence EXCEPT ![s] = TRUE],
           deadline' = [deadline EXCEPT ![s] = 0]
    PROVE  LifeStep
<1>1. LifeOK /\ 0 \in Deadline /\ 0 # None
  BY ConstantsAssumption DEF IInv, Deadline
<1>2. /\ status' \in [Session -> Status]
      /\ presence' \in [Session -> BOOLEAN]
      /\ deadline' \in [Session -> Deadline \cup {None}]
  BY <1>1 DEF LifeOK, Status, Live
<1>3. PresenceFollowsStatus'
  BY <1>1 DEF LifeOK, PresenceFollowsStatus, IsLive, Live
<1>4. KeepsEnds
  BY <1>1 DEF LifeOK, KeepsEnds, Terminal
<1> QED BY <1>2, <1>3, <1>4 DEF LifeStep, LifeOK

LEMMA LifeEnds ==
    ASSUME IInv, NEW s \in Session, NEW target \in Terminal, IsLive(s),
           status' = [status EXCEPT ![s] = target],
           presence' = [presence EXCEPT ![s] = FALSE],
           deadline' = [deadline EXCEPT ![s] = None]
    PROVE  LifeStep /\ status'[s] \in Terminal
<1>1. LifeOK /\ target \in Status /\ target \notin Live /\ status[s] \notin Terminal
  BY DEF IInv, IsLive, Live, Terminal, Status
<1>2. /\ status' \in [Session -> Status]
      /\ presence' \in [Session -> BOOLEAN]
      /\ deadline' \in [Session -> Deadline \cup {None}]
      /\ status'[s] = target
  BY <1>1 DEF LifeOK
<1>3. PresenceFollowsStatus'
  BY <1>1 DEF LifeOK, PresenceFollowsStatus, IsLive
<1>4. KeepsEnds
  BY <1>1 DEF LifeOK, KeepsEnds
<1> QED BY <1>2, <1>3, <1>4 DEF LifeStep, LifeOK

-----------------------------------------------------------------------------
(* Calls in flight. *)

StepOK == IInv' /\ KeepsHolders /\ KeepsHistory /\ KeepsEnds

\* Ended sessions stay ended, so what is in flight stays sound.
LEMMA CallsKept ==
    ASSUME IInv, NativeStep, LifeStep,
           \/ UNCHANGED call
           \/ \E c \in Slot : Return(c)
    PROVE  StepOK
<1>1. CallsOK /\ KeepsEnds
  BY DEF IInv, LifeStep
<1>2. call' \in [Slot -> Call \cup {None}]
  BY <1>1 DEF CallsOK, Return
<1>3. \A c \in Slot : call'[c] # None => call'[c] = call[c]
  BY <1>1 DEF CallsOK, Return
<1>4. ASSUME NEW c \in Slot, call'[c] # None
      PROVE  Sound(call[c])'
  <2>1. call'[c] = call[c] /\ Sound(call[c])
    BY <1>1, <1>3, <1>4 DEF CallsOK
  <2>2. call[c] \in DeclareCall => call[c].native.stale \in Session \cup {None}
    BY DEF DeclareCall, Declaration
  <2> QED BY <1>1, <2>1, <2>2 DEF Sound, KeepsEnds
<1> QED BY <1>2, <1>4 DEF StepOK, IInv, NativeStep, LifeStep, CallsOK

LEMMA CallsBegin ==
    ASSUME IInv, NEW c \in Slot, NEW k \in Call, Sound(k), Begin(c, k)
    PROVE  StepOK
<1>1. NativeStep /\ LifeStep
  BY NativeSame, LifeSame DEF Begin, native, lifecycle
<1>2. CallsOK /\ status' = status /\ call' = [call EXCEPT ![c] = k]
  BY DEF IInv, Begin, lifecycle
<1>3. CallsOK'
  BY <1>2 DEF CallsOK, Sound
<1> QED BY <1>1, <1>3 DEF StepOK, IInv, NativeStep, LifeStep

-----------------------------------------------------------------------------
(* The actions. *)

\* What a declaration is decided from makes a sound call.
LEMMA DecisionSound ==
    ASSUME IInv, NEW b \in Binding, NEW s \in Session, NEW n \in Decisions(b, s)
    PROVE  n \in Declaration /\ (n.stale # None => status[n.stale] \in Terminal)
<1>1. binding[b] # None => binding[b].version \in Nat
  BY DEF IInv, NativeOK, BindingRecord
<1> QED BY <1>1 DEF Decisions, Declaration

LEMMA RegisterPlainOK ==
    ASSUME IInv, NEW s \in Session, RegisterPlain(s)
    PROVE  StepOK
  BY LifeStarts, NativeSame, CallsKept DEF RegisterPlain, Minted, native

LEMMA RegisterReadOK ==
    ASSUME IInv, NEW c \in Caller, NEW s \in Session, NEW b \in Binding, RegisterRead(c, s, b)
    PROVE  StepOK
<1>1. PICK n \in Decisions(b, s) : Begin(c, [op |-> "register", session |-> s, native |-> n])
  BY DEF RegisterRead
<1> DEFINE k == [op |-> "register", session |-> s, native |-> n]
<1>2. k \in Call /\ Sound(k)
  BY DecisionSound DEF Call, DeclareCall, Sound
<1> QED BY <1>1, <1>2, CallsBegin DEF Slot

LEMMA DeclareReadOK ==
    ASSUME IInv, NEW c \in Caller, NEW s \in Session, NEW b \in Binding, DeclareRead(c, s, b)
    PROVE  StepOK
<1>1. PICK n \in Decisions(b, s) : Begin(c, [op |-> "declare", session |-> s, native |-> n])
  BY DEF DeclareRead
<1> DEFINE k == [op |-> "declare", session |-> s, native |-> n]
<1>2. k \in Call /\ Sound(k)
  BY DecisionSound DEF Call, DeclareCall, Sound
<1> QED BY <1>1, <1>2, CallsBegin DEF Slot

LEMMA SessionRegisterOK ==
    ASSUME IInv, NEW c \in Caller, SessionRegister(c)
    PROVE  StepOK
<1> DEFINE s == call[c].session
           n == call[c].native
<1>1. /\ call[c] \in DeclareCall /\ c \in Slot /\ Return(c)
      /\ s \in Session /\ n \in Declaration
      /\ n.stale # None => status[n.stale] \in Terminal
  BY ConstantsAssumption
     DEF SessionRegister, IInv, CallsOK, Sound, Slot, DeclareCall, Call
<1>2. NativeStep /\ LifeStep
  <2>1. CASE status[s] = "unregistered" /\ NativeValidate(n, s)
    <3>1. /\ NativeApply(n, s)
          /\ status' = [status EXCEPT ![s] = "starting"]
          /\ presence' = [presence EXCEPT ![s] = TRUE]
          /\ deadline' = [deadline EXCEPT ![s] = 0]
      BY <2>1 DEF SessionRegister
    <3> QED BY <1>1, <2>1, <3>1, NativeApplied, LifeStarts
  <2>2. CASE ~(status[s] = "unregistered" /\ NativeValidate(n, s))
    <3>1. UNCHANGED lifecycle /\ UNCHANGED native
      BY <2>2 DEF SessionRegister, native, lifecycle
    <3> QED BY <3>1, NativeSame, LifeSame
  <2> QED BY <2>1, <2>2
<1> QED BY <1>1, <1>2, CallsKept

LEMMA NativeDeclareOK ==
    ASSUME IInv, NEW c \in Caller, NativeDeclare(c)
    PROVE  StepOK
<1> DEFINE s == call[c].session
           n == call[c].native
<1>1. /\ call[c] \in DeclareCall /\ c \in Slot /\ Return(c)
      /\ s \in Session /\ n \in Declaration
      /\ n.stale # None => status[n.stale] \in Terminal
  BY ConstantsAssumption
     DEF NativeDeclare, IInv, CallsOK, Sound, Slot, DeclareCall, Call
<1>2. LifeStep
  BY LifeSame DEF NativeDeclare, lifecycle
<1>3. NativeStep
  <2>1. CASE IsLive(s) /\ NativeValidate(n, s)
    BY <1>1, <2>1, NativeApplied DEF NativeDeclare
  <2>2. CASE ~(IsLive(s) /\ NativeValidate(n, s))
    BY <2>2, NativeSame DEF NativeDeclare
  <2> QED BY <2>1, <2>2
<1> QED BY <1>1, <1>2, <1>3, CallsKept

LEMMA SessionStatusOK ==
    ASSUME IInv, NEW s \in Session, SessionStatus(s)
    PROVE  StepOK
<1>1. LifeStep
  BY DEF SessionStatus, IInv, LifeStep, LifeOK, PresenceFollowsStatus, IsLive, Live,
         Status, KeepsEnds, Terminal
<1> QED BY <1>1, NativeSame, CallsKept DEF SessionStatus

LEMMA SessionHeartbeatOK ==
    ASSUME IInv, NEW s \in Session, SessionHeartbeat(s)
    PROVE  StepOK
<1>1. PICK d \in LaterDeadline(s) : deadline' = [deadline EXCEPT ![s] = d]
  BY DEF SessionHeartbeat
<1>2. /\ d \in Deadline /\ d # None
      /\ IsLive(s) /\ presence' = [presence EXCEPT ![s] = TRUE] /\ status' = status
  BY ConstantsAssumption DEF LaterDeadline, Deadline, SessionHeartbeat, MayBeat
<1>3. LifeStep
  BY <1>1, <1>2, LifeBeats DEF IInv, LifeOK, PresenceFollowsStatus
<1> QED BY <1>3, NativeSame, CallsKept DEF SessionHeartbeat

LEMMA PresenceLapsesOK ==
    ASSUME IInv, NEW s \in Session, PresenceLapses(s)
    PROVE  StepOK
<1>1. LifeStep
  BY LifeBeats DEF PresenceLapses, IInv, LifeOK, PresenceFollowsStatus
<1> QED BY <1>1, NativeSame, CallsKept DEF PresenceLapses

-----------------------------------------------------------------------------
(* Ending a session. *)

LEMMA TerminateOK ==
    ASSUME IInv, NEW s \in Session, NEW n \in Unlink \cup {None}, NEW target \in Terminal,
           IsLive(s), Terminate(s, n, target)
    PROVE  NativeStep /\ LifeStep
<1>1. LifeStep /\ status'[s] \in Terminal
  BY LifeEnds DEF Terminate
<1>2. CASE n = None
  BY <1>1, <1>2, NativeSame DEF Terminate
<1>3. CASE n # None
  BY <1>1, <1>3, NativeUnlinked DEF Terminate
<1> QED BY <1>1, <1>2, <1>3

\* What a terminal path is told to unlink, if anything, is a binding it read.
LEMMA OwnUnlinkType ==
    ASSUME IInv, NEW s \in Session, reverse[s] # None, Opens(reverse[s], s)
    PROVE  OwnUnlink(s) \in Unlink
  BY DEF IInv, NativeOK, OwnUnlink, Unlink, Opens, BindingRecord

LEMMA ExpiringUnlinkType ==
    ASSUME IInv, NEW s \in Session
    PROVE  ExpiringUnlink(s) \in Unlink \cup {None}
  BY OwnUnlinkType DEF ExpiringUnlink

LEMMA CompleteReadOK ==
    ASSUME IInv, NEW c \in Caller, NEW s \in Session, CompleteRead(c, s)
    PROVE  StepOK
<1>1. PICK n \in Unlink \cup {None} :
        Begin(c, [op |-> "complete", session |-> s, native |-> n])
  BY OwnUnlinkType DEF CompleteRead
<1> DEFINE k == [op |-> "complete", session |-> s, native |-> n]
<1>2. k \in CompleteCall /\ k \notin DeclareCall
  BY DEF CompleteCall, DeclareCall
<1> QED BY <1>1, <1>2, CallsBegin DEF Call, Sound, Slot

LEMMA SweepReadOK ==
    ASSUME IInv, NEW s \in Session, SweepRead(s)
    PROVE  StepOK
<1> DEFINE k == [op |-> "disconnect", session |-> s, native |-> ExpiringUnlink(s),
                 deadline |-> deadline[s]]
<1>1. deadline[s] \in Deadline
  BY DEF SweepRead, IInv, LifeOK
<1>2. k \in DisconnectCall /\ k \notin DeclareCall
  BY <1>1, ExpiringUnlinkType DEF DisconnectCall, DeclareCall
<1> QED BY <1>2, CallsBegin DEF SweepRead, Call, Sound, Slot, Sweeper

LEMMA ReapReadOK ==
    ASSUME IInv, NEW s \in Session, ReapRead(s)
    PROVE  StepOK
<1> DEFINE k == [op |-> "reap", session |-> s, native |-> ExpiringUnlink(s)]
<1>1. k \in ReapCall /\ k \notin DeclareCall
  BY ExpiringUnlinkType DEF ReapCall, DeclareCall
<1> QED BY <1>1, CallsBegin DEF ReapRead, Call, Sound, Slot, Sweeper

LEMMA SessionCompleteOK ==
    ASSUME IInv, NEW c \in Caller, SessionComplete(c)
    PROVE  StepOK
<1> DEFINE s == call[c].session
           n == call[c].native
<1>1. c \in Slot /\ Return(c) /\ s \in Session /\ n \in Unlink \cup {None}
  BY DEF SessionComplete, Slot, CompleteCall
<1>2. CASE ~IsLive(s) \/ UnlinkLost(s, n)
  BY <1>1, <1>2, NativeSame, LifeSame, CallsKept DEF SessionComplete
<1>3. CASE ~(~IsLive(s) \/ UnlinkLost(s, n))
  BY <1>1, <1>3, TerminateOK, CallsKept DEF SessionComplete, Terminal
<1> QED BY <1>2, <1>3

LEMMA SessionDisconnectOK ==
    ASSUME IInv, NEW s \in Session, SessionDisconnect(s)
    PROVE  StepOK
<1> DEFINE n == call["presence"].native
           d == call["presence"].deadline
<1>1. /\ "presence" \in Slot /\ Return("presence")
      /\ n \in Unlink \cup {None} /\ d \in Deadline
      /\ LifeOK
  BY DEF SessionDisconnect, Slot, Sweeper, DisconnectCall, IInv
<1>2. CASE ~(SameDeadline(s, d) /\ IsLive(s))
  <2>1. /\ deadline' = [deadline EXCEPT ![s] = IF SameDeadline(s, d) THEN None ELSE @]
        /\ UNCHANGED <<status, presence, native>>
    BY <1>2 DEF SessionDisconnect
  <2>2. LifeStep
    BY <1>1, <1>2, <2>1, LifeBeats DEF LifeOK, PresenceFollowsStatus
  <2> QED BY <1>1, <2>1, <2>2, NativeSame, CallsKept
<1>3. CASE SameDeadline(s, d) /\ IsLive(s) /\ presence[s]
  <2>1. PICK e \in LaterDeadline(s) : deadline' = [deadline EXCEPT ![s] = e]
    BY <1>3 DEF SessionDisconnect
  <2>2. e \in Deadline /\ e # None
    BY ConstantsAssumption DEF LaterDeadline, Deadline
  <2>3. UNCHANGED <<status, presence, native>>
    BY <1>3 DEF SessionDisconnect
  <2>4. LifeStep
    BY <1>1, <1>3, <2>1, <2>2, <2>3, LifeBeats DEF LifeOK, PresenceFollowsStatus
  <2> QED BY <1>1, <2>3, <2>4, NativeSame, CallsKept
<1>4. CASE SameDeadline(s, d) /\ IsLive(s) /\ ~presence[s] /\ ~UnlinkLost(s, n)
  BY <1>1, <1>4, TerminateOK, CallsKept DEF SessionDisconnect, Terminal
<1>5. CASE SameDeadline(s, d) /\ IsLive(s) /\ ~presence[s] /\ UnlinkLost(s, n)
  BY <1>1, <1>5, NativeSame, LifeSame, CallsKept DEF SessionDisconnect
<1> QED BY <1>2, <1>3, <1>4, <1>5

LEMMA SessionReapStartingOK ==
    ASSUME IInv, SessionReapStarting
    PROVE  StepOK
<1> DEFINE s == call["reaper"].session
           n == call["reaper"].native
<1>1. /\ "reaper" \in Slot /\ Return("reaper")
      /\ s \in Session /\ n \in Unlink \cup {None}
  BY DEF SessionReapStarting, Slot, Sweeper, ReapCall
<1>2. CASE ~MayReap(s) \/ UnlinkLost(s, n)
  BY <1>1, <1>2, NativeSame, LifeSame, CallsKept DEF SessionReapStarting
<1>3. CASE ~(~MayReap(s) \/ UnlinkLost(s, n))
  BY <1>1, <1>3, TerminateOK, CallsKept
     DEF SessionReapStarting, MayReap, IsLive, Live, Terminal
<1> QED BY <1>2, <1>3

-----------------------------------------------------------------------------
(* Retention, and requests that are lost. *)

LEMMA RetentionReadOK ==
    ASSUME IInv, NEW b \in Binding, RetentionRead(b)
    PROVE  StepOK
<1>1. PICK links \in SUBSET Session :
        Begin("retention", [op |-> "trim", binding |-> b, version |-> binding[b].version,
                            links |-> links])
  BY DEF RetentionRead
<1> DEFINE k == [op |-> "trim", binding |-> b, version |-> binding[b].version, links |-> links]
<1>2. binding[b].version \in Nat
  BY DEF RetentionRead, IInv, NativeOK, BindingRecord
<1>3. k \in TrimCall /\ k \notin DeclareCall
  BY <1>2 DEF TrimCall, DeclareCall
<1> QED BY <1>1, <1>3, CallsBegin DEF Call, Sound, Slot, Sweeper

LEMMA NativeLinkTrimOK ==
    ASSUME IInv, NativeLinkTrim
    PROVE  StepOK
<1> DEFINE b == call["retention"].binding
           v == call["retention"].version
           links == call["retention"].links
<1>1. /\ "retention" \in Slot /\ Return("retention")
      /\ b \in Binding /\ links \in SUBSET Session
  BY DEF NativeLinkTrim, Slot, Sweeper, TrimCall
<1>2. LifeStep
  BY LifeSame DEF NativeLinkTrim, lifecycle
<1>3. CASE TrimHolds(b, v, links)
  BY <1>1, <1>2, <1>3, NativeTrimmed, CallsKept DEF NativeLinkTrim
<1>4. CASE ~TrimHolds(b, v, links)
  BY <1>1, <1>2, <1>4, NativeSame, CallsKept DEF NativeLinkTrim
<1> QED BY <1>3, <1>4

LEMMA AbandonOK ==
    ASSUME IInv, NEW c \in Caller, Abandon(c)
    PROVE  StepOK
  BY NativeSame, LifeSame, CallsKept DEF Abandon, Slot, native, lifecycle

LEMMA StutterOK ==
    ASSUME IInv, UNCHANGED vars
    PROVE  StepOK
  BY NativeSame, LifeSame, CallsKept DEF vars, native, lifecycle

LEMMA NextOK ==
    ASSUME IInv, [Next]_vars
    PROVE  StepOK
<1>1. ASSUME NEW c \in Caller, Request(c) PROVE StepOK
  BY <1>1, RegisterReadOK, DeclareReadOK, CompleteReadOK, SessionRegisterOK,
     NativeDeclareOK, SessionCompleteOK, AbandonOK DEF Request
<1>2. ASSUME NEW s \in Session,
             \/ RegisterPlain(s)
             \/ SessionStatus(s)
             \/ SessionHeartbeat(s)
             \/ PresenceLapses(s)
             \/ PresenceSweep(s)
      PROVE StepOK
  BY <1>2, RegisterPlainOK, SessionStatusOK, SessionHeartbeatOK, PresenceLapsesOK,
     SweepReadOK, SessionDisconnectOK DEF PresenceSweep
<1>3. CASE Reaper
  BY <1>3, ReapReadOK, SessionReapStartingOK DEF Reaper
<1>4. CASE Retention
  BY <1>4, RetentionReadOK, NativeLinkTrimOK DEF Retention
<1> QED BY <1>1, <1>2, <1>3, <1>4, StutterOK DEF Next

-----------------------------------------------------------------------------
(* The theorems. *)

\* Every behaviour keeps the inductive invariant.
THEOREM Invariance == Spec => []IInv
<1>1. IInv /\ [Next]_vars => IInv'
  BY NextOK DEF StepOK
<1> QED BY InitOK, <1>1, PTL DEF Spec

\* Every behaviour keeps the types.
THEOREM TypeCorrect == Spec => []TypeOK
<1>1. IInv => TypeOK
  BY DEF IInv, NativeOK, LifeOK, CallsOK, TypeOK
<1> QED BY <1>1, Invariance, PTL

\* The binding's pointer and the link records agree: one open link at most.
THEOREM LinkAgreement == Spec => []OpenLinkAgrees
<1>1. IInv => OpenLinkAgrees
  BY DEF IInv, NativeOK
<1> QED BY <1>1, Invariance, PTL

\* A reverse key always names a link there is.
THEOREM ReverseAgreement == Spec => []ReverseNamesALink
<1>1. IInv => ReverseNamesALink
  BY DEF IInv, NativeOK
<1> QED BY <1>1, Invariance, PTL

\* Live sessions are in the deadline index, ended ones have no presence.
THEOREM PresenceAgreement == Spec => []PresenceFollowsStatus
<1>1. IInv => PresenceFollowsStatus
  BY DEF IInv, LifeOK
<1> QED BY <1>1, Invariance, PTL

\* No old decision, other session's end or trimming takes a live holder's link.
THEOREM HolderSafe == Spec => LiveHolderKeepsReference
<1>1. IInv /\ [Next]_vars => [KeepsHolders]_vars
  BY NextOK DEF StepOK
<1> QED BY <1>1, Invariance, PTL DEF Spec, LiveHolderKeepsReference, KeepsHolders

\* A closed interval stays closed, an open one is closed before it is dropped.
THEOREM HistorySafe == Spec => LinkHistoryKept
<1>1. IInv /\ [Next]_vars => [KeepsHistory]_vars
  BY NextOK DEF StepOK
<1> QED BY <1>1, Invariance, PTL DEF Spec, LinkHistoryKept, KeepsHistory

\* The first terminal status stands.
THEOREM EndIsFinal == Spec => TerminalIsFinal
<1>1. IInv /\ [Next]_vars => [KeepsEnds]_vars
  BY NextOK DEF StepOK
<1> QED BY <1>1, Invariance, PTL DEF Spec, TerminalIsFinal, KeepsEnds

-----------------------------------------------------------------------------
(* SessionRevival: the clients of these sessions *)

\* An object that is on closes nothing, one that is off keeps nothing alive; it
\* asks for a session only when it has none, and beats for the one it has.
ObjectOK(r) ==
    /\ r \in Bootstrap
    /\ r.phase = "on" => r.closing = None
    /\ r.phase = "off" => r.kept = None
    /\ r.op \in {"register", "registered"} => r.kept = None
    /\ r.op = "beat" /\ r.phase = "on" => r.hand = r.kept
    /\ r.op \in {"registered", "discard", "beat", "inspect"} => r.hand \in Session

\* The sessions an object answers for, open or not.
Named(r) ==
    {s \in Session : \/ s = r.hand /\ r.op \in {"registered", "discard"}
                     \/ s = r.kept
                     \/ s = r.closing}

\* The objects, and the sessions they and the accidents account for.
ObjectsOK ==
    /\ sessionStatus \in [Session -> {"starting", "ready", "gone"}]
    /\ boot \in [Client -> Bootstrap]
    /\ adrift \subseteq Session
    /\ \A c \in Client : ObjectOK(boot[c])
    /\ \A s \in Session :
          sessionStatus[s] # "gone" => s \in adrift \/ \E c \in Client : s \in Named(boot[c])

\* What a tool call has read and waits for.
ToolOK(k) ==
    /\ k \in ToolCall
    /\ k.at \in {"read", "retire", "reread", "look", "replace", "start"} => k.id \in Session
    /\ k.at \in {"verify", "bound"} => k.to \in Session
    /\ k.at = "start" => k.client \in Reviver

CallsTyped ==
    /\ file \in Session \cup {None}
    /\ successor \in Successor \cup {None}
    /\ toolCall \in [ToolCaller -> ToolCall]
    /\ \A k \in ToolCaller : ToolOK(toolCall[k])
    /\ faults \in 0..MaxFaults

\* Only a join revives, and the one there is has no successor beside the one it
\* starts.
JoinsOK ==
    /\ \A k \in ToolCaller :
          /\ toolCall[k].at \in {"terminal", "reread", "look", "replace", "start", "bound"} =>
                k \in Joiner
          /\ toolCall[k].at \in {"replace", "start"} => successor = None

ClientIInv == ObjectsOK /\ CallsTyped

-----------------------------------------------------------------------------
(* One object *)

\* The record after an operation is a record, and differs in what it says.
LEMMA FinishedFacts ==
    ASSUME NEW c \in Client, boot[c] \in Bootstrap
    PROVE  /\ Finished(c) \in Bootstrap
           /\ Finished(c).op = None
           /\ Finished(c).phase = boot[c].phase
           /\ Finished(c).kept = boot[c].kept
           /\ Finished(c).closing = boot[c].closing
           /\ Finished(c).ready = boot[c].ready
BY DEF Finished, Bootstrap

\* A stop moves the session that was kept to the one that is closed.
LEMMA StoppedFacts ==
    ASSUME NEW c \in Client, ObjectOK(boot[c])
    PROVE  /\ ObjectOK(Stopped(c))
           /\ Named(boot[c]) \subseteq Named(Stopped(c))
           /\ Stopped(c).phase = "off"
<1>1. CASE On(c)
  <2> DEFINE r == Stopped(c)
  <2>1. r = [boot[c] EXCEPT !.phase = "off", !.kept = None, !.ready = FALSE,
                            !.closing = boot[c].kept]
    BY <1>1 DEF Stopped
  <2>2. r \in Bootstrap
    BY <2>1 DEF Bootstrap, ObjectOK
  <2>3. /\ r.phase = "off" /\ r.kept = None /\ r.closing = boot[c].kept
        /\ r.op = boot[c].op /\ r.hand = boot[c].hand
    BY <2>1 DEF Bootstrap, ObjectOK
  <2> HIDE DEF r
  <2>4. boot[c].closing = None
    BY <1>1 DEF On, ObjectOK
  <2>5. ObjectOK(r)
    BY <2>2, <2>3, <2>4 DEF ObjectOK
  <2>6. Named(boot[c]) \subseteq Named(r)
    BY <2>3, <2>4 DEF Named
  <2> QED BY <2>3, <2>5, <2>6 DEF r
<1>2. CASE ~On(c)
  <2>1. Stopped(c) = boot[c]
    BY <1>2 DEF Stopped
  <2>2. boot[c].phase = "off"
    BY <1>2 DEF On, ObjectOK, Bootstrap
  <2> QED BY <2>1, <2>2
<1> QED BY <1>1, <1>2

\* A step of one object.  It accounts for the sessions it opens, and gives up
\* only those that are gone or adrift.
LEMMA ObjectStep ==
    ASSUME ObjectsOK, NEW c \in Client, NEW r, ObjectOK(r),
           boot' = [boot EXCEPT ![c] = r],
           sessionStatus' \in [Session -> {"starting", "ready", "gone"}],
           adrift' \subseteq Session,
           \A s \in Session : sessionStatus'[s] # "gone" =>
               /\ sessionStatus[s] # "gone" \/ s \in Named(r)
               /\ s \in adrift => s \in adrift'
               /\ s \in Named(boot[c]) => s \in adrift' \/ s \in Named(r)
    PROVE  ObjectsOK'
<1>1. boot' \in [Client -> Bootstrap] /\ boot'[c] = r
  BY DEF ObjectsOK, ObjectOK
<1>2. \A d \in Client \ {c} : boot'[d] = boot[d]
  BY DEF ObjectsOK
<1>3. \A d \in Client : ObjectOK(boot'[d])
  BY <1>1, <1>2 DEF ObjectsOK
<1>4. ASSUME NEW s \in Session, sessionStatus'[s] # "gone"
      PROVE  s \in adrift' \/ \E d \in Client : s \in Named(boot'[d])
  <2>1. CASE s \in Named(r)
    BY <1>1, <2>1
  <2>2. CASE s \in adrift
    BY <1>4, <2>2
  <2>3. CASE s \notin Named(r) /\ s \notin adrift
    <3>1. sessionStatus[s] # "gone"
      BY <1>4, <2>3
    <3>2. PICK d \in Client : s \in Named(boot[d])
      BY <2>3, <3>1 DEF ObjectsOK
    <3>3. CASE d = c
      BY <1>4, <2>3, <3>2, <3>3
    <3>4. CASE d # c
      BY <1>2, <3>2, <3>4
    <3> QED BY <3>3, <3>4
  <2> QED BY <2>1, <2>2, <2>3
<1> QED BY <1>1, <1>3, <1>4 DEF ObjectsOK, ObjectOK, Named

\* A step of one object that the daemon hears nothing of.
LEMMA LocalStep ==
    ASSUME ObjectsOK, NEW c \in Client, NEW r, ObjectOK(r),
           boot' = [boot EXCEPT ![c] = r], UNCHANGED <<sessionStatus, adrift>>,
           \A s \in Named(boot[c]) : sessionStatus[s] # "gone" => s \in Named(r)
    PROVE  ObjectsOK'
<1>1. /\ sessionStatus' \in [Session -> {"starting", "ready", "gone"}]
      /\ adrift' \subseteq Session
  BY DEF ObjectsOK
<1>2. ASSUME NEW s \in Session, sessionStatus'[s] # "gone"
      PROVE  /\ sessionStatus[s] # "gone"
             /\ s \in adrift => s \in adrift'
             /\ s \in Named(boot[c]) => s \in Named(r)
  BY <1>2
<1> QED BY <1>1, <1>2, ObjectStep

\* The daemon ends a session: it is nobody's any more.
LEMMA EndStep ==
    ASSUME ObjectsOK, NEW c \in Client, NEW r, ObjectOK(r),
           NEW e \in Session, End(e),
           boot' = [boot EXCEPT ![c] = r],
           \A s \in Named(boot[c]) \ {e} : s \in Named(r)
    PROVE  ObjectsOK'
<1>1. sessionStatus' = [sessionStatus EXCEPT ![e] = "gone"] /\ adrift' = adrift \ {e}
  BY DEF End
<1>2. /\ sessionStatus' \in [Session -> {"starting", "ready", "gone"}]
      /\ adrift' \subseteq Session
  BY <1>1 DEF ObjectsOK
<1>3. ASSUME NEW s \in Session, sessionStatus'[s] # "gone"
      PROVE  /\ sessionStatus[s] # "gone"
             /\ s \in adrift => s \in adrift'
             /\ s \in Named(boot[c]) => s \in Named(r)
  <2>1. s # e /\ sessionStatus'[s] = sessionStatus[s]
    BY <1>1, <1>3 DEF ObjectsOK
  <2> QED BY <1>1, <1>3, <2>1
<1> QED BY <1>2, <1>3, ObjectStep

LEMMA SessionEndsOK ==
    ASSUME ObjectsOK, NEW e \in Session, SessionEnds(e)
    PROVE  ObjectsOK'
<1>1. /\ sessionStatus' = [sessionStatus EXCEPT ![e] = "gone"]
      /\ adrift' = adrift \ {e} /\ boot' = boot
  BY DEF SessionEnds, End
<1>2. \A s \in Session : sessionStatus'[s] # "gone" => s # e /\ sessionStatus[s] # "gone"
  BY <1>1 DEF ObjectsOK
<1>3. sessionStatus' \in [Session -> {"starting", "ready", "gone"}]
  BY <1>1 DEF ObjectsOK
<1> QED BY <1>1, <1>2, <1>3 DEF ObjectsOK, Named

LEMMA TickOK ==
    ASSUME ObjectsOK, NEW c \in Client, Tick(c)
    PROVE  ObjectsOK'
<1> DEFINE b == boot[c]
           r == [b EXCEPT !.op = IF b.kept = None THEN "register" ELSE "beat",
                          !.hand = b.kept]
<1>1. b \in Bootstrap /\ ObjectOK(b) /\ b.phase = "on" /\ b.op = None
  BY DEF Tick, On, ObjectsOK
<1>2. boot' = [boot EXCEPT ![c] = r] /\ UNCHANGED <<sessionStatus, adrift>>
  BY DEF Tick
<1>3. /\ r \in Bootstrap /\ r.phase = "on" /\ r.hand = b.kept
      /\ r.kept = b.kept /\ r.closing = b.closing
      /\ r.op = IF b.kept = None THEN "register" ELSE "beat"
  BY <1>1 DEF Bootstrap, Operation
<1> HIDE DEF r
<1>4. b.kept # None => b.kept \in Session
  BY <1>1 DEF Bootstrap
<1>5. ObjectOK(r)
  BY <1>1, <1>3, <1>4 DEF ObjectOK
<1>6. Named(b) \subseteq Named(r)
  <2>1. None \notin {"registered", "discard"}
    BY BootstrapAssumption DEF Operation
  <2> QED BY <1>1, <1>3, <2>1 DEF Named
<1> HIDE DEF b
<1> QED BY <1>2, <1>5, <1>6, LocalStep DEF b

\* None names no operation.
LEMMA NoOperation ==
    None \notin {"register", "registered", "beat", "inspect", "discard"} /\ None \notin Session
BY BootstrapAssumption DEF Operation

\* The record of an object whose operation is over is one.
LEMMA FinishedOK ==
    ASSUME NEW c \in Client, ObjectOK(boot[c])
    PROVE  /\ ObjectOK(Finished(c))
           /\ boot[c].op \notin {"registered", "discard"} =>
                 Named(boot[c]) \subseteq Named(Finished(c))
           /\ Named(boot[c]) \ {boot[c].hand} \subseteq Named(Finished(c))
<1> DEFINE r == Finished(c)
<1>1. /\ r \in Bootstrap /\ r.op = None /\ r.phase = boot[c].phase
      /\ r.kept = boot[c].kept /\ r.closing = boot[c].closing
  BY FinishedFacts DEF ObjectOK
<1> HIDE DEF r
<1>2. ObjectOK(r)
  BY <1>1, NoOperation DEF ObjectOK
<1>3. boot[c].op \notin {"registered", "discard"} => Named(boot[c]) \subseteq Named(r)
  BY <1>1 DEF Named
<1>4. Named(boot[c]) \ {boot[c].hand} \subseteq Named(r)
  BY <1>1 DEF Named
<1> QED BY <1>2, <1>3, <1>4 DEF r

LEMMA RegisterServedOK ==
    ASSUME ObjectsOK, NEW c \in Client, NEW e \in Session,
           RegisterServed(c, e)
    PROVE  ObjectsOK'
<1> DEFINE r == [boot[c] EXCEPT !.op = "registered", !.hand = e]
<1>1. /\ boot[c] \in Bootstrap /\ ObjectOK(boot[c]) /\ boot[c].op = "register"
      /\ boot' = [boot EXCEPT ![c] = r]
      /\ sessionStatus' = [sessionStatus EXCEPT ![e] = "starting"] /\ adrift' = adrift
  BY DEF RegisterServed, ObjectsOK
<1>2. /\ r \in Bootstrap /\ r.op = "registered" /\ r.hand = e
      /\ r.kept = boot[c].kept /\ r.closing = boot[c].closing /\ r.phase = boot[c].phase
  BY <1>1 DEF Bootstrap, Operation
<1> HIDE DEF r
<1>3. ObjectOK(r)
  BY <1>1, <1>2 DEF ObjectOK
<1>4. e \in Named(r) /\ Named(boot[c]) \subseteq Named(r)
  BY <1>1, <1>2 DEF Named
<1>5. /\ sessionStatus' \in [Session -> {"starting", "ready", "gone"}]
      /\ adrift' \subseteq Session
      /\ \A s \in Session \ {e} : sessionStatus'[s] = sessionStatus[s]
  BY <1>1 DEF ObjectsOK
<1>6. ASSUME NEW s \in Session, sessionStatus'[s] # "gone"
      PROVE  sessionStatus[s] # "gone" \/ s \in Named(r)
  BY <1>4, <1>5, <1>6
<1> QED BY <1>1, <1>3, <1>4, <1>5, <1>6, ObjectStep

LEMMA RegisterReturnsOK ==
    ASSUME ObjectsOK, NEW c \in Client, RegisterReturns(c)
    PROVE  ObjectsOK'
<1>1. /\ boot[c] \in Bootstrap /\ ObjectOK(boot[c]) /\ boot[c].op = "registered"
      /\ UNCHANGED <<sessionStatus, adrift>>
  BY DEF RegisterReturns, ObjectsOK
<1>2. CASE On(c)
  <2> DEFINE f == Finished(c)
             r == [f EXCEPT !.kept = boot[c].hand, !.told = Report(c, boot[c].hand)]
  <2>1. boot' = [boot EXCEPT ![c] = r]
    BY <1>2 DEF RegisterReturns
  <2>2. /\ f \in Bootstrap /\ f.op = None /\ f.phase = boot[c].phase
        /\ f.closing = boot[c].closing
    BY <1>1, FinishedFacts
  <2>3. boot[c].hand \in Session /\ boot[c].kept = None /\ boot[c].phase = "on"
    BY <1>1, <1>2 DEF ObjectOK, On
  <2>4. Report(c, boot[c].hand) \in Session \cup {None, Silent}
    BY <2>3 DEF Report
  <2> HIDE DEF f
  <2>5. /\ r \in Bootstrap /\ r.op = None /\ r.phase = "on"
        /\ r.kept = boot[c].hand /\ r.closing = boot[c].closing
    BY <2>2, <2>3, <2>4 DEF Bootstrap
  <2> HIDE DEF r
  <2>6. ObjectOK(r)
    BY <1>1, <2>3, <2>5, NoOperation DEF ObjectOK
  <2>7. Named(boot[c]) \subseteq Named(r)
    BY <2>3, <2>5, NoOperation DEF Named
  <2> QED BY <1>1, <2>1, <2>6, <2>7, LocalStep
<1>3. CASE ~On(c)
  <2> DEFINE r == [boot[c] EXCEPT !.op = "discard"]
  <2>1. boot' = [boot EXCEPT ![c] = r]
    BY <1>3 DEF RegisterReturns, Late
  <2>2. /\ r \in Bootstrap /\ r.op = "discard" /\ r.hand = boot[c].hand
        /\ r.kept = boot[c].kept /\ r.closing = boot[c].closing /\ r.phase = boot[c].phase
    BY <1>1 DEF Bootstrap, Operation
  <2> HIDE DEF r
  <2>3. ObjectOK(r)
    BY <1>1, <2>2 DEF ObjectOK
  <2>4. Named(boot[c]) \subseteq Named(r)
    BY <2>2 DEF Named
  <2> QED BY <1>1, <2>1, <2>3, <2>4, LocalStep
<1> QED BY <1>2, <1>3

LEMMA DiscardServedOK ==
    ASSUME ObjectsOK, NEW c \in Client, DiscardServed(c)
    PROVE  ObjectsOK'
<1>1. /\ ObjectOK(boot[c]) /\ boot[c].op = "discard" /\ End(boot[c].hand)
      /\ boot' = [boot EXCEPT ![c] = Finished(c)]
  BY DEF DiscardServed, ObjectsOK
<1>2. boot[c].hand \in Session
  BY <1>1 DEF ObjectOK
<1> QED BY <1>1, <1>2, FinishedOK, EndStep

\* What a beat or a look at the status leaves keeps what the object had.
LEMMA BeatOK ==
    ASSUME ObjectsOK, NEW c \in Client, Beat(c)
    PROVE  ObjectsOK'
<1> DEFINE b == boot[c]
<1>1. /\ b \in Bootstrap /\ ObjectOK(b) /\ b.op = "beat"
      /\ UNCHANGED <<sessionStatus, adrift>>
  BY DEF Beat, ObjectsOK
<1>2. CASE boot' = [boot EXCEPT ![c] = Finished(c)]
  <2>1. b.op \notin {"registered", "discard"}
    BY <1>1
  <2> QED BY <1>1, <1>2, <2>1, FinishedOK, LocalStep
<1>3. CASE boot' = [boot EXCEPT ![c] = [b EXCEPT !.op = "inspect"]]
  <2> DEFINE r == [b EXCEPT !.op = "inspect"]
  <2>1. /\ r \in Bootstrap /\ r.op = "inspect" /\ r.hand = b.hand
        /\ r.kept = b.kept /\ r.closing = b.closing /\ r.phase = b.phase
    BY <1>1 DEF Bootstrap, Operation
  <2> HIDE DEF r
  <2>2. ObjectOK(r)
    BY <1>1, <2>1 DEF ObjectOK
  <2>3. Named(b) \subseteq Named(r)
    BY <1>1, <2>1 DEF Named
  <2> QED BY <1>1, <1>3, <2>2, <2>3, LocalStep DEF r
<1>4. CASE /\ On(c) /\ ~Open(b.hand)
           /\ boot' = [boot EXCEPT ![c] = GivesUp(c)]
  <2> DEFINE f == Finished(c)
             phase == IF Settled(c) THEN "on" ELSE "off"
             r == [f EXCEPT !.kept = None, !.ready = FALSE, !.phase = phase]
  <2>1. /\ f \in Bootstrap /\ f.op = None /\ f.closing = b.closing
    BY <1>1, FinishedFacts
  <2>2. GivesUp(c) = r /\ phase \in {"on", "off"}
    BY DEF GivesUp
  <2> HIDE DEF f, phase
  <2>3. /\ r \in Bootstrap /\ r.op = None /\ r.kept = None
        /\ r.closing = f.closing
    BY <2>1, <2>2 DEF Bootstrap
  <2> HIDE DEF r
  <2>4. b.phase = "on" /\ b.closing = None /\ b.hand = b.kept /\ sessionStatus[b.hand] = "gone"
    BY <1>1, <1>4 DEF ObjectOK, On, Open
  <2>5. ObjectOK(r)
    BY <2>1, <2>3, <2>4, NoOperation DEF ObjectOK
  <2>6. \A s \in Named(b) : sessionStatus[s] # "gone" => s \in Named(r)
    BY <1>1, <2>4, NoOperation DEF Named
  <2> QED BY <1>1, <1>4, <2>2, <2>5, <2>6, LocalStep
<1> QED BY <1>2, <1>3, <1>4 DEF Beat, Beaten

LEMMA InspectOK ==
    ASSUME ObjectsOK, NEW c \in Client, Inspect(c)
    PROVE  ObjectsOK'
<1> DEFINE f == Finished(c)
           seen == f.ready \/ (On(c) /\ sessionStatus[boot[c].hand] # "starting")
           r == [f EXCEPT !.ready = seen]
<1>1. /\ boot[c] \in Bootstrap /\ ObjectOK(boot[c]) /\ boot[c].op = "inspect"
      /\ UNCHANGED <<sessionStatus, adrift>>
  BY DEF Inspect, ObjectsOK
<1>2. boot' = [boot EXCEPT ![c] = r]
  BY DEF Inspect
<1>3. ObjectOK(f) /\ Named(boot[c]) \subseteq Named(f)
  BY <1>1, FinishedOK
<1> HIDE DEF f
<1>4. seen \in BOOLEAN
  BY <1>3 DEF ObjectOK, Bootstrap
<1> HIDE DEF seen
<1>5. /\ r \in Bootstrap /\ r.op = f.op /\ r.hand = f.hand
      /\ r.kept = f.kept /\ r.closing = f.closing /\ r.phase = f.phase
  BY <1>3, <1>4 DEF ObjectOK, Bootstrap
<1> HIDE DEF r
<1>6. ObjectOK(r)
  BY <1>3, <1>5 DEF ObjectOK
<1>7. Named(boot[c]) \subseteq Named(r)
  BY <1>3, <1>5 DEF Named
<1> QED BY <1>1, <1>2, <1>6, <1>7, LocalStep

\* A request that fails leaves at most the session it was about, and that adrift.
LEMMA OperationFailsOK ==
    ASSUME ObjectsOK, NEW c \in Client, OperationFails(c)
    PROVE  ObjectsOK'
<1> DEFINE r == Finished(c)
<1>1. /\ ObjectOK(boot[c]) /\ boot' = [boot EXCEPT ![c] = r]
      /\ adrift' = adrift \cup {s \in Answers(c) : Open(s)}
      /\ sessionStatus' = sessionStatus
  BY DEF OperationFails, ObjectsOK
<1>2. /\ ObjectOK(r)
      /\ boot[c].op \notin {"registered", "discard"} => Named(boot[c]) \subseteq Named(r)
      /\ Named(boot[c]) \ {boot[c].hand} \subseteq Named(r)
  BY <1>1, FinishedOK
<1> HIDE DEF r
<1>3. /\ sessionStatus' \in [Session -> {"starting", "ready", "gone"}]
      /\ adrift' \subseteq Session
  BY <1>1 DEF ObjectsOK, ObjectOK, Answers
<1>4. ASSUME NEW s \in Session, sessionStatus'[s] # "gone", s \in Named(boot[c])
      PROVE  s \in adrift' \/ s \in Named(r)
  <2>1. CASE boot[c].op \in {"registered", "discard"} /\ s = boot[c].hand
    BY <1>1, <1>4, <2>1 DEF Answers, Open
  <2>2. CASE ~(boot[c].op \in {"registered", "discard"} /\ s = boot[c].hand)
    BY <1>2, <1>4, <2>2
  <2> QED BY <2>1, <2>2
<1> QED BY <1>1, <1>2, <1>3, <1>4, ObjectStep

\* The close of a stop is over.
LEMMA ReturnedFacts ==
    ASSUME NEW c \in Client, ObjectOK(boot[c]), boot[c].closing # None,
           NEW r, r = [boot[c] EXCEPT !.closing = None, !.told = Report(c, None)]
    PROVE  ObjectOK(r) /\ Named(boot[c]) \ {boot[c].closing} \subseteq Named(r)
<1>1. Report(c, None) \in {None, Silent}
  BY DEF Report
<1>2. /\ r \in Bootstrap /\ r.closing = None /\ r.op = boot[c].op
      /\ r.hand = boot[c].hand /\ r.kept = boot[c].kept /\ r.phase = boot[c].phase
  BY <1>1 DEF ObjectOK, Bootstrap
<1>3. ObjectOK(r)
  BY <1>2 DEF ObjectOK
<1>4. Named(boot[c]) \ {boot[c].closing} \subseteq Named(r)
  BY <1>2 DEF Named
<1> QED BY <1>3, <1>4

LEMMA CloseServedOK ==
    ASSUME ObjectsOK, NEW c \in Client, CloseServed(c)
    PROVE  ObjectsOK'
<1> DEFINE r == [boot[c] EXCEPT !.closing = None, !.told = Report(c, None)]
<1>1. /\ ObjectOK(boot[c]) /\ boot[c].closing # None /\ End(boot[c].closing)
      /\ boot' = [boot EXCEPT ![c] = r]
  BY DEF CloseServed, StopReturns, ObjectsOK
<1>2. boot[c].closing \in Session
  BY <1>1 DEF ObjectOK, Bootstrap
<1>3. ObjectOK(r) /\ Named(boot[c]) \ {boot[c].closing} \subseteq Named(r)
  BY <1>1, ReturnedFacts
<1> HIDE DEF r
<1> QED BY <1>1, <1>2, <1>3, EndStep

LEMMA CloseFailsOK ==
    ASSUME ObjectsOK, NEW c \in Client, CloseFails(c)
    PROVE  ObjectsOK'
<1> DEFINE r == [boot[c] EXCEPT !.closing = None, !.told = Report(c, None)]
<1>1. /\ ObjectOK(boot[c]) /\ boot[c].closing # None /\ boot' = [boot EXCEPT ![c] = r]
      /\ adrift' = adrift \cup {s \in {boot[c].closing} : Open(s)}
      /\ sessionStatus' = sessionStatus
  BY DEF CloseFails, StopReturns, ObjectsOK
<1>2. ObjectOK(r) /\ Named(boot[c]) \ {boot[c].closing} \subseteq Named(r)
  BY <1>1, ReturnedFacts
<1> HIDE DEF r
<1>3. boot[c].closing \in Session
  BY <1>1 DEF ObjectOK, Bootstrap
<1>4. /\ sessionStatus' \in [Session -> {"starting", "ready", "gone"}]
      /\ adrift' \subseteq Session
  BY <1>1, <1>3 DEF ObjectsOK
<1>5. ASSUME NEW s \in Session, sessionStatus'[s] # "gone", s \in Named(boot[c])
      PROVE  s \in adrift' \/ s \in Named(r)
  <2>1. CASE s = boot[c].closing
    BY <1>1, <1>5, <2>1 DEF Open
  <2>2. CASE s # boot[c].closing
    BY <1>2, <1>5, <2>2
  <2> QED BY <2>1, <2>2
<1> QED BY <1>1, <1>2, <1>4, <1>5, ObjectStep

\* An object that is done holds nothing, and starts with nothing.
LEMMA FreshFacts ==
    /\ ObjectOK(Fresh) /\ Named(Fresh) = {}
    /\ Fresh.phase = "off"
BY NoOperation DEF Fresh, ObjectOK, Named, Bootstrap

LEMMA StartOK ==
    ASSUME ObjectsOK, NEW c \in Client, Done(c), Start(c),
           UNCHANGED <<sessionStatus, adrift>>
    PROVE  ObjectsOK' /\ \A d \in Client \ {c} : boot'[d] = boot[d]
<1> DEFINE r == [Fresh EXCEPT !.phase = "on", !.op = "register"]
<1>1. boot' = [boot EXCEPT ![c] = r]
  BY DEF Start
<1>2. ObjectOK(r)
  BY NoOperation DEF Fresh, ObjectOK, Bootstrap, Operation
<1>3. ObjectOK(boot[c])
  BY DEF ObjectsOK
<1>4. /\ boot[c].op = None /\ boot[c].closing = None /\ boot[c].kept = None
  BY <1>3 DEF Done, On, ObjectOK, Bootstrap
<1>5. Named(boot[c]) = {}
  BY <1>4, NoOperation DEF Named
<1> HIDE DEF r
<1>6. ObjectsOK'
  BY <1>1, <1>2, <1>5, LocalStep
<1> QED BY <1>1, <1>6 DEF ObjectsOK

\* A stop forgets no session.
LEMMA StopOK ==
    ASSUME ObjectsOK, NEW c \in Client,
           boot' = [boot EXCEPT ![c] = Stopped(c)], UNCHANGED <<sessionStatus, adrift>>
    PROVE  /\ ObjectsOK' /\ boot'[c].phase = "off"
           /\ \A d \in Client \ {c} : boot'[d] = boot[d]
<1>1. /\ ObjectOK(Stopped(c)) /\ Named(boot[c]) \subseteq Named(Stopped(c))
      /\ Stopped(c).phase = "off"
  BY StoppedFacts DEF ObjectsOK
<1>2. ObjectsOK'
  BY <1>1, LocalStep
<1> QED BY <1>1, <1>2 DEF ObjectsOK

\* A process dies: what its objects held is adrift.
LEMMA HoldsFacts ==
    ASSUME ObjectsOK, NEW c \in Client
    PROVE  Holds(c) = {s \in Named(boot[c]) : sessionStatus[s] # "gone"}
<1>1. boot[c] \in Bootstrap /\ ObjectOK(boot[c])
  BY DEF ObjectsOK
<1>2. boot[c].op \in {"registered", "discard"} => boot[c].hand \in Session
  BY <1>1 DEF ObjectOK
<1> QED BY <1>1, <1>2, NoOperation
    DEF Holds, Answers, Open, Named, Bootstrap

LEMMA DiesOK ==
    ASSUME ObjectsOK, NEW D \in SUBSET Client,
           adrift' = adrift \cup UNION {Holds(c) : c \in D},
           sessionStatus' = sessionStatus,
           boot' = [c \in Client |-> IF c \in D THEN Fresh ELSE boot[c]]
    PROVE  ObjectsOK'
<1>1. boot' \in [Client -> Bootstrap]
  BY FreshFacts DEF ObjectsOK, ObjectOK
<1>2. \A c \in Client : ObjectOK(boot'[c])
  BY FreshFacts DEF ObjectsOK
<1>3. \A c \in D : Holds(c) = {s \in Named(boot[c]) : sessionStatus[s] # "gone"}
  BY HoldsFacts
<1>4. adrift' \subseteq Session
  BY <1>3 DEF ObjectsOK, Named
<1>5. ASSUME NEW s \in Session, sessionStatus'[s] # "gone"
      PROVE  s \in adrift' \/ \E c \in Client : s \in Named(boot'[c])
  <2>1. CASE s \in adrift
    BY <2>1
  <2>2. CASE s \notin adrift
    <3>1. PICK c \in Client : s \in Named(boot[c])
      BY <1>5, <2>2 DEF ObjectsOK
    <3>2. CASE c \in D
      BY <1>3, <1>5, <3>1, <3>2
    <3>3. CASE c \notin D
      BY <3>1, <3>3
    <3> QED BY <3>2, <3>3
  <2> QED BY <2>1, <2>2
<1>6. sessionStatus' \in [Session -> {"starting", "ready", "gone"}]
  BY DEF ObjectsOK
<1> QED BY <1>1, <1>2, <1>4, <1>5, <1>6 DEF ObjectsOK, ObjectOK, Named

\* A reader binds a session: it is as open as it was.
LEMMA BindOK ==
    ASSUME ObjectsOK, NEW e \in Session, ReaderBinds(e), UNCHANGED <<boot, adrift>>
    PROVE  ObjectsOK'
<1>1. sessionStatus' = [sessionStatus EXCEPT ![e] = IF @ = "starting" THEN "ready" ELSE @]
  BY DEF ReaderBinds
<1>2. sessionStatus' \in [Session -> {"starting", "ready", "gone"}]
  BY <1>1 DEF ObjectsOK
<1>3. \A s \in Session : sessionStatus'[s] # "gone" => sessionStatus[s] # "gone"
  BY <1>1 DEF ObjectsOK
<1> QED BY <1>2, <1>3 DEF ObjectsOK, Named

\* The steps of the objects, and what they leave of the rest.
LEMMA BootOK ==
    ASSUME ObjectsOK, NEW c \in Client,
           BootStep(c) \/ BootFault(c)
    PROVE  /\ ObjectsOK' /\ UNCHANGED <<file, successor, toolCall>>
           /\ faults' = faults \/ (faults < MaxFaults /\ faults' = faults + 1)
<1>1. CASE BootStep(c)
  <2>1. ASSUME NEW s \in Unnamed, RegisterServed(c, s) PROVE ObjectsOK'
    BY <2>1, RegisterServedOK DEF Unnamed
  <2>2. UNCHANGED <<file, successor, toolCall, faults>>
    BY <1>1 DEF BootStep
  <2>3. ObjectsOK'
    BY <1>1, <2>1, TickOK, RegisterReturnsOK, DiscardServedOK, BeatOK, InspectOK, CloseServedOK
    DEF BootStep, OperationStep
  <2> QED BY <2>2, <2>3
<1>2. CASE BootFault(c)
  BY <1>2, OperationFailsOK, CloseFailsOK DEF BootFault, Fault
<1> QED BY <1>1, <1>2

\* The step of an object turns none on.
LEMMA BootPhase ==
    ASSUME ObjectsOK, NEW c \in Client,
           BootStep(c) \/ BootFault(c), NEW d \in Client, boot'[d].phase = "on"
    PROVE  boot[d].phase = "on"
<1> SUFFICES ASSUME boot[d].phase # "on" PROVE FALSE
  OBVIOUS
<1>1. boot \in [Client -> Bootstrap] /\ boot[c] \in Bootstrap
  BY DEF ObjectsOK
<1>2. /\ Finished(c) \in Bootstrap
      /\ Finished(c).phase = boot[c].phase
  BY <1>1, FinishedFacts
<1>3. ASSUME NEW r, boot' = [boot EXCEPT ![c] = r],
             ~On(c) => r.phase = boot[c].phase
      PROVE  FALSE
  BY <1>1, <1>3 DEF On
<1>4. CASE Tick(c)
  BY <1>3, <1>4 DEF Tick
<1>5. ASSUME NEW s, RegisterServed(c, s) PROVE FALSE
  <2> DEFINE r == [boot[c] EXCEPT !.op = "registered", !.hand = s]
  <2>1. boot' = [boot EXCEPT ![c] = r]
    BY <1>5 DEF RegisterServed
  <2>2. r.phase = boot[c].phase
    BY <1>1 DEF Bootstrap
  <2> HIDE DEF r
  <2> QED BY <1>3, <2>1, <2>2
<1>6. CASE RegisterReturns(c)
  <2> DEFINE r == IF On(c)
                  THEN [Finished(c) EXCEPT !.kept = boot[c].hand,
                                     !.told = Report(c, boot[c].hand)]
                  ELSE Late(c)
  <2>1. boot' = [boot EXCEPT ![c] = r]
    BY <1>6 DEF RegisterReturns
  <2>2. ~On(c) => r.phase = boot[c].phase
    BY <1>1 DEF Bootstrap, Late
  <2> HIDE DEF r
  <2> QED BY <1>3, <2>1, <2>2
<1>7. CASE DiscardServed(c) \/ OperationFails(c)
  BY <1>2, <1>3, <1>7 DEF DiscardServed, OperationFails
<1>8. CASE Beat(c)
  <2> DEFINE r == [boot[c] EXCEPT !.op = "inspect"]
  <2>1. r.phase = boot[c].phase
    BY <1>1 DEF Bootstrap
  <2> HIDE DEF r
  <2>2. CASE boot' = [boot EXCEPT ![c] = r]
    BY <1>3, <2>1, <2>2
  <2>3. CASE boot' = [boot EXCEPT ![c] = Finished(c)]
    BY <1>2, <1>3, <2>3
  <2>4. CASE On(c) /\ boot' = [boot EXCEPT ![c] = GivesUp(c)]
    BY <1>3, <2>4
  <2> QED BY <1>8, <2>2, <2>3, <2>4 DEF Beat, Beaten, r
<1>9. CASE Inspect(c)
  <2> DEFINE f == Finished(c)
             r == [f EXCEPT !.ready = @ \/ (On(c)
                                            /\ sessionStatus[boot[c].hand] # "starting")]
  <2>1. boot' = [boot EXCEPT ![c] = r]
    BY <1>9 DEF Inspect
  <2> HIDE DEF f
  <2>2. r.phase = f.phase
    BY <1>2 DEF Bootstrap, f
  <2> HIDE DEF r
  <2> QED BY <1>2, <1>3, <2>1, <2>2 DEF f
<1>10. CASE CloseServed(c) \/ CloseFails(c)
  <2> DEFINE r == [boot[c] EXCEPT !.closing = None, !.told = Report(c, None)]
  <2>1. boot' = [boot EXCEPT ![c] = r]
    BY <1>10 DEF CloseServed, CloseFails, StopReturns
  <2>2. r.phase = boot[c].phase
    BY <1>1 DEF Bootstrap
  <2> HIDE DEF r
  <2> QED BY <1>3, <2>1, <2>2
<1> QED BY <1>4, <1>5, <1>6, <1>7, <1>8, <1>9, <1>10
    DEF BootStep, BootFault, OperationStep

-----------------------------------------------------------------------------
(* One tool call *)

\* A call goes on: it is one, and it says where and for whom.
LEMMA CallSet ==
    ASSUME CallsTyped, NEW k \in ToolCaller, NEW x, ToolOK(x),
           toolCall' = [toolCall EXCEPT ![k] = x],
           file' = file, successor' \in Successor \cup {None}, faults' = faults
    PROVE  /\ CallsTyped' /\ toolCall'[k] = x
           /\ \A j \in ToolCaller \ {k} : toolCall'[j] = toolCall[j]
<1>1. /\ toolCall' \in [ToolCaller -> ToolCall] /\ toolCall'[k] = x
      /\ \A j \in ToolCaller \ {k} : toolCall'[j] = toolCall[j]
  BY DEF CallsTyped, ToolOK
<1>2. \A j \in ToolCaller : ToolOK(toolCall'[j])
  BY <1>1 DEF CallsTyped
<1> QED BY <1>1, <1>2 DEF CallsTyped, ToolOK, Reviver

LEMMA IdleFacts ==
    /\ Idle \in ToolCall /\ ToolOK(Idle)
    /\ Idle.at = "idle"
BY DEF Idle, ToolCall, Stage, ToolOK

\* Where a call may stand after a step of its own.
Onwards(k, stages) ==
    /\ CallsTyped'
    /\ toolCall'[k].at \in stages
    /\ \A j \in ToolCaller \ {k} : toolCall'[j] = toolCall[j]

LEMMA EndsOK ==
    ASSUME CallsTyped, NEW k \in ToolCaller, Ends(k),
           file' = file, successor' \in Successor \cup {None}, faults' = faults
    PROVE  Onwards(k, {"idle"})
BY IdleFacts, CallSet DEF Ends, Onwards

LEMMA GoesToOK ==
    ASSUME CallsTyped, NEW k \in ToolCaller, NEW s \in Session, GoesTo(k, s),
           file' = file, successor' \in Successor \cup {None}, faults' = faults
    PROVE  Onwards(k, {"verify"})
<1> DEFINE x == [toolCall[k] EXCEPT !.at = "verify", !.id = None, !.to = s, !.client = None]
<1>1. toolCall' = [toolCall EXCEPT ![k] = x]
  BY DEF GoesTo, CallsTyped
<1>2. toolCall[k] \in ToolCall
  BY DEF CallsTyped
<1>3. x \in ToolCall /\ x.at = "verify" /\ x.to = s
  BY <1>2 DEF ToolCall, Stage
<1> HIDE DEF x
<1>4. ToolOK(x)
  BY <1>3 DEF ToolOK
<1> QED BY <1>1, <1>3, <1>4, CallSet DEF Onwards

\* The other moves: with a session read, or without.
LEMMA GoesOK ==
    ASSUME CallsTyped, NEW k \in ToolCaller, NEW stage \in Stage \ {"start"},
           Goes(k, stage),
           stage \in {"read", "retire", "reread", "look", "replace"} => toolCall[k].id \in Session,
           stage \in {"verify", "bound"} => toolCall[k].to \in Session,
           file' = file, successor' \in Successor \cup {None}, faults' = faults
    PROVE  Onwards(k, {stage})
<1> DEFINE x == [toolCall[k] EXCEPT !.at = stage]
<1>1. toolCall' = [toolCall EXCEPT ![k] = x]
  BY DEF Goes, CallsTyped
<1>2. toolCall[k] \in ToolCall
  BY DEF CallsTyped
<1>3. /\ x \in ToolCall /\ x.at = stage /\ x.to = toolCall[k].to
      /\ x.id = toolCall[k].id
  BY <1>2 DEF ToolCall
<1> HIDE DEF x
<1>4. ToolOK(x)
  BY <1>3 DEF ToolOK
<1> QED BY <1>1, <1>3, <1>4, CallSet DEF Onwards

LEMMA FindsTerminalOK ==
    ASSUME CallsTyped, NEW k \in ToolCaller, FindsTerminal(k),
           file' = file, successor' \in Successor \cup {None}, faults' = faults
    PROVE  Onwards(k, {"idle", "terminal"}) /\ (toolCall'[k].at = "terminal" => k \in Joiner)
<1>1. CASE k \in Joiner /\ ~toolCall[k].reviving
  <2> DEFINE x == [Idle EXCEPT !.at = "terminal", !.reviving = TRUE]
  <2>1. toolCall' = [toolCall EXCEPT ![k] = x]
    BY <1>1 DEF FindsTerminal
  <2>2. x \in ToolCall /\ x.at = "terminal"
    BY IdleFacts DEF ToolCall, Stage
  <2> HIDE DEF x
  <2>3. ToolOK(x)
    BY <2>2 DEF ToolOK
  <2> QED BY <1>1, <2>1, <2>2, <2>3, CallSet DEF Onwards
<1>2. CASE ~(k \in Joiner /\ ~toolCall[k].reviving)
  <2>1. Ends(k)
    BY <1>2 DEF FindsTerminal
  <2> QED BY <2>1, EndsOK DEF Onwards
<1> QED BY <1>1, <1>2

\* The stages of a join that has found its session ended, or has bound it.
JoinStages == {"terminal", "reread", "look", "replace", "start", "bound"}

\* What every step of a tool call keeps.
CallMoves(k) ==
    /\ ObjectsOK' /\ CallsTyped'
    /\ \A j \in ToolCaller \ {k} : toolCall'[j] = toolCall[j]
    /\ toolCall'[k].at \in JoinStages => k \in Joiner \/ toolCall[k].at \in JoinStages

\* It leaves the successor alone, or stops its bootstrap and forgets it.
Retires ==
    \/ UNCHANGED <<boot, successor>>
    \/ /\ successor # None /\ successor' = None
       /\ boot'[successor.client].phase = "off"
       /\ \A d \in Client \ {successor.client} : boot'[d] = boot[d]

\* A step of a call that neither starts a bootstrap nor has one started.
GoesOn(k) ==
    /\ CallMoves(k)
    /\ Retires
    /\ toolCall[k].at # "start" /\ toolCall'[k].at # "start"
    /\ toolCall'[k].at = "replace" => successor' = None

LEMMA RetireOK ==
    ASSUME ObjectsOK, CallsTyped, Retire,
           UNCHANGED <<sessionStatus, adrift>>
    PROVE  ObjectsOK' /\ Retires /\ successor' = None
<1>1. CASE successor = None
  <2>1. UNCHANGED <<boot, successor, sessionStatus, adrift>>
    BY <1>1 DEF Retire
  <2> QED BY <1>1, <2>1 DEF Retires, ObjectsOK, Named
<1>2. CASE successor # None
  <2>1. successor.client \in Client
    BY <1>2 DEF CallsTyped, Successor, Reviver
  <2>2. /\ boot' = [boot EXCEPT ![successor.client] = Stopped(successor.client)]
        /\ successor' = None
    BY <1>2 DEF Retire
  <2>3. /\ ObjectsOK' /\ boot'[successor.client].phase = "off"
        /\ \A d \in Client \ {successor.client} : boot'[d] = boot[d]
    BY <2>1, <2>2, StopOK
  <2> QED BY <1>2, <2>2, <2>3 DEF Retires
<1> QED BY <1>1, <1>2

\* What a quiet step of a call leaves is as good as it was.
LEMMA QuietObjects ==
    ASSUME ObjectsOK, UNCHANGED <<sessionStatus, boot, adrift>> PROVE ObjectsOK'
BY DEF ObjectsOK, Named

LEMMA SameSuccessor ==
    ASSUME CallsTyped, UNCHANGED successor PROVE successor' \in Successor \cup {None}
BY DEF CallsTyped, Successor, Reviver

\* The steps of a call between its requests that change nothing else.
LEMMA QuietCallOK ==
    ASSUME ObjectsOK, CallsTyped, NEW k \in ToolCaller,
           \/ CallBegins(k) \/ ResolveRetired(k) \/ Verify(k)
           \/ Binds(k) \/ CallFails(k) \/ RevivalBegins(k)
           \/ RevivalDecides(k)
    PROVE  GoesOn(k)
<1> USE SameSuccessor DEF JoinStages
<1>1. toolCall[k] \in ToolCall /\ ToolOK(toolCall[k])
  BY DEF CallsTyped
<1>2. CASE CallBegins(k)
  <2> DEFINE x == [toolCall[k] EXCEPT !.at = "read", !.id = file]
  <2>1. /\ toolCall[k].at = "idle" /\ file # None
        /\ toolCall' = [toolCall EXCEPT ![k] = x]
        /\ UNCHANGED <<sessionStatus, boot, adrift, file, successor, faults>>
    BY <1>2 DEF CallBegins, bootVars
  <2>2. x \in ToolCall /\ x.at = "read" /\ x.id \in Session
    BY <1>1, <2>1 DEF ToolCall, Stage, CallsTyped
  <2> HIDE DEF x
  <2>3. ToolOK(x)
    BY <2>2 DEF ToolOK
  <2> QED BY <2>1, <2>2, <2>3, CallSet, QuietObjects DEF GoesOn, CallMoves, Retires
<1>3. CASE ResolveRetired(k)
  <2>1. /\ toolCall[k].at = "retire" /\ GoesTo(k, toolCall[k].id)
        /\ UNCHANGED <<sessionStatus, boot, adrift, file, successor, faults>>
    BY <1>3 DEF ResolveRetired, bootVars
  <2>2. toolCall[k].id \in Session
    BY <1>1, <2>1 DEF ToolOK
  <2> QED BY <2>1, <2>2, GoesToOK, QuietObjects DEF GoesOn, CallMoves, Retires, Onwards
<1>4. CASE Verify(k)
  <2>1. /\ toolCall[k].at = "verify"
        /\ UNCHANGED <<sessionStatus, boot, adrift, file, successor, faults>>
    BY <1>4 DEF Verify, bootVars
  <2>2. toolCall[k].to \in Session
    BY <1>1, <2>1 DEF ToolOK
  <2>3. CASE FindsTerminal(k)
    BY <2>1, <2>3, FindsTerminalOK, QuietObjects DEF GoesOn, CallMoves, Retires, Onwards
  <2>4. CASE k \in Joiner /\ Goes(k, "bound")
    <3>1. "bound" \in Stage \ {"start"}
      BY DEF Stage
    <3>2. Onwards(k, {"bound"})
      BY <2>1, <2>2, <2>4, <3>1, GoesOK
    <3> QED BY <2>1, <2>4, <3>2, QuietObjects DEF GoesOn, CallMoves, Retires, Onwards
  <2>5. CASE Ends(k)
    BY <2>1, <2>5, EndsOK, QuietObjects DEF GoesOn, CallMoves, Retires, Onwards
  <2> QED BY <1>4, <2>3, <2>4, <2>5 DEF Verify
<1>5. CASE Binds(k)
  <2>1. /\ toolCall[k].at = "bound" /\ ReaderBinds(toolCall[k].to) /\ Ends(k)
        /\ UNCHANGED <<boot, adrift, file, successor, faults>>
    BY <1>5 DEF Binds
  <2>2. toolCall[k].to \in Session
    BY <1>1, <2>1 DEF ToolOK
  <2>3. ObjectsOK'
    BY <2>1, <2>2, BindOK
  <2> QED BY <2>1, <2>3, EndsOK DEF GoesOn, CallMoves, Retires, Onwards
<1>6. CASE CallFails(k)
  <2>1. /\ toolCall[k].at \in {"verify", "look", "bound"} /\ Ends(k)
        /\ UNCHANGED <<sessionStatus, boot, adrift, file, successor, faults>>
    BY <1>6 DEF CallFails, bootVars
  <2> QED BY <2>1, EndsOK, QuietObjects DEF GoesOn, CallMoves, Retires, Onwards
<1>7. CASE RevivalBegins(k)
  <2> DEFINE x == [toolCall[k] EXCEPT !.at = "reread", !.id = file]
  <2>1. /\ toolCall[k].at = "terminal"
        /\ UNCHANGED <<sessionStatus, boot, adrift, file, successor, faults>>
    BY <1>7 DEF RevivalBegins, bootVars
  <2>2. CASE file = None
    <3>1. Ends(k)
      BY <1>7, <2>2 DEF RevivalBegins
    <3> QED BY <2>1, <3>1, EndsOK, QuietObjects DEF GoesOn, CallMoves, Retires, Onwards
  <2>3. CASE file # None
    <3>1. toolCall' = [toolCall EXCEPT ![k] = x]
      BY <1>7, <2>3 DEF RevivalBegins
    <3>2. x \in ToolCall /\ x.at = "reread" /\ x.id \in Session
      BY <1>1, <2>3 DEF ToolCall, Stage, CallsTyped
    <3> HIDE DEF x
    <3>3. ToolOK(x)
      BY <3>2 DEF ToolOK
    <3> QED BY <2>1, <3>1, <3>2, <3>3, CallSet, QuietObjects DEF GoesOn, CallMoves, Retires
  <2> QED BY <2>2, <2>3
<1>8. CASE RevivalDecides(k)
  <2>1. /\ toolCall[k].at = "reread"
        /\ UNCHANGED <<sessionStatus, boot, adrift, file, successor, faults>>
        /\ \/ /\ successor # None /\ boot[successor.client].kept # None
              /\ GoesTo(k, boot[successor.client].kept)
           \/ Goes(k, "look")
    BY <1>8 DEF RevivalDecides, bootVars
  <2>2. CASE /\ successor # None /\ boot[successor.client].kept # None
             /\ GoesTo(k, boot[successor.client].kept)
    <3>1. boot[successor.client] \in Bootstrap
      BY <2>2 DEF CallsTyped, ObjectsOK, Successor, Reviver
    <3>2. boot[successor.client].kept \in Session
      BY <2>2, <3>1 DEF Bootstrap
    <3> QED BY <2>1, <2>2, <3>2, GoesToOK, QuietObjects DEF GoesOn, CallMoves, Retires, Onwards
  <2>3. CASE Goes(k, "look")
    <3>1. "look" \in Stage \ {"start"} /\ toolCall[k].id \in Session
      BY <1>1, <2>1 DEF Stage, ToolOK
    <3>2. Onwards(k, {"look"})
      BY <2>1, <2>3, <3>1, GoesOK
    <3> QED BY <2>1, <3>2, QuietObjects DEF GoesOn, CallMoves, Retires, Onwards
  <2> QED BY <2>1, <2>2, <2>3
<1> QED BY <1>2, <1>3, <1>4, <1>5, <1>6, <1>7, <1>8

\* A call goes to a client that it may wait for.
LEMMA WaitsOK ==
    ASSUME CallsTyped, NEW k \in ToolCaller, toolCall[k].id \in Session,
           NEW c \in Reviver \cup {None}, NEW stage \in {"retire", "replace", "start"},
           stage = "start" => c \in Reviver,
           toolCall' = [toolCall EXCEPT ![k].at = stage, ![k].client = c],
           file' = file, successor' \in Successor \cup {None}, faults' = faults
    PROVE  Onwards(k, {stage}) /\ toolCall'[k].client = c /\ toolCall'[k].id = toolCall[k].id
<1> DEFINE x == [toolCall[k] EXCEPT !.at = stage, !.client = c]
<1>1. toolCall' = [toolCall EXCEPT ![k] = x]
  BY DEF CallsTyped
<1>2. toolCall[k] \in ToolCall
  BY DEF CallsTyped
<1>3. /\ x \in ToolCall /\ x.at = stage /\ x.client = c /\ x.id = toolCall[k].id
  BY <1>2 DEF ToolCall, Stage, Reviver
<1> HIDE DEF x
<1>4. ToolOK(x)
  BY <1>3 DEF ToolOK
<1> QED BY <1>1, <1>3, <1>4, CallSet DEF Onwards

\* The client of the successor, if there is one.
LEMMA SuccessorFacts ==
    ASSUME CallsTyped, successor # None
    PROVE  successor.client \in Reviver /\ successor.client \in Client
BY DEF CallsTyped, Successor, Reviver

LEMMA ResolveOK ==
    ASSUME ObjectsOK, CallsTyped, NEW k \in ToolCaller, Resolve(k)
    PROVE  GoesOn(k)
<1> USE DEF JoinStages
<1>1. toolCall[k].at = "read" /\ UNCHANGED <<sessionStatus, adrift, file, faults>>
  BY DEF Resolve
<1>2. toolCall[k].id \in Session
  BY <1>1 DEF CallsTyped, ToolOK
<1>3. CASE FindsTerminal(k) /\ UNCHANGED <<boot, successor>>
  BY <1>1, <1>3, FindsTerminalOK, SameSuccessor, QuietObjects
  DEF GoesOn, CallMoves, Retires, Onwards
<1>4. ASSUME NEW s \in Session, GoesTo(k, s), UNCHANGED <<boot, successor>>
      PROVE  GoesOn(k)
  BY <1>1, <1>4, GoesToOK, SameSuccessor, QuietObjects DEF GoesOn, CallMoves, Retires, Onwards
<1>5. CASE /\ successor # None /\ boot[successor.client].kept # None
           /\ GoesTo(k, boot[successor.client].kept) /\ UNCHANGED <<boot, successor>>
  <2>1. boot[successor.client] \in Bootstrap
    BY <1>5, SuccessorFacts DEF ObjectsOK
  <2>2. boot[successor.client].kept \in Session
    BY <1>5, <2>1 DEF Bootstrap
  <2> QED BY <1>4, <1>5, <2>2
<1>6. CASE /\ successor # None /\ Retire
           /\ toolCall' = [toolCall EXCEPT ![k].at = "retire", ![k].client = successor.client]
  <2>1. ObjectsOK' /\ Retires /\ successor' = None
    BY <1>1, <1>6, RetireOK
  <2>2. Onwards(k, {"retire"})
    BY <1>1, <1>2, <1>6, <2>1, SuccessorFacts, WaitsOK
  <2> QED BY <1>1, <2>1, <2>2 DEF GoesOn, CallMoves, Onwards
<1> QED BY <1>2, <1>3, <1>4, <1>5, <1>6 DEF Resolve

LEMMA RevivalLooksOK ==
    ASSUME ObjectsOK, CallsTyped, NEW k \in ToolCaller, RevivalLooks(k)
    PROVE  GoesOn(k)
<1> USE DEF JoinStages
<1>1. toolCall[k].at = "look" /\ UNCHANGED <<sessionStatus, adrift, file, faults>>
  BY DEF RevivalLooks
<1>2. toolCall[k].id \in Session
  BY <1>1 DEF CallsTyped, ToolOK
<1>3. CASE GoesTo(k, toolCall[k].id) /\ UNCHANGED <<boot, successor>>
  BY <1>1, <1>2, <1>3, GoesToOK, SameSuccessor, QuietObjects
  DEF GoesOn, CallMoves, Retires, Onwards
<1>4. CASE /\ Retire
           /\ toolCall' = [toolCall EXCEPT ![k].at = "replace",
                                           ![k].client = RetiringClient]
  <2>1. ObjectsOK' /\ Retires /\ successor' = None
    BY <1>1, <1>4, RetireOK
  <2>2. RetiringClient \in Reviver \cup {None}
    BY SuccessorFacts DEF RetiringClient
  <2>3. Onwards(k, {"replace"})
    BY <1>1, <1>2, <1>4, <2>1, <2>2, WaitsOK
  <2> QED BY <1>1, <2>1, <2>3 DEF GoesOn, CallMoves, Onwards
<1> QED BY <1>3, <1>4 DEF RevivalLooks

\* A join starts a bootstrap, and waits for it.
Begins(k, c) ==
    /\ CallMoves(k)
    /\ toolCall[k].at = "replace"
    /\ toolCall'[k].at = "start" /\ toolCall'[k].client = c
    /\ successor' = successor
    /\ \A d \in Client \ {c} : boot'[d] = boot[d]

LEMMA RevivalStartsOK ==
    ASSUME ObjectsOK, CallsTyped, NEW k \in ToolCaller, NEW c \in Reviver,
           RevivalStarts(k, c)
    PROVE  Begins(k, c)
<1>1. /\ toolCall[k].at = "replace" /\ Done(c) /\ Start(c)
      /\ toolCall' = [toolCall EXCEPT ![k].at = "start", ![k].client = c]
      /\ UNCHANGED <<sessionStatus, adrift, file, successor, faults>>
  BY DEF RevivalStarts, Usable
<1>2. toolCall[k].id \in Session
  BY <1>1 DEF CallsTyped, ToolOK
<1>3. ObjectsOK' /\ \A d \in Client \ {c} : boot'[d] = boot[d]
  BY <1>1, StartOK DEF Reviver
<1>4. Onwards(k, {"start"}) /\ toolCall'[k].client = c
  BY <1>1, <1>2, SameSuccessor, WaitsOK
<1> QED BY <1>1, <1>3, <1>4 DEF Begins, CallMoves, Onwards, JoinStages

\* Its first attempt is over: the bootstrap is stopped, or the successor's.
Attempted(k) ==
    LET c == toolCall[k].client IN
    /\ CallMoves(k)
    /\ toolCall[k].at = "start" /\ c \in Reviver
    /\ \A d \in Client \ {c} : boot'[d] = boot[d]
    /\ \/ /\ toolCall'[k].at = "idle"
          /\ boot'[c].phase = "off" /\ successor' = successor
       \/ /\ toolCall'[k].at = "verify"
          /\ boot' = boot /\ successor' # None /\ successor'.client = c

LEMMA RevivalStartedOK ==
    ASSUME ObjectsOK, CallsTyped, NEW k \in ToolCaller,
           RevivalStarted(k)
    PROVE  Attempted(k)
<1> DEFINE c == toolCall[k].client
           new == [of |-> toolCall[k].id, client |-> c]
<1>1. toolCall[k].at = "start" /\ UNCHANGED <<sessionStatus, adrift, file, faults>>
  BY DEF RevivalStarted
<1>2. toolCall[k].id \in Session /\ c \in Reviver /\ c \in Client
  BY <1>1 DEF CallsTyped, ToolOK, Reviver
<1>3. CASE /\ boot' = [boot EXCEPT ![c] = Stopped(c)]
           /\ Ends(k) /\ successor' = successor
  <2>1. /\ ObjectsOK' /\ boot'[c].phase = "off"
        /\ \A d \in Client \ {c} : boot'[d] = boot[d]
    BY <1>1, <1>2, <1>3, StopOK
  <2>2. Onwards(k, {"idle"})
    BY <1>1, <1>3, SameSuccessor, EndsOK
  <2> QED BY <1>1, <1>2, <1>3, <2>1, <2>2 DEF Attempted, CallMoves, Onwards, JoinStages
<1>4. CASE /\ boot[c].kept # None /\ boot' = boot
           /\ successor' = new /\ GoesTo(k, boot[c].kept)
  <2>1. boot[c].kept \in Session
    <3>1. boot[c] \in Bootstrap
      BY <1>2 DEF ObjectsOK
    <3> QED BY <1>4, <3>1 DEF Bootstrap
  <2>2. new \in Successor /\ new.client = c
    BY <1>2 DEF Successor, Reviver
  <2> HIDE DEF new
  <2>3. Onwards(k, {"verify"})
    BY <1>1, <1>4, <2>1, <2>2, GoesToOK
  <2>4. ObjectsOK'
    BY <1>1, <1>4, QuietObjects
  <2>5. new # None
    BY <2>2, RevivalAssumption
  <2> QED BY <1>1, <1>2, <1>4, <2>2, <2>3, <2>4, <2>5
      DEF Attempted, CallMoves, Onwards, JoinStages
<1> QED BY <1>3, <1>4 DEF RevivalStarted

-----------------------------------------------------------------------------
(* The processes, and every step *)

\* Steps beside the tool calls leave them alone.
LEMMA SameCalls ==
    ASSUME CallsTyped, UNCHANGED <<successor, toolCall>>,
           file' \in Session \cup {None}, faults' \in 0..MaxFaults
    PROVE  CallsTyped'
BY DEF CallsTyped, ToolOK, ToolCall, Successor, Reviver,
       Stage

LEMMA FaultFacts ==
    ASSUME CallsTyped,
           faults' = faults \/ (faults < MaxFaults /\ faults' = faults + 1)
    PROVE  faults' \in 0..MaxFaults
BY RevivalAssumption DEF CallsTyped

\* The steps of the daemon, and of the attach process with its file.
AttachStep ==
    \/ \E s \in Session : DaemonEnds(s)
    \/ AttachStart \/ AttachStop
    \/ FileWritten \/ AttachDies

LEMMA AttachStepOK ==
    ASSUME ClientIInv, AttachStep
    PROVE  /\ ClientIInv' /\ UNCHANGED <<successor, toolCall>>
           /\ \A d \in Reviver : boot'[d] = boot[d]
<1> USE DEF ClientIInv
<1>1. Attach \in Client
  BY RevivalAssumption
<1>2. file \in Session \cup {None} /\ faults \in 0..MaxFaults
  BY DEF CallsTyped
<1>3. ASSUME NEW s \in Session, DaemonEnds(s)
      PROVE  ClientIInv' /\ UNCHANGED <<boot, successor, toolCall>>
  <2>1. SessionEnds(s) /\ UNCHANGED <<file, successor, toolCall, faults>>
    BY <1>3 DEF DaemonEnds
  <2> QED BY <1>2, <2>1, SessionEndsOK, SameCalls DEF SessionEnds
<1>4. CASE AttachStart
  <2>1. /\ Done(Attach) /\ Start(Attach)
        /\ UNCHANGED <<sessionStatus, adrift, file, successor, toolCall, faults>>
    BY <1>4 DEF AttachStart
  <2> QED BY <1>1, <1>2, <2>1, StartOK, SameCalls DEF Reviver
<1>5. CASE AttachStop
  <2>1. /\ boot' = [boot EXCEPT ![Attach] = Stopped(Attach)]
        /\ UNCHANGED <<sessionStatus, adrift, file, successor, toolCall, faults>>
    BY <1>5 DEF AttachStop
  <2> QED BY <1>1, <1>2, <2>1, StopOK, SameCalls DEF Reviver
<1>6. CASE FileWritten
  <2>1. /\ boot[Attach].told # Silent /\ file' = boot[Attach].told
        /\ UNCHANGED <<sessionStatus, boot, adrift, successor, toolCall, faults>>
    BY <1>6 DEF FileWritten, bootVars
  <2>2. file' \in Session \cup {None}
    BY <1>1, <2>1 DEF ObjectsOK, Bootstrap
  <2> QED BY <1>2, <2>1, <2>2, QuietObjects, SameCalls
<1>7. CASE AttachDies
  <2>1. /\ adrift' = adrift \cup Holds(Attach)
        /\ boot' = [boot EXCEPT ![Attach] = Fresh]
        /\ UNCHANGED <<sessionStatus, file, successor, toolCall>>
        /\ faults < MaxFaults /\ faults' = faults + 1
    BY <1>7 DEF AttachDies, Fault
  <2>2. adrift' = adrift \cup UNION {Holds(c) : c \in {Attach}}
    BY <2>1
  <2>3. boot' = [c \in Client |-> IF c \in {Attach} THEN Fresh ELSE boot[c]]
    BY <1>1, <2>1 DEF ObjectsOK
  <2>4. ObjectsOK'
    BY <1>1, <2>1, <2>2, <2>3, DiesOK
  <2> QED BY <1>2, <2>1, <2>3, <2>4, FaultFacts, SameCalls DEF Reviver
<1> QED BY <1>3, <1>4, <1>5, <1>6, <1>7 DEF AttachStep, Reviver

LEMMA ServerDiesOK ==
    ASSUME ClientIInv, ServerDies
    PROVE  /\ ClientIInv' /\ successor' = None
           /\ \A k \in ToolCaller : toolCall'[k].at = "idle"
           /\ \A c \in Reviver : boot'[c].phase = "off"
<1> USE DEF ClientIInv
<1>1. /\ adrift' = adrift \cup UNION {Holds(c) : c \in Reviver}
      /\ boot' = [c \in Client |-> IF c = Attach THEN boot[c] ELSE Fresh]
      /\ successor' = None /\ toolCall' = [k \in ToolCaller |-> Idle]
      /\ sessionStatus' = sessionStatus /\ file' = file
      /\ faults < MaxFaults /\ faults' = faults + 1
  BY DEF ServerDies, Fault, Reviver
<1>2. boot' = [c \in Client |-> IF c \in Reviver THEN Fresh ELSE boot[c]]
  BY <1>1 DEF Reviver
<1>3. ObjectsOK'
  BY <1>1, <1>2, DiesOK DEF Reviver
<1>4. CallsTyped'
  <2>1. toolCall' \in [ToolCaller -> ToolCall] /\ \A k \in ToolCaller : ToolOK(toolCall'[k])
    BY <1>1, IdleFacts
  <2>2. faults' \in 0..MaxFaults
    BY <1>1, FaultFacts
  <2> QED BY <1>1, <2>1, <2>2 DEF CallsTyped, ToolOK, Reviver
<1> QED BY <1>1, <1>2, <1>3, <1>4, IdleFacts, FreshFacts DEF Reviver

\* The four kinds of steps of a client.
BootMoves ==
    /\ UNCHANGED <<successor, toolCall>>
    /\ \A d \in Reviver : boot'[d].phase = "on" => boot[d].phase = "on"

ServerGone ==
    /\ successor' = None
    /\ \A k \in ToolCaller : toolCall'[k].at = "idle"
    /\ \A c \in Reviver : boot'[c].phase = "off"

ClientStep ==
    /\ ClientIInv'
    /\ \/ BootMoves
       \/ \E k \in ToolCaller : GoesOn(k) \/ Attempted(k) \/ \E c \in Reviver : Begins(k, c)
       \/ ServerGone

LEMMA ClientStepOK ==
    ASSUME ClientIInv, [RevivalNext]_revivalVars PROVE ClientStep
<1> USE DEF ClientIInv
<1>1. ASSUME NEW c \in Client, BootStep(c) \/ BootFault(c) PROVE ClientStep
  <2>1. /\ ObjectsOK' /\ UNCHANGED <<file, successor, toolCall>>
        /\ faults' = faults \/ (faults < MaxFaults /\ faults' = faults + 1)
    BY <1>1, BootOK
  <2>2. CallsTyped'
    BY <2>1, FaultFacts, SameCalls DEF CallsTyped
  <2>3. \A d \in Reviver : boot'[d].phase = "on" => boot[d].phase = "on"
    BY <1>1, BootPhase DEF Reviver
  <2> QED BY <2>1, <2>2, <2>3 DEF ClientStep, BootMoves
<1>2. CASE AttachStep
  BY <1>2, AttachStepOK DEF ClientStep, BootMoves
<1>3. ASSUME NEW k \in ToolCaller,
             CallBegins(k) \/ CallStep(k) \/ CallFails(k)
      PROVE  ClientStep
  <2>1. ASSUME NEW c \in Reviver, RevivalStarts(k, c) PROVE Begins(k, c)
    BY <2>1, RevivalStartsOK DEF Reviver
  <2>2. GoesOn(k) \/ Attempted(k) \/ \E c \in Reviver : Begins(k, c)
    BY <1>3, <2>1, QuietCallOK, ResolveOK, RevivalLooksOK, RevivalStartedOK
    DEF CallStep, Reviver
  <2> QED BY <2>2 DEF ClientStep, GoesOn, Attempted, Begins, CallMoves
<1>4. CASE ServerDies
  BY <1>4, ServerDiesOK DEF ClientStep, ServerGone
<1>5. CASE UNCHANGED revivalVars
  <2>1. UNCHANGED <<sessionStatus, boot, adrift, file, successor, toolCall, faults>>
    BY <1>5 DEF revivalVars, bootVars
  <2> QED BY <2>1, QuietObjects, SameCalls DEF ClientStep, BootMoves, CallsTyped
<1> QED BY <1>1, <1>2, <1>3, <1>4, <1>5 DEF RevivalNext, AttachStep

LEMMA ClientInitOK ==
    ASSUME RevivalInit PROVE ClientIInv /\ JoinsOK
<1>1. /\ sessionStatus = [s \in Session |-> "gone"] /\ adrift = {}
      /\ boot = [c \in Client |-> Fresh]
      /\ file = None /\ successor = None /\ faults = 0
      /\ toolCall = [k \in ToolCaller |-> Idle]
  BY DEF RevivalInit, BootInit
<1>2. ObjectsOK
  BY <1>1, FreshFacts DEF ObjectsOK, ObjectOK
<1>3. CallsTyped
  BY <1>1, IdleFacts, RevivalAssumption DEF CallsTyped
<1>4. JoinsOK
  BY <1>1, IdleFacts DEF JoinsOK
<1> QED BY <1>2, <1>3, <1>4 DEF ClientIInv

LEMMA ClientInvariance == RevivalSpec => []ClientIInv
<1>1. RevivalInit => ClientIInv
  BY ClientInitOK
<1>2. ClientIInv /\ [RevivalNext]_revivalVars => ClientIInv'
  BY ClientStepOK DEF ClientStep
<1> QED BY <1>1, <1>2, PTL DEF RevivalSpec

-----------------------------------------------------------------------------
(* Successors *)

\* A bootstrap of the server that is on is the successor's, or awaited.
Tended ==
    \A c \in Reviver : boot[c].phase = "on" =>
        \/ successor # None /\ successor.client = c
        \/ \E k \in ToolCaller : toolCall[k].at = "start" /\ toolCall[k].client = c

OneJoiner == \A j, k \in Joiner : j = k

\* With one join at a time the successor is forgotten while another is made.
LEMMA JoinsStep ==
    ASSUME OneJoiner, ClientIInv, JoinsOK, ClientStep PROVE JoinsOK'
<1>1. CASE BootMoves
  BY <1>1 DEF BootMoves, JoinsOK
<1>2. CASE ServerGone
  BY <1>2 DEF ServerGone, JoinsOK
<1>3. ASSUME NEW k \in ToolCaller, CallMoves(k)
      PROVE  \A j \in ToolCaller : toolCall'[j].at \in JoinStages => j \in Joiner
  BY <1>3 DEF CallMoves, JoinsOK, JoinStages
<1>4. ASSUME NEW k \in ToolCaller, GoesOn(k) PROVE JoinsOK'
  <2>1. \A j \in ToolCaller : toolCall'[j].at \in {"replace", "start"} => successor' = None
    BY <1>4 DEF GoesOn, CallMoves, Retires, JoinsOK
  <2> QED BY <1>3, <1>4, <2>1 DEF GoesOn, JoinsOK, JoinStages
<1>5. ASSUME NEW k \in ToolCaller, NEW c \in Reviver, Begins(k, c) PROVE JoinsOK'
  <2>1. \A j \in ToolCaller : toolCall'[j].at \in {"replace", "start"} => successor' = None
    BY <1>5 DEF Begins, CallMoves, JoinsOK
  <2> QED BY <1>3, <1>5, <2>1 DEF Begins, JoinsOK, JoinStages
<1>6. ASSUME NEW k \in ToolCaller, Attempted(k) PROVE JoinsOK'
  <2>1. k \in Joiner /\ toolCall'[k].at \notin {"replace", "start"}
    BY <1>6 DEF Attempted, JoinsOK
  <2>2. ASSUME NEW j \in ToolCaller, toolCall'[j].at \in {"replace", "start"} PROVE FALSE
    <3>1. j # k /\ toolCall'[j] = toolCall[j]
      BY <1>6, <2>1, <2>2 DEF Attempted, CallMoves
    <3>2. j \in Joiner
      BY <2>2, <3>1 DEF JoinsOK
    <3> QED BY <2>1, <3>1, <3>2 DEF OneJoiner
  <2> QED BY <1>3, <1>6, <2>2 DEF Attempted, JoinsOK, JoinStages
<1> QED BY <1>1, <1>2, <1>4, <1>5, <1>6 DEF ClientStep

LEMMA TendedStep ==
    ASSUME OneJoiner, ClientIInv, JoinsOK, Tended, ClientStep PROVE Tended'
<1> SUFFICES ASSUME NEW d \in Reviver, boot'[d].phase = "on"
             PROVE  \/ successor' # None /\ successor'.client = d
                    \/ \E k \in ToolCaller : toolCall'[k].at = "start" /\ toolCall'[k].client = d
  BY DEF Tended
<1>1. CASE BootMoves
  BY <1>1 DEF BootMoves, Tended
<1>2. CASE ServerGone
  BY <1>2 DEF ServerGone
<1>3. ASSUME NEW k \in ToolCaller, toolCall[k].at # "start", CallMoves(k),
             NEW j \in ToolCaller, toolCall[j].at = "start", toolCall[j].client = d
      PROVE  toolCall'[j].at = "start" /\ toolCall'[j].client = d
  BY <1>3 DEF CallMoves
<1>4. ASSUME NEW k \in ToolCaller, GoesOn(k)
      PROVE  \/ successor' # None /\ successor'.client = d
             \/ \E j \in ToolCaller : toolCall'[j].at = "start" /\ toolCall'[j].client = d
  <2>1. boot[d].phase = "on" /\ (successor # None /\ successor.client = d => successor' = successor)
    BY <1>4, SuccessorFacts DEF GoesOn, Retires, ClientIInv, Reviver
  <2> QED BY <1>3, <1>4, <2>1 DEF GoesOn, Tended
<1>5. ASSUME NEW k \in ToolCaller, NEW c \in Reviver, Begins(k, c)
      PROVE  \/ successor' # None /\ successor'.client = d
             \/ \E j \in ToolCaller : toolCall'[j].at = "start" /\ toolCall'[j].client = d
  <2>1. CASE d = c
    BY <1>5, <2>1 DEF Begins
  <2>2. CASE d # c
    <3>1. boot[d].phase = "on" /\ successor' = successor
      BY <1>5, <2>2 DEF Begins, Reviver
    <3> QED BY <1>3, <1>5, <3>1 DEF Begins, Tended
  <2> QED BY <2>1, <2>2
<1>6. ASSUME NEW k \in ToolCaller, Attempted(k)
      PROVE  \/ successor' # None /\ successor'.client = d
             \/ \E j \in ToolCaller : toolCall'[j].at = "start" /\ toolCall'[j].client = d
  <2> DEFINE c == toolCall[k].client
  <2>1. successor = None
    BY <1>6 DEF Attempted, JoinsOK
  <2>2. CASE d = c
    BY <1>6, <2>2 DEF Attempted
  <2>3. CASE d # c
    <3>1. boot[d].phase = "on"
      BY <1>6, <2>3 DEF Attempted, Reviver
    <3>2. PICK j \in ToolCaller : toolCall[j].at = "start" /\ toolCall[j].client = d
      BY <2>1, <3>1 DEF Tended
    <3>3. j # k
      BY <2>3, <3>2
    <3> QED BY <1>6, <3>2, <3>3 DEF Attempted, CallMoves
  <2> QED BY <2>2, <2>3
<1> QED BY <1>1, <1>2, <1>4, <1>5, <1>6 DEF ClientStep

-----------------------------------------------------------------------------
(* Theorems about SessionRevival *)

\* Every variable of the client side keeps its type.
THEOREM ClientTypeCorrect == RevivalSpec => []RevivalTypeOK
<1>1. ClientIInv => RevivalTypeOK
  BY DEF ClientIInv, ObjectsOK, CallsTyped, RevivalTypeOK, RecordStatus
<1> QED BY <1>1, ClientInvariance, PTL

\* A session that is open is somebody's: a bootstrap keeps it alive or is about to
\* close it, in whatever order its stop, the answer of its registration, a beat
\* and the end of the session come.  Only a failure or a crash leaves one adrift.
THEOREM SessionsAreHeld == RevivalSpec => []NoSessionLeaks
<1>1. ASSUME ClientIInv PROVE NoSessionLeaks
  <2>1. \A c \in Client : Holds(c) = {s \in Named(boot[c]) : sessionStatus[s] # "gone"}
    BY <1>1, HoldsFacts DEF ClientIInv
  <2> QED BY <1>1, <2>1 DEF ClientIInv, ObjectsOK, NoSessionLeaks, Open
<1> QED BY <1>1, ClientInvariance, PTL

\* While the server serves one join at a time, every bootstrap it runs is the one
\* of its successor or the one that join waits for, however the other calls, the
\* end of sessions and the death of the server come in between.
THEOREM OneJoinTendsSuccessor ==
    ASSUME OneJoiner PROVE RevivalSpec => []NoRunawaySuccessor
<1>1. RevivalInit => ClientIInv /\ JoinsOK /\ Tended
  <2>1. RevivalInit => Tended
    BY FreshFacts DEF RevivalInit, BootInit, Tended, Reviver
  <2> QED BY <2>1, ClientInitOK
<1>2. ClientIInv /\ JoinsOK /\ Tended /\ [RevivalNext]_revivalVars
      => (ClientIInv /\ JoinsOK /\ Tended)'
  BY ClientStepOK, JoinsStep, TendedStep DEF ClientStep
<1>3. ClientIInv /\ Tended => NoRunawaySuccessor
  BY DEF Tended, NoRunawaySuccessor, On, Awaited, Reviver
<1> QED BY <1>1, <1>2, <1>3, PTL DEF RevivalSpec

=============================================================================
