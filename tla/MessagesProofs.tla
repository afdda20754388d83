--------------------------- MODULE MessagesProofs ---------------------------
(***************************************************************************)
(* Theorems about Messages, for every set of sessions, messages, keys and  *)
(* claims.  The inductive invariant falls into what it says of the store,  *)
(* of the claims in flight and of the candidate of the retention.  A step  *)
(* changes the store in one of seven ways; each has a lemma, which shows   *)
(* at once that the store stays sound, what the claims may rely on, that   *)
(* outcomes stand, and which step of AskReply it is.                       *)
(* Last, theorems about InboxBridge, which adds one client to all this.    *)
(***************************************************************************)
EXTENDS InboxBridge, TLAPS

\* A message nobody asked has no entry in the inbox of a source.
UnaskedIsUnposted ==
    \A m \in Message : message[m] = None => entry[<<m, "response">>] = "absent"

StoreOK ==
    /\ message \in [Message -> MessageRecord \cup {None}]
    /\ idem \in [Session \X Key -> Message \cup {None}]
    /\ expiring \subseteq Session \X Key
    /\ deadline \in [Message -> {"none", "ahead", "passed"}]
    /\ entry \in [Entry -> EntryState]
    /\ UnaskedIsUnposted
    /\ UnfinishedIsRecoverable
    /\ OutcomeIsPosted
    /\ KeyFindsItsMessage

\* What a claim read was in an inbox, and what it collected was delivered.
Sound(k) ==
    /\ k \in Claim
    /\ \A e \in k.batch : entry[e] # "absent"
    /\ \A m \in Message :
         <<m, "request">> \in k.items => message[m] # None /\ ~In(m, {"queued"})

ClaimsOK ==
    /\ claim \in [Claimer -> Claim \cup {None}]
    /\ \A c \in Claimer : claim[c] # None => Sound(claim[c])

\* What the retention is about to delete has its outcome, and no key names it.
SweepsOK ==
    /\ ended \subseteq Session
    /\ timing \in Message \cup {None}
    /\ pruning \in Message \cup {None}
    /\ pruning # None =>
         In(pruning, Outcome) /\ \A k \in Session \X Key : idem[k] # pruning

IInv == StoreOK /\ ClaimsOK /\ SweepsOK

\* What claims rely on: an entry stays, and a delivery is never taken back.
KeepsDeliveries ==
    /\ \A e \in Entry : entry[e] # "absent" => entry'[e] # "absent"
    /\ \A m \in Message :
         message[m] # None =>
           message'[m] # None /\ (~In(m, {"queued"}) => ~In(m, {"queued"})')

\* What the retention relies on: an outcome that no key names stays like that.
KeepsRetired ==
    \A m \in Message :
        In(m, Outcome) /\ (\A k \in Session \X Key : idem[k] # m) =>
          In(m, Outcome)' /\ \A k \in Session \X Key : idem'[k] # m

KeepsOutcomes ==
    \A m \in Message :
        /\ \A o \in Outcome : In(m, {o}) => In(m, {o, "pruned"})'
        /\ In(m, Unfinished) /\ In(m, Outcome \ {"timed_out"})' => Responder(m)

ReplyStep == [Reply!Next]_(Reply!vars)

StoreStep == StoreOK' /\ KeepsDeliveries /\ KeepsOutcomes /\ ReplyStep

-----------------------------------------------------------------------------
LEMMA InitOK == Init => IInv
<1> SUFFICES ASSUME Init PROVE IInv
  OBVIOUS
<1>1. StoreOK
  BY DEF Init, StoreOK, EntryState, Entry, In, Stored, UnaskedIsUnposted,
         UnfinishedIsRecoverable, OutcomeIsPosted, KeyFindsItsMessage
<1>2. ClaimsOK /\ SweepsOK
  BY DEF Init, ClaimsOK, SweepsOK
<1> QED BY <1>1, <1>2 DEF IInv

-----------------------------------------------------------------------------
(* The ways a step changes the store. *)

\* A message that moves to another state keeps everything else.
LEMMA Moved ==
    ASSUME StoreOK, NEW m \in Message, message[m] # None, NEW s \in State,
           message' = [message EXCEPT ![m].state = s]
    PROVE  /\ message' \in [Message -> MessageRecord \cup {None}]
           /\ message'[m] # None /\ message'[m].state = s
           /\ message'[m].source = message[m].source
           /\ message'[m].target = message[m].target
           /\ message'[m].key = message[m].key
           /\ \A x \in Message : x # m => message'[x] = message[x]
<1>1. message[m] \in MessageRecord
  BY DEF StoreOK
<1>2. [message[m] EXCEPT !.state = s] \in MessageRecord
  BY <1>1 DEF MessageRecord
<1>3. message'[m] = [message[m] EXCEPT !.state = s]
  BY DEF StoreOK
<1> QED BY <1>1, <1>2, <1>3, ConstantsAssumption DEF StoreOK, MessageRecord

\* What an index key that is there names.
LEMMA KeyNames ==
    ASSUME StoreOK, NEW s \in Session, NEW k \in Key, NEW m \in Message, idem[<<s, k>>] = m
    PROVE  /\ Stored(m) /\ message[m].source = s /\ message[m].key = k
           /\ <<s, k>> \in expiring => ~In(m, Unfinished)
<1>1. idem[s, k] # None
  BY ConstantsAssumption
<1>2. /\ Stored(idem[s, k])
      /\ message[idem[s, k]].source = s /\ message[idem[s, k]].key = k
  BY <1>1 DEF StoreOK, KeyFindsItsMessage
<1>3. Stored(m) /\ message[m].source = s /\ message[m].key = k
  BY <1>2
<1>4. In(m, Unfinished) => <<s, k>> \notin expiring
  <2>1. message[m].key # None
    BY <1>3, ConstantsAssumption
  <2>2. In(m, Unfinished) => <<message[m].source, message[m].key>> \notin expiring
    BY <2>1 DEF StoreOK, KeyFindsItsMessage
  <2> QED BY <1>3, <2>2
<1> QED BY <1>3, <1>4

\* The index stays, what it names stays stored, nothing becomes unfinished,
\* and the keys of what stays unfinished do not start to expire.
LEMMA KeysKept ==
    ASSUME StoreOK, UNCHANGED idem,
           \A m \in Message :
             /\ Stored(m) => Stored(m)'
             /\ In(m, Unfinished)' => In(m, Unfinished)
             /\ message'[m].source = message[m].source /\ message'[m].key = message[m].key,
           \A m \in Message :
             LET k == <<message[m].source, message[m].key>>
             IN  In(m, Unfinished)' /\ k \notin expiring => k \notin expiring'
    PROVE  KeyFindsItsMessage'
<1>1. ASSUME NEW s \in Session, NEW k \in Key, idem'[<<s, k>>] # None
      PROVE  /\ Stored(idem[<<s, k>>])'
             /\ message'[idem'[<<s, k>>]].source = s /\ message'[idem'[<<s, k>>]].key = k
  <2> DEFINE m == idem[<<s, k>>]
  <2>1. m # None /\ m \in Message
    BY <1>1 DEF StoreOK
  <2>2. Stored(m) /\ message[m].source = s /\ message[m].key = k
    BY <2>1, KeyNames
  <2>3. Stored(m)' /\ message'[m].source = s /\ message'[m].key = k
    <3>1. ASSUME NEW x \in Message, x = m PROVE Stored(x)'
      BY <2>2, <3>1
    <3> QED BY <2>1, <2>2, <3>1
  <2> QED BY <2>3
<1>2. ASSUME NEW m \in Message, In(m, Unfinished)', message'[m].key # None
      PROVE  /\ idem'[<<message'[m].source, message'[m].key>>] = m
             /\ <<message'[m].source, message'[m].key>> \notin expiring'
  BY <1>2 DEF StoreOK, KeyFindsItsMessage
<1> QED BY <1>1, <1>2 DEF KeyFindsItsMessage

LEMMA KeysSame ==
    ASSUME StoreOK, UNCHANGED <<message, idem, expiring>> PROVE KeyFindsItsMessage'
<1>1. \A m \in Message :
        /\ Stored(m)' <=> Stored(m)
        /\ In(m, Unfinished)' <=> In(m, Unfinished)
  BY DEF Stored, In
<1> QED BY <1>1, KeysKept

\* Nothing in the store changes but where entries that were sent are.
LEMMA StoreEntries ==
    ASSUME IInv, UNCHANGED <<message, idem, expiring, deadline>>,
           entry' \in [Entry -> EntryState],
           \A e \in Entry : entry[e] = "absent" <=> entry'[e] = "absent",
           \A m \in Message : In(m, Unfinished) =>
             entry'[<<m, "request">>] \in {"unread", "pending"}
    PROVE  StoreStep /\ KeepsRetired
<1>1. StoreOK
  BY DEF IInv
<1>2. \A m \in Message : <<m, "request">> \in Entry /\ <<m, "response">> \in Entry
  BY DEF Entry
<1>3. \A m \in Message : In(m, Unfinished)' <=> In(m, Unfinished)
  BY DEF In
<1>4. \A m \in Message : Stored(m)' <=> Stored(m)
  BY DEF Stored, In
<1>5. StoreOK'
  <2>1. UnaskedIsUnposted'
    BY <1>1, <1>2 DEF StoreOK, UnaskedIsUnposted
  <2>2. UnfinishedIsRecoverable'
    BY <1>1, <1>3 DEF StoreOK, UnfinishedIsRecoverable, In
  <2>3. OutcomeIsPosted'
    BY <1>1, <1>2, <1>4 DEF StoreOK, OutcomeIsPosted, In
  <2>4. KeyFindsItsMessage'
    BY <1>1, KeysSame DEF StoreOK
  <2> QED BY <1>1, <2>1, <2>2, <2>3, <2>4 DEF StoreOK
<1>6. KeepsDeliveries /\ KeepsRetired
  BY DEF KeepsDeliveries, KeepsRetired, In
<1>7. KeepsOutcomes
  BY DEF KeepsOutcomes, In, Outcome, Unfinished
<1>8. ReplyStep
  BY DEF ReplyStep, Reply!vars, Phase, In
<1> QED BY <1>5, <1>6, <1>7, <1>8 DEF StoreStep

LEMMA StoreSame == ASSUME IInv, UNCHANGED store PROVE StoreStep /\ KeepsRetired
<1>1. /\ UNCHANGED <<message, idem, expiring, deadline>>
      /\ entry' = entry
  BY DEF store
<1>2. /\ entry \in [Entry -> EntryState]
      /\ \A m \in Message : In(m, Unfinished) =>
           entry[<<m, "request">>] \in {"unread", "pending"}
  BY DEF IInv, StoreOK, UnfinishedIsRecoverable
<1> QED BY <1>1, <1>2, StoreEntries

\* A deadline is reached.
LEMMA StoreTime ==
    ASSUME IInv, NEW m \in Message, deadline[m] = "ahead",
           deadline' = [deadline EXCEPT ![m] = "passed"],
           UNCHANGED <<message, idem, expiring, entry>>
    PROVE  StoreStep /\ KeepsRetired
<1>1. StoreOK
  BY DEF IInv
<1>2. ~In(m, Outcome)
  BY <1>1 DEF StoreOK, OutcomeIsPosted
<1>3. /\ deadline' \in [Message -> {"none", "ahead", "passed"}]
      /\ deadline'[m] = "passed"
      /\ \A x \in Message : x # m => deadline'[x] = deadline[x]
  BY <1>1 DEF StoreOK
<1>4. StoreOK'
  <2>1. UnaskedIsUnposted'
    BY <1>1 DEF StoreOK, UnaskedIsUnposted
  <2>2. UnfinishedIsRecoverable'
    BY <1>1, <1>3 DEF StoreOK, UnfinishedIsRecoverable, In
  <2>3. OutcomeIsPosted'
    BY <1>1, <1>2, <1>3 DEF StoreOK, OutcomeIsPosted, Stored, In
  <2>4. KeyFindsItsMessage'
    BY <1>1, KeysSame DEF StoreOK
  <2> QED BY <1>1, <1>3, <2>1, <2>2, <2>3, <2>4 DEF StoreOK
<1>5. KeepsDeliveries /\ KeepsRetired
  BY DEF KeepsDeliveries, KeepsRetired, In
<1>6. KeepsOutcomes
  BY DEF KeepsOutcomes, In, Outcome, Unfinished
<1>7. ReplyStep
  BY DEF ReplyStep, Reply!vars, Phase, In
<1> QED BY <1>4, <1>5, <1>6, <1>7 DEF StoreStep

\* The time to live of an index key runs out: its message has an outcome.
LEMMA StoreKeyExpired ==
    ASSUME IInv, NEW s \in Session, NEW k \in Key, KeyExpires(s, k)
    PROVE  StoreStep /\ KeepsRetired
<1> DEFINE j == <<s, k>>
<1>1. StoreOK /\ j \in Session \X Key /\ j \in expiring
  BY DEF IInv, KeyExpires
<1>2. /\ idem' = [idem EXCEPT ![j] = None]
      /\ expiring' = expiring \ {j}
      /\ UNCHANGED <<message, deadline, entry>>
  BY DEF KeyExpires
<1>3. \A i \in Session \X Key : idem'[i] = IF i = j THEN None ELSE idem[i]
  BY <1>1, <1>2 DEF StoreOK
<1>4. StoreOK'
  <2>1. idem' \in [Session \X Key -> Message \cup {None}]
    BY <1>1, <1>2 DEF StoreOK
  <2>2. UnaskedIsUnposted' /\ UnfinishedIsRecoverable'
    BY <1>1, <1>2 DEF StoreOK, UnaskedIsUnposted, UnfinishedIsRecoverable, In
  <2>3. OutcomeIsPosted'
    BY <1>1, <1>2 DEF StoreOK, OutcomeIsPosted, Stored, In
  <2>4. ASSUME NEW a \in Session, NEW b \in Key, idem'[<<a, b>>] # None
        PROVE  /\ Stored(idem'[<<a, b>>])
               /\ message[idem'[<<a, b>>]].source = a /\ message[idem'[<<a, b>>]].key = b
    <3> DEFINE m == idem[<<a, b>>]
    <3>1. idem'[<<a, b>>] = m
      BY <1>3, <2>4
    <3>2. m \in Message
      BY <1>1, <2>4, <3>1 DEF StoreOK
    <3>3. Stored(m) /\ message[m].source = a /\ message[m].key = b
      BY <1>1, <3>2, KeyNames
    <3> QED BY <3>1, <3>3
  <2>5. ASSUME NEW m \in Message, In(m, Unfinished), message[m].key # None
        PROVE  /\ idem'[<<message[m].source, message[m].key>>] = m
               /\ <<message[m].source, message[m].key>> \notin expiring'
    <3> DEFINE i == <<message[m].source, message[m].key>>
    <3>1. i \in Session \X Key
      BY <1>1, <2>5 DEF StoreOK, MessageRecord, In
    <3>2. idem[i] = m /\ i \notin expiring
      BY <1>1, <2>5 DEF StoreOK, KeyFindsItsMessage
    <3>3. i # j
      BY <1>1, <3>2
    <3>4. i \notin expiring'
      BY <1>2, <3>2
    <3>5. idem'[i] = m
      <4> HIDE DEF i
      <4> QED BY <1>3, <3>1, <3>2, <3>3
    <3> QED BY <3>4, <3>5
  <2>6. KeyFindsItsMessage'
    <3>1. ASSUME NEW a \in Session, NEW b \in Key, idem'[a, b] # None
          PROVE  (/\ Stored(idem[a, b])
                  /\ message[idem[a, b]].source = a /\ message[idem[a, b]].key = b)'
      BY <1>2, <2>4, <3>1 DEF Stored, In
    <3>2. ASSUME NEW m \in Message, In(m, Unfinished)', message'[m].key # None
          PROVE  /\ idem'[message'[m].source, message'[m].key] = m
                 /\ <<message'[m].source, message'[m].key>> \notin expiring'
      BY <1>2, <2>5, <3>2 DEF In
    <3> QED BY <3>1, <3>2 DEF KeyFindsItsMessage
  <2> QED BY <1>1, <1>2, <2>1, <2>2, <2>3, <2>6 DEF StoreOK
<1>5. KeepsDeliveries
  BY <1>2 DEF KeepsDeliveries, In
<1>6. KeepsRetired
  BY <1>2, <1>3, ConstantsAssumption DEF KeepsRetired, In
<1>7. KeepsOutcomes
  BY <1>2 DEF KeepsOutcomes, In, Outcome, Unfinished
<1>8. ReplyStep
  <2>1. CASE idem[j] = None
    <3>1. idem' = idem
      BY <1>1, <1>2, <2>1 DEF StoreOK
    <3> QED BY <1>2, <3>1 DEF ReplyStep, Reply!vars, Phase, In
  <2>2. CASE idem[j] # None
    <3> DEFINE m == idem[j]
    <3>1. m \in Message
      BY <1>1, <2>2 DEF StoreOK
    <3>2. Stored(m) /\ ~In(m, Unfinished)
      BY <1>1, <3>1, KeyNames
    <3>3. Phase(m) = "decided"
      BY <3>2 DEF Phase, Stored, In
    <3>4. Reply!Release(j)
      BY <1>2, <2>2, <3>1, <3>3 DEF Reply!Release, Phase, In
    <3> QED BY <1>1, <3>4 DEF ReplyStep, Reply!Next
  <2> QED BY <2>1, <2>2
<1> QED BY <1>4, <1>5, <1>6, <1>7, <1>8 DEF StoreStep

\* A message moves on without an outcome.
LEMMA StoreProgress ==
    ASSUME IInv, NEW m \in Message, NEW state \in Unfinished \ {"queued"},
           MayMove(m, state), Progress(m, state)
    PROVE  StoreStep /\ KeepsRetired
<1>1. StoreOK
  BY DEF IInv
<1>2. /\ message' = [message EXCEPT ![m].state = state]
      /\ UNCHANGED <<idem, expiring, deadline, entry>>
  BY DEF Progress
<1>3. message[m] # None /\ message[m] \in MessageRecord /\ In(m, Unfinished)
  BY <1>1 DEF MayMove, StoreOK, Allowed, In, MessageRecord, State, Outcome, Unfinished
<1>4. /\ message' \in [Message -> MessageRecord \cup {None}]
      /\ message'[m] # None /\ message'[m].state = state
      /\ message'[m].source = message[m].source
      /\ message'[m].target = message[m].target
      /\ message'[m].key = message[m].key
      /\ \A x \in Message : x # m => message'[x] = message[x]
  <2>1. state \in State
    BY DEF State
  <2> QED BY <1>1, <1>2, <1>3, <2>1, Moved
<1>5. /\ In(m, Unfinished) /\ In(m, Unfinished)' /\ ~In(m, {"queued"})'
      /\ ~In(m, Outcome) /\ ~In(m, Outcome)'
      /\ Stored(m) /\ Stored(m)'
  BY <1>3, <1>4 DEF In, Stored, Unfinished, Outcome
<1>6. \A x \in Message : x # m =>
        /\ In(x, Unfinished)' <=> In(x, Unfinished)
        /\ In(x, Outcome)' <=> In(x, Outcome)
        /\ Stored(x)' <=> Stored(x)
  BY <1>4 DEF In, Stored
<1>7. \A x \in Message :
        /\ In(x, Unfinished)' <=> In(x, Unfinished)
        /\ In(x, Outcome)' <=> In(x, Outcome)
        /\ Stored(x)' <=> Stored(x)
        /\ message'[x] = None <=> message[x] = None
        /\ message'[x].source = message[x].source /\ message'[x].key = message[x].key
  BY <1>3, <1>4, <1>5, <1>6
<1>8. StoreOK'
  <2>1. UnaskedIsUnposted'
    BY <1>1, <1>2, <1>7 DEF StoreOK, UnaskedIsUnposted
  <2>2. UnfinishedIsRecoverable'
    BY <1>1, <1>2, <1>7 DEF StoreOK, UnfinishedIsRecoverable
  <2>3. OutcomeIsPosted'
    BY <1>1, <1>2, <1>7 DEF StoreOK, OutcomeIsPosted
  <2>4. KeyFindsItsMessage'
    BY <1>1, <1>2, <1>7, KeysKept
  <2> QED BY <1>1, <1>2, <1>4, <2>1, <2>2, <2>3, <2>4 DEF StoreOK
<1>9. KeepsDeliveries
  BY <1>2, <1>4, <1>5 DEF KeepsDeliveries, In
<1>10. KeepsRetired
  BY <1>2, <1>7 DEF KeepsRetired
<1>11. KeepsOutcomes
  BY <1>4, <1>5 DEF KeepsOutcomes, In, Outcome, Unfinished
<1>12. ReplyStep
  <2>1. \A x \in Message : Phase(x)' = Phase(x)
    BY <1>7 DEF Phase
  <2>2. \A x \in Message :
          (IF In(x, Outcome) THEN message[x].state ELSE None)'
            = IF In(x, Outcome) THEN message[x].state ELSE None
    BY <1>4, <1>5, <1>6
  <2> QED BY <1>2, <2>1, <2>2 DEF ReplyStep, Reply!vars
<1> QED BY <1>8, <1>9, <1>10, <1>11, <1>12 DEF StoreStep

\* A message gets its outcome.
LEMMA StoreSettled ==
    ASSUME IInv, NEW m \in Message, NEW outcome \in Outcome,
           MayMove(m, outcome), outcome = "timed_out" \/ Responder(m), Settle(m, outcome)
    PROVE  StoreStep /\ KeepsRetired
<1>1. StoreOK
  BY DEF IInv
<1>2. /\ message' = [message EXCEPT ![m].state = outcome]
      /\ deadline' = [deadline EXCEPT ![m] = "none"]
      /\ entry' = [entry EXCEPT ![<<m, "response">>] = "unread",
                                ![<<m, "request">>] = IF @ = "pending" THEN "acked" ELSE @]
      /\ expiring' = expiring \cup IndexKey(m)
      /\ idem' = idem
  BY DEF Settle
<1>3. message[m] # None /\ message[m] \in MessageRecord /\ In(m, Unfinished)
  BY <1>1 DEF MayMove, StoreOK, Allowed, In, MessageRecord, State, Outcome, Unfinished
<1>4. /\ message' \in [Message -> MessageRecord \cup {None}]
      /\ message'[m] # None /\ message'[m].state = outcome
      /\ message'[m].source = message[m].source
      /\ message'[m].target = message[m].target
      /\ message'[m].key = message[m].key
      /\ \A x \in Message : x # m => message'[x] = message[x]
  <2>1. outcome \in State
    BY DEF State
  <2> QED BY <1>1, <1>2, <1>3, <2>1, Moved
<1>5. /\ ~In(m, Unfinished)' /\ ~In(m, {"queued"})'
      /\ ~In(m, Outcome) /\ In(m, Outcome)'
      /\ Stored(m) /\ Stored(m)'
  BY <1>3, <1>4 DEF In, Stored, Unfinished, Outcome
<1>6. \A x \in Message : x # m =>
        /\ In(x, Unfinished)' <=> In(x, Unfinished)
        /\ In(x, Outcome)' <=> In(x, Outcome)
        /\ Stored(x)' <=> Stored(x)
  BY <1>4 DEF In, Stored
<1>7. \A x \in Message :
        /\ message'[x] = None <=> message[x] = None
        /\ message'[x].source = message[x].source /\ message'[x].key = message[x].key
  BY <1>3, <1>4
<1>8. /\ deadline' \in [Message -> {"none", "ahead", "passed"}]
      /\ deadline'[m] = "none"
      /\ \A x \in Message : x # m => deadline'[x] = deadline[x]
  BY <1>1, <1>2 DEF StoreOK
<1>9. /\ entry' \in [Entry -> EntryState]
      /\ entry'[<<m, "response">>] = "unread"
      /\ \A e \in Entry : entry[e] # "absent" => entry'[e] # "absent"
      /\ \A x \in Message : x # m =>
           /\ entry'[<<x, "response">>] = entry[<<x, "response">>]
           /\ entry'[<<x, "request">>] = entry[<<x, "request">>]
  BY <1>1, <1>2 DEF StoreOK, Entry, EntryState
<1>10. StoreOK'
  <2>1. UnaskedIsUnposted'
    BY <1>1, <1>4, <1>9 DEF StoreOK, UnaskedIsUnposted
  <2>2. UnfinishedIsRecoverable'
    BY <1>1, <1>5, <1>6, <1>8, <1>9 DEF StoreOK, UnfinishedIsRecoverable
  <2>3. OutcomeIsPosted'
    <3> SUFFICES ASSUME NEW x \in Message
                 PROVE  /\ In(x, Outcome)' => deadline'[x] = "none"
                        /\ Stored(x)' =>
                             (entry'[x, "response"] # "absent" <=> In(x, Outcome)')
      BY DEF OutcomeIsPosted
    <3>1. CASE x = m
      BY <3>1, <1>5, <1>8, <1>9
    <3>2. CASE x # m
      BY <3>2, <1>1, <1>6, <1>8, <1>9 DEF StoreOK, OutcomeIsPosted
    <3> QED BY <3>1, <3>2
  <2>4. IndexKey(m) \subseteq Session \X Key
    BY DEF IndexKey
  <2>5. ASSUME NEW x \in Message, In(x, Unfinished)',
               <<message[x].source, message[x].key>> \notin expiring
        PROVE  <<message[x].source, message[x].key>> \notin expiring'
    <3> DEFINE k == <<message[x].source, message[x].key>>
    <3>1. x # m /\ In(x, Unfinished)
      BY <1>5, <1>6, <2>5
    <3>2. SUFFICES ASSUME k \in IndexKey(m) PROVE FALSE
      BY <1>2, <2>5
    <3>3. /\ k \in Session \X Key
          /\ message[x].source = message[m].source /\ message[x].key = message[m].key
      BY <3>2 DEF IndexKey
    <3>4. message[x].key # None /\ message[m].key # None
      BY <3>3, ConstantsAssumption
    <3>5. /\ idem[<<message[x].source, message[x].key>>] = x
          /\ idem[<<message[m].source, message[m].key>>] = m
      BY <1>1, <1>3, <3>1, <3>4 DEF StoreOK, KeyFindsItsMessage
    <3> QED BY <3>1, <3>3, <3>5
  <2>6. KeyFindsItsMessage'
    <3>1. \A x \in Message :
            /\ Stored(x) => Stored(x)'
            /\ In(x, Unfinished)' => In(x, Unfinished)
      BY <1>5, <1>6
    <3> QED BY <1>1, <1>2, <1>7, <2>5, <3>1, KeysKept
  <2> QED BY <1>1, <1>2, <1>4, <1>8, <1>9, <2>1, <2>2, <2>3, <2>4, <2>6 DEF StoreOK
<1>11. KeepsDeliveries
  BY <1>4, <1>5, <1>9 DEF KeepsDeliveries, In
<1>12. KeepsRetired
  BY <1>2, <1>5, <1>6 DEF KeepsRetired
<1>13. KeepsOutcomes
  BY <1>4, <1>5 DEF KeepsOutcomes, In, Outcome, Unfinished
<1>14. ReplyStep
  <2>1. Phase(m) = "open" /\ Phase(m)' = "decided"
    BY <1>3, <1>5, <1>4 DEF Phase
  <2>2. \A x \in Message : x # m => Phase(x)' = Phase(x)
    BY <1>4, <1>6 DEF Phase
  <2>3. \A x \in Message : x # m =>
          (IF In(x, Outcome) THEN message[x].state ELSE None)'
            = IF In(x, Outcome) THEN message[x].state ELSE None
    BY <1>4, <1>6
  <2>4. Reply!Decide(m, outcome)
    BY <1>2, <1>4, <1>5, <2>1, <2>2, <2>3 DEF Reply!Decide
  <2> QED BY <2>4 DEF ReplyStep, Reply!Next
<1> QED BY <1>10, <1>11, <1>12, <1>13, <1>14 DEF StoreStep

\* A message is asked, under a key that names nothing or under none.
LEMMA StoreAsked ==
    ASSUME IInv, NEW m \in Message, NEW a \in Asks, MessageRequest(m, a[1], a[2], a[3])
    PROVE  StoreStep /\ KeepsRetired
<1> DEFINE s == a[1]  t == a[2]  k == a[3]
<1>1. StoreOK /\ s \in Session /\ t \in Session /\ k \in Key \cup {None}
  BY ConstantsAssumption DEF IInv
<1>2. /\ message[m] = None
      /\ k # None => idem[<<s, k>>] = None
      /\ message' = [message EXCEPT ![m] = [source |-> s, target |-> t, key |-> k,
                                            state |-> "queued"]]
      /\ idem' = [j \in Session \X Key |-> IF j = <<s, k>> THEN m ELSE idem[j]]
      /\ expiring' = expiring \ {<<s, k>>}
      /\ deadline' = [deadline EXCEPT ![m] = "ahead"]
      /\ entry' = [entry EXCEPT ![<<m, "request">>] = "unread"]
  BY DEF MessageRequest
<1>3. /\ message' \in [Message -> MessageRecord \cup {None}]
      /\ message'[m] # None /\ message'[m].state = "queued"
      /\ message'[m].source = s /\ message'[m].key = k
      /\ \A x \in Message : x # m => message'[x] = message[x]
  <2>1. [source |-> s, target |-> t, key |-> k, state |-> "queued"] \in MessageRecord
    BY <1>1 DEF MessageRecord, State, Unfinished
  <2> QED BY <1>1, <1>2, <2>1, ConstantsAssumption DEF StoreOK
<1>4. /\ In(m, Unfinished)' /\ ~In(m, Unfinished) /\ ~In(m, Outcome)' /\ ~In(m, Outcome)
      /\ Stored(m)' /\ ~Stored(m)
  BY <1>2, <1>3 DEF In, Stored, Unfinished, Outcome
<1>5. \A x \in Message : x # m =>
        /\ In(x, Unfinished)' <=> In(x, Unfinished)
        /\ In(x, Outcome)' <=> In(x, Outcome)
        /\ Stored(x)' <=> Stored(x)
  BY <1>3 DEF In, Stored
<1>6. /\ deadline' \in [Message -> {"none", "ahead", "passed"}]
      /\ deadline'[m] = "ahead"
      /\ \A x \in Message : x # m => deadline'[x] = deadline[x]
  BY <1>1, <1>2 DEF StoreOK
<1>7. /\ entry' \in [Entry -> EntryState]
      /\ entry'[<<m, "request">>] = "unread"
      /\ entry'[<<m, "response">>] = "absent"
      /\ \A e \in Entry : entry[e] # "absent" => entry'[e] # "absent"
      /\ \A x \in Message : x # m =>
           /\ entry'[<<x, "response">>] = entry[<<x, "response">>]
           /\ entry'[<<x, "request">>] = entry[<<x, "request">>]
  BY <1>1, <1>2 DEF StoreOK, Entry, EntryState, UnaskedIsUnposted
<1>8. StoreOK'
  <2>1. UnaskedIsUnposted'
    BY <1>1, <1>3, <1>7 DEF StoreOK, UnaskedIsUnposted
  <2>2. UnfinishedIsRecoverable'
    BY <1>1, <1>5, <1>6, <1>7 DEF StoreOK, UnfinishedIsRecoverable
  <2>3. OutcomeIsPosted'
    <3> SUFFICES ASSUME NEW x \in Message
                 PROVE  /\ In(x, Outcome)' => deadline'[x] = "none"
                        /\ Stored(x)' =>
                             (entry'[x, "response"] # "absent" <=> In(x, Outcome)')
      BY DEF OutcomeIsPosted
    <3>1. CASE x = m
      BY <3>1, <1>4, <1>7
    <3>2. CASE x # m
      BY <3>2, <1>1, <1>5, <1>6, <1>7 DEF StoreOK, OutcomeIsPosted
    <3> QED BY <3>1, <3>2
  <2>4. ASSUME NEW b \in Session, NEW c \in Key, idem'[<<b, c>>] # None
        PROVE  /\ Stored(idem[<<b, c>>])'
               /\ message'[idem'[<<b, c>>]].source = b
               /\ message'[idem'[<<b, c>>]].key = c
    <3> DEFINE x == idem'[<<b, c>>]
    <3>1. CASE <<b, c>> = <<s, k>>
      <4>1. x = m /\ b = s /\ c = k
        BY <1>2, <3>1
      <4> QED BY <4>1, <1>3, <1>4
    <3>2. CASE <<b, c>> # <<s, k>>
      <4>1. x = idem[<<b, c>>]
        BY <1>2, <3>2
      <4>2. x \in Message
        BY <1>1, <2>4, <4>1 DEF StoreOK
      <4>3. Stored(idem[<<b, c>>]) /\ message[x].source = b /\ message[x].key = c
        BY <1>1, <4>1, <4>2, KeyNames
      <4>4. x # m
        BY <4>1, <4>3, <1>4
      <4> QED BY <4>1, <4>2, <4>3, <4>4, <1>3, <1>5
    <3> QED BY <3>1, <3>2
  <2>5. ASSUME NEW x \in Message, In(x, Unfinished)', message'[x].key # None
        PROVE  /\ idem'[<<message'[x].source, message'[x].key>>] = x
               /\ <<message'[x].source, message'[x].key>> \notin expiring'
    <3>1. CASE x = m
      <4>1. <<message'[x].source, message'[x].key>> = <<s, k>> /\ k \in Key
        BY <3>1, <2>5, <1>1, <1>3
      <4> QED BY <4>1, <3>1, <1>1, <1>2
    <3>2. CASE x # m
      <4> DEFINE j == <<message[x].source, message[x].key>>
      <4>1. message'[x] = message[x] /\ In(x, Unfinished)
        BY <3>2, <1>3, <1>5, <2>5
      <4>2. idem[j] = x /\ j \notin expiring
        BY <4>1, <2>5, <1>1 DEF StoreOK, KeyFindsItsMessage
      <4>3. j \in Session \X Key
        BY <4>1, <2>5, <1>1 DEF StoreOK, MessageRecord, In
      <4>4. j # <<s, k>>
        <5> SUFFICES ASSUME j = <<s, k>> PROVE FALSE
          OBVIOUS
        <5>1. k # None
          BY <4>3, ConstantsAssumption
        <5> QED BY <5>1, <4>2, <1>2, ConstantsAssumption
      <4> QED BY <4>1, <4>2, <4>3, <4>4, <1>2
    <3> QED BY <3>1, <3>2
  <2>6. KeyFindsItsMessage'
    BY <2>4, <2>5 DEF KeyFindsItsMessage
  <2>7. /\ idem' \in [Session \X Key -> Message \cup {None}]
        /\ expiring' \subseteq Session \X Key
    BY <1>1, <1>2 DEF StoreOK
  <2> QED BY <1>3, <1>6, <1>7, <2>1, <2>2, <2>3, <2>6, <2>7 DEF StoreOK
<1>9. KeepsDeliveries
  BY <1>2, <1>3, <1>7 DEF KeepsDeliveries, In
<1>10. KeepsRetired
  BY <1>2, <1>4, <1>5 DEF KeepsRetired
<1>11. KeepsOutcomes
  BY <1>3, <1>4 DEF KeepsOutcomes, In, Outcome, Unfinished
<1>12. ReplyStep
  <2>1. Phase(m) = "unasked" /\ Phase(m)' = "open"
    BY <1>2, <1>3, <1>4 DEF Phase
  <2>2. \A x \in Message : x # m => Phase(x)' = Phase(x)
    BY <1>3, <1>5 DEF Phase
  <2>3. \A x \in Message :
          (IF In(x, Outcome) THEN message[x].state ELSE None)'
            = IF In(x, Outcome) THEN message[x].state ELSE None
    BY <1>3, <1>4, <1>5
  <2>4. CASE k # None
    <3>1. idem[<<s, k>>] = None
      BY <1>2, <2>4
    <3>2. [x \in Message |-> Phase(x)]' = [[x \in Message |-> Phase(x)] EXCEPT ![m] = "open"]
      BY <2>1, <2>2
    <3>3. Reply!Ask(m, <<s, k>>)
      BY <1>2, <2>1, <2>3, <3>1, <3>2 DEF Reply!Ask
    <3> QED BY <1>1, <2>4, <3>3 DEF ReplyStep, Reply!Next
  <2>5. CASE k = None
    <3>1. idem' = idem
      BY <1>1, <1>2, <2>5, ConstantsAssumption DEF StoreOK
    <3>2. idem' = [j \in Session \X Key |-> IF j = None THEN m ELSE idem[j]]
      BY <1>1, <3>1, <2>5, ConstantsAssumption DEF StoreOK
    <3>3. Reply!Ask(m, None)
      BY <2>1, <2>2, <2>3, <3>2 DEF Reply!Ask
    <3> QED BY <3>3 DEF ReplyStep, Reply!Next
  <2> QED BY <2>4, <2>5
<1> QED BY <1>8, <1>9, <1>10, <1>11, <1>12 DEF StoreStep

\* The retention deletes a message.
LEMMA StorePruned ==
    ASSUME IInv, NEW m \in Message, m = pruning, PruneDelete
    PROVE  StoreStep
<1>1. StoreOK
  BY DEF IInv
<1>2. /\ message' = [message EXCEPT ![m].state = "pruned"]
      /\ UNCHANGED <<idem, expiring, deadline, entry>>
  BY DEF PruneDelete
<1>3. In(m, Outcome) /\ \A k \in Session \X Key : idem[k] # m
  BY DEF IInv, SweepsOK, PruneDelete
<1>4. /\ message' \in [Message -> MessageRecord \cup {None}]
      /\ message[m] # None /\ message'[m] # None /\ message'[m].state = "pruned"
      /\ message'[m].source = message[m].source
      /\ message'[m].key = message[m].key
      /\ \A x \in Message : x # m => message'[x] = message[x]
  <2>1. message[m] # None /\ "pruned" \in State
    BY <1>3 DEF State, In
  <2> QED BY <1>1, <1>2, <2>1, Moved
<1>5. /\ ~In(m, Unfinished)' /\ ~In(m, Unfinished) /\ ~In(m, Outcome)'
      /\ ~In(m, {"queued"})' /\ ~Stored(m)'
  BY <1>3, <1>4 DEF In, Stored, Unfinished, Outcome
<1>6. \A x \in Message : x # m =>
        /\ In(x, Unfinished)' <=> In(x, Unfinished)
        /\ In(x, Outcome)' <=> In(x, Outcome)
        /\ Stored(x)' <=> Stored(x)
  BY <1>4 DEF In, Stored
<1>7. StoreOK'
  <2>1. UnaskedIsUnposted'
    BY <1>1, <1>2, <1>4 DEF StoreOK, UnaskedIsUnposted
  <2>2. UnfinishedIsRecoverable'
    BY <1>1, <1>2, <1>5, <1>6 DEF StoreOK, UnfinishedIsRecoverable
  <2>3. OutcomeIsPosted'
    BY <1>1, <1>2, <1>5, <1>6 DEF StoreOK, OutcomeIsPosted
  <2>4. ASSUME NEW b \in Session, NEW c \in Key, idem'[<<b, c>>] # None
        PROVE  /\ Stored(idem[<<b, c>>])'
               /\ message'[idem'[<<b, c>>]].source = b
               /\ message'[idem'[<<b, c>>]].key = c
    <3> DEFINE x == idem[<<b, c>>]
    <3>1. x \in Message /\ x # m
      BY <1>1, <1>2, <1>3, <2>4 DEF StoreOK
    <3>2. Stored(x) /\ message[x].source = b /\ message[x].key = c
      BY <1>1, <3>1, KeyNames
    <3>3. idem'[<<b, c>>] = x
      BY <1>2
    <3> QED BY <3>1, <3>2, <3>3, <1>4, <1>6
  <2>5. ASSUME NEW x \in Message, In(x, Unfinished)', message'[x].key # None
        PROVE  /\ idem'[<<message'[x].source, message'[x].key>>] = x
               /\ <<message'[x].source, message'[x].key>> \notin expiring'
    <3>1. x # m /\ message'[x] = message[x] /\ In(x, Unfinished)
      BY <2>5, <1>4, <1>5, <1>6
    <3> QED BY <3>1, <2>5, <1>1, <1>2 DEF StoreOK, KeyFindsItsMessage
  <2>6. KeyFindsItsMessage'
    BY <2>4, <2>5 DEF KeyFindsItsMessage
  <2> QED BY <1>1, <1>2, <1>4, <2>1, <2>2, <2>3, <2>6 DEF StoreOK
<1>8. KeepsDeliveries
  BY <1>2, <1>4, <1>5 DEF KeepsDeliveries, In
<1>9. KeepsOutcomes
  BY <1>3, <1>4, <1>5 DEF KeepsOutcomes, In, Outcome, Unfinished
<1>10. ReplyStep
  <2>1. Phase(m) = "decided" /\ Phase(m)' = "forgotten"
    BY <1>3, <1>4, <1>5 DEF Phase, In, Outcome, Unfinished
  <2>2. \A x \in Message : x # m => Phase(x)' = Phase(x)
    BY <1>4, <1>6 DEF Phase
  <2>3. \A x \in Message : x # m =>
          (IF In(x, Outcome) THEN message[x].state ELSE None)'
            = IF In(x, Outcome) THEN message[x].state ELSE None
    BY <1>4, <1>6
  <2>4. Reply!Forget(m)
    BY <1>2, <1>3, <1>5, <2>1, <2>2, <2>3 DEF Reply!Forget
  <2> QED BY <2>4 DEF ReplyStep, Reply!Next
<1> QED BY <1>7, <1>8, <1>9, <1>10 DEF StoreStep

-----------------------------------------------------------------------------
(* Claims and candidates. *)

\* A claim that a step sets is sound after it, and the others stay so.
LEMMA ClaimsSet ==
    ASSUME IInv, KeepsDeliveries, NEW c \in Claimer, NEW k,
           claim' = [claim EXCEPT ![c] = k],
           k # None =>
             /\ k \in Claim
             /\ \A e \in k.batch : entry'[e] # "absent"
             /\ \A m \in Message :
                  <<m, "request">> \in k.items => message'[m] # None /\ ~In(m, {"queued"})'
    PROVE  ClaimsOK'
<1>1. claim \in [Claimer -> Claim \cup {None}]
  BY DEF IInv, ClaimsOK
<1>2. claim' \in [Claimer -> Claim \cup {None}]
  BY <1>1
<1>3. ASSUME NEW d \in Claimer, claim'[d] # None
      PROVE  /\ claim'[d] \in Claim
             /\ \A e \in claim'[d].batch : entry'[e] # "absent"
             /\ \A m \in Message :
                  <<m, "request">> \in claim'[d].items =>
                    message'[m] # None /\ ~In(m, {"queued"})'
  <2>1. CASE d = c
    BY <1>1, <1>3, <2>1
  <2>2. CASE d # c
    <3>1. claim'[d] = claim[d] /\ claim[d] \in Claim
      BY <1>1, <1>3, <2>2
    <3>2. /\ \A e \in claim[d].batch : e \in Entry /\ entry[e] # "absent"
          /\ \A m \in Message :
               <<m, "request">> \in claim[d].items => message[m] # None /\ ~In(m, {"queued"})
      BY <1>3, <3>1 DEF IInv, ClaimsOK, Sound, Claim
    <3> QED BY <3>1, <3>2 DEF KeepsDeliveries
  <2> QED BY <2>1, <2>2
<1> QED BY <1>2, <1>3 DEF ClaimsOK, Sound

LEMMA ClaimsKept == ASSUME IInv, KeepsDeliveries, UNCHANGED claim PROVE ClaimsOK'
<1>1. ASSUME NEW d \in Claimer, claim'[d] # None
      PROVE  /\ claim'[d] \in Claim
             /\ \A e \in claim'[d].batch : entry'[e] # "absent"
             /\ \A m \in Message :
                  <<m, "request">> \in claim'[d].items =>
                    message'[m] # None /\ ~In(m, {"queued"})'
  <2>1. claim'[d] = claim[d]
    OBVIOUS
  <2>2. /\ claim[d] \in Claim
        /\ \A e \in claim[d].batch : e \in Entry /\ entry[e] # "absent"
        /\ \A m \in Message :
             <<m, "request">> \in claim[d].items => message[m] # None /\ ~In(m, {"queued"})
    BY <1>1 DEF IInv, ClaimsOK, Sound, Claim
  <2> QED BY <2>1, <2>2 DEF KeepsDeliveries
<1> QED BY <1>1 DEF ClaimsOK, Sound, IInv

\* The candidate of the retention stays as it was found.
LEMMA SweepsKept ==
    ASSUME IInv, KeepsRetired, UNCHANGED pruning,
           ended' \subseteq Session, timing' \in Message \cup {None}
    PROVE  SweepsOK'
<1>1. pruning \in Message \cup {None}
  BY DEF IInv, SweepsOK
<1>2. ASSUME pruning # None
      PROVE  In(pruning, Outcome)' /\ \A k \in Session \X Key : idem'[k] # pruning
  <2>1. In(pruning, Outcome) /\ \A k \in Session \X Key : idem[k] # pruning
    BY <1>2 DEF IInv, SweepsOK
  <2> QED BY <1>1, <1>2, <2>1 DEF KeepsRetired, In
<1> QED BY <1>1, <1>2 DEF SweepsOK

-----------------------------------------------------------------------------
(* The steps. *)

StepOK == IInv' /\ KeepsOutcomes /\ ReplyStep

LEMMA StoreOnly ==
    ASSUME IInv, StoreStep, KeepsRetired, UNCHANGED <<ended, claim, timing, pruning>>
    PROVE  StepOK
<1>1. ClaimsOK'
  BY ClaimsKept DEF StoreStep
<1>2. SweepsOK'
  <2>1. ended \subseteq Session /\ timing \in Message \cup {None}
    BY DEF IInv, SweepsOK
  <2> QED BY <2>1, SweepsKept
<1> QED BY <1>1, <1>2 DEF StepOK, StoreStep, IInv

LEMMA ClaimOnly ==
    ASSUME IInv, StoreStep, KeepsRetired, ClaimsOK', UNCHANGED <<ended, timing, pruning>>
    PROVE  StepOK
<1>1. SweepsOK'
  <2>1. ended \subseteq Session /\ timing \in Message \cup {None}
    BY DEF IInv, SweepsOK
  <2> QED BY <2>1, SweepsKept
<1> QED BY <1>1 DEF StepOK, StoreStep, IInv

LEMMA MessageStepOK ==
    ASSUME IInv, NEW m \in Message, MessageStep(m)
    PROVE  StepOK
<1>1. ASSUME NEW a \in Asks, MessageRequest(m, a[1], a[2], a[3]) PROVE StepOK
  <2>1. UNCHANGED <<ended, claim, timing, pruning>>
    BY <1>1 DEF MessageRequest
  <2> QED BY <1>1, <2>1, StoreAsked, StoreOnly
<1>2. ASSUME NEW state \in Unfinished, MessageProgress(m, state) PROVE StepOK
  <2>1. /\ state \in Unfinished \ {"queued"}
        /\ MayMove(m, state) /\ Progress(m, state)
        /\ UNCHANGED <<ended, claim, timing, pruning>>
    BY <1>2 DEF MessageProgress
  <2> QED BY <2>1, StoreProgress, StoreOnly
<1>3. ASSUME NEW outcome \in Outcome, MessageSettle(m, outcome) PROVE StepOK
  <2>1. /\ MayMove(m, outcome) /\ Responder(m) /\ Settle(m, outcome)
        /\ UNCHANGED <<ended, claim, timing, pruning>>
    BY <1>3 DEF MessageSettle
  <2> QED BY <2>1, StoreSettled, StoreOnly
<1>4. ASSUME DeadlinePasses(m) PROVE StepOK
  BY <1>4, StoreTime, StoreOnly DEF DeadlinePasses
<1>5. ASSUME TimeoutRead(m) PROVE StepOK
  <2>1. StoreStep /\ KeepsRetired
    BY <1>5, StoreSame DEF TimeoutRead
  <2>2. ClaimsOK'
    BY <1>5, <2>1, ClaimsKept DEF TimeoutRead, StoreStep
  <2>3. SweepsOK'
    BY <1>5, <2>1, SweepsKept DEF TimeoutRead, IInv, SweepsOK
  <2> QED BY <2>1, <2>2, <2>3 DEF StepOK, StoreStep, IInv
<1>6. ASSUME MessageTimeout(m) PROVE StepOK
  <2>1. StoreStep /\ KeepsRetired
    <3>1. CASE TimesOut(m) /\ Settle(m, "timed_out")
      <4>1. "timed_out" \in Outcome /\ MayMove(m, "timed_out")
        BY <3>1 DEF Outcome, TimesOut
      <4> QED BY <3>1, <4>1, StoreSettled
    <3>2. CASE UNCHANGED store
      BY <3>2, StoreSame
    <3> QED BY <1>6, <3>1, <3>2 DEF MessageTimeout
  <2>2. ClaimsOK'
    BY <1>6, <2>1, ClaimsKept DEF MessageTimeout, StoreStep
  <2>3. SweepsOK'
    BY <1>6, <2>1, SweepsKept DEF MessageTimeout, IInv, SweepsOK
  <2> QED BY <2>1, <2>2, <2>3 DEF StepOK, StoreStep, IInv
<1>7. ASSUME PruneRead(m) PROVE StepOK
  <2>1. StoreStep /\ UNCHANGED store
    BY <1>7, StoreSame DEF PruneRead
  <2>2. ClaimsOK'
    BY <1>7, <2>1, ClaimsKept DEF PruneRead, StoreStep
  <2>3. \A k \in Session \X Key : idem[k] # m
    <3> SUFFICES ASSUME NEW s \in Session, NEW k \in Key, idem[<<s, k>>] = m PROVE FALSE
      BY DEF IInv, StoreOK
    <3>1. message[m].source = s /\ message[m].key = k
      BY KeyNames DEF IInv
    <3>2. message[m].key # None => idem[<<message[m].source, message[m].key>>] = None
      BY <1>7 DEF PruneRead, MayPrune
    <3> QED BY <3>1, <3>2, ConstantsAssumption
  <2>4. /\ pruning' = m /\ In(m, Outcome)
        /\ UNCHANGED <<message, idem, ended, timing>>
    BY <1>7 DEF PruneRead, MayPrune, store
  <2>5. SweepsOK'
    BY <2>3, <2>4 DEF IInv, SweepsOK, In
  <2> QED BY <2>1, <2>2, <2>5 DEF StepOK, StoreStep, IInv
<1> QED BY <1>1, <1>2, <1>3, <1>4, <1>5, <1>6, <1>7 DEF MessageStep

\* Recording a delivery: the message is delivered, or the claim is given up.
LEMMA MarkOK ==
    ASSUME IInv, NEW c \in Claimer, NEW m \in Message, claim[c] # None,
           m = claim[c].marking, m # None, ClaimMark(c)
    PROVE  StepOK
<1> DEFINE k == claim[c]
           n == [k EXCEPT !.marking = None, !.items = @ \cup {<<m, "request">>}]
<1>1. /\ claim \in [Claimer -> Claim \cup {None}]
      /\ k \in Claim
      /\ \A e \in k.batch : e \in Entry /\ entry[e] # "absent"
      /\ \A x \in Message :
           <<x, "request">> \in k.items => message[x] # None /\ ~In(x, {"queued"})
  BY DEF IInv, ClaimsOK, Sound, Claim
<1>2. UNCHANGED <<ended, timing, pruning>>
  BY DEF ClaimMark
<1>3. n \in Claim /\ n.batch = k.batch /\ n.items = k.items \cup {<<m, "request">>}
  <2>1. <<m, "request">> \in Entry
    BY DEF Entry
  <2> QED BY <1>1, <2>1 DEF Claim
<1>4. \/ MayMove(m, "delivered") /\ Progress(m, "delivered")
         /\ claim' = [claim EXCEPT ![c] = n]
      \/ In(m, {"delivered"}) /\ UNCHANGED store /\ claim' = [claim EXCEPT ![c] = n]
      \/ UNCHANGED store /\ claim' = [claim EXCEPT ![c] = None]
  BY <1>1 DEF ClaimMark
<1>5. ASSUME StoreStep, message'[m] # None, ~In(m, {"queued"})',
             claim' = [claim EXCEPT ![c] = n]
      PROVE  ClaimsOK'
  <2>1. \A x \in n.batch : entry'[x] # "absent"
    BY <1>1, <1>3, <1>5 DEF StoreStep, KeepsDeliveries
  <2>2. ASSUME NEW x \in Message, <<x, "request">> \in n.items
        PROVE  message'[x] # None /\ ~In(x, {"queued"})'
    <3>1. CASE x = m
      BY <1>5, <3>1
    <3>2. CASE x # m
      BY <1>1, <1>3, <1>5, <2>2, <3>2 DEF StoreStep, KeepsDeliveries
    <3> QED BY <3>1, <3>2
  <2> QED BY <1>3, <1>5, <2>1, <2>2, ClaimsSet DEF StoreStep
<1>6. CASE MayMove(m, "delivered") /\ Progress(m, "delivered")
           /\ claim' = [claim EXCEPT ![c] = n]
  <2>1. StoreStep /\ KeepsRetired
    <3>1. "delivered" \in Unfinished \ {"queued"}
      BY DEF Unfinished
    <3> QED BY <1>6, <3>1, StoreProgress
  <2>2. message'[m] # None /\ ~In(m, {"queued"})'
    <3>1. message[m] # None /\ message' = [message EXCEPT ![m].state = "delivered"]
      BY <1>6 DEF MayMove, Progress
    <3>2. StoreOK /\ "delivered" \in State
      BY DEF IInv, State, Unfinished
    <3>3. message'[m] # None /\ message'[m].state = "delivered"
      BY <3>1, <3>2, Moved
    <3> QED BY <3>3 DEF In
  <2>3. ClaimsOK'
    <3> HIDE DEF k, n
    <3> QED BY <1>5, <1>6, <2>1, <2>2
  <2> QED BY <1>2, <2>1, <2>3, ClaimOnly
<1>7. CASE In(m, {"delivered"}) /\ UNCHANGED store /\ claim' = [claim EXCEPT ![c] = n]
  <2>1. StoreStep /\ KeepsRetired
    BY <1>7, StoreSame
  <2>2. message'[m] # None /\ ~In(m, {"queued"})'
    BY <1>7 DEF In, store
  <2>3. ClaimsOK'
    BY <1>5, <1>7, <2>1, <2>2
  <2> QED BY <1>2, <2>1, <2>3, ClaimOnly
<1>8. CASE UNCHANGED store /\ claim' = [claim EXCEPT ![c] = None]
  <2>1. StoreStep /\ KeepsRetired
    BY <1>8, StoreSame
  <2>2. ClaimsOK'
    BY <1>8, <2>1, ClaimsSet DEF StoreStep
  <2> QED BY <1>2, <2>1, <2>2, ClaimOnly
<1> QED BY <1>4, <1>6, <1>7, <1>8

LEMMA ClaimMarkOK == ASSUME IInv, NEW c \in Claimer, ClaimMark(c) PROVE StepOK
<1>1. /\ claim[c] # None /\ claim[c].marking # None
      /\ claim[c].marking \in Message
  BY DEF ClaimMark, IInv, ClaimsOK, Claim
<1> QED BY <1>1, MarkOK

\* A claim's steps leave the store alone, or move entries of its inbox.
LEMMA ClaimStepOK ==
    ASSUME IInv, NEW c \in Claimer, ClaimStep(c)
    PROVE  StepOK
<1> DEFINE k == claim[c]
<1>1. /\ claim \in [Claimer -> Claim \cup {None}]
      /\ entry \in [Entry -> EntryState]
      /\ \A m \in Message : In(m, Unfinished) =>
           entry[<<m, "request">>] \in {"unread", "pending"}
  BY DEF IInv, ClaimsOK, StoreOK, UnfinishedIsRecoverable
<1>2. k # None =>
        /\ k \in Claim
        /\ \A e \in k.batch : e \in Entry /\ entry[e] # "absent"
        /\ \A m \in Message :
             <<m, "request">> \in k.items => message[m] # None /\ ~In(m, {"queued"})
  BY DEF IInv, ClaimsOK, Sound, Claim
<1>3. ASSUME NEW s \in Session, ClaimOpen(c, s) PROVE StepOK
  <2> DEFINE n == [session |-> s, batch |-> {}, items |-> {}, marking |-> None]
  <2>1. StoreStep /\ KeepsRetired
    BY <1>3, StoreSame DEF ClaimOpen
  <2>2. n \in Claim /\ claim' = [claim EXCEPT ![c] = n]
    BY <1>3 DEF ClaimOpen, Claim
  <2>3. ClaimsOK'
    BY <2>1, <2>2, ClaimsSet DEF StoreStep
  <2> QED BY <1>3, <2>1, <2>3, ClaimOnly DEF ClaimOpen
<1>4. ASSUME ClaimReturn(c) \/ ClaimLost(c) PROVE StepOK
  <2>1. StoreStep /\ KeepsRetired
    BY <1>4, StoreSame DEF ClaimReturn, ClaimLost
  <2>2. ClaimsOK'
    BY <1>4, <2>1, ClaimsSet DEF ClaimReturn, ClaimLost, StoreStep
  <2> QED BY <1>4, <2>1, <2>2, ClaimOnly DEF ClaimReturn, ClaimLost
<1>5. ASSUME NEW m \in Message, ClaimQueued(c, m) PROVE StepOK
  <2> DEFINE n == [k EXCEPT !.batch = @ \ {<<m, "request">>}, !.marking = m]
  <2>1. k # None /\ StoreStep /\ KeepsRetired
    BY <1>5, StoreSame DEF ClaimQueued
  <2>2. claim' = [claim EXCEPT ![c] = n]
    BY <1>1, <1>5 DEF ClaimQueued
  <2>3. n \in Claim /\ n.batch \subseteq k.batch /\ n.items = k.items
    BY <1>2, <2>1 DEF Claim
  <2>4. ClaimsOK'
    <3>1. \A e \in n.batch : entry'[e] # "absent"
      BY <1>2, <2>1, <2>3 DEF StoreStep, KeepsDeliveries
    <3>2. \A x \in Message :
            <<x, "request">> \in n.items => message'[x] # None /\ ~In(x, {"queued"})'
      BY <1>2, <2>1, <2>3 DEF StoreStep, KeepsDeliveries
    <3> QED BY <2>1, <2>2, <2>3, <3>1, <3>2, ClaimsSet DEF StoreStep
  <2> QED BY <1>5, <2>1, <2>4, ClaimOnly DEF ClaimQueued
<1>6. ASSUME ClaimRead(c) PROVE StepOK
  <2> DEFINE inbox == {e \in Entry : entry[e] # "absent" /\ Inbox(e) = k.session}
  <2>1. PICK recovered \in SUBSET {e \in inbox : entry[e] = "pending"},
             fresh \in SUBSET {e \in inbox : entry[e] = "unread"} :
               /\ entry' = [e \in Entry |-> IF e \in fresh THEN "pending" ELSE entry[e]]
               /\ claim' = [claim EXCEPT ![c].batch = recovered \cup fresh]
    BY <1>6 DEF ClaimRead
  <2> DEFINE n == [k EXCEPT !.batch = recovered \cup fresh]
  <2>2. /\ k # None /\ k.items = {}
        /\ UNCHANGED <<message, idem, expiring, deadline, ended, timing, pruning>>
    BY <1>6 DEF ClaimRead
  <2>3. StoreStep /\ KeepsRetired
    <3>1. /\ entry' \in [Entry -> EntryState]
          /\ \A e \in Entry : entry[e] = "absent" <=> entry'[e] = "absent"
      BY <1>1, <2>1 DEF EntryState
    <3>2. \A m \in Message : In(m, Unfinished) =>
            entry'[<<m, "request">>] \in {"unread", "pending"}
      BY <1>1, <2>1 DEF Entry
    <3> QED BY <2>2, <3>1, <3>2, StoreEntries
  <2>4. n \in Claim /\ n.batch = recovered \cup fresh /\ n.items = {}
    BY <1>2, <2>2 DEF Claim
  <2>5. claim' = [claim EXCEPT ![c] = n]
    BY <1>1, <2>1
  <2>6. \A e \in n.batch : entry'[e] # "absent"
    BY <2>1, <2>4
  <2>7. ClaimsOK'
    BY <2>3, <2>4, <2>5, <2>6, ClaimsSet DEF StoreStep
  <2> QED BY <2>2, <2>3, <2>7, ClaimOnly
<1>7. ASSUME NEW e \in Entry, ClaimDrop(c, e) PROVE StepOK
  <2> DEFINE n == [k EXCEPT !.batch = @ \ {e}]
  <2>1. /\ k # None /\ e \in k.batch /\ Useless(e)
        /\ claim' = [claim EXCEPT ![c].batch = @ \ {e}]
        /\ entry' = [entry EXCEPT ![e] = "acked"]
        /\ UNCHANGED <<message, idem, expiring, deadline, ended, timing, pruning>>
    BY <1>7 DEF ClaimDrop
  <2>2. StoreStep /\ KeepsRetired
    <3>1. /\ entry' \in [Entry -> EntryState]
          /\ \A x \in Entry : entry[x] = "absent" <=> entry'[x] = "absent"
      BY <1>1, <1>2, <2>1 DEF EntryState
    <3>2. ASSUME NEW m \in Message, In(m, Unfinished)
          PROVE  entry'[<<m, "request">>] \in {"unread", "pending"}
      <4>1. e # <<m, "request">>
        BY <2>1, <3>2 DEF Useless, Stored, In, Unfinished, Outcome
      <4> QED BY <1>1, <2>1, <3>2, <4>1
    <3> QED BY <2>1, <3>1, <3>2, StoreEntries
  <2>3. n \in Claim /\ n.batch \subseteq k.batch /\ n.items = k.items
    BY <1>2, <2>1 DEF Claim
  <2>4. claim' = [claim EXCEPT ![c] = n]
    BY <1>1, <2>1
  <2>5. ClaimsOK'
    <3>1. \A x \in n.batch : entry'[x] # "absent"
      BY <1>2, <2>1, <2>2, <2>3 DEF StoreStep, KeepsDeliveries
    <3>2. \A x \in Message :
            <<x, "request">> \in n.items => message'[x] # None /\ ~In(x, {"queued"})'
      BY <1>2, <2>1, <2>2, <2>3 DEF StoreStep, KeepsDeliveries
    <3> QED BY <2>2, <2>3, <2>4, <3>1, <3>2, ClaimsSet DEF StoreStep
  <2> QED BY <2>1, <2>2, <2>5, ClaimOnly
<1>8. ASSUME NEW e \in Entry, ClaimCollect(c, e) PROVE StepOK
  <2> DEFINE n == [k EXCEPT !.batch = @ \ {e}, !.items = @ \cup {e}]
  <2>1. /\ k # None /\ e \in k.batch /\ Collectable(e)
        /\ claim' = [claim EXCEPT ![c].batch = @ \ {e}, ![c].items = @ \cup {e}]
        /\ entry' = IF e[2] = "response" THEN [entry EXCEPT ![e] = "acked"] ELSE entry
        /\ UNCHANGED <<message, idem, expiring, deadline, ended, timing, pruning>>
    BY <1>8 DEF ClaimCollect, AckedOnCollect
  <2>2. StoreStep /\ KeepsRetired
    <3>1. /\ entry' \in [Entry -> EntryState]
          /\ \A x \in Entry : entry[x] = "absent" <=> entry'[x] = "absent"
      BY <1>1, <1>2, <2>1 DEF EntryState
    <3>2. ASSUME NEW m \in Message, In(m, Unfinished)
          PROVE  entry'[<<m, "request">>] \in {"unread", "pending"}
      <4>1. entry'[<<m, "request">>] = entry[<<m, "request">>]
        BY <1>1, <2>1
      <4> QED BY <1>1, <3>2, <4>1
    <3> QED BY <2>1, <3>1, <3>2, StoreEntries
  <2>3. n \in Claim /\ n.batch \subseteq k.batch /\ n.items = k.items \cup {e}
    BY <1>2, <2>1 DEF Claim
  <2>4. claim' = [claim EXCEPT ![c] = n]
    BY <1>1, <2>1
  <2>5. ClaimsOK'
    <3>1. \A x \in n.batch : entry'[x] # "absent"
      BY <1>2, <2>1, <2>2, <2>3 DEF StoreStep, KeepsDeliveries
    <3>2. ASSUME NEW x \in Message, <<x, "request">> \in n.items
          PROVE  message'[x] # None /\ ~In(x, {"queued"})'
      <4>1. message[x] # None /\ ~In(x, {"queued"})
        <5>1. CASE <<x, "request">> = e
          BY <2>1, <5>1 DEF Collectable, Useless, Stored, In
        <5>2. CASE <<x, "request">> # e
          BY <1>2, <2>1, <2>3, <3>2, <5>2
        <5> QED BY <5>1, <5>2
      <4> QED BY <2>2, <4>1 DEF StoreStep, KeepsDeliveries
    <3> QED BY <2>2, <2>3, <2>4, <3>1, <3>2, ClaimsSet DEF StoreStep
  <2> QED BY <2>1, <2>2, <2>5, ClaimOnly
<1>9. ASSUME ClaimMark(c) PROVE StepOK
  BY <1>9, ClaimMarkOK
<1> QED BY <1>3, <1>4, <1>5, <1>6, <1>7, <1>8, <1>9 DEF ClaimStep

LEMMA PruneDeleteOK ==
    ASSUME IInv, PruneDelete
    PROVE  StepOK
<1> DEFINE m == pruning
<1>1. m \in Message
  BY DEF IInv, SweepsOK, PruneDelete
<1>2. StoreStep
  <2>1. ASSUME NEW x \in Message, x = pruning PROVE StoreStep
    BY <2>1, StorePruned
  <2> QED BY <1>1, <2>1
<1>3. ClaimsOK'
  BY <1>2, ClaimsKept DEF PruneDelete, StoreStep
<1>4. SweepsOK'
  BY DEF IInv, SweepsOK, PruneDelete
<1> QED BY <1>2, <1>3, <1>4 DEF StepOK, StoreStep, IInv

LEMMA NextOK == IInv /\ [Next]_vars => StepOK
<1> SUFFICES ASSUME IInv, [Next]_vars PROVE StepOK
  OBVIOUS
<1>1. CASE \E m \in Message : MessageStep(m)
  BY <1>1, MessageStepOK
<1>2. CASE \E c \in Claimer : ClaimStep(c)
  BY <1>2, ClaimStepOK
<1>3. CASE \E s \in Session, k \in Key : KeyExpires(s, k)
  BY <1>3, StoreKeyExpired, StoreOnly DEF KeyExpires
<1>4. CASE PruneDelete
  BY <1>4, PruneDeleteOK
<1>5. CASE \E s \in Session : SessionEnds(s)
  <2>1. PICK s \in Session : SessionEnds(s)
    BY <1>5
  <2>2. StoreStep /\ KeepsRetired
    BY <2>1, StoreSame DEF SessionEnds
  <2>3. ClaimsOK'
    BY <2>1, <2>2, ClaimsKept DEF SessionEnds, StoreStep
  <2>4. SweepsOK'
    BY <2>1, <2>2, SweepsKept DEF SessionEnds, IInv, SweepsOK
  <2> QED BY <2>2, <2>3, <2>4 DEF StepOK, StoreStep, IInv
<1>6. CASE UNCHANGED vars
  <2>1. UNCHANGED store /\ UNCHANGED <<ended, claim, timing, pruning>>
    BY <1>6 DEF vars, store
  <2> QED BY <2>1, StoreSame, StoreOnly
<1> QED BY <1>1, <1>2, <1>3, <1>4, <1>5, <1>6 DEF Next

-----------------------------------------------------------------------------
(* Theorems. *)

THEOREM Invariance == Spec => []IInv
<1>1. IInv /\ [Next]_vars => IInv'
  BY NextOK DEF StepOK
<1> QED BY InitOK, <1>1, PTL DEF Spec

\* Every behaviour keeps the types.
THEOREM TypeCorrect == Spec => []TypeOK
<1>1. IInv => TypeOK
  BY DEF IInv, StoreOK, ClaimsOK, SweepsOK, TypeOK
<1> QED BY <1>1, Invariance, PTL

\* A request without an outcome can always still be claimed, and times out.
THEOREM Recoverable == Spec => []UnfinishedIsRecoverable
<1>1. IInv => UnfinishedIsRecoverable
  BY DEF IInv, StoreOK
<1> QED BY <1>1, Invariance, PTL

\* The source's inbox was told of every outcome, and of nothing else.
THEOREM Posted == Spec => []OutcomeIsPosted
<1>1. IInv => OutcomeIsPosted
  BY DEF IInv, StoreOK
<1> QED BY <1>1, Invariance, PTL

\* An idempotency key leads to its message as long as that is unfinished.
THEOREM KeyFinds == Spec => []KeyFindsItsMessage
<1>1. IInv => KeyFindsItsMessage
  BY DEF IInv, StoreOK
<1> QED BY <1>1, Invariance, PTL

\* No bridge gets a request whose delivery was not recorded.
THEOREM Delivered == Spec => []CollectedIsDelivered
<1>1. IInv => CollectedIsDelivered
  BY DEF IInv, ClaimsOK, Sound, CollectedIsDelivered
<1> QED BY <1>1, Invariance, PTL

\* The first outcome stands, and only a target that has not ended answers.
THEOREM OutcomeSafe == Spec => OutcomeStands
<1>1. IInv /\ [Next]_vars => [KeepsOutcomes]_vars
  BY NextOK DEF StepOK
<1> QED BY <1>1, Invariance, PTL DEF Spec, OutcomeStands, KeepsOutcomes

\* Request and reply as built is request and reply as promised.
THEOREM Implementation == Spec => ImplementsAskReply
<1>1. Init => Reply!Init
  BY DEF Init, Reply!Init, Phase, In
<1>2. IInv /\ [Next]_vars => ReplyStep
  BY NextOK DEF StepOK
<1> QED BY <1>1, <1>2, Invariance, PTL DEF Spec, ImplementsAskReply, Reply!Spec, ReplyStep

-----------------------------------------------------------------------------
(* The native bridge.  Each of its steps is one of Messages or a stutter,  *)
(* but for its death, which takes a claim of its own along; so that all    *)
(* the above is true of InboxBridge as well.                               *)

\* A message that a child may have been started for never goes back.
Begun(m) == message[m] # None /\ ~In(m, {"queued", "delivered", "acknowledged"})

Serving == {"look", "acknowledge", "process", "spawn", "run", "exit", "fail", "check"}

\* On the way to a child nothing was run for the message, and a child is started
\* only for one whose beginning is recorded.
RunsOK ==
    /\ \A m \in Message : runs[m] <= 1 /\ (runs[m] > 0 => Begun(m))
    /\ bridge.at \in Serving => bridge.current \in Message
    /\ bridge.at \in {"acknowledge", "process", "spawn"} => runs[bridge.current] = 0
    /\ bridge.at = "spawn" => Begun(bridge.current)

BridgeIInv == IInv /\ BridgeTypeOK /\ RunsOK

\* What the bridge asks for is a step that any responder may take.
LEMMA BridgeMoves ==
    ASSUME NEW m \in Message, NEW state \in {"acknowledged", "processing", "failed"},
           Granted(m, state), Moves(m, state), UNCHANGED Others
    PROVE  MessageStep(m) \/ UNCHANGED vars
<1>1. CASE In(m, {state})
  BY <1>1 DEF Moves, Others, store, vars
<1>2. CASE ~In(m, {state}) /\ state \in Outcome
  <2>1. state = "failed" /\ Responder(m) /\ MayMove(m, state) /\ Settle(m, state)
    BY <1>2 DEF Granted, Moves, Outcome
  <2>2. MessageSettle(m, "failed")
    BY <2>1 DEF MessageSettle, Others, Outcome
  <2> QED BY <2>2 DEF MessageStep, Outcome
<1>3. CASE ~In(m, {state}) /\ state \notin Outcome
  <2>1. /\ state \in {"acknowledged", "processing"} /\ Responder(m) /\ MayMove(m, state)
        /\ Progress(m, state)
    BY <1>3 DEF Granted, Moves, Outcome
  <2>2. MessageProgress(m, state)
    BY <2>1 DEF MessageProgress, Others
  <2> QED BY <2>1, <2>2 DEF MessageStep, Unfinished
<1> QED BY <1>1, <1>2, <1>3

\* The steps of the bridge are those of a client.
LEMMA BridgeIsAClient ==
    ASSUME BridgeIInv, [BridgeNext]_allVars
    PROVE  [Next]_vars \/ Dies
<1> USE DEF BridgeIInv
<1> DEFINE m == bridge.current
<1>1. bridge.at \in Serving => m \in Message
  BY DEF RunsOK
<1>2. \A n \in Message : MessageStep(n) => Next
  BY DEF Next
<1>3. Own \in Claimer /\ (home # None => home \in Session)
  BY BridgeAssumption DEF BridgeTypeOK
<1>4. CASE PollBegins
  BY <1>3, <1>4 DEF PollBegins, Next, ClaimStep
<1>5. CASE ClaimServed
  BY <1>3, <1>5 DEF ClaimServed, Next, ClaimStep
<1>6. CASE ClaimAnswered
  BY <1>3, <1>6 DEF ClaimAnswered, Next, ClaimStep
<1>7. CASE Acknowledges \/ BeginsWork
  <2>1. ASSUME NEW at \in {"acknowledge", "process"}, NEW state \in {"acknowledged", "processing"},
               NEW next, Transition(at, state, next)
        PROVE  [Next]_vars
    <3>1. m \in Message
      BY <1>1, <2>1 DEF Transition, Serving
    <3>2. UNCHANGED vars \/ (Granted(m, state) /\ Moves(m, state) /\ UNCHANGED Others)
      BY <2>1 DEF Transition, vars, store, Others
    <3> QED BY <1>2, <3>1, <3>2, BridgeMoves
  <2> QED BY <1>7, <2>1 DEF Acknowledges, BeginsWork
<1>8. CASE Fails
  <2>1. m \in Message
    BY <1>1, <1>8 DEF Fails, Serving
  <2>2. UNCHANGED vars \/ (Granted(m, "failed") /\ Moves(m, "failed") /\ UNCHANGED Others)
    BY <1>8 DEF Fails, vars, store, Others
  <2> QED BY <1>2, <2>1, <2>2, BridgeMoves
<1>9. CASE Closes
  <2>1. CASE home \in ended \cup {None}
    <3>1. ended' = ended
      BY <1>9, <2>1 DEF Closes
    <3> QED BY <1>9, <3>1 DEF Closes, store, vars
  <2>2. CASE home \notin ended \cup {None}
    <3>1. ended' = ended \cup {home} /\ home \in Session
      BY <1>3, <1>9, <2>2 DEF Closes
    <3> QED BY <1>9, <2>2, <3>1 DEF Closes, SessionEnds, Next
  <2> QED BY <2>1, <2>2
<1>10. CASE RequestFails
  <2>1. CASE bridge.at = "claim" /\ ClaimLost(Own) /\ PollFails
    BY <1>3, <2>1 DEF Next, ClaimStep
  <2>2. CASE UNCHANGED <<store, Others>>
    BY <2>2 DEF store, Others, vars
  <2>3. ASSUME NEW state \in {"acknowledged", "processing", "failed"}, m \in Message,
               Granted(m, state) /\ Moves(m, state), UNCHANGED Others
        PROVE  [Next]_vars
    BY <1>2, <2>3, BridgeMoves
  <2> QED BY <1>1, <1>10, <2>1, <2>2, <2>3 DEF RequestFails, Serving
<1>11. CASE WorldStep
  BY <1>11 DEF WorldStep, Next
<1>12. CASE UNCHANGED <<store, Others>>
  BY <1>12 DEF store, Others, vars
<1> QED BY <1>4, <1>5, <1>6, <1>7, <1>8, <1>9, <1>10, <1>11, <1>12
    DEF BridgeNext, BridgeStep, Registers, LosesSession, ClaimRefused, TakesItem, PollEnds,
        Looks, Spawns, ChildEnds, LooksAgain, Checks, Stops, allVars, vars, store, Others

\* Whatever the bridge does, what Messages promises is kept.
LEMMA BridgeNextOK == BridgeIInv /\ [BridgeNext]_allVars => StepOK
<1> SUFFICES ASSUME BridgeIInv, [BridgeNext]_allVars PROVE StepOK
  OBVIOUS
<1>1. CASE [Next]_vars
  BY <1>1, NextOK DEF BridgeIInv
<1>2. CASE Dies
  <2>1. StoreStep /\ KeepsRetired
    BY <1>2, StoreSame DEF Dies, BridgeIInv
  <2>2. ClaimsOK'
    BY <1>2, <2>1, ClaimsSet, BridgeAssumption DEF Dies, StoreStep, BridgeIInv
  <2> QED BY <1>2, <2>1, <2>2, ClaimOnly DEF Dies, BridgeIInv
<1> QED BY <1>1, <1>2, BridgeIsAClient

\* What has begun stays begun, whoever moves it on.
LEMMA BegunStays ==
    ASSUME BridgeIInv, [BridgeNext]_allVars, NEW m \in Message, Begun(m)
    PROVE  Begun(m)'
<1>1. message[m] # None /\ message[m] \in MessageRecord /\ StoreOK
  BY ConstantsAssumption DEF Begun, BridgeIInv, IInv, StoreOK
<1>2. CASE message' = message
  BY <1>2 DEF Begun, In
<1>3. ASSUME NEW x \in Message, NEW s \in State, MayMove(x, s) \/ (x = pruning /\ s = "pruned"),
             message' = [message EXCEPT ![x].state = s]
      PROVE  Begun(m)'
  <2>1. message[x] # None
    BY <1>3, ConstantsAssumption DEF MayMove, BridgeIInv, IInv, SweepsOK, In
  <2>2. CASE x # m
    <3>1. message'[m] = message[m]
      BY <1>1, <1>3, <2>1, <2>2, Moved
    <3> QED BY <3>1 DEF Begun, In
  <2>3. CASE x = m
    <3>1. message'[m] # None /\ message'[m].state = s
      BY <1>1, <1>3, <2>1, <2>3, Moved
    <3>2. message[m].state \notin {"queued", "delivered", "acknowledged"}
      BY DEF Begun, In
    <3>3. s \in Outcome \cup {"pruned"}
      BY <1>3, <2>3, <3>2 DEF MayMove, Allowed
    <3> QED BY <3>1, <3>3 DEF Begun, In, Outcome
  <2> QED BY <2>2, <2>3
<1>4. CASE Dies
  BY <1>2, <1>4 DEF Dies, store
<1>5. ASSUME NEW x \in Message, MessageStep(x) PROVE Begun(m)'
  <2>1. ASSUME NEW a \in Asks, MessageRequest(x, a[1], a[2], a[3]) PROVE Begun(m)'
    BY <1>1, <2>1 DEF MessageRequest, Begun, In, StoreOK
  <2>2. ASSUME NEW s \in Unfinished, MessageProgress(x, s) PROVE Begun(m)'
    BY <1>3, <2>2 DEF MessageProgress, Progress, State
  <2>3. ASSUME NEW s \in Outcome, MessageSettle(x, s) PROVE Begun(m)'
    BY <1>3, <2>3 DEF MessageSettle, Settle, State
  <2>4. CASE MessageTimeout(x)
    BY <1>2, <1>3, <2>4 DEF MessageTimeout, TimesOut, Settle, State, Outcome, store
  <2>5. CASE DeadlinePasses(x) \/ TimeoutRead(x) \/ PruneRead(x)
    BY <1>2, <2>5 DEF DeadlinePasses, TimeoutRead, PruneRead, store
  <2> QED BY <1>5, <2>1, <2>2, <2>3, <2>4, <2>5 DEF MessageStep
<1>6. ASSUME NEW c \in Claimer, ClaimStep(c) PROVE Begun(m)'
  <2>1. CASE ClaimMark(c)
    <3>1. claim[c].marking \in Message
      BY <2>1 DEF ClaimMark, BridgeIInv, IInv, ClaimsOK, Claim
    <3> QED BY <1>2, <1>3, <2>1, <3>1 DEF ClaimMark, Progress, State, Unfinished, store
  <2> QED BY <1>2, <1>6, <2>1 DEF ClaimStep, ClaimOpen, ClaimRead, ClaimDrop, ClaimCollect,
      ClaimQueued, ClaimReturn, ClaimLost, store
<1>7. CASE PruneDelete
  <2>1. pruning \in Message /\ "pruned" \in State
    BY <1>7 DEF PruneDelete, BridgeIInv, IInv, SweepsOK, State
  <2> QED BY <1>3, <1>7, <2>1 DEF PruneDelete
<1> QED BY <1>2, <1>4, <1>5, <1>6, <1>7, BridgeIsAClient
    DEF Next, KeyExpires, SessionEnds, store, vars

\* The types of the bridge.
LEMMA BridgeTypes == BridgeIInv /\ [BridgeNext]_allVars => BridgeTypeOK'
<1> SUFFICES ASSUME BridgeIInv, [BridgeNext]_allVars PROVE BridgeTypeOK'
  OBVIOUS
<1> USE DEF BridgeIInv
<1>1. home' \in Home \cup {None} /\ left' \subseteq Home
  <2>1. home \in Home \cup {None} /\ left \subseteq Home
    BY DEF BridgeTypeOK
  <2>2. ASSUME NEW s \in Home, Registers(s) PROVE home' \in Home /\ left' = left
    BY <2>2 DEF Registers
  <2>3. CASE LosesSession
    <3>1. home # None
      BY <2>3, BridgeAssumption DEF LosesSession, IInv, SweepsOK
    <3> QED BY <2>1, <2>3, <3>1 DEF LosesSession
  <2>4. CASE Closes \/ Dies
    <3>1. home' = None /\ left' = left \cup ({home} \ {None})
      BY <2>4 DEF Closes, Dies
    <3> QED BY <2>1, <3>1
  <2>5. CASE UNCHANGED <<home, left>>
    BY <2>1, <2>5
  <2> QED BY <2>1, <2>2, <2>3, <2>4, <2>5
      DEF BridgeNext, BridgeStep, PollBegins, ClaimServed, ClaimAnswered, ClaimRefused,
          TakesItem, PollEnds, Looks, Acknowledges, BeginsWork, Transition, Spawns, ChildEnds,
          LooksAgain, Fails, Checks, RequestFails, Stops, WorldStep, bridgeVars, allVars
<1>2. faults' \in 0..MaxFaults
  <2>1. CASE RequestFails \/ Dies
    BY <2>1, BridgeAssumption DEF BridgeTypeOK, RequestFails, Dies, Fault
  <2>2. CASE UNCHANGED faults
    BY <2>2 DEF BridgeTypeOK
  <2> QED BY <2>1, <2>2
      DEF BridgeNext, BridgeStep, Registers, LosesSession, PollBegins, ClaimServed,
          ClaimAnswered, ClaimRefused, TakesItem, PollEnds, Looks, Acknowledges, BeginsWork,
          Transition, Spawns, ChildEnds, LooksAgain, Fails, Checks, Stops, Closes, WorldStep,
          bridgeVars, allVars
<1>3. runs' \in [Message -> Nat]
  <2>1. CASE Spawns
    BY <2>1 DEF BridgeTypeOK, Spawns, RunsOK, Serving
  <2> QED BY <2>1 DEF BridgeTypeOK, BridgeNext, BridgeStep, Registers, LosesSession,
     PollBegins, ClaimServed, ClaimAnswered, ClaimRefused, TakesItem, PollEnds, Looks,
     Acknowledges, BeginsWork, Transition, ChildEnds, LooksAgain, Fails, Checks,
     RequestFails, Stops, Closes, Dies, WorldStep, bridgeVars, allVars
<1>4. bridge' \in Bridge
  <2>1. bridge \in Bridge
    BY DEF BridgeTypeOK
  <2>2. ASSUME NEW stage \in Stage, Goes(stage) PROVE bridge' \in Bridge
    BY <2>1, <2>2 DEF Goes, Bridge
  <2>3. ASSUME PollFails PROVE bridge' \in Bridge
    BY <2>1, <2>3 DEF PollFails, Down, Bridge, Stage
  <2>4. ASSUME Served PROVE bridge' \in Bridge
    BY <2>1, <2>3, <2>4 DEF Served, Bridge, Stage
  <2>5. CASE PollBegins \/ ClaimRefused \/ PollEnds
    BY <2>2, <2>3, <2>5 DEF PollBegins, ClaimRefused, PollEnds, Stage
  <2>6. CASE ClaimAnswered
    BY <2>1, <2>6 DEF ClaimAnswered, Bridge, Stage
  <2>7. ASSUME NEW n \in Message, TakesItem(n) PROVE bridge' \in Bridge
    BY <2>1, <2>7 DEF TakesItem, Bridge, Stage
  <2>8. CASE Looks \/ LooksAgain
    <3>1. bridge.at \in Serving
      BY <2>8 DEF Looks, LooksAgain, Serving
    <3>2. ASSUME Looks PROVE bridge' \in Bridge
      BY <2>2, <2>3, <2>4, <3>2 DEF Looks, AfterLook, In, Unfinished, Stage
    <3> QED BY <2>2, <2>3, <2>4, <2>8, <3>2 DEF LooksAgain, Stage
  <2>9. CASE Acknowledges \/ BeginsWork
    BY <2>2, <2>3, <2>9 DEF Acknowledges, BeginsWork, Transition, Stage
  <2>10. CASE Spawns
    BY <2>2, <2>10 DEF Spawns, Stage
  <2>11. CASE ChildEnds
    BY <2>1, <2>2, <2>11 DEF ChildEnds, Bridge, Stage
  <2>12. CASE Fails \/ Checks
    BY <2>2, <2>3, <2>4, <2>12 DEF Fails, Checks, Stage
  <2>13. CASE RequestFails
    BY <2>2, <2>3, <2>13 DEF RequestFails, Stage
  <2>14. CASE Stops
    BY <2>1, <2>14 DEF Stops, Bridge
  <2>15. CASE Closes \/ Dies
    <3>1. bridge' = Down
      BY <2>15 DEF Closes, Dies
    <3> QED BY <3>1 DEF Down, Bridge, Stage
  <2>16. ASSUME NEW s \in Home, Registers(s) PROVE bridge' \in Bridge
    BY <2>1, <2>16 DEF Registers, Down, Bridge, Stage
  <2> QED BY <2>1, <2>5, <2>6, <2>7, <2>8, <2>9, <2>10, <2>11, <2>12, <2>13, <2>14, <2>15, <2>16
      DEF BridgeNext, BridgeStep, LosesSession, ClaimServed, WorldStep, bridgeVars, allVars
<1> QED BY <1>1, <1>2, <1>3, <1>4 DEF BridgeTypeOK

\* Nothing is run twice.
LEMMA BridgeRuns == BridgeIInv /\ [BridgeNext]_allVars => RunsOK'
<1> SUFFICES ASSUME BridgeIInv, [BridgeNext]_allVars PROVE RunsOK'
  OBVIOUS
<1> DEFINE m == bridge.current
           OneRun == \A n \in Message : runs'[n] <= 1 /\ (runs'[n] > 0 => Begun(n)')
           Place == /\ bridge'.at \in Serving => bridge'.current \in Message
                    /\ bridge'.at \in {"acknowledge", "process", "spawn"} =>
                         runs'[bridge'.current] = 0
                    /\ bridge'.at = "spawn" => Begun(bridge.current)'
<1> SUFFICES OneRun /\ Place
  BY DEF RunsOK, Begun, In
<1>1. /\ runs \in [Message -> Nat] /\ bridge \in Bridge
      /\ RunsOK /\ \A n \in Message : Begun(n) => Begun(n)'
  BY BegunStays DEF BridgeIInv, BridgeTypeOK
<1>2. ASSUME runs' = runs PROVE OneRun
  BY <1>1, <1>2 DEF RunsOK
<1>3. ASSUME bridge' = bridge, runs' = runs PROVE Place
  BY <1>1, <1>3 DEF RunsOK, Serving
<1>4. ASSUME PollFails \/ Served \/ bridge' = Down PROVE Place
  <2>1. ASSUME PollFails PROVE bridge'.at = "poll"
    BY <2>1 DEF PollFails, Down
  <2>2. ASSUME Served PROVE bridge'.at \in {"poll", "items"}
    BY <1>1, <2>1, <2>2 DEF Served, Bridge
  <2>3. bridge'.at \in {"poll", "items", "down"}
    BY <1>4, <2>1, <2>2 DEF Down
  <2> QED BY <2>3 DEF Serving
<1>5. ASSUME NEW stage, Goes(stage)
      PROVE  bridge'.at = stage /\ bridge'.current = m
  BY <1>1, <1>5 DEF Goes, Bridge
<1>6. ASSUME NEW s \in Home, Registers(s) PROVE OneRun /\ Place
  BY <1>2, <1>3, <1>4, <1>6 DEF Registers, Down, Serving
<1>7. CASE PollBegins \/ ClaimAnswered
  <2>1. bridge'.at \in {"claim", "items"} /\ runs' = runs
    BY <1>1, <1>7 DEF PollBegins, ClaimAnswered, Goes, Bridge
  <2> QED BY <1>2, <2>1 DEF Serving
<1>8. ASSUME NEW n \in Message, TakesItem(n) PROVE OneRun /\ Place
  BY <1>1, <1>2, <1>8 DEF TakesItem, Serving, Bridge
<1>9. CASE Looks
  <2>1. m \in Message /\ runs' = runs
    BY <1>1, <1>9 DEF Looks, RunsOK, Serving
  <2>2. ASSUME In(m, Unfinished \ {"queued"}), Goes(AfterLook(message[m].state)) PROVE Place
    <3>1. message[m].state \in {"delivered", "acknowledged", "processing"}
      BY <2>2 DEF In, Unfinished
    <3>2. CASE message[m].state = "processing"
      BY <1>5, <2>1, <2>2, <3>2 DEF AfterLook
    <3>3. CASE message[m].state \in {"delivered", "acknowledged"}
      <4>1. ~Begun(m)
        BY <3>3 DEF Begun, In
      <4>2. runs[m] = 0
        BY <1>1, <2>1, <4>1 DEF RunsOK
      <4>3. bridge'.at \in {"acknowledge", "process"} /\ bridge'.current = m
        BY <1>5, <2>2, <3>3 DEF AfterLook
      <4> QED BY <2>1, <4>2, <4>3
    <3> QED BY <3>1, <3>2, <3>3
  <2> QED BY <1>2, <1>4, <1>9, <2>1, <2>2 DEF Looks
<1>10. CASE Acknowledges
  BY <1>1, <1>2, <1>4, <1>5, <1>10 DEF Acknowledges, Transition, RunsOK, Serving
<1>11. CASE BeginsWork
  <2>1. m \in Message /\ runs' = runs /\ runs[m] = 0
    BY <1>1, <1>11 DEF BeginsWork, Transition, RunsOK, Serving
  <2>2. ASSUME Granted(m, "processing"), Moves(m, "processing"), Goes("spawn") PROVE Place
    <3> SUFFICES ASSUME NEW n \in Message, n = m PROVE Place
      BY <2>1
    <3>1. Begun(n)'
      <4>1. CASE In(n, {"processing"})
        BY <1>1, <4>1 DEF Begun, In
      <4>2. CASE ~In(n, {"processing"})
        <5>1. MayMove(n, "processing") /\ message' = [message EXCEPT ![n].state = "processing"]
          BY <2>2, <4>2 DEF Granted, Moves, Progress, Outcome
        <5>2. message'[n] # None /\ message'[n].state = "processing"
          BY <5>1, Moved DEF MayMove, BridgeIInv, IInv, State, Unfinished
        <5> QED BY <5>2 DEF Begun, In
      <4> QED BY <4>1, <4>2
    <3>2. bridge'.at = "spawn" /\ bridge'.current = n
      BY <1>5, <2>2
    <3>3. Begun(bridge.current)'
      BY <3>1, <3>2 DEF Begun, In
    <3> QED BY <2>1, <3>2, <3>3
  <2> QED BY <1>2, <1>4, <1>11, <2>1, <2>2 DEF BeginsWork, Transition
<1>12. CASE Spawns
  <2>1. m \in Message /\ runs[m] = 0 /\ Begun(m)
    BY <1>1, <1>12 DEF Spawns, RunsOK, Serving
  <2>2. Place
    BY <1>5, <1>12, <2>1 DEF Spawns
  <2>3. runs' = runs \/ runs' = [runs EXCEPT ![m] = 1]
    BY <1>1, <1>12, <2>1 DEF Spawns
  <2>4. OneRun
    BY <1>1, <2>1, <2>3 DEF RunsOK
  <2> QED BY <2>2, <2>4
<1>13. CASE ChildEnds
  <2>1. bridge'.at \in {"exit", "fail"} /\ bridge'.current = m /\ m \in Message /\ runs' = runs
    BY <1>1, <1>13 DEF ChildEnds, Goes, Bridge, RunsOK, Serving
  <2> QED BY <1>2, <2>1
<1>14. CASE LooksAgain \/ Fails \/ Checks
  <2>1. m \in Message /\ runs' = runs
    BY <1>1, <1>14 DEF LooksAgain, Fails, Checks, RunsOK, Serving
  <2>2. PollFails \/ Served \/ Goes("fail") \/ Goes("check")
    BY <1>14 DEF LooksAgain, Fails, Checks
  <2> QED BY <1>2, <1>4, <1>5, <2>1, <2>2
<1>15. CASE RequestFails
  <2>1. runs' = runs /\ (PollFails \/ (bridge.at = "fail" /\ Goes("check")))
    BY <1>15 DEF RequestFails
  <2>2. bridge.at = "fail" => m \in Message
    BY <1>1 DEF RunsOK, Serving
  <2> QED BY <1>2, <1>4, <1>5, <2>1, <2>2
<1>16. CASE Stops
  <2>1. runs' = runs /\ bridge'.at = bridge.at /\ bridge'.current = m
    BY <1>1, <1>16 DEF Stops, Bridge
  <2> QED BY <1>1, <1>2, <2>1 DEF RunsOK, Serving
<1>17. CASE ClaimRefused \/ PollEnds \/ Closes \/ Dies
  BY <1>2, <1>4, <1>17 DEF ClaimRefused, PollEnds, Closes, Dies
<1>18. CASE LosesSession \/ ClaimServed \/ WorldStep \/ UNCHANGED allVars
  BY <1>2, <1>3, <1>18 DEF LosesSession, ClaimServed, WorldStep, bridgeVars, allVars
<1> HIDE DEF OneRun, Place
<1> QED BY <1>6, <1>7, <1>8, <1>9, <1>10, <1>11, <1>12, <1>13, <1>14, <1>15, <1>16, <1>17, <1>18
    DEF BridgeNext, BridgeStep

\* The invariant of Messages, and what the bridge adds to it.
LEMMA BridgeInvariance == BridgeSpec => []BridgeIInv
<1>1. BridgeInit => BridgeIInv
  <2> SUFFICES ASSUME BridgeInit PROVE BridgeIInv
    OBVIOUS
  <2>1. IInv
    BY InitOK DEF BridgeInit
  <2>2. BridgeTypeOK
    BY BridgeAssumption DEF BridgeInit, BridgeTypeOK, Down, Bridge, Stage
  <2>3. RunsOK
    BY DEF BridgeInit, RunsOK, Down, Serving
  <2> QED BY <2>1, <2>2, <2>3 DEF BridgeIInv
<1>2. BridgeIInv /\ [BridgeNext]_allVars => BridgeIInv'
  BY BridgeNextOK, BridgeTypes, BridgeRuns DEF BridgeIInv, StepOK
<1> QED BY <1>1, <1>2, PTL DEF BridgeSpec

\* A request is run once at most, whatever answers the bridge loses, however often
\* it claims the entry again, whoever else moves the request on, and whichever
\* process and session of the bridge comes to it.
THEOREM RunAtMostOnce == BridgeSpec => []RunsOnce
<1>1. BridgeIInv => RunsOnce
  BY DEF BridgeIInv, RunsOK, RunsOnce
<1> QED BY <1>1, BridgeInvariance, PTL

\* A bridge, its failures and its death take nothing away from what request and
\* reply promise.
THEOREM BridgeKeepsPromise == BridgeSpec => ImplementsAskReply
<1>1. BridgeInit => Reply!Init
  BY DEF BridgeInit, Init, Reply!Init, Phase, In
<1>2. BridgeIInv /\ [BridgeNext]_allVars => ReplyStep
  BY BridgeNextOK DEF StepOK
<1> QED BY <1>1, <1>2, BridgeInvariance, PTL
    DEF BridgeSpec, ImplementsAskReply, Reply!Spec, ReplyStep

=============================================================================
