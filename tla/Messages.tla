------------------------------ MODULE Messages ------------------------------
(***************************************************************************)
(* Request and reply between sessions: the Redis Functions message_request *)
(* and message_transition, the claims of a bridge on a session's inbox,    *)
(* the timeout sweep and the retention of message projections.             *)
(*                                                                         *)
(* A Redis Function, and a single stream command, is one atomic step.  An  *)
(* inbox is a stream with a consumer group; an entry in it is unread, then *)
(* pending until it is acknowledged.  Nothing depends on the order of the  *)
(* entries: a claim takes any, which covers the order of the stream.       *)
(* An entry carries its own source and target, so the model keeps a pruned *)
(* message's record, in the state "pruned"; the code finds nothing there.  *)
(***************************************************************************)
EXTENDS Integers, FiniteSets

CONSTANTS
    Session,         \* sessions of one project
    Message,         \* message ids, minted once each
    Key,             \* Idempotency-Key values
    Asks,            \* bound: the source, target and key of the requests sessions make
    Claimer,         \* claim requests of bridges the daemon can be serving at once
    Limit,           \* entries one claim takes
    ClaimsMayBeLost, \* whether clients disconnect and daemons crash in a claim
    None             \* no message, no key, no claim, no entry, no candidate

Outcome == {"responded", "rejected", "failed", "timed_out"}
Unfinished == {"queued", "delivered", "acknowledged", "processing"}
State == Unfinished \cup Outcome \cup {"pruned"}

MessageRecord == [source: Session, target: Session, key: Key \cup {None}, state: State]

Entry == Message \X {"request", "response"}
EntryState == {"absent", "unread", "pending", "acked"}

\* A claim: the entries read and not looked at yet, the items collected, and
\* the request found queued whose delivery is being recorded.
Claim == [session: Session, batch: SUBSET Entry, items: SUBSET Entry,
          marking: Message \cup {None}]

ASSUME ConstantsAssumption ==
    /\ Asks \subseteq Session \X Session \X (Key \cup {None})
    /\ Limit \in Nat \ {0}
    /\ ClaimsMayBeLost \in BOOLEAN
    /\ None \notin Message
    /\ None \notin Key
    /\ None \notin Session \X Key
    /\ None \notin MessageRecord
    /\ None \notin Claim

VARIABLES
    message,   \* per message: its projection
    idem,      \* per source session and key: the message the index names
    expiring,  \* the index keys that have a time to live
    deadline,  \* per message: none in the index, ahead, or passed by the clock of Redis
    entry,     \* per entry: where it is in its inbox
    ended,     \* sessions that are completed or disconnected
    claim,     \* per claimer: the claim being served
    timing,    \* the candidate the timeout sweep has in hand
    pruning    \* the candidate the retention has in hand

vars == <<message, idem, expiring, deadline, entry, ended, claim, timing, pruning>>

store == <<message, idem, expiring, deadline, entry>>

-----------------------------------------------------------------------------
Init ==
    /\ message = [m \in Message |-> None]
    /\ idem = [k \in Session \X Key |-> None]
    /\ expiring = {}
    /\ deadline = [m \in Message |-> "none"]
    /\ entry = [e \in Entry |-> "absent"]
    /\ ended = {}
    /\ claim = [c \in Claimer |-> None]
    /\ timing = None
    /\ pruning = None

In(m, states) == message[m] # None /\ message[m].state \in states

Stored(m) == In(m, Unfinished \cup Outcome)

\* The index key of a message, if it was asked under one.
IndexKey(m) == {k \in Session \X Key : k = <<message[m].source, message[m].key>>}

\* The session in whose inbox an entry is.
Inbox(e) == IF e[2] = "request" THEN message[e[1]].target ELSE message[e[1]].source

-----------------------------------------------------------------------------
(* Asking *)

\* message_request.  An index key that is there already, for this request or
\* for another one, changes nothing: those calls are left out, and with them
\* the service's look at the index before it calls.  Presence comes and goes,
\* so a refusal for want of it is a request that does not happen.
MessageRequest(m, s, t, k) ==
    /\ message[m] = None
    /\ s \notin ended /\ t \notin ended
    /\ k # None => idem[s, k] = None
    /\ message' = [message EXCEPT ![m] = [source |-> s, target |-> t, key |-> k,
                                          state |-> "queued"]]
    /\ idem' = [j \in Session \X Key |-> IF j = <<s, k>> THEN m ELSE idem[j]]
    /\ expiring' = expiring \ {<<s, k>>}
    /\ deadline' = [deadline EXCEPT ![m] = "ahead"]
    /\ entry' = [entry EXCEPT ![<<m, "request">>] = "unread"]
    /\ UNCHANGED <<ended, claim, timing, pruning>>

\* The time to live of the index key runs out.
KeyExpires(s, k) ==
    /\ <<s, k>> \in expiring
    /\ idem' = [idem EXCEPT ![<<s, k>>] = None]
    /\ expiring' = expiring \ {<<s, k>>}
    /\ UNCHANGED <<message, deadline, entry, ended, claim, timing, pruning>>

-----------------------------------------------------------------------------
(* message_transition *)

\* The states a message may move to.
Allowed(current) ==
    CASE current = "queued" -> {"delivered", "timed_out", "failed"}
      [] current = "delivered" -> {"acknowledged", "processing"} \cup Outcome
      [] current = "acknowledged" -> {"processing"} \cup Outcome
      [] current = "processing" -> Outcome
      [] OTHER -> {}

MayMove(m, state) == message[m] # None /\ state \in Allowed(message[m].state)

\* Mutant: the index key starts to expire with the first transition.
ProgressExpiring(m, state) ==
    /\ message' = [message EXCEPT ![m].state = state]
    /\ expiring' = expiring \cup IndexKey(m)
    /\ UNCHANGED <<idem, deadline, entry>>

Progress(m, state) ==
    /\ message' = [message EXCEPT ![m].state = state]
    /\ UNCHANGED <<idem, expiring, deadline, entry>>

\* Mutant: the request is acknowledged, the source is not told.
SettleUntold(m, outcome) ==
    /\ message' = [message EXCEPT ![m].state = outcome]
    /\ deadline' = [deadline EXCEPT ![m] = "none"]
    /\ entry' = [entry EXCEPT ![<<m, "request">>] = IF @ = "pending" THEN "acked" ELSE @]
    /\ expiring' = expiring \cup IndexKey(m)
    /\ UNCHANGED idem

\* A move to an outcome: the deadline goes, the source's inbox gets the
\* notification, the request entry is acknowledged if it was read (XACK of an
\* entry that is not pending does nothing), and the index key starts to expire.
Settle(m, outcome) ==
    /\ message' = [message EXCEPT ![m].state = outcome]
    /\ deadline' = [deadline EXCEPT ![m] = "none"]
    /\ entry' = [entry EXCEPT ![<<m, "response">>] = "unread",
                              ![<<m, "request">>] = IF @ = "pending" THEN "acked" ELSE @]
    /\ expiring' = expiring \cup IndexKey(m)
    /\ UNCHANGED idem

\* The responder is the selected target, and has not ended.
Responder(m) == message[m] # None /\ message[m].target \notin ended

MessageProgress(m, state) ==
    /\ state \in {"acknowledged", "processing"}
    /\ Responder(m)
    /\ MayMove(m, state)
    /\ Progress(m, state)
    /\ UNCHANGED <<ended, claim, timing, pruning>>

MessageSettle(m, outcome) ==
    /\ outcome \in Outcome \ {"timed_out"}
    /\ Responder(m)
    /\ MayMove(m, outcome)
    /\ Settle(m, outcome)
    /\ UNCHANGED <<ended, claim, timing, pruning>>

-----------------------------------------------------------------------------
(* The timeout sweep *)

\* Redis reaches the deadline.
DeadlinePasses(m) ==
    /\ deadline[m] = "ahead"
    /\ deadline' = [deadline EXCEPT ![m] = "passed"]
    /\ UNCHANGED <<message, idem, expiring, entry, ended, claim, timing, pruning>>

\* A deadline that the daemon's own clock, which may be ahead, says has passed.
TimeoutRead(m) ==
    /\ timing = None
    /\ deadline[m] # "none"
    /\ In(m, Unfinished)
    /\ timing' = m
    /\ UNCHANGED <<store, ended, claim, pruning>>

\* Mutant: only a message that nobody claimed times out.
TimesOutQueued(m) == In(m, {"queued"}) /\ deadline[m] = "passed"

\* The deadline listed is still the stored one, and Redis has reached it.
TimesOut(m) == MayMove(m, "timed_out") /\ deadline[m] = "passed"

MessageTimeout(m) ==
    /\ timing = m
    /\ \/ TimesOut(m) /\ Settle(m, "timed_out")
       \/ ~TimesOut(m) /\ UNCHANGED store
    /\ timing' = None
    /\ UNCHANGED <<ended, claim, pruning>>

-----------------------------------------------------------------------------
(* Claims on an inbox *)

\* The service looks at the session once, before the polls of the claim.
ClaimOpen(c, s) ==
    /\ claim[c] = None
    /\ s \notin ended
    /\ claim' = [claim EXCEPT ![c] = [session |-> s, batch |-> {}, items |-> {},
                                      marking |-> None]]
    /\ UNCHANGED <<store, ended, timing, pruning>>

\* XAUTOCLAIM takes pending entries that were idle long enough, and XREADGROUP
\* fills up with unread ones.
ClaimRead(c) ==
    /\ claim[c] # None
    /\ claim[c].batch = {} /\ claim[c].items = {} /\ claim[c].marking = None
    /\ LET inbox == {e \in Entry : entry[e] # "absent" /\ Inbox(e) = claim[c].session}
       IN  \E recovered \in SUBSET {e \in inbox : entry[e] = "pending"},
              fresh \in SUBSET {e \in inbox : entry[e] = "unread"} :
             /\ recovered \cup fresh # {}
             /\ Cardinality(recovered \cup fresh) <= Limit
             /\ fresh # {e \in inbox : entry[e] = "unread"}
                  => Cardinality(recovered \cup fresh) = Limit
             /\ entry' = [e \in Entry |-> IF e \in fresh THEN "pending" ELSE entry[e]]
             /\ claim' = [claim EXCEPT ![c].batch = recovered \cup fresh]
    /\ UNCHANGED <<message, idem, expiring, deadline, ended, timing, pruning>>

\* An entry that is of no use any more: nothing is stored for it, or it is a
\* request that has its outcome.
Useless(e) == ~Stored(e[1]) \/ (e[2] = "request" /\ In(e[1], Outcome))

ClaimDrop(c, e) ==
    /\ claim[c] # None
    /\ claim[c].marking = None
    /\ e \in claim[c].batch
    /\ Useless(e)
    /\ claim' = [claim EXCEPT ![c].batch = @ \ {e}]
    /\ entry' = [entry EXCEPT ![e] = "acked"]
    /\ UNCHANGED <<message, idem, expiring, deadline, ended, timing, pruning>>

\* Mutant: a request is acknowledged as it is collected.
AckedOnCollectAll(e) == TRUE

\* A response is acknowledged as it is collected, a request stays pending.
AckedOnCollect(e) == e[2] = "response"

\* What can be handed out without another word to Redis.
Collectable(e) == ~Useless(e) /\ ~In(e[1], {"queued"})

ClaimCollect(c, e) ==
    /\ claim[c] # None
    /\ claim[c].marking = None
    /\ e \in claim[c].batch
    /\ Collectable(e)
    /\ claim' = [claim EXCEPT ![c].batch = @ \ {e}, ![c].items = @ \cup {e}]
    /\ entry' = IF AckedOnCollect(e) THEN [entry EXCEPT ![e] = "acked"] ELSE entry
    /\ UNCHANGED <<message, idem, expiring, deadline, ended, timing, pruning>>

\* A request found queued: its delivery is to be recorded first.
ClaimQueued(c, m) ==
    /\ claim[c] # None
    /\ claim[c].marking = None
    /\ <<m, "request">> \in claim[c].batch
    /\ In(m, {"queued"})
    /\ claim' = [claim EXCEPT ![c].batch = @ \ {<<m, "request">>}, ![c].marking = m]
    /\ UNCHANGED <<store, ended, timing, pruning>>

\* message_delivered.  It is refused when the message has moved on past
\* delivered or the session has ended, and a refusal ends the whole claim.
ClaimMark(c) ==
    /\ claim[c] # None
    /\ claim[c].marking # None
    /\ LET m == claim[c].marking
           marked == [claim EXCEPT ![c].marking = None, ![c].items = @ \cup {<<m, "request">>}]
           recorded == Responder(m) /\ MayMove(m, "delivered")
           already == In(m, {"delivered"})
       IN  \/ /\ recorded
              /\ Progress(m, "delivered")
              /\ claim' = marked
           \/ /\ already
              /\ claim' = marked
              /\ UNCHANGED store
           \/ /\ ~recorded /\ ~already
              /\ claim' = [claim EXCEPT ![c] = None]
              /\ UNCHANGED store
    /\ UNCHANGED <<ended, timing, pruning>>

\* The items go to the bridge, or the time to wait is over.
ClaimReturn(c) ==
    /\ claim[c] # None
    /\ claim[c].batch = {} /\ claim[c].marking = None
    /\ claim' = [claim EXCEPT ![c] = None]
    /\ UNCHANGED <<store, ended, timing, pruning>>

\* The bridge disconnects or the daemon stops.
ClaimLost(c) ==
    /\ ClaimsMayBeLost
    /\ claim[c] # None
    /\ claim' = [claim EXCEPT ![c] = None]
    /\ UNCHANGED <<store, ended, timing, pruning>>

-----------------------------------------------------------------------------
(* Retention of projections, and sessions *)

\* Mutant: the index key is not looked at.
MayPruneAnyKey(m) == In(m, Outcome)

\* A message past its retention time, whose index key is gone.
MayPrune(m) ==
    /\ In(m, Outcome)
    /\ message[m].key # None => idem[message[m].source, message[m].key] = None

PruneRead(m) ==
    /\ pruning = None
    /\ MayPrune(m)
    /\ pruning' = m
    /\ UNCHANGED <<store, ended, claim, timing>>

PruneDelete ==
    /\ pruning # None
    /\ message' = [message EXCEPT ![pruning].state = "pruned"]
    /\ pruning' = None
    /\ UNCHANGED <<idem, expiring, deadline, entry, ended, claim, timing>>

SessionEnds(s) ==
    /\ s \notin ended
    /\ ended' = ended \cup {s}
    /\ UNCHANGED <<store, claim, timing, pruning>>

ClaimStep(c) ==
    \/ \E s \in Session : ClaimOpen(c, s)
    \/ ClaimRead(c)
    \/ \E e \in Entry : ClaimDrop(c, e) \/ ClaimCollect(c, e)
    \/ \E m \in Message : ClaimQueued(c, m)
    \/ ClaimMark(c)
    \/ ClaimReturn(c)
    \/ ClaimLost(c)

MessageStep(m) ==
    \/ \E a \in Asks : MessageRequest(m, a[1], a[2], a[3])
    \/ \E state \in Unfinished : MessageProgress(m, state)
    \/ \E outcome \in Outcome : MessageSettle(m, outcome)
    \/ DeadlinePasses(m)
    \/ TimeoutRead(m)
    \/ MessageTimeout(m)
    \/ PruneRead(m)

Next ==
    \/ \E m \in Message : MessageStep(m)
    \/ \E c \in Claimer : ClaimStep(c)
    \/ \E s \in Session, k \in Key : KeyExpires(s, k)
    \/ PruneDelete
    \/ \E s \in Session : SessionEnds(s)

Spec == Init /\ [][Next]_vars

-----------------------------------------------------------------------------
(* Properties *)

\* Types of the variables.
TypeOK ==
    /\ message \in [Message -> MessageRecord \cup {None}]
    /\ idem \in [Session \X Key -> Message \cup {None}]
    /\ expiring \subseteq Session \X Key
    /\ deadline \in [Message -> {"none", "ahead", "passed"}]
    /\ entry \in [Entry -> EntryState]
    /\ ended \subseteq Session
    /\ claim \in [Claimer -> Claim \cup {None}]
    /\ timing \in Message \cup {None}
    /\ pruning \in Message \cup {None}

\* A request without an outcome can always still be claimed: its entry is
\* unread or pending and its deadline is set, whatever bridge read it, however
\* that claim ended, and however many claims raced.
UnfinishedIsRecoverable ==
    \A m \in Message : In(m, Unfinished) =>
        /\ entry[m, "request"] \in {"unread", "pending"}
        /\ deadline[m] # "none"

\* An outcome has been posted to the source's inbox, and only an outcome has;
\* no deadline is left to race it.
OutcomeIsPosted ==
    \A m \in Message :
        /\ In(m, Outcome) => deadline[m] = "none"
        /\ Stored(m) => (entry[m, "response"] # "absent" <=> In(m, Outcome))

\* What the idempotency index names can be read, and an unfinished request is
\* always found by its key: a retry gets the first answer, not a second ask.
KeyFindsItsMessage ==
    /\ \A s \in Session, k \in Key : idem[s, k] # None =>
         /\ Stored(idem[s, k])
         /\ message[idem[s, k]].source = s /\ message[idem[s, k]].key = k
    /\ \A m \in Message : In(m, Unfinished) /\ message[m].key # None =>
         /\ idem[message[m].source, message[m].key] = m
         /\ <<message[m].source, message[m].key>> \notin expiring

\* A bridge is never about to get a request that is still queued: its
\* acknowledgement would be refused.
CollectedIsDelivered ==
    \A c \in Claimer, m \in Message :
        claim[c] # None /\ <<m, "request">> \in claim[c].items => ~In(m, {"queued"})

\* Of an answer and a timeout the first one stands, and an answer comes only
\* from a target that has not ended.
OutcomeStands ==
    [][\A m \in Message :
         /\ \A o \in Outcome : In(m, {o}) => In(m, {o, "pruned"})'
         /\ In(m, Unfinished) /\ In(m, Outcome \ {"timed_out"})' => Responder(m)]_vars

\* What the documents promise of delivery, at least once, for the responses: a
\* claim that fails of itself does not take along a response it had already
\* acknowledged, which no other claim will ever see.
FailedClaimKeepsNoResponse ==
    [][\A c \in Claimer, m \in Message :
         /\ claim[c] # None /\ claim[c].marking # None
         /\ claim'[c] = None
         => <<m, "response">> \notin claim[c].items]_vars

\* The abstract view: phases of a question, its outcome, the key that leads to it.
Phase(m) ==
    CASE message[m] = None -> "unasked"
      [] In(m, Unfinished) -> "open"
      [] In(m, Outcome) -> "decided"
      [] OTHER -> "forgotten"

Reply == INSTANCE AskReply WITH
    Question <- Message,
    Slot <- Session \X Key,
    phase <- [m \in Message |-> Phase(m)],
    outcome <- [m \in Message |-> IF In(m, Outcome) THEN message[m].state ELSE None],
    holder <- idem

\* Inboxes, claims, sweep and retention together do what AskReply says: one
\* ask per key, one outcome, nothing forgotten that a key still leads to.
ImplementsAskReply == Reply!Spec

\* Every request that was accepted gets an outcome, also when nobody claims
\* it, claims fail halfway, or its target ends.
EveryAskIsDecided == Reply!EveryQuestionIsDecided

=============================================================================
