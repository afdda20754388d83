----------------------------- MODULE EventRelay -----------------------------
(***************************************************************************)
(* How the daemon keeps the promise of EventFeed: the consumer group, the  *)
(* relay that reads and recovers it, the dead letters, the recovery that   *)
(* a failure requests, and the retention that trims the stream.            *)
(*                                                                         *)
(* The relay's code runs in up to three workers at once: the startup and a *)
(* recovery drain the pending entries, the loop drains them and then reads *)
(* new ones.  A command to Redis is one step and may fail.  The relay      *)
(* knows nothing of the sockets of the hub, and nobody opens one here: a   *)
(* socket on the stream that EventFeed describes is in Dashboard.          *)
(***************************************************************************)
EXTENDS EventFeed

CONSTANTS
    Batch,       \* entries per claim and per read
    MaxLength,   \* entries that retention leaves in the stream
    MaxFaults    \* bound: commands that fail, and crashes

Worker == {"startup", "recovery", "loop"}

\* Where a worker is: making sure of the group, claiming pending entries,
\* processing its hand, acknowledging the head of it, through with the pending
\* entries, reading new ones, or before the rest of a recovery.
Place == {"off", "group", "claim", "process", "ack", "claimed", "poll", "settle"}

ASSUME RelayAssumption ==
    /\ Batch \in Nat \ {0} /\ MaxLength \in Nat \ {0} /\ MaxFaults \in Nat

VARIABLES
    delivered,    \* the group's last delivered entry, None before it exists
    pending,      \* entries of the group that are not acknowledged
    idle,         \* of these, the ones left alone for the claim time
    state,        \* the readiness of the runtime
    requested,    \* another recovery was requested while one runs
    work,         \* per worker: its place, its hand, how it goes on
    healthy,      \* the relay's health
    poison,       \* per event: failures to dispose of it, up to three
    look,         \* the length at which retention found all acknowledged
    faults

group == <<delivered, pending, idle>>
runtime == <<state, requested>>
relay == <<healthy, poison>>
relayVars == <<group, runtime, work, relay, look, faults>>
vars == <<feedVars, relayVars>>

Off == [at |-> "off", hand |-> <<>>, next |-> 0, polled |-> FALSE, failed |-> FALSE]

Init ==
    /\ FeedInit
    /\ delivered = None /\ pending = {} /\ idle = {}
    /\ state = "recovering" /\ requested = FALSE
    /\ work = [w \in Worker |-> Off]
    /\ healthy = TRUE /\ poison = [e \in EventId |-> 0]
    /\ look = None
    /\ faults = 0

Running(w) == work[w].at # "off"

Fault == faults < MaxFaults /\ faults' = faults + 1
NoFault == UNCHANGED faults

-----------------------------------------------------------------------------
(* The stream *)

\* The stream exists with its group.  Not as many events as the retention
\* leaves are appended between its look and its trim.
AppendEvent(k) ==
    /\ delivered # None
    /\ look # None => Len(stream) - look < MaxLength
    /\ Append1(k)
    /\ UNCHANGED relayVars

\* A pending entry has been left alone for the claim time.
TurnsIdle(e) ==
    /\ e \in pending \ idle
    /\ idle' = idle \cup {e}
    /\ UNCHANGED <<feedVars, delivered, pending, runtime, work, relay, look, faults>>

\* Mutant: the pending entries are not asked about.
AllReadAnyPending == delivered = Len(stream)

AllAcknowledged == pending = {} /\ delivered = Len(stream)

RetentionLook ==
    /\ state = "ready" /\ look = None
    /\ healthy /\ AllAcknowledged
    /\ look' = Len(stream)
    /\ UNCHANGED <<feedVars, group, runtime, work, relay, faults>>

\* XTRIM MAXLEN ~: at most down to the length, from the oldest on.
RetentionTrim ==
    /\ look # None
    /\ first' \in {n \in first..MaxEvents + 1 : n = first \/ n + MaxLength <= Len(stream) + 1}
    /\ look' = None
    /\ UNCHANGED <<stream, deadLetters, broadcast, process, sockets, group, runtime, work, relay,
                   faults>>

-----------------------------------------------------------------------------
(* The workers *)

At(place) == [Off EXCEPT !.at = place]

\* onFailure: a recovery begins, or another one is to follow the one that runs.
\* wk is what the workers are apart from that.
Request(wk) ==
    IF wk["recovery"].at = "off"
    THEN /\ work' = [wk EXCEPT !["recovery"] = At("group")]
         /\ state' = "recovering"
         /\ UNCHANGED requested
    ELSE work' = wk /\ requested' = TRUE /\ UNCHANGED state

Continue(wk) == work' = wk /\ UNCHANGED runtime

\* The process ends: its sockets close, what it held in memory is gone.
ProcessEnds ==
    /\ Ends
    /\ state' = "recovering" /\ requested' = FALSE
    /\ work' = [w \in Worker |-> Off]
    /\ healthy' = TRUE /\ poison' = [e \in EventId |-> 0]
    /\ look' = None

KeepsRunning == UNCHANGED <<feedVars, look>>

\* A worker fails.  The startup takes the daemon down, a recovery waits and
\* begins again, the loop ends and reports it if the relay was healthy.
Fails(w) ==
    CASE w = "startup" -> ProcessEnds
      [] w = "recovery" ->
            /\ work' = [work EXCEPT ![w] = At("group")]
            /\ state' = "degraded"
            /\ KeepsRunning /\ UNCHANGED <<requested, relay>>
      [] w = "loop" ->
            /\ IF healthy THEN healthy' = FALSE /\ Request([work EXCEPT ![w] = Off])
                          ELSE Continue([work EXCEPT ![w] = Off]) /\ UNCHANGED healthy
            /\ KeepsRunning /\ UNCHANGED poison

Start ==
    /\ Starts
    /\ work' = [work EXCEPT !["startup"] = At("group")]
    /\ UNCHANGED <<group, runtime, relay, look, faults>>

Crash == Fault /\ ProcessEnds /\ UNCHANGED group

\* Mutant: the group is moved to the end whether it exists or not.
GroupAtEnd == Len(stream)

\* XGROUP CREATE at the end of the stream, unless the group exists.
GroupAfter == IF delivered = None THEN Len(stream) ELSE delivered

EnsureGroup(w) ==
    /\ work[w].at = "group"
    /\ \/ /\ NoFault
          /\ delivered' = GroupAfter
          /\ work' = [work EXCEPT ![w] = At("claim")]
          /\ state' = IF state = "degraded" THEN "recovering" ELSE state
          /\ KeepsRunning /\ UNCHANGED <<requested, relay>>
       \/ Fault /\ Fails(w) /\ UNCHANGED delivered
    /\ UNCHANGED <<pending, idle>>

\* The entries of S, the oldest first.
InOrder(S) ==
    CHOOSE s \in [1..Cardinality(S) -> S] : \A i, j \in 1..Cardinality(S) : i < j => s[i] < s[j]

\* Mutant: what a former consumer left is only claimed when a daemon starts.
RipeAtStart(w) == IF w = "startup" THEN idle ELSE {}

\* Entries from the cursor on that nobody has touched for the claim time.
Ripe(w) == {e \in idle : e >= work[w].next /\ e >= first}

\* XPENDING and XAUTOCLAIM.
Claim(w) ==
    LET ripe == Ripe(w)
        entries == InOrder({e \in ripe : Cardinality({f \in ripe : f <= e}) <= Batch})
        claimed == Range(entries)
        left == {e \in pending : \A f \in claimed : e > f}
    IN /\ work[w].at = "claim"
       /\ \/ /\ NoFault
             /\ idle' = idle \ claimed
             /\ Continue([work EXCEPT ![w] =
                   [@ EXCEPT !.hand = entries,
                             !.at = IF entries = <<>> THEN "claimed" ELSE "process",
                             !.next = IF Len(entries) < Batch \/ left = {} THEN 0
                                      ELSE Min(left)]])
             /\ KeepsRunning /\ UNCHANGED relay
          \/ Fault /\ Fails(w) /\ UNCHANGED idle
       /\ UNCHANGED <<delivered, pending>>

\* The worker is through with the head of its hand.
Through(w, failed) ==
    LET rest == Tail(work[w].hand)
        on == [work[w] EXCEPT !.hand = rest, !.failed = @ \/ (failed /\ ~work[w].polled)]
    IN [work EXCEPT ![w] =
          IF rest # <<>> THEN [on EXCEPT !.at = "process"]
          ELSE IF on.polled THEN At("claim")
          ELSE IF on.next # 0 THEN [on EXCEPT !.at = "claim"]
          ELSE [on EXCEPT !.at = "claimed"]]

\* A valid event goes to the hub.
Accept(w) ==
    /\ work[w].at = "process" /\ stream[Head(work[w].hand)] # Malformed
    /\ Tell(Head(work[w].hand))
    /\ Continue([work EXCEPT ![w].at = "ack"])
    /\ UNCHANGED <<group, relay, look, faults>>

Harder(e) == [poison EXCEPT ![e] = IF @ = 3 THEN 3 ELSE @ + 1]

\* A malformed one gets a dead letter.  One that fails is only counted.
DeadLetter(w) ==
    LET e == Head(work[w].hand) IN
    /\ work[w].at = "process" /\ stream[e] = Malformed
    /\ \/ /\ NoFault
          /\ deadLetters' = deadLetters \cup {e}
          /\ poison' = [poison EXCEPT ![e] = 0]
          /\ Continue([work EXCEPT ![w].at = "ack"])
       \/ /\ Fault
          /\ deadLetters' \in {deadLetters, deadLetters \cup {e}}
          /\ poison' = Harder(e)
          /\ Continue(Through(w, TRUE))
    /\ UNCHANGED <<stream, first, broadcast, process, sockets, group, healthy, look>>

Acknowledge(w) ==
    LET e == Head(work[w].hand) IN
    /\ work[w].at = "ack"
    /\ \/ /\ NoFault
          /\ pending' = pending \ {e}
          /\ Continue(Through(w, FALSE))
          /\ UNCHANGED relay
       \/ /\ Fault
          /\ pending' \in {pending, pending \ {e}}
          /\ IF stream[e] = Malformed
             THEN poison' = Harder(e) /\ Continue(Through(w, TRUE)) /\ UNCHANGED healthy
             ELSE healthy' = FALSE /\ Request(Through(w, TRUE)) /\ UNCHANGED poison
    /\ idle' = idle \cap pending'
    /\ KeepsRunning /\ UNCHANGED delivered

LoopOn(wk) == IF wk["loop"].at = "off" THEN [wk EXCEPT !["loop"] = At("claim")] ELSE wk

\* The pending entries are through.  An event that could not be disposed of
\* three times is a failure.
Poisoned(w) ==
    /\ work[w].at = "claimed"
    /\ \E e \in EventId : poison[e] >= 3
    /\ IF w = "startup" THEN ProcessEnds
       ELSE /\ healthy' = FALSE
            /\ IF w = "loop" THEN Request([work EXCEPT ![w] = Off])
               ELSE /\ work' = [work EXCEPT ![w] = At("group")]
                    /\ state' = "degraded" /\ requested' = TRUE
            /\ KeepsRunning /\ UNCHANGED poison
    /\ UNCHANGED <<group, faults>>

\* Without one the relay is healthy if nothing failed on the way.
Recovered(w) ==
    /\ work[w].at = "claimed" /\ w # "startup"
    /\ \A e \in EventId : poison[e] < 3
    /\ healthy' = (healthy \/ ~work[w].failed)
    /\ Continue([work EXCEPT ![w] = At(IF w = "loop" THEN "poll" ELSE "settle")])
    /\ KeepsRunning /\ UNCHANGED <<poison, group, faults>>

\* The startup starts the loop, makes the runtime ready and listens.  It cannot
\* if a recovery has already made it ready or waits.
Begin ==
    /\ work["startup"].at = "claimed"
    /\ \A e \in EventId : poison[e] < 3
    /\ IF state # "recovering" THEN ProcessEnds
       ELSE /\ Listens
            /\ healthy' = (healthy \/ ~work["startup"].failed)
            /\ work' = LoopOn([work EXCEPT !["startup"] = Off])
            /\ state' = "ready"
            /\ UNCHANGED <<requested, poison, look>>
    /\ UNCHANGED <<group, faults>>

DeliveredBy(entries) == delivered + Len(entries)

\* XREADGROUP: the next entries nobody has read, if there are any.
Poll ==
    LET entries == InOrder({e \in EventId : e > delivered /\ e <= delivered + Batch
                                              /\ e >= first /\ e <= Len(stream)})
    IN /\ work["loop"].at = "poll"
       /\ \/ /\ NoFault
             /\ pending' = pending \cup Range(entries)
             /\ delivered' = DeliveredBy(entries)
             /\ Continue([work EXCEPT !["loop"] =
                   IF entries = <<>> THEN At("claim")
                   ELSE [At("process") EXCEPT !.hand = entries, !.polled = TRUE]])
             /\ KeepsRunning /\ UNCHANGED relay
          \/ Fault /\ Fails("loop") /\ UNCHANGED <<delivered, pending>>
       /\ UNCHANGED idle

\* The rest of a recovery: it fails, it is to be repeated, or it starts the loop
\* unless that runs and makes the runtime ready, which fails if it is.
Settle ==
    /\ work["recovery"].at = "settle"
    /\ \/ Fault /\ Fails("recovery")
       \/ /\ NoFault /\ requested
          /\ work' = [work EXCEPT !["recovery"] = At("group")]
          /\ state' = "recovering" /\ requested' = FALSE
          /\ KeepsRunning /\ UNCHANGED relay
       \/ /\ NoFault /\ ~requested /\ state = "recovering"
          /\ work' = LoopOn([work EXCEPT !["recovery"] = Off])
          /\ state' = "ready"
          /\ KeepsRunning /\ UNCHANGED <<requested, relay>>
       \/ /\ NoFault /\ ~requested /\ state = "ready"
          /\ work' = LoopOn([work EXCEPT !["recovery"] = At("group")])
          /\ state' = "degraded"
          /\ KeepsRunning /\ UNCHANGED <<requested, relay>>
    /\ UNCHANGED group

WorkerStep(w) ==
    EnsureGroup(w) \/ Claim(w) \/ Accept(w) \/ DeadLetter(w) \/ Acknowledge(w)
        \/ Poisoned(w) \/ Recovered(w)

Next ==
    \/ \E k \in Kind \cup {Malformed} : AppendEvent(k)
    \/ \E e \in EventId : TurnsIdle(e)
    \/ RetentionLook \/ RetentionTrim
    \/ Start \/ Crash
    \/ \E w \in Worker : WorkerStep(w)
    \/ Begin \/ Poll \/ Settle

Fairness ==
    /\ WF_vars(Start)
    /\ \A w \in Worker : WF_vars(WorkerStep(w))
    /\ WF_vars(Begin) /\ WF_vars(Poll) /\ WF_vars(Settle)
    /\ \A e \in EventId : WF_vars(TurnsIdle(e))

Spec == Init /\ [][Next]_vars
FairSpec == Spec /\ Fairness

-----------------------------------------------------------------------------
(* Properties *)

\* The types of the group, the workers and the relay's memory, and that only a
\* pending entry is idle.
TypeOK ==
    /\ FeedTypeOK
    /\ delivered \in 0..MaxEvents \cup {None}
    /\ pending \subseteq EventId /\ idle \subseteq pending
    /\ state \in {"recovering", "ready", "degraded"} /\ requested \in BOOLEAN
    /\ work \in [Worker -> [at : Place, hand : Seq(EventId), next : 0..MaxEvents,
                            polled : BOOLEAN, failed : BOOLEAN]]
    /\ healthy \in BOOLEAN /\ poison \in [EventId -> 0..3]
    /\ look \in 0..MaxEvents \cup {None}
    /\ faults \in 0..MaxFaults

\* An event that was neither broadcast nor made a dead letter is still in the
\* stream, and the group will hand it out: nobody has read it, or it is pending.
NothingIsDropped ==
    delivered # None =>
        \A e \in Event : Settled(e) \/ (e >= first /\ (e > delivered \/ e \in pending))

\* The relay, with its group, its recoveries and the retention, implements
\* EventFeed: nothing is broadcast that is malformed, and what leaves the stream
\* was broadcast or has a dead letter, whatever fails or crashes.
KeepsPromise == FeedSpec

\* A runtime that is ready, with no relay and nothing that will start one.
Silent == state = "ready" /\ ~Running("loop") /\ ~Running("recovery")

\* Documented: the relay goes on through every failure.  The code does not keep
\* this: a loop that ends while the relay is unhealthy requests no recovery.
NeverSilent == ~Silent

\* Every event is broadcast or made a dead letter in the end.  The one way out
\* is a loop that ended with the relay already unhealthy over a malformed event.
EventsSettle ==
    \A e \in EventId :
        e <= Len(stream) ~>
            Settled(e) \/ (Silent /\ ~healthy /\ \E f \in Event : stream[f] = Malformed)

=============================================================================
