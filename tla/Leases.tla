------------------------------- MODULE Leases -------------------------------
(***************************************************************************)
(* Advisory work leases: the lease service of the daemon, the Redis        *)
(* Functions lease_acquire / lease_renew / lease_release / lease_expire    *)
(* and the expiry sweeper, over the indexes of ONE project.                *)
(*                                                                         *)
(* A Redis Function is one atomic step.  A service call is two: it reads   *)
(* (the session, or the lease record), captures the time, and only then    *)
(* calls the Function with what it read; anything may happen in between.   *)
(* A path is its match form cut at the separators, so that the prefix test *)
(* on terminated strings is a prefix test on sequences of segments.        *)
(* Events, appended by the same Functions, are left to the realtime part.  *)
(***************************************************************************)
EXTENDS Integers, FiniteSets, Sequences
LOCAL INSTANCE SequencesExt

CONSTANTS
    Session,      \* sessions of the project
    LeaseId,      \* generated lease identifiers; never generated twice
    Path,         \* normalized match paths, sequences of segments; <<>> is the project
    Duration,     \* lease durations a caller may ask for
    Caller,       \* HTTP requests the daemon can be serving at once
    MaxActive,    \* LEASE_MAX_ACTIVE_PER_PROJECT
    SweepBatch,   \* candidates one sweep takes
    MaxClock,     \* bound: time stops here
    MaxRestarts,  \* bound: daemon restarts
    None          \* no record, no detail, no deadline, no call

LeaseState == {"held", "released", "expired"}

\* WorkLease: what of the stored record the code branches on.
WorkLease == [session: Session, path: Path, state: LeaseState, expiresAt: Nat]

\* The entry of the project's hash of held leases: what a conflict check reads.
HeldDetail == [session: Session, path: Path, expiresMs: Nat]

\* A request between its read and its Function call.
AcquireCall == [op: {"acquire"}, session: Session, path: Path, now: Nat, expires: Nat]
RenewCall == [op: {"renew"}, session: Session, id: LeaseId, current: WorkLease, expires: Nat]
ReleaseCall == [op: {"release"}, session: Session, id: LeaseId, current: WorkLease]
Call == AcquireCall \cup RenewCall \cup ReleaseCall

ASSUME ConstantsAssumption ==
    /\ Path \subseteq Seq(STRING)
    /\ Duration \subseteq Nat \ {0}
    /\ MaxActive \in Nat \ {0}
    /\ SweepBatch \in Nat \ {0}
    /\ MaxClock \in Nat
    /\ MaxRestarts \in Nat
    /\ None \notin Nat
    /\ None \notin LeaseId
    /\ None \notin WorkLease
    /\ None \notin HeldDetail
    /\ None \notin Call

VARIABLES
    clock,          \* wall clock, milliseconds abstracted to ticks
    completed,      \* sessions whose status is completed
    lease,          \* record of every lease id ever granted
    held,           \* the project's hash of held leases
    sessionLeases,  \* per session: the set of held lease ids
    deadline,       \* the sorted set deadline:leases
    call,           \* per request slot: the call in flight
    due,            \* the sweep's candidates not looked at yet
    expiring,       \* the candidate the sweep has read and is about to expire
    restarts,       \* daemon restarts so far
    revived         \* history: leases renewed after their expiry had passed

vars == <<clock, completed, lease, held, sessionLeases, deadline, call, due,
          expiring, restarts, revived>>

store == <<lease, held, sessionLeases, deadline>>

-----------------------------------------------------------------------------
Init ==
    /\ clock = 0
    /\ completed = {}
    /\ lease = [l \in LeaseId |-> None]
    /\ held = [l \in LeaseId |-> None]
    /\ sessionLeases = [s \in Session |-> {}]
    /\ deadline = [l \in LeaseId |-> None]
    /\ call = [c \in Caller |-> None]
    /\ due = {}
    /\ expiring = None
    /\ restarts = 0
    /\ revived = {}

\* Mutant: only a claim inside a held path conflicts.
LeaseOverlapsOneWay(left, right) == IsPrefix(right, left)

\* Containment in either direction is a conflict.
LeaseOverlaps(left, right) == IsPrefix(right, left) \/ IsPrefix(left, right)

\* Held entries that count at a time: one past its expiry is skipped, not removed.
ActiveAt(now) == {l \in LeaseId : held[l] # None /\ held[l].expiresMs > now}

\* Mutant: one more lease than the limit fits.
AtLimitOffByOne(active) == Cardinality(active) > MaxActive

AtLimit(active) == Cardinality(active) >= MaxActive

IsHeld(l) == lease[l] # None /\ lease[l].state = "held"

Return(c) == call' = [call EXCEPT ![c] = None]

-----------------------------------------------------------------------------
(* Acquire *)

\* The service reads the session and the clock.  Only a completed session is
\* refused: a disconnected one may hold a lease.
AcquireRead(c, s, p, d) ==
    /\ call[c] = None
    /\ s \notin completed
    /\ call' = [call EXCEPT ![c] = [op |-> "acquire", session |-> s, path |-> p,
                                    now |-> clock, expires |-> clock + d]]
    /\ UNCHANGED <<clock, completed, store, due, expiring, restarts, revived>>

\* lease_acquire: refuse on an overlap with an active entry or at the limit,
\* else write the record and its three indexes.  The time is the caller's.
LeaseAcquire(c) ==
    /\ call[c] \in AcquireCall
    /\ LET active == ActiveAt(call[c].now)
           overlap == \E l \in active : LeaseOverlaps(call[c].path, held[l].path)
           refused == overlap \/ AtLimit(active)
       IN  \/ /\ refused
              /\ UNCHANGED store
           \/ /\ ~refused
              /\ \E l \in LeaseId :
                   /\ lease[l] = None
                   /\ lease' = [lease EXCEPT ![l] =
                        [session |-> call[c].session, path |-> call[c].path,
                         state |-> "held", expiresAt |-> call[c].expires]]
                   /\ held' = [held EXCEPT ![l] =
                        [session |-> call[c].session, path |-> call[c].path,
                         expiresMs |-> call[c].expires]]
                   /\ sessionLeases' =
                        [sessionLeases EXCEPT ![call[c].session] = @ \cup {l}]
                   /\ deadline' = [deadline EXCEPT ![l] = call[c].expires]
    /\ Return(c)
    /\ UNCHANGED <<clock, completed, due, expiring, restarts, revived>>

-----------------------------------------------------------------------------
(* Renew, release and expire *)

\* The service reads the record and the clock.  A read that already finds the
\* lease ended goes on to a refusal that changes nothing, and is left out.
RenewRead(c, s, l, d) ==
    /\ call[c] = None
    /\ IsHeld(l)
    /\ call' = [call EXCEPT ![c] = [op |-> "renew", session |-> s, id |-> l,
                                    current |-> lease[l], expires |-> clock + d]]
    /\ UNCHANGED <<clock, completed, store, due, expiring, restarts, revived>>

ReleaseRead(c, s, l) ==
    /\ call[c] = None
    /\ IsHeld(l)
    /\ call' = [call EXCEPT ![c] = [op |-> "release", session |-> s, id |-> l,
                                    current |-> lease[l]]]
    /\ UNCHANGED <<clock, completed, store, due, expiring, restarts, revived>>

\* The guards of lease_transition: still held, and by this caller.
MayTransition(l, holder) == IsHeld(l) /\ lease[l].session = holder

\* Mutant: the deadline index keeps the old expiry.
StayHeldStaleDeadline(l, updated) ==
    /\ lease' = [lease EXCEPT ![l] = updated]
    /\ held' = [held EXCEPT ![l] = [session |-> updated.session, path |-> updated.path,
                                    expiresMs |-> updated.expiresAt]]
    /\ UNCHANGED <<sessionLeases, deadline>>

\* lease_transition that stays held: the record the caller built from its
\* read replaces the stored one, and the two expiries move.
StayHeld(l, updated) ==
    /\ lease' = [lease EXCEPT ![l] = updated]
    /\ held' = [held EXCEPT ![l] = [session |-> updated.session, path |-> updated.path,
                                    expiresMs |-> updated.expiresAt]]
    /\ deadline' = [deadline EXCEPT ![l] = updated.expiresAt]
    /\ UNCHANGED sessionLeases

\* Mutant: the session's set is not cleaned.
EndHoldKeepsMember(l, updated) ==
    /\ lease' = [lease EXCEPT ![l] = updated]
    /\ held' = [held EXCEPT ![l] = None]
    /\ deadline' = [deadline EXCEPT ![l] = None]
    /\ UNCHANGED sessionLeases

\* lease_transition that ends the hold: the record stays, the indexes go.
EndHold(l, updated) ==
    /\ lease' = [lease EXCEPT ![l] = updated]
    /\ held' = [held EXCEPT ![l] = None]
    /\ sessionLeases' = [sessionLeases EXCEPT ![updated.session] = @ \ {l}]
    /\ deadline' = [deadline EXCEPT ![l] = None]

LeaseRenew(c) ==
    /\ call[c] \in RenewCall
    /\ LET l == call[c].id
       IN  \/ /\ MayTransition(l, call[c].session)
              /\ StayHeld(l, [call[c].current EXCEPT !.expiresAt = call[c].expires])
              /\ revived' = IF lease[l].expiresAt <= clock THEN revived \cup {l} ELSE revived
           \/ /\ ~MayTransition(l, call[c].session)
              /\ UNCHANGED <<store, revived>>
    /\ Return(c)
    /\ UNCHANGED <<clock, completed, due, expiring, restarts>>

LeaseRelease(c) ==
    /\ call[c] \in ReleaseCall
    /\ LET l == call[c].id
       IN  \/ /\ MayTransition(l, call[c].session)
              /\ EndHold(l, [call[c].current EXCEPT !.state = "released"])
           \/ /\ ~MayTransition(l, call[c].session)
              /\ UNCHANGED store
    /\ Return(c)
    /\ UNCHANGED <<clock, completed, due, expiring, restarts, revived>>

-----------------------------------------------------------------------------
(* The expiry sweeper: list, then read and expire one candidate at a time. *)

Lapsed == {l \in LeaseId : deadline[l] # None /\ deadline[l] <= clock}

\* Mutant: the range excludes a deadline that is exactly now.
OldestDueExclusive(S) ==
    /\ S \subseteq {l \in Lapsed : deadline[l] < clock}
    /\ Cardinality(S) <= SweepBatch

\* findDueLeaseDeadlines: the oldest SweepBatch deadlines that have passed.
OldestDue(S) ==
    /\ S \subseteq Lapsed
    /\ Cardinality(S) <= SweepBatch
    /\ S # Lapsed => Cardinality(S) = SweepBatch
    /\ \A l \in S, m \in Lapsed \ S : deadline[l] <= deadline[m]

SweepFind ==
    /\ due = {}
    /\ expiring = None
    /\ \E S \in SUBSET LeaseId :
         /\ S # {}
         /\ OldestDue(S)
         /\ due' = S
    /\ UNCHANGED <<clock, completed, store, call, expiring, restarts, revived>>

\* service.expire reads the record: one no longer held is left alone.
SweepRead(l) ==
    /\ l \in due
    /\ expiring = None
    /\ due' = due \ {l}
    /\ expiring' = IF IsHeld(l) THEN [id |-> l, current |-> lease[l]] ELSE None
    /\ UNCHANGED <<clock, completed, store, call, restarts, revived>>

\* lease_expire: any holder, and no look at the deadline.
LeaseExpire ==
    /\ expiring # None
    /\ \/ /\ IsHeld(expiring.id)
          /\ EndHold(expiring.id, [expiring.current EXCEPT !.state = "expired"])
       \/ /\ ~IsHeld(expiring.id)
          /\ UNCHANGED store
    /\ expiring' = None
    /\ UNCHANGED <<clock, completed, call, due, restarts, revived>>

-----------------------------------------------------------------------------
(* Environment *)

\* A session ends.  Nothing is done to its leases.
CompleteSession(s) ==
    /\ s \notin completed
    /\ completed' = completed \cup {s}
    /\ UNCHANGED <<clock, store, call, due, expiring, restarts, revived>>

\* The daemon stops and starts again: calls and sweep are lost, Redis is not.
Restart ==
    /\ restarts < MaxRestarts
    /\ restarts' = restarts + 1
    /\ call' = [c \in Caller |-> None]
    /\ due' = {}
    /\ expiring' = None
    /\ UNCHANGED <<clock, completed, store, revived>>

Tick ==
    /\ clock < MaxClock
    /\ clock' = clock + 1
    /\ UNCHANGED <<completed, store, call, due, expiring, restarts, revived>>

Request(c) ==
    \/ \E s \in Session, p \in Path, d \in Duration : AcquireRead(c, s, p, d)
    \/ \E s \in Session, l \in LeaseId, d \in Duration : RenewRead(c, s, l, d)
    \/ \E s \in Session, l \in LeaseId : ReleaseRead(c, s, l)
    \/ LeaseAcquire(c)
    \/ LeaseRenew(c)
    \/ LeaseRelease(c)

Sweep ==
    \/ SweepFind
    \/ \E l \in LeaseId : SweepRead(l)
    \/ LeaseExpire

Next ==
    \/ \E c \in Caller : Request(c)
    \/ Sweep
    \/ \E s \in Session : CompleteSession(s)
    \/ Restart
    \/ Tick

Spec == Init /\ [][Next]_vars

\* The sweep is a timer of the daemon: it never stops for good, and its steps
\* are awaited one after the other.  Nothing obliges a caller to do anything.
FairSpec == Spec /\ WF_vars(Sweep)

-----------------------------------------------------------------------------
(* Properties *)

\* Types of the variables; the sweep only ever holds leases that were granted.
TypeOK ==
    /\ clock \in Nat
    /\ completed \subseteq Session
    /\ lease \in [LeaseId -> WorkLease \cup {None}]
    /\ held \in [LeaseId -> HeldDetail \cup {None}]
    /\ sessionLeases \in [Session -> SUBSET LeaseId]
    /\ deadline \in [LeaseId -> Nat \cup {None}]
    /\ call \in [Caller -> Call \cup {None}]
    /\ due \subseteq LeaseId
    /\ expiring \in [id: LeaseId, current: WorkLease] \cup {None}
    /\ restarts \in Nat
    /\ revived \subseteq LeaseId

\* The record, the project's hash, the session's set and the deadline index
\* tell one story after every Function, whatever the caller had read before
\* calling it: what conflict checks see, what renewal lists and what the sweep
\* finds are the same leases, with the same holder, path and expiry.
IndexesAgree ==
    \A l \in LeaseId :
        /\ IsHeld(l) =>
             /\ held[l] = [session |-> lease[l].session, path |-> lease[l].path,
                           expiresMs |-> lease[l].expiresAt]
             /\ deadline[l] = lease[l].expiresAt
        /\ ~IsHeld(l) => held[l] = None /\ deadline[l] = None
        /\ \A s \in Session :
             l \in sessionLeases[s] <=> IsHeld(l) /\ lease[l].session = s

Live(l) == IsHeld(l) /\ lease[l].expiresAt > clock

\* Two live leases never cover overlapping paths, as long as neither was
\* renewed after it had lapsed: acquire skips lapsed entries by a time read
\* before the Function runs, and renewal looks at no other lease.
TimelyRenewalsExclude ==
    \A l, m \in LeaseId :
        /\ l # m
        /\ Live(l) /\ Live(m)
        /\ LeaseOverlaps(lease[l].path, lease[m].path)
        => l \in revived \/ m \in revived

\* The limit counted at acquire bounds the live leases of the project at every
\* later time too, lapsed and renewed ones apart.
LiveWithinLimit ==
    Cardinality({l \in LeaseId : Live(l)} \ revived) <= MaxActive

\* What the documents promise of overlapping paths, with no exception for a
\* renewal: the second of two overlapping claims is refused while the first
\* is live.
LiveLeasesExclude ==
    \A l, m \in LeaseId :
        l # m /\ Live(l) /\ Live(m) => ~LeaseOverlaps(lease[l].path, lease[m].path)

EndedStays ==
    \A l \in LeaseId :
        lease[l] # None /\ lease[l].state # "held" => lease'[l] = lease[l]

\* A lease that was released or expired is never held again and never
\* rewritten, though renewals, releases and the sweep write records they read
\* earlier.
EndedForGood == [][EndedStays]_vars

ChangedByHolderOrSweep ==
    \A l \in LeaseId :
        IsHeld(l) /\ lease'[l] # lease[l] =>
          \/ lease'[l].state = "expired" /\ expiring # None /\ expiring.id = l
          \/ \E c \in Caller :
               /\ call[c] # None /\ call'[c] = None
               /\ call[c].op # "acquire"
               /\ call[c].id = l /\ call[c].session = lease[l].session

\* Every change of a held lease is a call of its own holder coming back, or
\* the sweep expiring it: no session moves or ends another's hold.
OnlyHolderOrSweep == [][ChangedByHolderOrSweep]_vars

SweptEarlyOnlyIfRevived ==
    \A l \in LeaseId : Live(l) /\ lease'[l].state = "expired" => l \in revived

\* A holder that renews before each deadline keeps its path: the sweep, which
\* does not compare the deadline it listed, ends a lease before its expiry
\* only if the lease had already lapsed once.
TimelyHolderKeepsPath == [][SweptEarlyOnlyIfRevived]_vars

\* The documents' promise without that exception: what the sweep ends has
\* reached its expiry.
SweepEndsOnlyLapsed ==
    [][\A l \in LeaseId : Live(l) => lease'[l].state # "expired"]_vars

\* A path does not stay claimed by a lease past its expiry: the sweep or the
\* holder moves on, also when the holder is gone and the daemon restarted.
LapsedIsFreed ==
    \A l \in LeaseId : l \in Lapsed ~> l \notin Lapsed

=============================================================================
