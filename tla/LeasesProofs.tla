---------------------------- MODULE LeasesProofs ----------------------------
(***************************************************************************)
(* Theorems about Leases, for every set of sessions, leases, paths and     *)
(* durations and every bound.  The inductive invariant adds to the checked *)
(* ones what a call in flight and the sweep may rely on although they act  *)
(* on records they read earlier: session and path of a lease never change, *)
(* a captured time is in the past, and a listed lease has lapsed once.     *)
(***************************************************************************)
EXTENDS Leases, TLAPS, FiniteSetTheorems

\* What a read leaves true about the record: all but its state and expiry.
SameLease(r, l) ==
    /\ lease[l] # None
    /\ r.session = lease[l].session
    /\ r.path = lease[l].path

\* What a call in flight may still rely on when its Function runs.
CallAgrees(k) ==
    /\ k \in AcquireCall => k.now <= clock
    /\ k \in RenewCall \cup ReleaseCall =>
         k.current.state = "held" /\ SameLease(k.current, k.id)

\* A lease the sweep listed has lapsed, or had and was renewed since.
Swept(l) ==
    /\ lease[l] # None
    /\ IsHeld(l) => lease[l].expiresAt <= clock \/ l \in revived

CallsAgree == \A c \in Caller : call[c] # None => CallAgrees(call[c])

SweepAgrees ==
    /\ \A l \in due : Swept(l)
    /\ expiring # None => Swept(expiring.id) /\ SameLease(expiring.current, expiring.id)

IInv == TypeOK /\ IndexesAgree /\ CallsAgree /\ SweepAgrees /\ TimelyRenewalsExclude

-----------------------------------------------------------------------------
\* Overlap is symmetric, so one order of two leases stands for both.
LEMMA OverlapSymmetric ==
    ASSUME NEW p, NEW q
    PROVE  LeaseOverlaps(p, q) <=> LeaseOverlaps(q, p)
  BY DEF LeaseOverlaps

\* The three kinds of call exclude each other.
LEMMA CallKinds ==
    /\ AcquireCall \cap (RenewCall \cup ReleaseCall) = {}
    /\ RenewCall \cap ReleaseCall = {}
  BY DEF AcquireCall, RenewCall, ReleaseCall

LEMMA InitOK == Init => IInv
  BY ConstantsAssumption
     DEF Init, IInv, TypeOK, IndexesAgree, CallsAgree, SweepAgrees,
         TimelyRenewalsExclude, IsHeld, Live

-----------------------------------------------------------------------------
\* A step that reads: only the call of c changes, to a call that agrees.
LEMMA ReadStep ==
    ASSUME IInv, NEW c \in Caller, NEW k \in Call, CallAgrees(k),
           call' = [call EXCEPT ![c] = k],
           UNCHANGED <<clock, completed, store, due, expiring, restarts, revived>>
    PROVE  IInv'
<1>1. TypeOK'
  BY DEF IInv, TypeOK, store
<1>2. CallsAgree'
  BY DEF IInv, TypeOK, CallsAgree, CallAgrees, SameLease, store
<1>3. IndexesAgree' /\ SweepAgrees' /\ TimelyRenewalsExclude'
  BY DEF IInv, IndexesAgree, SweepAgrees, Swept, SameLease, TimelyRenewalsExclude,
         Live, IsHeld, store
<1> QED BY <1>1, <1>2, <1>3 DEF IInv

LEMMA AcquireReadOK ==
    ASSUME IInv, NEW c \in Caller, NEW s \in Session, NEW p \in Path, NEW d \in Duration,
           AcquireRead(c, s, p, d)
    PROVE  IInv'
<1> DEFINE k == [op |-> "acquire", session |-> s, path |-> p,
                 now |-> clock, expires |-> clock + d]
<1>1. k \in AcquireCall /\ k.now = clock
  BY ConstantsAssumption DEF IInv, TypeOK, AcquireCall
<1>2. CallAgrees(k)
  BY <1>1, CallKinds DEF IInv, TypeOK, CallAgrees
<1> QED BY <1>1, <1>2, ReadStep DEF AcquireRead, Call

LEMMA RenewReadOK ==
    ASSUME IInv, NEW c \in Caller, NEW s \in Session, NEW l \in LeaseId, NEW d \in Duration,
           RenewRead(c, s, l, d)
    PROVE  IInv'
<1> DEFINE k == [op |-> "renew", session |-> s, id |-> l,
                 current |-> lease[l], expires |-> clock + d]
<1>1. k \in RenewCall /\ k.current = lease[l] /\ k.id = l
  BY ConstantsAssumption DEF IInv, TypeOK, RenewRead, IsHeld, RenewCall
<1>2. CallAgrees(k)
  BY <1>1, CallKinds DEF CallAgrees, RenewRead, IsHeld, SameLease
<1> QED BY <1>1, <1>2, ReadStep DEF RenewRead, Call

LEMMA ReleaseReadOK ==
    ASSUME IInv, NEW c \in Caller, NEW s \in Session, NEW l \in LeaseId, ReleaseRead(c, s, l)
    PROVE  IInv'
<1> DEFINE k == [op |-> "release", session |-> s, id |-> l, current |-> lease[l]]
<1>1. k \in ReleaseCall /\ k.current = lease[l] /\ k.id = l
  BY ConstantsAssumption DEF IInv, TypeOK, ReleaseRead, IsHeld, ReleaseCall
<1>2. CallAgrees(k)
  BY <1>1, CallKinds DEF CallAgrees, ReleaseRead, IsHeld, SameLease
<1> QED BY <1>1, <1>2, ReadStep DEF ReleaseRead, Call

-----------------------------------------------------------------------------
\* Whatever a call finds, its slot is free afterwards.
LEMMA ReturnOK ==
    ASSUME IInv, NEW c \in Caller, Return(c), UNCHANGED <<clock, completed, store, due,
           expiring, restarts, revived>>
    PROVE  IInv'
<1>1. TypeOK'
  BY DEF IInv, TypeOK, store, Return
<1>2. CallsAgree'
  BY DEF IInv, TypeOK, CallsAgree, CallAgrees, SameLease, store, Return
<1>3. IndexesAgree' /\ SweepAgrees' /\ TimelyRenewalsExclude'
  BY DEF IInv, IndexesAgree, SweepAgrees, Swept, SameLease, TimelyRenewalsExclude,
         Live, IsHeld, store
<1> QED BY <1>1, <1>2, <1>3 DEF IInv

\* Records of other leases, and this one's session and path, are as they were:
\* then calls in flight still agree.
LEMMA CallsStillAgree ==
    ASSUME IInv,
           \A c \in Caller : call'[c] = None \/ call'[c] = call[c],
           \A l \in LeaseId : lease[l] # None =>
              /\ lease'[l] # None
              /\ lease'[l].session = lease[l].session
              /\ lease'[l].path = lease[l].path,
           clock' >= clock, clock' \in Nat
    PROVE  CallsAgree'
<1> SUFFICES ASSUME NEW c \in Caller, call'[c] # None
             PROVE  CallAgrees(call[c])'
  BY DEF CallsAgree
<1> DEFINE k == call[c]
<1>1. call'[c] = k /\ CallAgrees(k) /\ k \in Call
  BY DEF IInv, CallsAgree, TypeOK
<1>2. k \in AcquireCall => k.now \in Nat
  BY DEF AcquireCall
<1>3. k \in RenewCall \cup ReleaseCall => k.id \in LeaseId
  BY DEF RenewCall, ReleaseCall
<1> QED BY <1>1, <1>2, <1>3 DEF CallAgrees, SameLease, IInv, TypeOK

\* What a step that writes leases owes to the calls and the sweep.
KeepsIdentity ==
    \A l \in LeaseId : lease[l] # None =>
        /\ lease'[l] # None
        /\ lease'[l].session = lease[l].session
        /\ lease'[l].path = lease[l].path
        /\ Swept(l) => Swept(l)'

\* What a step that writes leases must establish about the store itself.
StoreOK ==
    /\ lease \in [LeaseId -> WorkLease \cup {None}]
    /\ held \in [LeaseId -> HeldDetail \cup {None}]
    /\ sessionLeases \in [Session -> SUBSET LeaseId]
    /\ deadline \in [LeaseId -> Nat \cup {None}]
    /\ IndexesAgree
    /\ TimelyRenewalsExclude

\* The sweep's candidates stay good when leases keep their identity.
LEMMA SweepStillAgrees ==
    ASSUME IInv, KeepsIdentity, due' \subseteq due, expiring' = None \/ expiring' = expiring
    PROVE  SweepAgrees'
<1>1. \A l \in due' : Swept(l)'
  BY DEF IInv, TypeOK, SweepAgrees, Swept, KeepsIdentity
<1>2. ASSUME expiring' # None
      PROVE  Swept(expiring.id)' /\ SameLease(expiring.current, expiring.id)'
  <2>1. expiring' = expiring /\ expiring # None /\ expiring.id \in LeaseId
    BY <1>2 DEF IInv, TypeOK
  <2> QED
    BY <2>1 DEF IInv, SweepAgrees, Swept, SameLease, KeepsIdentity
<1> QED BY <1>1, <1>2 DEF SweepAgrees

\* Ending a hold: one entry less in each index.
LEMMA EndHoldOK ==
    ASSUME IInv, NEW l \in LeaseId, NEW u \in WorkLease, u.state # "held",
           IsHeld(l), SameLease(u, l), EndHold(l, u), UNCHANGED <<clock, revived>>
    PROVE  StoreOK' /\ KeepsIdentity
<1>1. /\ lease' = [lease EXCEPT ![l] = u]
      /\ held' = [held EXCEPT ![l] = None]
      /\ sessionLeases' = [sessionLeases EXCEPT ![u.session] = @ \ {l}]
      /\ deadline' = [deadline EXCEPT ![l] = None]
      /\ u.session = lease[l].session /\ u.session \in Session
      /\ u # None
  BY ConstantsAssumption DEF EndHold, SameLease, WorkLease
<1>2. /\ (lease \in [LeaseId -> WorkLease \cup {None}])'
      /\ (held \in [LeaseId -> HeldDetail \cup {None}])'
      /\ (sessionLeases \in [Session -> SUBSET LeaseId])'
      /\ (deadline \in [LeaseId -> Nat \cup {None}])'
  BY <1>1 DEF IInv, TypeOK
<1>3. ~IsHeld(l)' /\ \A m \in LeaseId \ {l} : lease'[m] = lease[m] /\ (IsHeld(m)' <=> IsHeld(m))
  BY <1>1 DEF IInv, TypeOK, IsHeld
<1>4. IndexesAgree'
  BY <1>1, <1>3 DEF IInv, TypeOK, IndexesAgree
<1>5. TimelyRenewalsExclude'
  BY <1>3 DEF IInv, TimelyRenewalsExclude, Live
<1>6. KeepsIdentity
  BY <1>1, <1>3 DEF IInv, TypeOK, KeepsIdentity, SameLease, Swept
<1> QED BY <1>2, <1>4, <1>5, <1>6 DEF StoreOK

\* Moving the expiry of a held lease.  If it was live it excluded every other
\* live lease already; if it had lapsed it is now among the revived.
LEMMA StayHeldOK ==
    ASSUME IInv, NEW l \in LeaseId, NEW u \in WorkLease, u.state = "held",
           IsHeld(l), SameLease(u, l), StayHeld(l, u), UNCHANGED clock,
           revived' = IF lease[l].expiresAt <= clock THEN revived \cup {l} ELSE revived
    PROVE  StoreOK' /\ KeepsIdentity
<1>1. /\ lease' = [lease EXCEPT ![l] = u]
      /\ held' = [held EXCEPT ![l] = [session |-> u.session, path |-> u.path,
                                      expiresMs |-> u.expiresAt]]
      /\ deadline' = [deadline EXCEPT ![l] = u.expiresAt]
      /\ sessionLeases' = sessionLeases
      /\ u.session = lease[l].session /\ u.path = lease[l].path
      /\ u.session \in Session /\ u.path \in Path /\ u.expiresAt \in Nat
      /\ u # None
  BY ConstantsAssumption DEF StayHeld, SameLease, WorkLease
<1>2. /\ (lease \in [LeaseId -> WorkLease \cup {None}])'
      /\ (held \in [LeaseId -> HeldDetail \cup {None}])'
      /\ (sessionLeases \in [Session -> SUBSET LeaseId])'
      /\ (deadline \in [LeaseId -> Nat \cup {None}])'
  BY <1>1 DEF IInv, TypeOK, HeldDetail
<1>3. IsHeld(l)' /\ lease'[l] = u
      /\ \A m \in LeaseId \ {l} : lease'[m] = lease[m] /\ (IsHeld(m)' <=> IsHeld(m))
  BY <1>1 DEF IInv, TypeOK, IsHeld
<1>4. IndexesAgree'
  BY <1>1, <1>3 DEF IInv, TypeOK, IndexesAgree
<1>5. lease[l].expiresAt \in Nat /\ clock \in Nat
  BY DEF IInv, TypeOK, IsHeld, WorkLease
<1>6. l \in revived' \/ Live(l)
  BY <1>5 DEF Live
<1>7. TimelyRenewalsExclude'
  <2> SUFFICES ASSUME NEW m \in LeaseId, NEW n \in LeaseId, m # n,
                      Live(m)', Live(n)', LeaseOverlaps(lease'[m].path, lease'[n].path)
               PROVE  m \in revived' \/ n \in revived'
    BY DEF TimelyRenewalsExclude
  <2>1. lease'[m].path = lease[m].path /\ lease'[n].path = lease[n].path
    BY <1>1, <1>3
  <2>2. ASSUME NEW k \in {m, n}, k # l  PROVE Live(k)
    BY <2>2, <1>3 DEF Live
  <2>3. CASE l \in revived' /\ l \in {m, n}
    BY <2>3
  <2>4. CASE l \notin {m, n} \/ Live(l)
    <3>1. Live(m) /\ Live(n)
      BY <2>4, <2>2
    <3> QED BY <3>1, <2>1 DEF IInv, TimelyRenewalsExclude
  <2> QED BY <2>3, <2>4, <1>6
<1>8. KeepsIdentity
  BY <1>1, <1>3, <1>5 DEF IInv, TypeOK, KeepsIdentity, SameLease, Swept
<1> QED BY <1>2, <1>4, <1>7, <1>8 DEF StoreOK

-----------------------------------------------------------------------------
(* The steps that call a Function *)

\* A grant: every overlapping entry had lapsed by the time the caller read,
\* so it has lapsed now; it can live again only as a revived one.
LEMMA GrantOK ==
    ASSUME IInv, NEW c \in Caller, LeaseAcquire(c), ~UNCHANGED store
    PROVE  StoreOK' /\ KeepsIdentity
<1> DEFINE k == call[c]
<1>1. /\ k \in AcquireCall /\ k.session \in Session /\ k.path \in Path
      /\ k.now \in Nat /\ k.expires \in Nat /\ k.now <= clock
      /\ clock \in Nat /\ k # None
  BY ConstantsAssumption DEF LeaseAcquire, IInv, TypeOK, CallsAgree, CallAgrees, AcquireCall, Call
<1>2. PICK l \in LeaseId :
        /\ lease[l] = None
        /\ \A m \in ActiveAt(k.now) : ~LeaseOverlaps(k.path, held[m].path)
        /\ lease' = [lease EXCEPT ![l] = [session |-> k.session, path |-> k.path,
                                          state |-> "held", expiresAt |-> k.expires]]
        /\ held' = [held EXCEPT ![l] = [session |-> k.session, path |-> k.path,
                                        expiresMs |-> k.expires]]
        /\ sessionLeases' = [sessionLeases EXCEPT ![k.session] = @ \cup {l}]
        /\ deadline' = [deadline EXCEPT ![l] = k.expires]
  BY DEF LeaseAcquire
<1>3. UNCHANGED <<clock, revived>>
  BY DEF LeaseAcquire
<1> HIDE DEF k
<1>4. /\ (lease \in [LeaseId -> WorkLease \cup {None}])'
      /\ (held \in [LeaseId -> HeldDetail \cup {None}])'
      /\ (sessionLeases \in [Session -> SUBSET LeaseId])'
      /\ (deadline \in [LeaseId -> Nat \cup {None}])'
  BY <1>1, <1>2 DEF IInv, TypeOK, WorkLease, HeldDetail, LeaseState
<1>5. /\ lease'[l] = [session |-> k.session, path |-> k.path,
                      state |-> "held", expiresAt |-> k.expires]
      /\ lease'[l] # None
      /\ ~IsHeld(l)
      /\ \A m \in LeaseId \ {l} : lease'[m] = lease[m] /\ (IsHeld(m)' <=> IsHeld(m))
  BY <1>1, <1>2, <1>4, ConstantsAssumption DEF IInv, TypeOK, IsHeld, WorkLease, LeaseState
<1>6. IndexesAgree'
  BY <1>1, <1>2, <1>5 DEF IInv, TypeOK, IndexesAgree, IsHeld
<1>7. ASSUME NEW m \in LeaseId, m # l, Live(m)'
      PROVE  Live(m) /\ ~LeaseOverlaps(k.path, lease[m].path)
  <2>1. Live(m) /\ lease[m].expiresAt \in Nat
    BY <1>3, <1>5, <1>7 DEF Live, IsHeld, IInv, TypeOK, WorkLease
  <2>2. held[m] = [session |-> lease[m].session, path |-> lease[m].path,
                   expiresMs |-> lease[m].expiresAt]
    BY <2>1 DEF Live, IInv, IndexesAgree
  <2>3. held[m] # None
    BY <2>1, <2>2, ConstantsAssumption DEF Live, IsHeld, IInv, TypeOK, HeldDetail, WorkLease
  <2>4. m \in ActiveAt(k.now)
    BY <1>1, <2>1, <2>2, <2>3 DEF Live, ActiveAt
  <2> QED BY <1>2, <2>1, <2>2, <2>4
<1>8. TimelyRenewalsExclude'
  <2> SUFFICES ASSUME NEW m \in LeaseId, NEW n \in LeaseId, m # n,
                      Live(m)', Live(n)', LeaseOverlaps(lease'[m].path, lease'[n].path)
               PROVE  m \in revived' \/ n \in revived'
    BY DEF TimelyRenewalsExclude
  <2>1. CASE m = l
    BY <2>1, <1>5, <1>7
  <2>2. CASE n = l
    BY <2>2, <1>5, <1>7, OverlapSymmetric
  <2>3. CASE m # l /\ n # l
    BY <2>3, <1>3, <1>5, <1>7 DEF IInv, TimelyRenewalsExclude
  <2> QED BY <2>1, <2>2, <2>3
<1>9. KeepsIdentity
  BY <1>2, <1>3, <1>5 DEF KeepsIdentity, Swept
<1> QED BY <1>4, <1>6, <1>8, <1>9 DEF StoreOK

\* A store step by a caller or the sweep that is sound for the store is sound.
LEMMA StoreStep ==
    ASSUME IInv, StoreOK', KeepsIdentity, UNCHANGED <<clock, completed, restarts>>,
           \A c \in Caller : call'[c] = None \/ call'[c] = call[c],
           call' \in [Caller -> Call \cup {None}],
           due' = due, expiring' = None \/ expiring' = expiring,
           revived' \subseteq LeaseId
    PROVE  IInv'
<1>1. TypeOK'
  BY DEF IInv, TypeOK, StoreOK
<1>2. CallsAgree'
  BY CallsStillAgree DEF IInv, TypeOK, KeepsIdentity
<1>3. SweepAgrees'
  BY SweepStillAgrees
<1> QED BY <1>1, <1>2, <1>3 DEF IInv, StoreOK

LEMMA ReturnEffect ==
    ASSUME IInv, NEW c \in Caller, Return(c)
    PROVE  /\ \A e \in Caller : call'[e] = None \/ call'[e] = call[e]
           /\ call' \in [Caller -> Call \cup {None}]
  BY DEF Return, IInv, TypeOK

LEMMA LeaseAcquireOK ==
    ASSUME IInv, NEW c \in Caller, LeaseAcquire(c)
    PROVE  IInv'
<1>1. Return(c) /\ UNCHANGED <<clock, completed, due, expiring, restarts, revived>>
  BY DEF LeaseAcquire
<1>2. CASE UNCHANGED store
  BY <1>1, <1>2, ReturnOK DEF store
<1>3. CASE ~UNCHANGED store
  <2>1. StoreOK' /\ KeepsIdentity
    BY <1>3, GrantOK
  <2>2. revived' \subseteq LeaseId
    BY <1>1 DEF IInv, TypeOK
  <2> QED BY <1>1, <2>1, <2>2, StoreStep, ReturnEffect
<1> QED BY <1>2, <1>3

LEMMA LeaseRenewOK ==
    ASSUME IInv, NEW c \in Caller, LeaseRenew(c)
    PROVE  IInv'
<1> DEFINE l == call[c].id
           u == [call[c].current EXCEPT !.expiresAt = call[c].expires]
<1>1. /\ Return(c) /\ UNCHANGED <<clock, completed, due, expiring, restarts>>
      /\ call[c] \in RenewCall /\ call[c] # None
  BY ConstantsAssumption DEF LeaseRenew, Call
<1>2. /\ l \in LeaseId /\ u \in WorkLease /\ u.state = "held" /\ SameLease(u, l)
  BY <1>1 DEF RenewCall, WorkLease, IInv, CallsAgree, CallAgrees, SameLease
<1>3. CASE MayTransition(l, call[c].session)
  <2>1. /\ StayHeld(l, u) /\ IsHeld(l)
        /\ revived' = IF lease[l].expiresAt <= clock THEN revived \cup {l} ELSE revived
    BY <1>3 DEF LeaseRenew, MayTransition
  <2>2. StoreOK' /\ KeepsIdentity
    BY <1>1, <1>2, <2>1, StayHeldOK
  <2>3. revived' \subseteq LeaseId
    BY <1>2, <2>1 DEF IInv, TypeOK
  <2> QED BY <1>1, <2>2, <2>3, StoreStep, ReturnEffect
<1>4. CASE ~MayTransition(l, call[c].session)
  BY <1>1, <1>4, ReturnOK DEF LeaseRenew, store
<1> QED BY <1>3, <1>4

LEMMA LeaseReleaseOK ==
    ASSUME IInv, NEW c \in Caller, LeaseRelease(c)
    PROVE  IInv'
<1> DEFINE l == call[c].id
           u == [call[c].current EXCEPT !.state = "released"]
<1>1. /\ Return(c) /\ UNCHANGED <<clock, completed, due, expiring, restarts, revived>>
      /\ call[c] \in ReleaseCall /\ call[c] # None
  BY ConstantsAssumption DEF LeaseRelease, Call
<1>2. /\ l \in LeaseId /\ u \in WorkLease /\ u.state # "held" /\ SameLease(u, l)
  BY <1>1 DEF ReleaseCall, WorkLease, LeaseState, IInv, CallsAgree, CallAgrees, SameLease
<1>3. CASE MayTransition(l, call[c].session)
  <2>1. EndHold(l, u) /\ IsHeld(l)
    BY <1>3 DEF LeaseRelease, MayTransition
  <2>2. StoreOK' /\ KeepsIdentity
    BY <1>1, <1>2, <2>1, EndHoldOK
  <2>3. revived' \subseteq LeaseId
    BY <1>1 DEF IInv, TypeOK
  <2> QED BY <1>1, <2>2, <2>3, StoreStep, ReturnEffect
<1>4. CASE ~MayTransition(l, call[c].session)
  BY <1>1, <1>4, ReturnOK DEF LeaseRelease, store
<1> QED BY <1>3, <1>4

LEMMA LeaseExpireOK ==
    ASSUME IInv, LeaseExpire
    PROVE  IInv'
<1> DEFINE l == expiring.id
           u == [expiring.current EXCEPT !.state = "expired"]
<1>1. /\ expiring # None /\ expiring' = None
      /\ UNCHANGED <<clock, completed, call, due, restarts, revived>>
  BY DEF LeaseExpire
<1>2. /\ l \in LeaseId /\ u \in WorkLease /\ u.state # "held" /\ SameLease(u, l)
  BY <1>1 DEF WorkLease, LeaseState, IInv, TypeOK, SweepAgrees, SameLease
<1>3. revived' \subseteq LeaseId /\ call' \in [Caller -> Call \cup {None}]
  BY <1>1 DEF IInv, TypeOK
<1>4. CASE IsHeld(l)
  <2>1. StoreOK' /\ KeepsIdentity
    BY <1>1, <1>2, <1>4, EndHoldOK DEF LeaseExpire
  <2> QED BY <1>1, <1>3, <2>1, StoreStep
<1>5. CASE ~IsHeld(l)
  <2>1. UNCHANGED store
    BY <1>5 DEF LeaseExpire
  <2>2. StoreOK' /\ KeepsIdentity
    BY <1>1, <2>1 DEF store, StoreOK, KeepsIdentity, IInv, TypeOK, IndexesAgree, Swept,
                      TimelyRenewalsExclude, Live, IsHeld
  <2> QED BY <1>1, <1>3, <2>2, StoreStep
<1> QED BY <1>4, <1>5

-----------------------------------------------------------------------------
(* The steps that leave the store alone *)

LEMMA SweepFindOK ==
    ASSUME IInv, SweepFind
    PROVE  IInv'
<1>1. PICK S \in SUBSET LeaseId :
        /\ OldestDue(S) /\ due' = S /\ expiring = None /\ expiring' = None
        /\ UNCHANGED <<clock, completed, lease, held, sessionLeases, deadline, call,
                       restarts, revived>>
  BY DEF SweepFind, store
<1>2. \A l \in S : Swept(l)
  BY <1>1, ConstantsAssumption
     DEF OldestDue, Lapsed, Swept, IsHeld, IInv, TypeOK, IndexesAgree
<1>3. TypeOK' /\ SweepAgrees'
  BY <1>1, <1>2 DEF IInv, TypeOK, SweepAgrees, Swept, IsHeld
<1>4. IndexesAgree' /\ CallsAgree' /\ TimelyRenewalsExclude'
  BY <1>1 DEF IInv, IndexesAgree, CallsAgree, CallAgrees, SameLease,
              TimelyRenewalsExclude, Live, IsHeld
<1> QED BY <1>3, <1>4 DEF IInv

LEMMA SweepReadOK ==
    ASSUME IInv, NEW l \in LeaseId, SweepRead(l)
    PROVE  IInv'
<1>1. /\ l \in due /\ due' = due \ {l}
      /\ expiring' = IF IsHeld(l) THEN [id |-> l, current |-> lease[l]] ELSE None
      /\ UNCHANGED <<clock, completed, lease, held, sessionLeases, deadline, call,
                     restarts, revived>>
  BY DEF SweepRead, store
<1>2. Swept(l)
  BY <1>1 DEF IInv, SweepAgrees
<1>3. TypeOK'
  BY <1>1 DEF IInv, TypeOK, IsHeld
<1>4. SweepAgrees'
  BY <1>1, <1>2 DEF IInv, SweepAgrees, Swept, IsHeld, SameLease
<1>5. IndexesAgree' /\ CallsAgree' /\ TimelyRenewalsExclude'
  BY <1>1 DEF IInv, IndexesAgree, CallsAgree, CallAgrees, SameLease,
              TimelyRenewalsExclude, Live, IsHeld
<1> QED BY <1>3, <1>4, <1>5 DEF IInv

LEMMA CompleteSessionOK ==
    ASSUME IInv, NEW s \in Session, CompleteSession(s)
    PROVE  IInv'
<1>1. TypeOK'
  BY DEF CompleteSession, store, IInv, TypeOK
<1>2. IndexesAgree' /\ CallsAgree' /\ SweepAgrees' /\ TimelyRenewalsExclude'
  BY DEF CompleteSession, store, IInv, IndexesAgree, CallsAgree, CallAgrees, SameLease,
         SweepAgrees, Swept, TimelyRenewalsExclude, Live, IsHeld
<1> QED BY <1>1, <1>2 DEF IInv

LEMMA RestartOK ==
    ASSUME IInv, Restart
    PROVE  IInv'
<1>1. TypeOK'
  BY DEF Restart, store, IInv, TypeOK
<1>2. CallsAgree' /\ SweepAgrees'
  BY DEF Restart, CallsAgree, SweepAgrees
<1>3. IndexesAgree' /\ TimelyRenewalsExclude'
  BY DEF Restart, store, IInv, IndexesAgree, TimelyRenewalsExclude, Live, IsHeld
<1> QED BY <1>1, <1>2, <1>3 DEF IInv

\* Time only ends lives: a lease live afterwards was live before.
LEMMA TickOK ==
    ASSUME IInv, Tick
    PROVE  IInv'
<1>1. /\ clock \in Nat /\ clock' = clock + 1
      /\ UNCHANGED <<completed, lease, held, sessionLeases, deadline, call, due,
                     expiring, restarts, revived>>
  BY DEF Tick, store, IInv, TypeOK
<1>2. \A l \in LeaseId : IsHeld(l) => lease[l].expiresAt \in Nat
  BY DEF IInv, TypeOK, IsHeld, WorkLease
<1>3. TypeOK'
  BY <1>1 DEF IInv, TypeOK
<1>4. \A l \in LeaseId : (Live(l)' => Live(l)) /\ (Swept(l) => Swept(l)')
  BY <1>1, <1>2 DEF Live, Swept, IsHeld
<1>5. TimelyRenewalsExclude'
  BY <1>1, <1>4 DEF IInv, TimelyRenewalsExclude
<1>6. CallsAgree'
  BY <1>1, CallsStillAgree DEF IInv, TypeOK
<1>7. SweepAgrees'
  BY <1>1, <1>4 DEF IInv, TypeOK, SweepAgrees, SameLease
<1>8. IndexesAgree'
  BY <1>1 DEF IInv, IndexesAgree, IsHeld
<1> QED BY <1>3, <1>5, <1>6, <1>7, <1>8 DEF IInv

-----------------------------------------------------------------------------
(* The theorems *)

LEMMA StepOK == IInv /\ [Next]_vars => IInv'
<1> SUFFICES ASSUME IInv, [Next]_vars PROVE IInv'
  OBVIOUS
<1>1. ASSUME NEW c \in Caller, Request(c)  PROVE IInv'
  BY <1>1, AcquireReadOK, RenewReadOK, ReleaseReadOK, LeaseAcquireOK, LeaseRenewOK,
     LeaseReleaseOK DEF Request
<1>2. CASE Sweep
  BY <1>2, SweepFindOK, SweepReadOK, LeaseExpireOK DEF Sweep
<1>3. ASSUME NEW s \in Session, CompleteSession(s)  PROVE IInv'
  BY <1>3, CompleteSessionOK
<1>4. CASE Restart
  BY <1>4, RestartOK
<1>5. CASE Tick
  BY <1>5, TickOK
<1>6. CASE UNCHANGED vars
  <2>1. TypeOK' /\ IndexesAgree'
    BY <1>6 DEF vars, IInv, TypeOK, IndexesAgree, IsHeld
  <2>2. CallsAgree' /\ SweepAgrees' /\ TimelyRenewalsExclude'
    BY <1>6 DEF vars, IInv, CallsAgree, CallAgrees, SameLease, SweepAgrees, Swept,
                TimelyRenewalsExclude, Live, IsHeld
  <2> QED BY <2>1, <2>2 DEF IInv
<1> QED BY <1>1, <1>2, <1>3, <1>4, <1>5, <1>6 DEF Next

\* The inductive invariant holds in every reachable state.
THEOREM Invariance == Spec => []IInv
  BY InitOK, StepOK, PTL DEF Spec

\* Every variable keeps its type: record, indexes, calls and sweep.
THEOREM TypeCorrect == Spec => []TypeOK
<1>1. IInv => TypeOK
  BY DEF IInv
<1> QED BY <1>1, Invariance, PTL

\* The four representations of a held lease agree after every Function call.
THEOREM IndexAgreement == Spec => []IndexesAgree
<1>1. IInv => IndexesAgree
  BY DEF IInv
<1> QED BY <1>1, Invariance, PTL

\* Two live leases whose renewals all came in time cover disjoint paths.
THEOREM TimelyExclusion == Spec => []TimelyRenewalsExclude
<1>1. IInv => TimelyRenewalsExclude
  BY DEF IInv
<1> QED BY <1>1, Invariance, PTL

-----------------------------------------------------------------------------
(* The limit of live leases *)

\* The leases that are held, and those that count: live and never renewed too late.
HeldLeases == {l \in LeaseId : IsHeld(l)}
Timely == {l \in LeaseId : Live(l)} \ revived

\* Leases are granted one at a time, so that those held can be counted.
LimitOK == IsFiniteSet(HeldLeases) /\ Cardinality(Timely) <= MaxActive

\* No step brings a lease back to life but a grant and a late renewal.
LEMMA NoneRevives ==
    ASSUME LimitOK, HeldLeases' \subseteq HeldLeases, Timely' \subseteq Timely
    PROVE  LimitOK'
<1>1. Timely \subseteq HeldLeases
  BY DEF Timely, HeldLeases, Live
<1>2. IsFiniteSet(HeldLeases') /\ IsFiniteSet(Timely)
  BY <1>1, FS_Subset DEF LimitOK
<1>3. IsFiniteSet(Timely') /\ Cardinality(Timely') <= Cardinality(Timely)
  BY <1>2, FS_Subset
<1>4. Cardinality(Timely) \in Nat /\ Cardinality(Timely') \in Nat /\ MaxActive \in Nat
  BY <1>2, <1>3, FS_CardinalityType, ConstantsAssumption
<1> QED BY <1>2, <1>3, <1>4 DEF LimitOK

\* A step that leaves every record alone takes no lease's time back.
LEMMA RecordsStay ==
    ASSUME IInv, LimitOK, lease' = lease, clock' \in Nat, clock' >= clock, revived' = revived
    PROVE  LimitOK'
<1>1. HeldLeases' \subseteq HeldLeases
  BY DEF HeldLeases, IsHeld
<1>2. ASSUME NEW l \in LeaseId, Live(l)' PROVE Live(l)
  BY <1>2 DEF Live, IsHeld, IInv, TypeOK, WorkLease
<1>3. Timely' \subseteq Timely
  BY <1>2 DEF Timely
<1> QED BY <1>1, <1>3, NoneRevives

\* A lease that ends makes room.
LEMMA EndMakesRoom ==
    ASSUME IInv, LimitOK, NEW l \in LeaseId, NEW u, u.state # "held", EndHold(l, u),
           clock' = clock, revived' = revived
    PROVE  LimitOK'
<1>1. lease' = [lease EXCEPT ![l] = u] /\ lease \in [LeaseId -> WorkLease \cup {None}]
  BY DEF EndHold, IInv, TypeOK
<1>2. ASSUME NEW m \in LeaseId, IsHeld(m)' PROVE lease'[m] = lease[m]
  BY <1>1, <1>2 DEF IsHeld
<1>3. HeldLeases' \subseteq HeldLeases
  BY <1>2 DEF HeldLeases, IsHeld
<1>4. Timely' \subseteq Timely
  BY <1>2 DEF Timely, Live, IsHeld
<1> QED BY <1>3, <1>4, NoneRevives

\* A renewal prolongs a lease that was live, or is noted as late.
LEMMA RenewalIsTimely ==
    ASSUME IInv, LimitOK, NEW l \in LeaseId, NEW u, IsHeld(l), StayHeld(l, u), clock' = clock,
           revived' = IF lease[l].expiresAt <= clock THEN revived \cup {l} ELSE revived
    PROVE  LimitOK'
<1>1. lease' = [lease EXCEPT ![l] = u] /\ lease \in [LeaseId -> WorkLease \cup {None}]
  BY DEF StayHeld, IInv, TypeOK
<1>2. lease[l].expiresAt \in Nat /\ clock \in Nat
  BY DEF IsHeld, IInv, TypeOK, WorkLease
<1>3. HeldLeases' \subseteq HeldLeases
  BY <1>1 DEF HeldLeases, IsHeld
<1>4. Timely' \subseteq Timely
  <2> SUFFICES ASSUME NEW m \in Timely' PROVE m \in Timely
    OBVIOUS
  <2>1. CASE m = l
    BY <1>2, <2>1 DEF Timely, Live
  <2>2. CASE m # l
    BY <1>1, <2>2 DEF Timely, Live, IsHeld
  <2> QED BY <2>1, <2>2
<1> QED BY <1>3, <1>4, NoneRevives

\* Acquire counts by a time it read before; whatever is live now was live then.
LEMMA GrantFits ==
    ASSUME IInv, LimitOK, NEW c \in Caller, LeaseAcquire(c)
    PROVE  LimitOK'
<1> DEFINE k == call[c]
           active == ActiveAt(k.now)
<1>1. clock' = clock /\ revived' = revived
  BY DEF LeaseAcquire
<1>2. CASE UNCHANGED lease
  BY <1>1, <1>2, RecordsStay DEF IInv, TypeOK
<1>3. ASSUME ~AtLimit(active), NEW l \in LeaseId, lease[l] = None, NEW u,
             lease' = [lease EXCEPT ![l] = u]
      PROVE  LimitOK'
  <2>1. k \in AcquireCall /\ k.now \in Nat /\ k.now <= clock /\ clock \in Nat
    BY ConstantsAssumption
       DEF LeaseAcquire, IInv, TypeOK, CallsAgree, CallAgrees, AcquireCall, Call
  <2>2. active \subseteq HeldLeases
    BY DEF ActiveAt, HeldLeases, IInv, IndexesAgree
  <2>3. IsFiniteSet(active) /\ Cardinality(active) \in Nat
    BY <2>2, FS_Subset, FS_CardinalityType DEF LimitOK
  <2>4. Cardinality(active) < MaxActive
    BY <1>3, <2>3, ConstantsAssumption DEF AtLimit
  <2>5. Timely' \subseteq active \cup {l}
    <3> SUFFICES ASSUME NEW m \in Timely', m # l PROVE m \in active
      OBVIOUS
    <3>1. m \in LeaseId /\ lease'[m] = lease[m] /\ Live(m)
      BY <1>1, <1>3 DEF Timely, Live, IsHeld, IInv, TypeOK
    <3>2. held[m] = [session |-> lease[m].session, path |-> lease[m].path,
                     expiresMs |-> lease[m].expiresAt]
      BY <3>1 DEF Live, IInv, IndexesAgree
    <3>3. lease[m].expiresAt \in Nat /\ lease[m].expiresAt > clock /\ held[m] # None
      BY <3>1, <3>2, ConstantsAssumption DEF Live, IsHeld, IInv, TypeOK, WorkLease, HeldDetail
    <3> QED BY <2>1, <3>1, <3>2, <3>3 DEF ActiveAt
  <2> HIDE DEF active
  <2>6. IsFiniteSet(active \cup {l}) /\ Cardinality(active \cup {l}) <= Cardinality(active) + 1
    <3>1. /\ IsFiniteSet(active \cup {l})
          /\ Cardinality(active \cup {l}) =
               IF l \in active THEN Cardinality(active) ELSE Cardinality(active) + 1
      BY <2>3, FS_AddElement
    <3> QED BY <2>3, <3>1
  <2>7. Cardinality(active \cup {l}) \in Nat
    BY <2>6, FS_CardinalityType
  <2>8. IsFiniteSet(Timely') /\ Cardinality(Timely') <= Cardinality(active \cup {l})
    BY <2>5, <2>6, FS_Subset
  <2>9. Cardinality(Timely') \in Nat
    BY <2>8, FS_CardinalityType
  <2>10. HeldLeases' \subseteq HeldLeases \cup {l}
    BY <1>3 DEF HeldLeases, IsHeld, IInv, TypeOK
  <2>11. IsFiniteSet(HeldLeases')
    BY <2>10, FS_AddElement, FS_Subset DEF LimitOK
  <2> QED BY <2>3, <2>4, <2>6, <2>7, <2>8, <2>9, <2>11, ConstantsAssumption DEF LimitOK
<1>4. CASE ~UNCHANGED store
  <2>1. /\ ~AtLimit(active)
        /\ \E l \in LeaseId : /\ lease[l] = None
                             /\ lease' = [lease EXCEPT ![l] =
                                  [session |-> k.session, path |-> k.path,
                                   state |-> "held", expiresAt |-> k.expires]]
    BY <1>4 DEF LeaseAcquire
  <2> QED BY <1>3, <2>1
<1> QED BY <1>2, <1>4 DEF store

\* Every step keeps to the limit.
LEMMA StepLimit == IInv /\ LimitOK /\ [Next]_vars => LimitOK'
<1> SUFFICES ASSUME IInv, LimitOK, [Next]_vars PROVE LimitOK'
  OBVIOUS
<1>1. ASSUME NEW c \in Caller, LeaseAcquire(c) PROVE LimitOK'
  BY <1>1, GrantFits
<1>2. ASSUME NEW c \in Caller, LeaseRenew(c) PROVE LimitOK'
  <2> DEFINE l == call[c].id
             u == [call[c].current EXCEPT !.expiresAt = call[c].expires]
  <2>1. l \in LeaseId /\ clock' = clock
    BY <1>2 DEF LeaseRenew, RenewCall
  <2>2. CASE MayTransition(l, call[c].session)
    <3>1. /\ IsHeld(l) /\ StayHeld(l, u)
          /\ revived' = IF lease[l].expiresAt <= clock THEN revived \cup {l} ELSE revived
      BY <1>2, <2>2 DEF LeaseRenew, MayTransition
    <3> HIDE DEF l, u
    <3> QED BY <2>1, <3>1, RenewalIsTimely
  <2>3. CASE ~MayTransition(l, call[c].session)
    BY <1>2, <2>3, RecordsStay DEF LeaseRenew, store, IInv, TypeOK
  <2> QED BY <2>2, <2>3
<1>3. ASSUME NEW c \in Caller, LeaseRelease(c) PROVE LimitOK'
  <2> DEFINE l == call[c].id
             u == [call[c].current EXCEPT !.state = "released"]
  <2>1. l \in LeaseId /\ u.state # "held" /\ clock' = clock /\ revived' = revived
    BY <1>3 DEF LeaseRelease, ReleaseCall, WorkLease
  <2>2. EndHold(l, u) \/ UNCHANGED lease
    BY <1>3 DEF LeaseRelease, store
  <2> HIDE DEF l, u
  <2> QED BY <2>1, <2>2, EndMakesRoom, RecordsStay DEF IInv, TypeOK
<1>4. CASE LeaseExpire
  <2> DEFINE l == expiring.id
             u == [expiring.current EXCEPT !.state = "expired"]
  <2>1. l \in LeaseId /\ u.state # "held" /\ clock' = clock /\ revived' = revived
    BY <1>4 DEF LeaseExpire, IInv, TypeOK, WorkLease
  <2>2. EndHold(l, u) \/ UNCHANGED lease
    BY <1>4 DEF LeaseExpire, store
  <2> HIDE DEF l, u
  <2> QED BY <2>1, <2>2, EndMakesRoom, RecordsStay DEF IInv, TypeOK
<1>5. CASE UNCHANGED <<lease, clock, revived>>
  BY <1>5, RecordsStay DEF IInv, TypeOK
<1>6. CASE Tick
  BY <1>6, RecordsStay DEF Tick, store, IInv, TypeOK
<1> QED BY <1>1, <1>2, <1>3, <1>4, <1>5, <1>6
    DEF Next, vars, Request, Sweep, AcquireRead, RenewRead, ReleaseRead, SweepFind,
        SweepRead, CompleteSession, Restart, store

\* The limit that acquire counts against bounds the live leases of the project
\* at every later time, whatever stale time an acquire or stale record a renewal
\* goes by; leases that were renewed after they had lapsed are counted apart.
THEOREM LimitHolds == Spec => []LiveWithinLimit
<1>1. Init => LimitOK
  <2> SUFFICES ASSUME Init PROVE LimitOK
    OBVIOUS
  <2>1. HeldLeases = {} /\ Timely = {}
    BY DEF Init, HeldLeases, Timely, Live, IsHeld
  <2> QED BY <2>1, FS_EmptySet, ConstantsAssumption DEF LimitOK
<1>2. LimitOK => LiveWithinLimit
  BY DEF LimitOK, Timely, LiveWithinLimit
<1> QED BY <1>1, <1>2, StepLimit, Invariance, PTL DEF Spec

-----------------------------------------------------------------------------
(* What no step does *)

\* What LeaseRenew, LeaseRelease and LeaseExpire change is one held lease; a
\* grant changes one that had no record.
LEMMA LeaseWrites ==
    ASSUME IInv, [Next]_vars, NEW l \in LeaseId, lease[l] # None, lease'[l] # lease[l]
    PROVE  /\ IsHeld(l)
           /\ \/ /\ expiring # None /\ expiring.id = l
                 /\ lease'[l].state = "expired" /\ LeaseExpire
              \/ \E c \in Caller :
                   /\ call[c] # None /\ call'[c] = None /\ call[c].op # "acquire"
                   /\ call[c].id = l /\ call[c].session = lease[l].session
                   /\ lease'[l].state # "expired"
<1>1. ASSUME NEW c \in Caller, LeaseAcquire(c)
      PROVE  lease'[l] = lease[l]
  BY <1>1 DEF LeaseAcquire, store, IInv, TypeOK
<1>2. ASSUME NEW c \in Caller, LeaseRenew(c)
      PROVE  /\ IsHeld(l) /\ call[c] # None /\ call'[c] = None /\ call[c].op = "renew"
             /\ call[c].id = l /\ call[c].session = lease[l].session
             /\ lease'[l].state = "held"
  <2>1. call[c] \in RenewCall /\ call[c] # None /\ call'[c] = None
    BY <1>2, ConstantsAssumption DEF LeaseRenew, Call, Return, IInv, TypeOK
  <2>2. /\ MayTransition(call[c].id, call[c].session) /\ call[c].id = l
        /\ lease'[l] = [call[c].current EXCEPT !.expiresAt = call[c].expires]
    BY <1>2 DEF LeaseRenew, StayHeld, store, IInv, TypeOK
  <2>3. call[c].current.state = "held" /\ call[c].current \in WorkLease
    BY <2>1 DEF IInv, CallsAgree, CallAgrees, RenewCall
  <2> QED BY <2>1, <2>2, <2>3 DEF MayTransition, RenewCall, WorkLease
<1>3. ASSUME NEW c \in Caller, LeaseRelease(c)
      PROVE  /\ IsHeld(l) /\ call[c] # None /\ call'[c] = None /\ call[c].op = "release"
             /\ call[c].id = l /\ call[c].session = lease[l].session
             /\ lease'[l].state = "released"
  <2>1. call[c] \in ReleaseCall /\ call[c] # None /\ call'[c] = None
    BY <1>3, ConstantsAssumption DEF LeaseRelease, Call, Return, IInv, TypeOK
  <2>2. /\ MayTransition(call[c].id, call[c].session) /\ call[c].id = l
        /\ lease'[l] = [call[c].current EXCEPT !.state = "released"]
    BY <1>3 DEF LeaseRelease, EndHold, store, IInv, TypeOK
  <2> QED BY <2>1, <2>2 DEF MayTransition, ReleaseCall, WorkLease
<1>4. CASE LeaseExpire
  <2>1. IsHeld(expiring.id) /\ expiring # None /\ expiring.id = l
    BY <1>4 DEF LeaseExpire, EndHold, store, IInv, TypeOK
  <2>2. lease'[l] = [expiring.current EXCEPT !.state = "expired"]
        /\ expiring.current \in WorkLease
    BY <1>4, <2>1 DEF LeaseExpire, EndHold, IInv, TypeOK
  <2> QED BY <1>4, <2>1, <2>2 DEF WorkLease
<1>5. \/ \E c \in Caller : LeaseAcquire(c) \/ LeaseRenew(c) \/ LeaseRelease(c)
      \/ LeaseExpire
  BY DEF Next, vars, Request, Sweep, AcquireRead, RenewRead, ReleaseRead, SweepFind,
         SweepRead, CompleteSession, Restart, Tick, store
<1> QED BY <1>1, <1>2, <1>3, <1>4, <1>5

\* An ended lease is final, whatever stale record a call or the sweep writes.
THEOREM EndedIsFinal == Spec => EndedForGood
<1>1. IInv /\ [Next]_vars => [EndedStays]_vars
  BY LeaseWrites DEF EndedStays, IsHeld
<1> QED BY <1>1, Invariance, PTL DEF Spec, EndedForGood

\* Only its holder or the sweep changes a held lease.
THEOREM HolderOnly == Spec => OnlyHolderOrSweep
<1>1. IInv /\ [Next]_vars => [ChangedByHolderOrSweep]_vars
  BY LeaseWrites DEF ChangedByHolderOrSweep, IsHeld
<1> QED BY <1>1, Invariance, PTL DEF Spec, OnlyHolderOrSweep

\* A lease always renewed in time is not ended by the sweep before its expiry.
THEOREM TimelyHolderSafe == Spec => TimelyHolderKeepsPath
<1>1. ASSUME IInv, [Next]_vars, NEW l \in LeaseId, Live(l), lease'[l].state = "expired"
      PROVE  l \in revived
  <2>1. lease[l].expiresAt \in Nat /\ clock \in Nat /\ lease[l] # None /\ lease'[l] # lease[l]
    BY <1>1 DEF Live, IsHeld, IInv, TypeOK, WorkLease
  <2>2. expiring # None /\ expiring.id = l
    BY <1>1, <2>1, LeaseWrites
  <2>3. Swept(l)
    BY <1>1, <2>2 DEF IInv, SweepAgrees
  <2> QED BY <1>1, <2>1, <2>3 DEF Swept, Live
<1>2. IInv /\ [Next]_vars => [SweptEarlyOnlyIfRevived]_vars
  BY <1>1 DEF SweptEarlyOnlyIfRevived
<1> QED BY <1>2, Invariance, PTL DEF Spec, TimelyHolderKeepsPath

=============================================================================
