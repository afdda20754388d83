------------------------ MODULE DaemonOwnershipProofs ------------------------
(***************************************************************************)
(* Proofs about DaemonOwnership, for every set of daemons and every bound  *)
(* on failures and lapses.                                                 *)
(***************************************************************************)
EXTENDS DaemonOwnership, TLAPS

\* The state is restored in the first round of a run.
RestoreIsFirst ==
    \A d \in Daemon : recovery[d] # None /\ recovery[d].at = "restore" => recovery[d].round = 1

\* How far startup and shutdown are says whether the lifecycle goes on.
BootOK ==
    \A d \in Daemon :
        /\ boot[d] \in {"off", "won"} => stopping[d] = "no" /\ ~lifecycle[d]
        /\ boot[d] \in {"working", "listening", "up"} /\ stopping[d] \in {"no", "draining"}
             => lifecycle[d]
        /\ boot[d] = "releasing" \/ stopping[d] = "releasing" => ~lifecycle[d]
        /\ stopping[d] # "no" => ~CanRecover(d)

\* A recovery claims only for a daemon that has acquired once, and gives back
\* only after the lifecycle is over.
ClaimsOK ==
    \A d \in Daemon : recovery[d] # None =>
        /\ recovery[d].at \in {"claim", "cleanup"} => boot[d] \notin {"off", "won"}
        /\ recovery[d].at = "cleanup" => ~lifecycle[d]

\* Until a key lapses, a daemon within its lifecycle has it.
OwnerKept ==
    lapses = 0 => \A d \in Daemon : lifecycle[d] \/ boot[d] = "won" => owner = d

\* Within the lifecycle a loss is noted exactly while it lasts.
LossNoted == \A d \in Daemon : lifecycle[d] => (notified[d] <=> ~owned[d])

IInv ==
    /\ TypeOK
    /\ RestoreIsFirst
    /\ BootOK
    /\ ClaimsOK
    /\ OwnerKept
    /\ LossNoted
    /\ LossIsRecovered
    /\ NoOrphanedKey

-----------------------------------------------------------------------------
(* What the coordinator does *)

\* The types of what a run changes.
RunTypes == state \in [Daemon -> RuntimeState] /\ recovery \in [Daemon -> Recovery \cup {None}]

\* Only daemon d is concerned, and it does not leave its draining.
RunOf(d) ==
    /\ RunTypes'
    /\ \A e \in Daemon \ {d} : state'[e] = state[e] /\ recovery'[e] = recovery[e]
    /\ state[d] \in {"draining", "stopped"} => state'[d] = state[d]

\* A first look is a recovery.
LEMMA FirstFacts == First \in Recovery /\ First # None
BY ConstantsAssumption DEF First, Recovery

LEMMA RecoveringFacts == ASSUME NEW s \in RuntimeState PROVE Recovering(s) \in RuntimeState
BY DEF Recovering, RuntimeState

\* A run is set, and the readiness with it, of a daemon that does not drain.
LEMMA RunSet ==
    ASSUME TypeOK, NEW d \in Daemon, NEW r \in Recovery,
           state[d] \notin {"draining", "stopped"},
           \A s \in RuntimeState : Recovering(s) \in RuntimeState,
           recovery' = [recovery EXCEPT ![d] = r],
           state' = [state EXCEPT ![d] = Recovering(state[d])]
    PROVE  RunOf(d) /\ recovery'[d] = r
<1>1. recovery' \in [Daemon -> Recovery \cup {None}] /\ recovery'[d] = r
  BY DEF TypeOK
<1>2. state' \in [Daemon -> RuntimeState]
  BY DEF TypeOK
<1>3. \A e \in Daemon \ {d} : state'[e] = state[e] /\ recovery'[e] = recovery[e]
  BY DEF TypeOK
<1> QED BY <1>1, <1>2, <1>3 DEF RunOf, RunTypes

\* A request leaves a run that goes on, begins one, or meets a daemon that stops.
LEMMA RequestFacts ==
    ASSUME TypeOK, NEW d \in Daemon, Request(d)
    PROVE  /\ RunOf(d)
           /\ pending' \in [Daemon -> BOOLEAN]
           /\ recovery'[d] = IF recovery[d] = None /\ CanRecover(d) THEN First ELSE recovery[d]
           /\ state'[d] \notin {"draining", "stopped"} => recovery'[d] # None
<1>1. CASE ~CanRecover(d)
  BY <1>1 DEF TypeOK, Request, CanRecover, RunOf, RunTypes, RuntimeState, coordinator
<1>2. CASE CanRecover(d) /\ recovery[d] # None
  BY <1>2 DEF TypeOK, Request, RunOf, RunTypes
<1>3. CASE CanRecover(d) /\ recovery[d] = None
  <2>1. /\ state[d] \notin {"draining", "stopped"}
        /\ recovery' = [recovery EXCEPT ![d] = First]
        /\ state' = [state EXCEPT ![d] = Recovering(state[d])]
        /\ pending' = [pending EXCEPT ![d] = FALSE]
    BY <1>3 DEF Request, CanRecover
  <2>2. RunOf(d) /\ recovery'[d] = First
    BY <2>1, FirstFacts, RecoveringFacts, RunSet
  <2>3. pending' \in [Daemon -> BOOLEAN]
    BY <2>1 DEF TypeOK
  <2> QED BY <1>3, <2>2, <2>3, FirstFacts
<1> QED BY <1>1, <1>2, <1>3

\* The end of a run is the end, or the first look of the next one.
LEMMA EndFacts ==
    ASSUME TypeOK, NEW d \in Daemon, RunEnds(d)
    PROVE  /\ RunOf(d)
           /\ pending' \in [Daemon -> BOOLEAN]
           /\ recovery'[d] \in {None, First}
<1>1. CASE pending[d] /\ CanRecover(d)
  <2>1. /\ state[d] \notin {"draining", "stopped"}
        /\ recovery' = [recovery EXCEPT ![d] = First]
        /\ state' = [state EXCEPT ![d] = Recovering(state[d])]
        /\ pending' = [pending EXCEPT ![d] = FALSE]
    BY <1>1 DEF RunEnds, CanRecover
  <2>2. RunOf(d) /\ recovery'[d] = First
    BY <2>1, FirstFacts, RecoveringFacts, RunSet
  <2>3. pending' \in [Daemon -> BOOLEAN]
    BY <2>1 DEF TypeOK
  <2> QED BY <2>2, <2>3
<1>2. CASE ~(pending[d] /\ CanRecover(d))
  <2>1. recovery' = [recovery EXCEPT ![d] = None] /\ UNCHANGED <<pending, state>>
    BY <1>2 DEF RunEnds
  <2> QED BY <2>1 DEF TypeOK, RunOf, RunTypes
<1> QED BY <1>1, <1>2

\* A run that fails backs off.
LEMMA FailFacts ==
    ASSUME TypeOK, NEW d \in Daemon, RunFails(d)
    PROVE  /\ RunOf(d)
           /\ recovery'[d] # None
           /\ recovery'[d].at = "backoff"
BY FirstFacts, ConstantsAssumption
DEF TypeOK, RunFails, Degraded, First, Recovery, RunOf, RunTypes, RuntimeState

\* A run that moves on.
LEMMA MoveFacts ==
    ASSUME TypeOK, NEW d \in Daemon, NEW at \in {"check", "claim", "cleanup", "restore"},
           NEW round \in 1..2, MoveTo(d, at, round), UNCHANGED state
    PROVE  /\ RunOf(d)
           /\ recovery'[d] # None
           /\ recovery'[d].at = at
           /\ recovery'[d].round = round
BY ConstantsAssumption
DEF TypeOK, MoveTo, Recovery, RunOf, RunTypes

\* A run whose ownership is sure never claims next.
LEMMA ContinueFacts ==
    ASSUME TypeOK, NEW d \in Daemon, recovery[d] # None, RunContinues(d)
    PROVE  /\ RunOf(d)
           /\ pending' \in [Daemon -> BOOLEAN]
           /\ recovery'[d] # None =>
                /\ recovery'[d].at \notin {"claim", "cleanup"}
                /\ recovery'[d].at = "restore" => recovery'[d].round = 1
<1>1. CASE RunEnds(d)
  BY <1>1, EndFacts DEF First
<1>2. CASE RunFails(d) /\ UNCHANGED pending
  BY <1>2, FailFacts DEF TypeOK
<1>3. CASE MoveTo(d, "restore", 1) /\ UNCHANGED <<pending, state>>
  BY <1>3, MoveFacts DEF TypeOK
<1>4. CASE /\ state[d] = "recovering"
           /\ state' = [state EXCEPT ![d] = "ready"]
           /\ recovery' = [recovery EXCEPT ![d] = None]
           /\ UNCHANGED pending
  BY <1>4 DEF TypeOK, RunOf, RunTypes, RuntimeState
<1> QED
  BY <1>1, <1>2, <1>3, <1>4 DEF RunContinues

\* The types of what the lease believes.
LEMMA LeaseTypes ==
    ASSUME TypeOK, NEW d \in Daemon, Regains(d) \/ Loses(d) \/ UNCHANGED <<owned, notified>>
    PROVE  owned' \in [Daemon -> BOOLEAN] /\ notified' \in [Daemon -> BOOLEAN]
<1>1. CASE Regains(d)
  BY <1>1 DEF Regains, TypeOK
<1>2. CASE Loses(d)
  BY <1>2 DEF Loses, TypeOK
<1> QED
  BY <1>1, <1>2 DEF TypeOK

\* What a look at the key comes to.
LEMMA CheckReplyFacts ==
    ASSUME TypeOK, NEW d \in Daemon, CheckReply(d)
    PROVE  /\ RunOf(d)
           /\ pending' \in [Daemon -> BOOLEAN]
           /\ recovery'[d] # None =>
                /\ recovery'[d].at # "cleanup"
                /\ recovery'[d].at = "claim" => lifecycle[d]
                /\ recovery'[d].at = "restore" => recovery'[d].round = 1
           /\ \/ Regains(d)
              \/ Loses(d) /\ recovery'[d] # None
           /\ recovery[d] # None /\ recovery[d].at = "check"
           /\ UNCHANGED <<owner, boot, stopping, lifecycle, refusal, faults, lapses>>
<1>0. /\ recovery[d] # None /\ recovery[d].at = "check"
      /\ UNCHANGED <<owner, boot, stopping, lifecycle, refusal, faults, lapses>>
  BY DEF CheckReply
<1>1. CASE recovery[d].reply = "yes" /\ Regains(d) /\ RunContinues(d)
  BY <1>0, <1>1, ContinueFacts DEF CheckReply
<1>2. CASE /\ recovery[d].reply = "no" /\ lifecycle[d] /\ Loses(d) /\ LossReported(d)
           /\ MoveTo(d, "claim", recovery[d].round) /\ UNCHANGED state
  <2>1. recovery[d].round \in 1..2
    BY <1>2, ConstantsAssumption DEF CheckReply, TypeOK, Recovery
  <2> QED
    BY <1>0, <1>2, <2>1, MoveFacts DEF LossReported, TypeOK
<1>3. CASE Loses(d) /\ LossReported(d) /\ RunFails(d)
  BY <1>0, <1>3, FailFacts DEF LossReported, TypeOK
<1> QED
  BY <1>1, <1>2, <1>3 DEF CheckReply

\* What a claim comes to.
LEMMA ClaimReplyFacts ==
    ASSUME TypeOK, NEW d \in Daemon, ClaimReply(d)
    PROVE  /\ RunOf(d)
           /\ pending' \in [Daemon -> BOOLEAN]
           /\ recovery'[d] # None =>
                /\ recovery'[d].at # "claim"
                /\ recovery'[d].at = "cleanup" => ~lifecycle[d]
                /\ recovery'[d].at = "restore" => recovery'[d].round = 1
           /\ \/ UNCHANGED stopping
              \/ /\ stopping' = [stopping EXCEPT ![d] = "draining"]
                 /\ stopping[d] = "no"
                 /\ state'[d] \in {"draining", "stopped"}
           /\ UNCHANGED <<owned, notified>> \/ Regains(d) \/ Loses(d)
           /\ \/ Regains(d)
              \/ ~lifecycle[d]
              \/ state'[d] \in {"draining", "stopped"}
              \/ recovery'[d] # None
           /\ recovery[d].reply = "yes" =>
                lifecycle[d] \/ (recovery'[d] # None /\ recovery'[d].at = "cleanup")
           /\ recovery[d] # None /\ recovery[d].at = "claim"
           /\ UNCHANGED <<owner, boot, lifecycle, refusal, faults, lapses>>
<1>0. /\ recovery[d] # None /\ recovery[d].at = "claim"
      /\ UNCHANGED <<owner, boot, lifecycle, refusal, faults, lapses>>
  BY DEF ClaimReply
<1>1. CASE /\ recovery[d].reply = "yes" /\ lifecycle[d] /\ Regains(d) /\ RunContinues(d)
           /\ UNCHANGED stopping
  BY <1>0, <1>1, ContinueFacts
<1>2. CASE /\ recovery[d].reply = "yes" /\ ~lifecycle[d]
           /\ MoveTo(d, "cleanup", recovery[d].round)
           /\ UNCHANGED <<owned, notified, pending, state, stopping>>
  <2>1. recovery[d].round \in 1..2
    BY <1>2, ConstantsAssumption DEF ClaimReply, TypeOK, Recovery
  <2> QED
    BY <1>0, <1>2, <2>1, MoveFacts DEF TypeOK
<1>3. CASE /\ recovery[d].reply = "no"
           /\ IF lifecycle[d] THEN Loses(d) ELSE UNCHANGED <<owned, notified>>
           /\ Contended(d) /\ UNCHANGED pending
  BY <1>0, <1>3, ConstantsAssumption
  DEF TypeOK, Contended, CanRecover, RunOf, RunTypes, RuntimeState
<1>4. CASE /\ recovery[d].reply = "failed" /\ RunFails(d)
           /\ UNCHANGED <<owned, notified, pending, stopping>>
  BY <1>0, <1>4, FailFacts DEF TypeOK
<1> QED
  BY <1>1, <1>2, <1>3, <1>4 DEF ClaimReply, InLifecycle

\* The reply to a command is noted.
LEMMA ReplyFacts ==
    ASSUME TypeOK, NEW d \in Daemon, recovery[d] # None, UNCHANGED state,
           NEW r \in {"yes", "no", "failed"}, recovery' = [recovery EXCEPT ![d].reply = r]
    PROVE  /\ RunOf(d)
           /\ recovery'[d] # None
           /\ recovery'[d].at = recovery[d].at
           /\ recovery'[d].round = recovery[d].round
           /\ recovery'[d].reply = r
BY ConstantsAssumption DEF TypeOK, Recovery, RunOf, RunTypes

\* A look at the key.
LEMMA CheckExecFacts ==
    ASSUME TypeOK, NEW d \in Daemon, CheckExec(d)
    PROVE  /\ RunOf(d)
           /\ recovery'[d] # None /\ recovery'[d].at = "check"
           /\ recovery[d] # None /\ recovery[d].at = "check"
           /\ faults' \in 0..MaxFaults /\ (faults' = 0 => faults = 0)
           /\ UNCHANGED <<owner, boot, stopping, lease, refusal, pending, lapses>>
<1>1. PICK r \in {"yes", "no", "failed"} : recovery' = [recovery EXCEPT ![d].reply = r]
  BY DEF CheckExec
<1>2. recovery[d] # None /\ recovery[d].at = "check" /\ UNCHANGED state
  BY DEF CheckExec
<1>3. RunOf(d) /\ recovery'[d] # None /\ recovery'[d].at = "check"
  BY <1>1, <1>2, ReplyFacts
<1>4. faults' \in 0..MaxFaults /\ (faults' = 0 => faults = 0)
  BY ConstantsAssumption DEF CheckExec, TypeOK, Fault, NoFault
<1> QED
  BY <1>2, <1>3, <1>4 DEF CheckExec

\* A claim takes the key only if it is free, and then the reply says so, unless
\* it fails.
LEMMA ClaimExecFacts ==
    ASSUME TypeOK, NEW d \in Daemon, ClaimExec(d)
    PROVE  /\ RunOf(d)
           /\ recovery'[d] # None /\ recovery'[d].at = "claim"
           /\ recovery[d] # None /\ recovery[d].at = "claim" /\ recovery[d].reply = "none"
           /\ faults' \in 0..MaxFaults /\ (faults' = 0 => faults = 0)
           /\ \/ UNCHANGED owner
              \/ owner = None /\ owner' = d
           /\ owner' # owner /\ faults' = 0 => recovery'[d].reply = "yes"
           /\ UNCHANGED <<boot, stopping, lease, refusal, pending, lapses>>
<1>1. CASE /\ recovery' = [recovery EXCEPT ![d].reply = IF owner = None THEN "yes" ELSE "no"]
           /\ Claim(d) /\ NoFault
  <2>1. PICK r \in {"yes", "no", "failed"} :
          recovery' = [recovery EXCEPT ![d].reply = r] /\ (owner = None => r = "yes")
    BY <1>1
  <2> QED
    BY <1>1, <2>1, ReplyFacts DEF ClaimExec, TypeOK, Claim, NoFault
<1>2. CASE /\ recovery' = [recovery EXCEPT ![d].reply = "failed"]
           /\ Claim(d) \/ UNCHANGED owner
           /\ Fault
  <2>1. /\ RunOf(d)
        /\ recovery'[d] # None /\ recovery'[d].at = "claim"
        /\ recovery[d] # None /\ recovery[d].at = "claim" /\ recovery[d].reply = "none"
    BY <1>2, ReplyFacts DEF ClaimExec
  <2>2. faults' \in 0..MaxFaults /\ faults' # 0
    BY <1>2, ConstantsAssumption DEF TypeOK, Fault
  <2> QED
    BY <1>2, <2>1, <2>2 DEF ClaimExec, Claim
<1> QED
  BY <1>1, <1>2 DEF ClaimExec

\* The state is restored, or is not.
LEMMA RestoreFacts ==
    ASSUME TypeOK, RestoreIsFirst, NEW d \in Daemon, Restore(d)
    PROVE  /\ RunOf(d)
           /\ pending' \in [Daemon -> BOOLEAN]
           /\ recovery'[d] # None => recovery'[d].at \in {"check", "backoff"}
           /\ recovery'[d] # None \/ state'[d] \in {"draining", "stopped"}
           /\ UNCHANGED <<owned, notified>> \/ Regains(d) \/ (Loses(d) /\ recovery'[d] # None)
           /\ recovery[d] # None /\ recovery[d].at = "restore"
           /\ faults' \in 0..MaxFaults /\ (faults' = 0 => faults = 0)
           /\ UNCHANGED <<owner, boot, stopping, lifecycle, refusal, lapses>>
<1>0. /\ recovery[d] # None /\ recovery[d].at = "restore" /\ recovery[d].round = 1
      /\ faults' \in 0..MaxFaults /\ (faults' = 0 => faults = 0)
      /\ UNCHANGED <<owner, boot, stopping, lifecycle, refusal, lapses>>
  BY ConstantsAssumption DEF Restore, RestoreIsFirst, Fault, NoFault, TypeOK
<1>1. CASE /\ UNCHANGED <<owned, notified>> \/ Regains(d)
           /\ MoveTo(d, "check", 2) /\ UNCHANGED <<pending, state>>
  BY <1>0, <1>1, MoveFacts DEF TypeOK
<1>2. CASE /\ UNCHANGED <<owned, notified>> \/ Regains(d)
           /\ ~CanRecover(d) /\ RunEnds(d)
  BY <1>0, <1>2, EndFacts DEF First, CanRecover, RunOf
<1>3. CASE RunFails(d) /\ UNCHANGED <<owned, notified, pending>>
  BY <1>0, <1>3, FailFacts DEF TypeOK
<1>4. CASE RunFails(d) /\ Loses(d) /\ LossReported(d)
  BY <1>0, <1>4, FailFacts DEF LossReported, TypeOK
<1> QED
  BY <1>0, <1>1, <1>2, <1>3, <1>4 DEF Restore

\* The startup's restoring, done or failed.
LEMMA StartupWorkFacts ==
    ASSUME TypeOK, NEW d \in Daemon, StartupWork(d)
    PROVE  /\ RunOf(d)
           /\ pending' \in [Daemon -> BOOLEAN]
           /\ \/ UNCHANGED recovery
              \/ recovery[d] = None /\ recovery' = [recovery EXCEPT ![d] = First]
           /\ \/ UNCHANGED <<owned, notified>> /\ (recovery[d] # None => recovery'[d] # None)
              \/ Regains(d)
              \/ Loses(d) /\ (notified[d] \/ recovery'[d] # None
                                         \/ state'[d] \in {"draining", "stopped"})
           /\ boot[d] = "working"
           /\ \/ boot' = [boot EXCEPT ![d] = "listening"] /\ state[d] = "recovering"
              \/ boot' = [boot EXCEPT ![d] = "failing"]
           /\ faults' \in 0..MaxFaults /\ (faults' = 0 => faults = 0)
           /\ UNCHANGED <<owner, stopping, lifecycle, refusal, lapses>>
<1>0. /\ boot[d] = "working"
      /\ faults' \in 0..MaxFaults /\ (faults' = 0 => faults = 0)
      /\ UNCHANGED <<owner, stopping, lifecycle, refusal, lapses>>
  BY ConstantsAssumption DEF StartupWork, Fault, NoFault, TypeOK
<1>1. CASE /\ state[d] = "recovering"
           /\ state' = [state EXCEPT ![d] = "ready"]
           /\ boot' = [boot EXCEPT ![d] = "listening"]
           /\ UNCHANGED <<owned, notified>> \/ Regains(d)
           /\ UNCHANGED coordinator
  BY <1>0, <1>1 DEF TypeOK, RunOf, RunTypes, RuntimeState, coordinator
<1>2. CASE /\ boot' = [boot EXCEPT ![d] = "failing"]
           /\ UNCHANGED <<state, coordinator>>
           /\ UNCHANGED <<owned, notified>> \/ (Loses(d) /\ notified[d])
  BY <1>0, <1>2 DEF TypeOK, RunOf, RunTypes, coordinator
<1>3. CASE /\ boot' = [boot EXCEPT ![d] = "failing"]
           /\ Loses(d) /\ Request(d)
  <2>1. UNCHANGED recovery \/ (recovery[d] = None /\ recovery' = [recovery EXCEPT ![d] = First])
    BY <1>3 DEF Request, coordinator
  <2> QED
    BY <1>0, <1>3, <2>1, RequestFacts
<1> QED
  BY <1>0, <1>1, <1>2, <1>3 DEF StartupWork

\* A backoff ends with another first look, or with the run.
LEMMA BackoffFacts ==
    ASSUME TypeOK, NEW d \in Daemon, BackoffEnds(d)
    PROVE  /\ RunOf(d)
           /\ pending' \in [Daemon -> BOOLEAN]
           /\ recovery'[d] \in {None, First}
           /\ recovery'[d] # None \/ state'[d] \in {"draining", "stopped"}
           /\ recovery[d] # None /\ recovery[d].at = "backoff"
           /\ UNCHANGED <<owner, boot, stopping, lease, refusal, faults, lapses>>
<1>1. CASE ~CanRecover(d)
  BY <1>1, EndFacts DEF BackoffEnds, CanRecover, RunOf
<1>2. CASE CanRecover(d)
  BY <1>2, FirstFacts DEF BackoffEnds, CanRecover, TypeOK, RunOf, RunTypes, RuntimeState
<1> QED
  BY <1>1, <1>2

-----------------------------------------------------------------------------
(* Types *)


\* The types are kept, and the state is restored in the first round only.
LEMMA TypesKept ==
    ASSUME TypeOK, RestoreIsFirst, [Next]_vars
    PROVE  TypeOK' /\ RestoreIsFirst'
<1> USE ConstantsAssumption
    DEF TypeOK, RestoreIsFirst, Recovery, RuntimeState, Boot, lease, coordinator
<1>1. CASE UNCHANGED vars
  BY <1>1 DEF vars
<1>2. CASE KeyExpires
  BY <1>2 DEF KeyExpires
<1>3. ASSUME NEW d \in Daemon, Renew(d) PROVE TypeOK' /\ RestoreIsFirst'
  BY <1>3
  DEF Renew, Fault, NoFault
<1>4. ASSUME NEW d \in Daemon, RenewReply(d) PROVE TypeOK' /\ RestoreIsFirst'
  BY <1>4, RequestFacts
  DEF RenewReply, Loses, RunOf, RunTypes, First
<1>5. ASSUME NEW d \in Daemon, CheckExec(d) PROVE TypeOK' /\ RestoreIsFirst'
  BY <1>5, CheckExecFacts
  DEF RunOf, RunTypes, First
<1>6. ASSUME NEW d \in Daemon, CheckReply(d) PROVE TypeOK' /\ RestoreIsFirst'
  <2>1. TypeOK'
    <3>1. owned' \in [Daemon -> BOOLEAN] /\ notified' \in [Daemon -> BOOLEAN]
      BY <1>6, CheckReplyFacts, LeaseTypes
    <3>2. state' \in [Daemon -> RuntimeState] /\ recovery' \in [Daemon -> Recovery \cup {None}]
      BY <1>6, CheckReplyFacts DEF RunOf, RunTypes
    <3> QED
      BY <1>6, <3>1, <3>2, CheckReplyFacts
  <2>2. ASSUME NEW e \in Daemon, recovery'[e] # None, recovery'[e].at = "restore"
        PROVE  recovery'[e].round = 1
    BY <1>6, <2>2, CheckReplyFacts DEF RunOf
  <2> QED
    BY <2>1, <2>2
<1>7. ASSUME NEW d \in Daemon, ClaimExec(d) PROVE TypeOK' /\ RestoreIsFirst'
  BY <1>7, ClaimExecFacts
  DEF RunOf, RunTypes, First
<1>8. ASSUME NEW d \in Daemon, ClaimReply(d) PROVE TypeOK' /\ RestoreIsFirst'
  <2>1. TypeOK'
    <3>1. owned' \in [Daemon -> BOOLEAN] /\ notified' \in [Daemon -> BOOLEAN]
      BY <1>8, ClaimReplyFacts, LeaseTypes
    <3>2. state' \in [Daemon -> RuntimeState] /\ recovery' \in [Daemon -> Recovery \cup {None}]
      BY <1>8, ClaimReplyFacts DEF RunOf, RunTypes
    <3> QED
      BY <1>8, <3>1, <3>2, ClaimReplyFacts
  <2>2. ASSUME NEW e \in Daemon, recovery'[e] # None, recovery'[e].at = "restore"
        PROVE  recovery'[e].round = 1
    BY <1>8, <2>2, ClaimReplyFacts DEF RunOf
  <2> QED
    BY <2>1, <2>2
<1>9. ASSUME NEW d \in Daemon, ClaimCleanup(d) PROVE TypeOK' /\ RestoreIsFirst'
  BY <1>9, FailFacts
  DEF ClaimCleanup, Release, Contended, CanRecover, Fault, NoFault, RunOf, RunTypes, First
<1>10. ASSUME NEW d \in Daemon, Restore(d) PROVE TypeOK' /\ RestoreIsFirst'
  <2>1. TypeOK'
    <3>1. owned' \in [Daemon -> BOOLEAN] /\ notified' \in [Daemon -> BOOLEAN]
      BY <1>10, RestoreFacts, LeaseTypes
    <3>2. state' \in [Daemon -> RuntimeState] /\ recovery' \in [Daemon -> Recovery \cup {None}]
      BY <1>10, RestoreFacts DEF RunOf, RunTypes
    <3> QED
      BY <1>10, <3>1, <3>2, RestoreFacts
  <2>2. ASSUME NEW e \in Daemon, recovery'[e] # None, recovery'[e].at = "restore"
        PROVE  recovery'[e].round = 1
    BY <1>10, <2>2, RestoreFacts DEF RunOf
  <2> QED
    BY <2>1, <2>2
<1>11. ASSUME NEW d \in Daemon, BackoffEnds(d) PROVE TypeOK' /\ RestoreIsFirst'
  BY <1>11, BackoffFacts
  DEF First, RunOf, RunTypes
<1>12. ASSUME NEW d \in Daemon, AcquireExec(d) PROVE TypeOK' /\ RestoreIsFirst'
  BY <1>12
  DEF AcquireExec, Claim, Fault, NoFault
<1>13. ASSUME NEW d \in Daemon, AcquireReply(d) PROVE TypeOK' /\ RestoreIsFirst'
  BY <1>13
  DEF AcquireReply, Regains
<1>14. ASSUME NEW d \in Daemon, StartupWork(d) PROVE TypeOK' /\ RestoreIsFirst'
  <2>1. TypeOK'
    <3>1. owned' \in [Daemon -> BOOLEAN] /\ notified' \in [Daemon -> BOOLEAN]
      BY <1>14, StartupWorkFacts, LeaseTypes
    <3>2. state' \in [Daemon -> RuntimeState] /\ recovery' \in [Daemon -> Recovery \cup {None}]
      BY <1>14, StartupWorkFacts DEF RunOf, RunTypes
    <3>3. boot' \in [Daemon -> Boot]
      BY <1>14, StartupWorkFacts
    <3>4. pending' \in [Daemon -> BOOLEAN] /\ faults' \in 0..MaxFaults
          /\ UNCHANGED <<owner, stopping, lifecycle, refusal, lapses>>
      BY <1>14, StartupWorkFacts
    <3> QED
      BY <3>1, <3>2, <3>3, <3>4
  <2>2. ASSUME NEW e \in Daemon, recovery'[e] # None, recovery'[e].at = "restore"
        PROVE  recovery'[e].round = 1
    <3>1. CASE UNCHANGED recovery
      BY <2>2, <3>1
    <3>2. CASE recovery[d] = None /\ recovery' = [recovery EXCEPT ![d] = First]
      <4>1. recovery'[e] = recovery[e] \/ recovery'[e] = First
        BY <3>2 DEF TypeOK
      <4>2. CASE recovery'[e] = recovery[e]
        BY <2>2, <4>2
      <4>3. CASE recovery'[e] = First
        BY <2>2, <4>3 DEF First
      <4> QED BY <4>1, <4>2, <4>3
    <3> QED
      BY <1>14, <3>1, <3>2, StartupWorkFacts
  <2> QED
    BY <2>1, <2>2
<1>15. ASSUME NEW d \in Daemon, StartupListen(d) PROVE TypeOK' /\ RestoreIsFirst'
  BY <1>15
  DEF StartupListen, Fault, NoFault
<1>16. ASSUME NEW d \in Daemon, StartupRelease(d) PROVE TypeOK' /\ RestoreIsFirst'
  BY <1>16
  DEF StartupRelease, LifecycleEnds
<1>17. ASSUME NEW d \in Daemon, StartupFails(d) PROVE TypeOK' /\ RestoreIsFirst'
  BY <1>17
  DEF StartupFails, Release, Fault, NoFault
<1>18. ASSUME NEW d \in Daemon, ShutdownRelease(d) PROVE TypeOK' /\ RestoreIsFirst'
  BY <1>18
  DEF ShutdownRelease, LifecycleEnds
<1>19. ASSUME NEW d \in Daemon, ShutdownEnds(d) PROVE TypeOK' /\ RestoreIsFirst'
  BY <1>19
  DEF ShutdownEnds, Release, Fault, NoFault
<1>20. ASSUME NEW d \in Daemon, Disturbed(d) PROVE TypeOK' /\ RestoreIsFirst'
  BY <1>20, RequestFacts
  DEF Disturbed, Fault, RunOf, RunTypes, First
<1>21. ASSUME NEW d \in Daemon, Shutdown(d) PROVE TypeOK' /\ RestoreIsFirst'
  BY <1>21
  DEF Shutdown
<1>22. ASSUME NEW d \in Daemon, Crash(d) PROVE TypeOK' /\ RestoreIsFirst'
  BY <1>22
  DEF Crash
<1> QED
  BY <1>1, <1>2, <1>3, <1>4, <1>5, <1>6, <1>7, <1>8, <1>9, <1>10, <1>11,
     <1>12, <1>13, <1>14, <1>15, <1>16, <1>17, <1>18, <1>19, <1>20, <1>21, <1>22
  DEF Next, LeaseStep, RecoveryStep, BootStep, StopStep

\* What startup and shutdown say of the lifecycle goes on to hold.
LEMMA BootKept ==
    ASSUME TypeOK, RestoreIsFirst, BootOK, ClaimsOK, [Next]_vars
    PROVE  BootOK'
<1> USE DEF TypeOK, BootOK, ClaimsOK, CanRecover, lease, coordinator
<1>1. CASE UNCHANGED vars
  BY <1>1 DEF vars
<1>2. CASE KeyExpires
  BY <1>2 DEF KeyExpires
<1>3. ASSUME NEW d \in Daemon, Renew(d) PROVE BootOK'
  BY <1>3
  DEF Renew, Fault, NoFault
<1>4. ASSUME NEW d \in Daemon, RenewReply(d) PROVE BootOK'
  BY <1>4, RequestFacts
  DEF RenewReply, Loses, RunOf, RunTypes, First
<1>5. ASSUME NEW d \in Daemon, CheckExec(d) PROVE BootOK'
  BY <1>5, CheckExecFacts
  DEF RunOf, RunTypes, First
<1>6. ASSUME NEW d \in Daemon, CheckReply(d) PROVE BootOK'
  BY <1>6, CheckReplyFacts
  DEF Regains, Loses, RunOf, RunTypes, First
<1>7. ASSUME NEW d \in Daemon, ClaimExec(d) PROVE BootOK'
  BY <1>7, ClaimExecFacts
  DEF RunOf, RunTypes, First
<1>8. ASSUME NEW d \in Daemon, ClaimReply(d) PROVE BootOK'
  BY <1>8, ClaimReplyFacts
  DEF Regains, Loses, RunOf, RunTypes, First
<1>9. ASSUME NEW d \in Daemon, ClaimCleanup(d) PROVE BootOK'
  BY <1>9, FailFacts
  DEF ClaimCleanup, Release, Contended, CanRecover, Fault, NoFault, RunOf, RunTypes, First
<1>10. ASSUME NEW d \in Daemon, Restore(d) PROVE BootOK'
  BY <1>10, RestoreFacts
  DEF Regains, Loses, RunOf, RunTypes, First
<1>11. ASSUME NEW d \in Daemon, BackoffEnds(d) PROVE BootOK'
  BY <1>11, BackoffFacts
  DEF First, RunOf, RunTypes
<1>12. ASSUME NEW d \in Daemon, AcquireExec(d) PROVE BootOK'
  BY <1>12
  DEF AcquireExec, Claim, Fault, NoFault
<1>13. ASSUME NEW d \in Daemon, AcquireReply(d) PROVE BootOK'
  BY <1>13
  DEF AcquireReply, Regains
<1>14. ASSUME NEW d \in Daemon, StartupWork(d) PROVE BootOK'
  BY <1>14, StartupWorkFacts
  DEF Regains, Loses, RunOf, RunTypes, First
<1>15. ASSUME NEW d \in Daemon, StartupListen(d) PROVE BootOK'
  BY <1>15
  DEF StartupListen, Fault, NoFault
<1>16. ASSUME NEW d \in Daemon, StartupRelease(d) PROVE BootOK'
  BY <1>16
  DEF StartupRelease, LifecycleEnds
<1>17. ASSUME NEW d \in Daemon, StartupFails(d) PROVE BootOK'
  BY <1>17
  DEF StartupFails, Release, Fault, NoFault
<1>18. ASSUME NEW d \in Daemon, ShutdownRelease(d) PROVE BootOK'
  BY <1>18
  DEF ShutdownRelease, LifecycleEnds
<1>19. ASSUME NEW d \in Daemon, ShutdownEnds(d) PROVE BootOK'
  BY <1>19
  DEF ShutdownEnds, Release, Fault, NoFault
<1>20. ASSUME NEW d \in Daemon, Disturbed(d) PROVE BootOK'
  BY <1>20, RequestFacts
  DEF Disturbed, Fault, RunOf, RunTypes, First
<1>21. ASSUME NEW d \in Daemon, Shutdown(d) PROVE BootOK'
  BY <1>21
  DEF Shutdown
<1>22. ASSUME NEW d \in Daemon, Crash(d) PROVE BootOK'
  BY <1>22
  DEF Crash
<1> QED
  BY <1>1, <1>2, <1>3, <1>4, <1>5, <1>6, <1>7, <1>8, <1>9, <1>10, <1>11,
     <1>12, <1>13, <1>14, <1>15, <1>16, <1>17, <1>18, <1>19, <1>20, <1>21, <1>22
  DEF Next, LeaseStep, RecoveryStep, BootStep, StopStep

\* What recoveries claim and give back stays within bounds.
LEMMA ClaimsKept ==
    ASSUME TypeOK, RestoreIsFirst, BootOK, ClaimsOK, [Next]_vars
    PROVE  ClaimsOK'
<1> USE ConstantsAssumption
    DEF TypeOK, BootOK, ClaimsOK, CanRecover, lease, coordinator
<1>1. CASE UNCHANGED vars
  BY <1>1 DEF vars
<1>2. CASE KeyExpires
  BY <1>2 DEF KeyExpires
<1>3. ASSUME NEW d \in Daemon, Renew(d) PROVE ClaimsOK'
  BY <1>3
  DEF Renew, Fault, NoFault
<1>4. ASSUME NEW d \in Daemon, RenewReply(d) PROVE ClaimsOK'
  BY <1>4, RequestFacts
  DEF RenewReply, Loses, RunOf, RunTypes, First
<1>5. ASSUME NEW d \in Daemon, CheckExec(d) PROVE ClaimsOK'
  BY <1>5, CheckExecFacts
  DEF RunOf, RunTypes, First
<1>6. ASSUME NEW d \in Daemon, CheckReply(d) PROVE ClaimsOK'
  BY <1>6, CheckReplyFacts
  DEF Regains, Loses, RunOf, RunTypes, First
<1>7. ASSUME NEW d \in Daemon, ClaimExec(d) PROVE ClaimsOK'
  BY <1>7, ClaimExecFacts
  DEF RunOf, RunTypes, First
<1>8. ASSUME NEW d \in Daemon, ClaimReply(d) PROVE ClaimsOK'
  BY <1>8, ClaimReplyFacts
  DEF Regains, Loses, RunOf, RunTypes, First
<1>9. ASSUME NEW d \in Daemon, ClaimCleanup(d) PROVE ClaimsOK'
  BY <1>9, FailFacts
  DEF ClaimCleanup, Release, Contended, CanRecover, Fault, NoFault, RunOf, RunTypes, First
<1>10. ASSUME NEW d \in Daemon, Restore(d) PROVE ClaimsOK'
  BY <1>10, RestoreFacts
  DEF Regains, Loses, RunOf, RunTypes, First
<1>11. ASSUME NEW d \in Daemon, BackoffEnds(d) PROVE ClaimsOK'
  BY <1>11, BackoffFacts
  DEF First, RunOf, RunTypes
<1>12. ASSUME NEW d \in Daemon, AcquireExec(d) PROVE ClaimsOK'
  BY <1>12
  DEF AcquireExec, Claim, Fault, NoFault
<1>13. ASSUME NEW d \in Daemon, AcquireReply(d) PROVE ClaimsOK'
  BY <1>13
  DEF AcquireReply, Regains
<1>14. ASSUME NEW d \in Daemon, StartupWork(d) PROVE ClaimsOK'
  BY <1>14, StartupWorkFacts
  DEF Regains, Loses, RunOf, RunTypes, First
<1>15. ASSUME NEW d \in Daemon, StartupListen(d) PROVE ClaimsOK'
  BY <1>15
  DEF StartupListen, Fault, NoFault
<1>16. ASSUME NEW d \in Daemon, StartupRelease(d) PROVE ClaimsOK'
  BY <1>16
  DEF StartupRelease, LifecycleEnds
<1>17. ASSUME NEW d \in Daemon, StartupFails(d) PROVE ClaimsOK'
  BY <1>17
  DEF StartupFails, Release, Fault, NoFault
<1>18. ASSUME NEW d \in Daemon, ShutdownRelease(d) PROVE ClaimsOK'
  BY <1>18
  DEF ShutdownRelease, LifecycleEnds
<1>19. ASSUME NEW d \in Daemon, ShutdownEnds(d) PROVE ClaimsOK'
  BY <1>19
  DEF ShutdownEnds, Release, Fault, NoFault
<1>20. ASSUME NEW d \in Daemon, Disturbed(d) PROVE ClaimsOK'
  BY <1>20, RequestFacts
  DEF Disturbed, Fault, RunOf, RunTypes, First
<1>21. ASSUME NEW d \in Daemon, Shutdown(d) PROVE ClaimsOK'
  BY <1>21
  DEF Shutdown
<1>22. ASSUME NEW d \in Daemon, Crash(d) PROVE ClaimsOK'
  BY <1>22
  DEF Crash
<1> QED
  BY <1>1, <1>2, <1>3, <1>4, <1>5, <1>6, <1>7, <1>8, <1>9, <1>10, <1>11,
     <1>12, <1>13, <1>14, <1>15, <1>16, <1>17, <1>18, <1>19, <1>20, <1>21, <1>22
  DEF Next, LeaseStep, RecoveryStep, BootStep, StopStep

\* Until a key lapses, its daemon keeps it.
LEMMA OwnerStays ==
    ASSUME TypeOK, RestoreIsFirst, BootOK, ClaimsOK, OwnerKept, [Next]_vars
    PROVE  OwnerKept'
<1> USE ConstantsAssumption
    DEF TypeOK, BootOK, ClaimsOK, OwnerKept, lease, coordinator
<1>1. CASE UNCHANGED vars
  BY <1>1 DEF vars
<1>2. CASE KeyExpires
  BY <1>2 DEF KeyExpires
<1>3. ASSUME NEW d \in Daemon, Renew(d) PROVE OwnerKept'
  BY <1>3
  DEF Renew, Fault, NoFault
<1>4. ASSUME NEW d \in Daemon, RenewReply(d) PROVE OwnerKept'
  BY <1>4, RequestFacts
  DEF RenewReply, Loses, RunOf, RunTypes, First
<1>5. ASSUME NEW d \in Daemon, CheckExec(d) PROVE OwnerKept'
  BY <1>5, CheckExecFacts
  DEF RunOf, RunTypes, First
<1>6. ASSUME NEW d \in Daemon, CheckReply(d) PROVE OwnerKept'
  BY <1>6, CheckReplyFacts
  DEF Regains, Loses, RunOf, RunTypes, First
<1>7. ASSUME NEW d \in Daemon, ClaimExec(d) PROVE OwnerKept'
  BY <1>7, ClaimExecFacts
  DEF RunOf, RunTypes, First
<1>8. ASSUME NEW d \in Daemon, ClaimReply(d) PROVE OwnerKept'
  BY <1>8, ClaimReplyFacts
  DEF Regains, Loses, RunOf, RunTypes, First
<1>9. ASSUME NEW d \in Daemon, ClaimCleanup(d) PROVE OwnerKept'
  BY <1>9, FailFacts
  DEF ClaimCleanup, Release, Contended, CanRecover, Fault, NoFault, RunOf, RunTypes, First
<1>10. ASSUME NEW d \in Daemon, Restore(d) PROVE OwnerKept'
  BY <1>10, RestoreFacts
  DEF Regains, Loses, RunOf, RunTypes, First
<1>11. ASSUME NEW d \in Daemon, BackoffEnds(d) PROVE OwnerKept'
  BY <1>11, BackoffFacts
  DEF First, RunOf, RunTypes
<1>12. ASSUME NEW d \in Daemon, AcquireExec(d) PROVE OwnerKept'
  BY <1>12
  DEF AcquireExec, Claim, Fault, NoFault
<1>13. ASSUME NEW d \in Daemon, AcquireReply(d) PROVE OwnerKept'
  BY <1>13
  DEF AcquireReply, Regains
<1>14. ASSUME NEW d \in Daemon, StartupWork(d) PROVE OwnerKept'
  BY <1>14, StartupWorkFacts
  DEF Regains, Loses, RunOf, RunTypes, First
<1>15. ASSUME NEW d \in Daemon, StartupListen(d) PROVE OwnerKept'
  BY <1>15
  DEF StartupListen, Fault, NoFault
<1>16. ASSUME NEW d \in Daemon, StartupRelease(d) PROVE OwnerKept'
  BY <1>16
  DEF StartupRelease, LifecycleEnds
<1>17. ASSUME NEW d \in Daemon, StartupFails(d) PROVE OwnerKept'
  BY <1>17
  DEF StartupFails, Release, Fault, NoFault
<1>18. ASSUME NEW d \in Daemon, ShutdownRelease(d) PROVE OwnerKept'
  BY <1>18
  DEF ShutdownRelease, LifecycleEnds
<1>19. ASSUME NEW d \in Daemon, ShutdownEnds(d) PROVE OwnerKept'
  BY <1>19
  DEF ShutdownEnds, Release, Fault, NoFault
<1>20. ASSUME NEW d \in Daemon, Disturbed(d) PROVE OwnerKept'
  BY <1>20, RequestFacts
  DEF Disturbed, Fault, RunOf, RunTypes, First
<1>21. ASSUME NEW d \in Daemon, Shutdown(d) PROVE OwnerKept'
  BY <1>21
  DEF Shutdown
<1>22. ASSUME NEW d \in Daemon, Crash(d) PROVE OwnerKept'
  BY <1>22
  DEF Crash
<1> QED
  BY <1>1, <1>2, <1>3, <1>4, <1>5, <1>6, <1>7, <1>8, <1>9, <1>10, <1>11,
     <1>12, <1>13, <1>14, <1>15, <1>16, <1>17, <1>18, <1>19, <1>20, <1>21, <1>22
  DEF Next, LeaseStep, RecoveryStep, BootStep, StopStep

\* A loss is noted, and who has noted it recovers.
LEMMA LossesKept ==
    ASSUME TypeOK, RestoreIsFirst, BootOK, LossNoted, LossIsRecovered, [Next]_vars
    PROVE  LossNoted' /\ LossIsRecovered'
<1> USE DEF TypeOK, BootOK, LossNoted, LossIsRecovered, CanRecover, lease, coordinator
<1>1. CASE UNCHANGED vars
  BY <1>1 DEF vars
<1>2. CASE KeyExpires
  BY <1>2 DEF KeyExpires
<1>3. ASSUME NEW d \in Daemon, Renew(d) PROVE LossNoted' /\ LossIsRecovered'
  BY <1>3
  DEF Renew, Fault, NoFault
<1>4. ASSUME NEW d \in Daemon, RenewReply(d) PROVE LossNoted' /\ LossIsRecovered'
  BY <1>4, RequestFacts
  DEF RenewReply, Loses, RunOf, RunTypes, First
<1>5. ASSUME NEW d \in Daemon, CheckExec(d) PROVE LossNoted' /\ LossIsRecovered'
  BY <1>5, CheckExecFacts
  DEF RunOf, RunTypes, First
<1>6. ASSUME NEW d \in Daemon, CheckReply(d) PROVE LossNoted' /\ LossIsRecovered'
  BY <1>6, CheckReplyFacts
  DEF Regains, Loses, RunOf, RunTypes, First
<1>7. ASSUME NEW d \in Daemon, ClaimExec(d) PROVE LossNoted' /\ LossIsRecovered'
  BY <1>7, ClaimExecFacts
  DEF RunOf, RunTypes, First
<1>8. ASSUME NEW d \in Daemon, ClaimReply(d) PROVE LossNoted' /\ LossIsRecovered'
  BY <1>8, ClaimReplyFacts
  DEF Regains, Loses, RunOf, RunTypes, First
<1>9. ASSUME NEW d \in Daemon, ClaimCleanup(d) PROVE LossNoted' /\ LossIsRecovered'
  BY <1>9, FailFacts
  DEF ClaimCleanup, Release, Contended, CanRecover, Fault, NoFault, RunOf, RunTypes, First
<1>10. ASSUME NEW d \in Daemon, Restore(d) PROVE LossNoted' /\ LossIsRecovered'
  BY <1>10, RestoreFacts
  DEF Regains, Loses, RunOf, RunTypes, First
<1>11. ASSUME NEW d \in Daemon, BackoffEnds(d) PROVE LossNoted' /\ LossIsRecovered'
  BY <1>11, BackoffFacts
  DEF First, RunOf, RunTypes
<1>12. ASSUME NEW d \in Daemon, AcquireExec(d) PROVE LossNoted' /\ LossIsRecovered'
  BY <1>12
  DEF AcquireExec, Claim, Fault, NoFault
<1>13. ASSUME NEW d \in Daemon, AcquireReply(d) PROVE LossNoted' /\ LossIsRecovered'
  BY <1>13
  DEF AcquireReply, Regains
<1>14. ASSUME NEW d \in Daemon, StartupWork(d) PROVE LossNoted' /\ LossIsRecovered'
  BY <1>14, StartupWorkFacts
  DEF Regains, Loses, RunOf, RunTypes, First
<1>15. ASSUME NEW d \in Daemon, StartupListen(d) PROVE LossNoted' /\ LossIsRecovered'
  BY <1>15
  DEF StartupListen, Fault, NoFault
<1>16. ASSUME NEW d \in Daemon, StartupRelease(d) PROVE LossNoted' /\ LossIsRecovered'
  BY <1>16
  DEF StartupRelease, LifecycleEnds
<1>17. ASSUME NEW d \in Daemon, StartupFails(d) PROVE LossNoted' /\ LossIsRecovered'
  BY <1>17
  DEF StartupFails, Release, Fault, NoFault
<1>18. ASSUME NEW d \in Daemon, ShutdownRelease(d) PROVE LossNoted' /\ LossIsRecovered'
  BY <1>18
  DEF ShutdownRelease, LifecycleEnds
<1>19. ASSUME NEW d \in Daemon, ShutdownEnds(d) PROVE LossNoted' /\ LossIsRecovered'
  BY <1>19
  DEF ShutdownEnds, Release, Fault, NoFault
<1>20. ASSUME NEW d \in Daemon, Disturbed(d) PROVE LossNoted' /\ LossIsRecovered'
  BY <1>20, RequestFacts
  DEF Disturbed, Fault, RunOf, RunTypes, First
<1>21. ASSUME NEW d \in Daemon, Shutdown(d) PROVE LossNoted' /\ LossIsRecovered'
  BY <1>21
  DEF Shutdown
<1>22. ASSUME NEW d \in Daemon, Crash(d) PROVE LossNoted' /\ LossIsRecovered'
  BY <1>22
  DEF Crash
<1> QED
  BY <1>1, <1>2, <1>3, <1>4, <1>5, <1>6, <1>7, <1>8, <1>9, <1>10, <1>11,
     <1>12, <1>13, <1>14, <1>15, <1>16, <1>17, <1>18, <1>19, <1>20, <1>21, <1>22
  DEF Next, LeaseStep, RecoveryStep, BootStep, StopStep

\* No key is orphaned.
LEMMA OrphansKept ==
    ASSUME TypeOK, RestoreIsFirst, NoOrphanedKey, [Next]_vars
    PROVE  NoOrphanedKey'
<1> USE ConstantsAssumption
    DEF TypeOK, NoOrphanedKey, lease, coordinator
<1>1. CASE UNCHANGED vars
  BY <1>1 DEF vars
<1>2. CASE KeyExpires
  BY <1>2 DEF KeyExpires
<1>3. ASSUME NEW d \in Daemon, Renew(d) PROVE NoOrphanedKey'
  BY <1>3
  DEF Renew, Fault, NoFault
<1>4. ASSUME NEW d \in Daemon, RenewReply(d) PROVE NoOrphanedKey'
  BY <1>4, RequestFacts
  DEF RenewReply, Loses, RunOf, RunTypes, First
<1>5. ASSUME NEW d \in Daemon, CheckExec(d) PROVE NoOrphanedKey'
  BY <1>5, CheckExecFacts
  DEF RunOf, RunTypes, First
<1>6. ASSUME NEW d \in Daemon, CheckReply(d) PROVE NoOrphanedKey'
  BY <1>6, CheckReplyFacts
  DEF Regains, Loses, RunOf, RunTypes, First
<1>7. ASSUME NEW d \in Daemon, ClaimExec(d) PROVE NoOrphanedKey'
  BY <1>7, ClaimExecFacts
  DEF RunOf, RunTypes, First
<1>8. ASSUME NEW d \in Daemon, ClaimReply(d) PROVE NoOrphanedKey'
  BY <1>8, ClaimReplyFacts
  DEF Regains, Loses, RunOf, RunTypes, First
<1>9. ASSUME NEW d \in Daemon, ClaimCleanup(d) PROVE NoOrphanedKey'
  BY <1>9, FailFacts
  DEF ClaimCleanup, Release, Contended, CanRecover, Fault, NoFault, RunOf, RunTypes, First
<1>10. ASSUME NEW d \in Daemon, Restore(d) PROVE NoOrphanedKey'
  BY <1>10, RestoreFacts
  DEF Regains, Loses, RunOf, RunTypes, First
<1>11. ASSUME NEW d \in Daemon, BackoffEnds(d) PROVE NoOrphanedKey'
  BY <1>11, BackoffFacts
  DEF First, RunOf, RunTypes
<1>12. ASSUME NEW d \in Daemon, AcquireExec(d) PROVE NoOrphanedKey'
  BY <1>12
  DEF AcquireExec, Claim, Fault, NoFault
<1>13. ASSUME NEW d \in Daemon, AcquireReply(d) PROVE NoOrphanedKey'
  BY <1>13
  DEF AcquireReply, Regains
<1>14. ASSUME NEW d \in Daemon, StartupWork(d) PROVE NoOrphanedKey'
  BY <1>14, StartupWorkFacts
  DEF Regains, Loses, RunOf, RunTypes, First
<1>15. ASSUME NEW d \in Daemon, StartupListen(d) PROVE NoOrphanedKey'
  BY <1>15
  DEF StartupListen, Fault, NoFault
<1>16. ASSUME NEW d \in Daemon, StartupRelease(d) PROVE NoOrphanedKey'
  BY <1>16
  DEF StartupRelease, LifecycleEnds
<1>17. ASSUME NEW d \in Daemon, StartupFails(d) PROVE NoOrphanedKey'
  BY <1>17
  DEF StartupFails, Release, Fault, NoFault
<1>18. ASSUME NEW d \in Daemon, ShutdownRelease(d) PROVE NoOrphanedKey'
  BY <1>18
  DEF ShutdownRelease, LifecycleEnds
<1>19. ASSUME NEW d \in Daemon, ShutdownEnds(d) PROVE NoOrphanedKey'
  BY <1>19
  DEF ShutdownEnds, Release, Fault, NoFault
<1>20. ASSUME NEW d \in Daemon, Disturbed(d) PROVE NoOrphanedKey'
  BY <1>20, RequestFacts
  DEF Disturbed, Fault, RunOf, RunTypes, First
<1>21. ASSUME NEW d \in Daemon, Shutdown(d) PROVE NoOrphanedKey'
  BY <1>21
  DEF Shutdown
<1>22. ASSUME NEW d \in Daemon, Crash(d) PROVE NoOrphanedKey'
  BY <1>22
  DEF Crash
<1> QED
  BY <1>1, <1>2, <1>3, <1>4, <1>5, <1>6, <1>7, <1>8, <1>9, <1>10, <1>11,
     <1>12, <1>13, <1>14, <1>15, <1>16, <1>17, <1>18, <1>19, <1>20, <1>21, <1>22
  DEF Next, LeaseStep, RecoveryStep, BootStep, StopStep

-----------------------------------------------------------------------------
(* The inductive invariant *)

LEMMA InitInvariant == Init => IInv
<1> SUFFICES ASSUME Init PROVE IInv
  OBVIOUS
<1> USE ConstantsAssumption DEF Init
<1>1. TypeOK
  BY DEF TypeOK, RuntimeState, Boot
<1>2. RestoreIsFirst /\ ClaimsOK
  BY DEF RestoreIsFirst, ClaimsOK
<1>3. BootOK /\ OwnerKept
  BY DEF BootOK, OwnerKept
<1>4. LossNoted /\ LossIsRecovered
  BY DEF LossNoted, LossIsRecovered
<1>5. NoOrphanedKey
  BY DEF NoOrphanedKey
<1> QED
  BY <1>1, <1>2, <1>3, <1>4, <1>5 DEF IInv

LEMMA StepInvariant == IInv /\ [Next]_vars => IInv'
BY TypesKept, BootKept, ClaimsKept, OwnerStays, LossesKept, OrphansKept DEF IInv

THEOREM Invariant == Spec => []IInv
BY InitInvariant, StepInvariant, PTL DEF Spec

-----------------------------------------------------------------------------
(* What a reader should know of *)

\* Every behaviour keeps the types.
THEOREM TypeCorrect == Spec => []TypeOK
<1>1. IInv => TypeOK
  BY DEF IInv
<1> QED
  BY <1>1, Invariant, PTL

\* As long as no key has lapsed, an active daemon is the owner: its startup and
\* shutdown say that its lifecycle goes on, and within it the key is kept.
THEOREM ActiveOwnerCorrect == Spec => []ActiveIsOwner
<1>1. IInv => ActiveIsOwner
  <2> SUFFICES ASSUME IInv, lapses = 0, NEW d \in Daemon, Active(d)
               PROVE  owner = d
    BY DEF ActiveIsOwner
  <2>1. stopping[d] = "no"
    BY DEF IInv, BootOK, Active, CanRecover
  <2>2. lifecycle[d]
    BY <2>1 DEF IInv, BootOK, Active
  <2> QED
    BY <2>2 DEF IInv, OwnerKept
<1> QED
  BY <1>1, Invariant, PTL

\* Whoever knows its key to be lost recovers.
THEOREM LossRecoveryCorrect == Spec => []LossIsRecovered
<1>1. IInv => LossIsRecovered
  BY DEF IInv
<1> QED
  BY <1>1, Invariant, PTL

\* No key is stored that its daemon will neither renew nor delete.
THEOREM OrphanCorrect == Spec => []NoOrphanedKey
<1>1. IInv => NoOrphanedKey
  BY DEF IInv
<1> QED
  BY <1>1, Invariant, PTL

\* Every step leaves a key with its owner or frees it.
LEMMA TakeoverStep ==
    ASSUME TypeOK, [Next]_vars, owner # None, owner' # owner
    PROVE  owner' = None
<1>1. CASE UNCHANGED vars
  BY <1>1 DEF vars
<1>2. CASE KeyExpires
  BY <1>2 DEF KeyExpires
<1>3. ASSUME NEW d \in Daemon, LeaseStep(d) PROVE owner' = None
  BY <1>3 DEF LeaseStep, Renew, RenewReply
<1>4. ASSUME NEW d \in Daemon, RecoveryStep(d) PROVE owner' = None
  BY <1>4
  DEF RecoveryStep, CheckExec, CheckReply, ClaimExec, ClaimReply, ClaimCleanup, Restore,
      BackoffEnds, Claim, Release
<1>5. ASSUME NEW d \in Daemon, BootStep(d) PROVE owner' = None
  BY <1>5
  DEF BootStep, AcquireExec, AcquireReply, StartupWork, StartupListen, StartupRelease,
      StartupFails, Claim, Release
<1>6. ASSUME NEW d \in Daemon, StopStep(d) PROVE owner' = None
  BY <1>6 DEF StopStep, ShutdownRelease, ShutdownEnds, Release
<1>7. ASSUME NEW d \in Daemon, Disturbed(d) \/ Shutdown(d) \/ Crash(d) PROVE owner' = None
  BY <1>7 DEF Disturbed, Shutdown, Crash
<1> QED
  BY <1>1, <1>2, <1>3, <1>4, <1>5, <1>6, <1>7 DEF Next

\* Nobody takes a key over.
THEOREM TakeoverCorrect == Spec => NoTakeover
<1>1. TypeOK /\ [Next]_vars => [owner # None /\ owner' # owner => owner' = None]_vars
  BY TakeoverStep
<1> QED
  BY <1>1, TypeCorrect, PTL DEF Spec, NoTakeover

=============================================================================
