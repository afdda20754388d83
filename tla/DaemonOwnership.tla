--------------------------- MODULE DaemonOwnership ---------------------------
(***************************************************************************)
(* The owner key of the runtime, the daemons that contend for it, and what *)
(* each of them does when it loses it: the lease with its renewal timer,   *)
(* the recovery coordinator and cycle, startup and draining shutdown.      *)
(*                                                                         *)
(* A daemon is one process with one owner token.  A command to Redis is    *)
(* one step, what the daemon does with the reply another.  The code        *)
(* between two awaits is one step.  The lifecycle generation of the lease  *)
(* is left out: a runtime acquires once, so it says what lifecycle says.   *)
(***************************************************************************)
EXTENDS Naturals

CONSTANTS
    Daemon,      \* daemon processes
    MaxFaults,   \* bound: commands that fail, and errors of the connections
    MaxLapses,   \* bound: times the key of a running daemon outlives its renewal
    None         \* no owner, no command in flight, no recovery

RuntimeState == {"starting", "recovering", "ready", "degraded", "draining", "stopped"}

Boot == {"off", "won", "working", "listening", "up",
         "failing", "releasing", "failed", "crashed"}

\* A recovery: in one of its two looks at the ownership (the second comes after
\* the state was restored), claiming, taking back a claim that came too late,
\* restoring or backing off; with the reply to the command it waits for.
Recovery ==
    [at: {"check", "claim", "cleanup", "restore", "backoff"}, round: 1..2,
     reply: {"none", "yes", "no", "failed"}]

ASSUME ConstantsAssumption ==
    /\ MaxFaults \in Nat
    /\ MaxLapses \in Nat
    /\ None \notin Daemon
    /\ None \notin Recovery

VARIABLES
    owner,      \* the daemon whose token is stored
    state,      \* per daemon: its readiness
    boot,       \* per daemon: how far its startup is
    stopping,   \* per daemon: how far its draining shutdown is
    lifecycle,  \* per daemon: between acquire and release; the renewal timer runs
    owned,      \* per daemon: it believes that it owns the key
    notified,   \* per daemon: the loss of the key was reported
    refusal,    \* per daemon: a renewal did not renew, and the reply is under way
    pending,    \* per daemon: a recovery was requested
    recovery,   \* per daemon: the recovery that runs
    faults,     \* failures so far
    lapses      \* keys of running daemons that expired so far

lease == <<lifecycle, owned, notified>>
coordinator == <<pending, recovery>>
vars == <<owner, state, boot, stopping, lease, refusal, coordinator, faults, lapses>>

Init ==
    /\ owner = None
    /\ state = [d \in Daemon |-> "starting"]
    /\ boot = [d \in Daemon |-> "off"]
    /\ stopping = [d \in Daemon |-> "no"]
    /\ lifecycle = [d \in Daemon |-> FALSE]
    /\ owned = [d \in Daemon |-> FALSE]
    /\ notified = [d \in Daemon |-> FALSE]
    /\ refusal = [d \in Daemon |-> FALSE]
    /\ pending = [d \in Daemon |-> FALSE]
    /\ recovery = [d \in Daemon |-> None]
    /\ faults = 0
    /\ lapses = 0

Fault == faults < MaxFaults /\ faults' = faults + 1
NoFault == UNCHANGED faults

-----------------------------------------------------------------------------
(* The owner key *)

\* SET NX PX.
Claim(d) == owner' = IF owner = None THEN d ELSE owner

\* Mutant: DEL without comparing the token.
ReleaseAny(d) == owner' = None

\* The compare-token script of release.
Release(d) == owner' = IF owner = d THEN None ELSE owner

\* The time to live runs out: of a key whose daemon renews it no more, or whose
\* daemon was kept from renewing it in time.
KeyExpires ==
    /\ owner # None
    /\ IF lifecycle[owner] \/ boot[owner] = "won"
       THEN lapses < MaxLapses /\ lapses' = lapses + 1
       ELSE UNCHANGED lapses
    /\ owner' = None
    /\ UNCHANGED <<state, boot, stopping, lease, refusal, coordinator, faults>>

-----------------------------------------------------------------------------
(* The recovery coordinator *)

CanRecover(d) == state[d] \notin {"draining", "stopped"}

First == [at |-> "check", round |-> 1, reply |-> "none"]

\* A run degrades the runtime and begins at once to recover it.
Recovering(s) == IF s \in {"ready", "recovering", "degraded"} THEN "recovering" ELSE s
Degraded(s) == IF s \in {"ready", "recovering"} THEN "degraded" ELSE s

Request(d) ==
    IF ~CanRecover(d) THEN UNCHANGED <<state, coordinator>>
    ELSE IF recovery[d] # None
         THEN pending' = [pending EXCEPT ![d] = TRUE] /\ UNCHANGED <<state, recovery>>
         ELSE /\ pending' = [pending EXCEPT ![d] = FALSE]
              /\ recovery' = [recovery EXCEPT ![d] = First]
              /\ state' = [state EXCEPT ![d] = Recovering(@)]

\* Mutant: what was requested during a run is forgotten.
RunEndsForgetful(d) ==
    /\ recovery' = [recovery EXCEPT ![d] = None]
    /\ pending' = [pending EXCEPT ![d] = FALSE]
    /\ UNCHANGED state

\* A run is over: another one follows if it was requested meanwhile.
RunEnds(d) ==
    IF pending[d] /\ CanRecover(d)
    THEN /\ pending' = [pending EXCEPT ![d] = FALSE]
         /\ recovery' = [recovery EXCEPT ![d] = First]
         /\ state' = [state EXCEPT ![d] = Recovering(@)]
    ELSE recovery' = [recovery EXCEPT ![d] = None] /\ UNCHANGED <<pending, state>>

\* A run fails: it waits and begins again.
RunFails(d) ==
    /\ recovery' = [recovery EXCEPT ![d] = [First EXCEPT !.at = "backoff"]]
    /\ state' = [state EXCEPT ![d] = Degraded(@)]

MoveTo(d, at, round) ==
    recovery' = [recovery EXCEPT ![d] = [at |-> at, round |-> round, reply |-> "none"]]

\* The ownership is sure.  Before the state is restored, that comes next; after
\* it, the runtime is ready, or recovers once more if that was requested.
RunContinues(d) ==
    IF ~CanRecover(d) \/ (recovery[d].round = 2 /\ pending[d]) THEN RunEnds(d)
    ELSE IF recovery[d].round = 1
         THEN MoveTo(d, "restore", 1) /\ UNCHANGED <<pending, state>>
         ELSE IF state[d] = "recovering"
              THEN /\ state' = [state EXCEPT ![d] = "ready"]
                   /\ recovery' = [recovery EXCEPT ![d] = None]
                   /\ UNCHANGED pending
              ELSE RunFails(d) /\ UNCHANGED pending

\* Another owner: the runtime drains, and the run is over.
Contended(d) ==
    /\ state' = [state EXCEPT ![d] = IF CanRecover(d) THEN "draining" ELSE @]
    /\ stopping' = [stopping EXCEPT ![d] = IF @ = "no" THEN "draining" ELSE @]
    /\ recovery' = [recovery EXCEPT ![d] = None]

-----------------------------------------------------------------------------
(* The lease *)

\* Mutant: the loss that was reported once is not reported again.
RegainsQuietly(d) == owned' = [owned EXCEPT ![d] = TRUE] /\ UNCHANGED notified

Regains(d) ==
    /\ owned' = [owned EXCEPT ![d] = TRUE]
    /\ notified' = [notified EXCEPT ![d] = FALSE]

Loses(d) ==
    /\ owned' = [owned EXCEPT ![d] = FALSE]
    /\ notified' = [notified EXCEPT ![d] = TRUE]

\* The report of a loss to a coordinator whose run is active.
LossReported(d) ==
    pending' = [pending EXCEPT ![d] = @ \/ (~notified[d] /\ CanRecover(d))]

\* The renewal timer fires, and the script runs.  If it finds the token, it moves
\* the expiry and the reply changes nothing: that is no step of this model.
Renew(d) ==
    /\ lifecycle[d] /\ owned[d]
    /\ ~refusal[d]
    /\ refusal' = [refusal EXCEPT ![d] = TRUE]
    /\ \/ owner # d /\ NoFault
       \/ Fault
    /\ UNCHANGED <<owner, state, boot, stopping, lease, coordinator, lapses>>

RenewReply(d) ==
    /\ refusal[d]
    /\ refusal' = [refusal EXCEPT ![d] = FALSE]
    /\ Loses(d)
    /\ IF notified[d] THEN UNCHANGED <<state, coordinator>> ELSE Request(d)
    /\ UNCHANGED <<owner, boot, stopping, lifecycle, faults, lapses>>

\* The look at the key.
CheckExec(d) ==
    /\ recovery[d] # None /\ recovery[d].at = "check" /\ recovery[d].reply = "none"
    /\ \/ /\ recovery' = [recovery EXCEPT ![d].reply = IF owner = d THEN "yes" ELSE "no"]
          /\ NoFault
       \/ /\ recovery' = [recovery EXCEPT ![d].reply = "failed"]
          /\ Fault
    /\ UNCHANGED <<owner, state, boot, stopping, lease, refusal, pending, lapses>>

\* It is not asked whether the lifecycle goes on before a look that succeeds
\* sets owned; only a claim asks.
CheckReply(d) ==
    /\ recovery[d] # None /\ recovery[d].at = "check"
    /\ \/ /\ recovery[d].reply = "yes"
          /\ Regains(d)
          /\ RunContinues(d)
       \/ /\ recovery[d].reply = "no" /\ lifecycle[d]
          /\ Loses(d) /\ LossReported(d)
          /\ MoveTo(d, "claim", recovery[d].round)
          /\ UNCHANGED state
       \/ /\ recovery[d].reply = "failed" \/ (recovery[d].reply = "no" /\ ~lifecycle[d])
          /\ Loses(d) /\ LossReported(d)
          /\ RunFails(d)
    /\ UNCHANGED <<owner, boot, stopping, lifecycle, refusal, faults, lapses>>

\* The claim of a vacant key.
ClaimExec(d) ==
    /\ recovery[d] # None /\ recovery[d].at = "claim" /\ recovery[d].reply = "none"
    /\ \/ /\ recovery' = [recovery EXCEPT ![d].reply = IF owner = None THEN "yes" ELSE "no"]
          /\ Claim(d)
          /\ NoFault
       \/ /\ recovery' = [recovery EXCEPT ![d].reply = "failed"]
          /\ Claim(d) \/ UNCHANGED owner
          /\ Fault
    /\ UNCHANGED <<state, boot, stopping, lease, refusal, pending, lapses>>

\* Mutant: it is not asked again whether the lifecycle goes on.
InLifecycleUnasked(d) == TRUE

InLifecycle(d) == lifecycle[d]

ClaimReply(d) ==
    /\ recovery[d] # None /\ recovery[d].at = "claim"
    /\ \/ /\ recovery[d].reply = "yes" /\ InLifecycle(d)
          /\ Regains(d)
          /\ RunContinues(d)
          /\ UNCHANGED stopping
       \/ /\ recovery[d].reply = "yes" /\ ~InLifecycle(d)
          /\ MoveTo(d, "cleanup", recovery[d].round)
          /\ UNCHANGED <<owned, notified, pending, state, stopping>>
       \/ /\ recovery[d].reply = "no"
          /\ IF InLifecycle(d) THEN Loses(d) ELSE UNCHANGED <<owned, notified>>
          /\ Contended(d)
          /\ UNCHANGED pending
       \/ /\ recovery[d].reply = "failed"
          /\ RunFails(d)
          /\ UNCHANGED <<owned, notified, pending, stopping>>
    /\ UNCHANGED <<owner, boot, lifecycle, refusal, faults, lapses>>

\* A claim that won after the lifecycle was over is given back.
ClaimCleanup(d) ==
    /\ recovery[d] # None /\ recovery[d].at = "cleanup"
    /\ \/ /\ Release(d)
          /\ Contended(d)
          /\ NoFault
       \/ /\ Release(d) \/ UNCHANGED owner
          /\ RunFails(d)
          /\ Fault
          /\ UNCHANGED stopping
    /\ UNCHANGED <<boot, lease, refusal, pending, lapses>>

\* Functions, stream group, pending events, canonical state and projections.  The
\* Function library is looked at, and when it must be loaded the key is looked at
\* once more.
Restore(d) ==
    /\ recovery[d] # None /\ recovery[d].at = "restore"
    /\ \/ /\ UNCHANGED <<owned, notified>> \/ (owner = d /\ Regains(d))
          /\ IF CanRecover(d)
             THEN MoveTo(d, "check", recovery[d].round + 1) /\ UNCHANGED <<pending, state>>
             ELSE RunEnds(d)
          /\ NoFault
       \/ /\ Loses(d) /\ LossReported(d)
          /\ RunFails(d)
          /\ (owner # d /\ NoFault) \/ Fault
       \/ /\ RunFails(d)
          /\ UNCHANGED <<owned, notified, pending>>
          /\ Fault
    /\ UNCHANGED <<owner, boot, stopping, lifecycle, refusal, lapses>>

BackoffEnds(d) ==
    /\ recovery[d] # None /\ recovery[d].at = "backoff"
    /\ IF CanRecover(d)
       THEN /\ recovery' = [recovery EXCEPT ![d] = First]
            /\ state' = [state EXCEPT ![d] = IF @ = "degraded" THEN "recovering" ELSE @]
            /\ UNCHANGED pending
       ELSE RunEnds(d)
    /\ UNCHANGED <<owner, boot, stopping, lease, refusal, faults, lapses>>

\* An error of a connection, of the relay, or of a request that met no Redis.
Disturbed(d) ==
    /\ boot[d] # "crashed"
    /\ Fault
    /\ Request(d)
    /\ UNCHANGED <<owner, boot, stopping, lease, refusal, lapses>>

-----------------------------------------------------------------------------
(* Startup *)

AcquireExec(d) ==
    /\ boot[d] = "off"
    /\ \/ /\ boot' = [boot EXCEPT ![d] = IF owner = None THEN "won" ELSE "failing"]
          /\ Claim(d)
          /\ NoFault
       \/ /\ boot' = [boot EXCEPT ![d] = "failing"]
          /\ Claim(d) \/ UNCHANGED owner
          /\ Fault
    /\ UNCHANGED <<state, stopping, lease, refusal, coordinator, lapses>>

AcquireReply(d) ==
    /\ boot[d] = "won"
    /\ lifecycle' = [lifecycle EXCEPT ![d] = TRUE]
    /\ Regains(d)
    /\ state' = [state EXCEPT ![d] = "recovering"]
    /\ boot' = [boot EXCEPT ![d] = "working"]
    /\ UNCHANGED <<owner, stopping, refusal, coordinator, faults, lapses>>

\* The startup's own restoring, which looks at the key when the library must be
\* loaded.  Its last transition is refused, and the startup fails, when a recovery
\* has moved the runtime on meanwhile.
StartupWork(d) ==
    /\ boot[d] = "working"
    /\ \/ /\ state[d] = "recovering"
          /\ state' = [state EXCEPT ![d] = "ready"]
          /\ boot' = [boot EXCEPT ![d] = "listening"]
          /\ UNCHANGED <<owned, notified>> \/ (owner = d /\ Regains(d))
          /\ UNCHANGED coordinator /\ NoFault
       \/ /\ boot' = [boot EXCEPT ![d] = "failing"]
          /\ Loses(d)
          /\ IF notified[d] THEN UNCHANGED <<state, coordinator>> ELSE Request(d)
          /\ (owner # d /\ NoFault) \/ Fault
       \/ /\ boot' = [boot EXCEPT ![d] = "failing"]
          /\ UNCHANGED <<state, owned, notified, coordinator>>
          /\ (state[d] # "recovering" /\ NoFault) \/ Fault
    /\ UNCHANGED <<owner, stopping, lifecycle, refusal, lapses>>

StartupListen(d) ==
    /\ boot[d] = "listening"
    /\ \/ boot' = [boot EXCEPT ![d] = "up"] /\ NoFault
       \/ boot' = [boot EXCEPT ![d] = "failing"] /\ Fault
    /\ UNCHANGED <<owner, state, stopping, lease, refusal, coordinator, lapses>>

LifecycleEnds(d) ==
    /\ lifecycle' = [lifecycle EXCEPT ![d] = FALSE]
    /\ owned' = [owned EXCEPT ![d] = FALSE]
    /\ UNCHANGED notified

StartupRelease(d) ==
    /\ boot[d] = "failing"
    /\ LifecycleEnds(d)
    /\ boot' = [boot EXCEPT ![d] = "releasing"]
    /\ UNCHANGED <<owner, state, stopping, refusal, coordinator, faults, lapses>>

StartupFails(d) ==
    /\ boot[d] = "releasing"
    /\ \/ Release(d) /\ NoFault
       \/ UNCHANGED owner /\ Fault
    /\ boot' = [boot EXCEPT ![d] = "failed"]
    /\ state' = [state EXCEPT ![d] =
                   IF @ \in {"starting", "recovering"} THEN "stopped" ELSE @]
    /\ UNCHANGED <<stopping, lease, refusal, coordinator, lapses>>

-----------------------------------------------------------------------------
(* Shutdown, and a process that dies *)

Shutdown(d) ==
    /\ boot[d] = "up" /\ stopping[d] = "no"
    /\ stopping' = [stopping EXCEPT ![d] = "draining"]
    /\ state' = [state EXCEPT ![d] = "draining"]
    /\ UNCHANGED <<owner, boot, lease, refusal, coordinator, faults, lapses>>

ShutdownRelease(d) ==
    /\ stopping[d] = "draining"
    /\ LifecycleEnds(d)
    /\ stopping' = [stopping EXCEPT ![d] = "releasing"]
    /\ UNCHANGED <<owner, state, boot, refusal, coordinator, faults, lapses>>

ShutdownEnds(d) ==
    /\ stopping[d] = "releasing"
    /\ \/ Release(d) /\ NoFault
       \/ UNCHANGED owner /\ Fault
    /\ stopping' = [stopping EXCEPT ![d] = "ended"]
    /\ state' = [state EXCEPT ![d] = IF @ = "draining" THEN "stopped" ELSE @]
    /\ UNCHANGED <<boot, lease, refusal, coordinator, lapses>>

Crash(d) ==
    /\ boot[d] # "crashed"
    /\ boot' = [boot EXCEPT ![d] = "crashed"]
    /\ state' = [state EXCEPT ![d] = "stopped"]
    /\ stopping' = [stopping EXCEPT ![d] = "no"]
    /\ lifecycle' = [lifecycle EXCEPT ![d] = FALSE]
    /\ owned' = [owned EXCEPT ![d] = FALSE]
    /\ notified' = [notified EXCEPT ![d] = FALSE]
    /\ refusal' = [refusal EXCEPT ![d] = FALSE]
    /\ pending' = [pending EXCEPT ![d] = FALSE]
    /\ recovery' = [recovery EXCEPT ![d] = None]
    /\ UNCHANGED <<owner, faults, lapses>>

LeaseStep(d) == Renew(d) \/ RenewReply(d)

RecoveryStep(d) ==
    \/ CheckExec(d) \/ CheckReply(d)
    \/ ClaimExec(d) \/ ClaimReply(d) \/ ClaimCleanup(d)
    \/ Restore(d) \/ BackoffEnds(d)

BootStep(d) ==
    \/ AcquireExec(d) \/ AcquireReply(d)
    \/ StartupWork(d) \/ StartupListen(d)
    \/ StartupRelease(d) \/ StartupFails(d)

StopStep(d) == ShutdownRelease(d) \/ ShutdownEnds(d)

Next ==
    \/ KeyExpires
    \/ \E d \in Daemon :
         \/ LeaseStep(d) \/ RecoveryStep(d) \/ BootStep(d) \/ StopStep(d)
         \/ Disturbed(d) \/ Shutdown(d) \/ Crash(d)

Spec == Init /\ [][Next]_vars

\* What was begun is carried on with: the renewal timer runs, replies and
\* failures come, and a recovery, a startup and a shutdown take their next step.
FairSpec ==
    /\ Spec
    /\ \A d \in Daemon :
         /\ WF_vars(LeaseStep(d)) /\ WF_vars(RecoveryStep(d))
         /\ WF_vars(BootStep(d)) /\ WF_vars(StopStep(d))

-----------------------------------------------------------------------------
(* Properties *)

\* A runtime with its timers running that admits mutations.
Active(d) == state[d] = "ready" /\ boot[d] \in {"listening", "up"}

\* Types of the variables.
TypeOK ==
    /\ owner \in Daemon \cup {None}
    /\ state \in [Daemon -> RuntimeState]
    /\ boot \in [Daemon -> Boot]
    /\ stopping \in [Daemon -> {"no", "draining", "releasing", "ended"}]
    /\ lifecycle \in [Daemon -> BOOLEAN]
    /\ owned \in [Daemon -> BOOLEAN]
    /\ notified \in [Daemon -> BOOLEAN]
    /\ refusal \in [Daemon -> BOOLEAN]
    /\ pending \in [Daemon -> BOOLEAN]
    /\ recovery \in [Daemon -> Recovery \cup {None}]
    /\ faults \in 0..MaxFaults
    /\ lapses \in 0..MaxLapses

\* While no daemon was kept from renewing in time, whoever is active is the
\* owner, whatever fails, restarts or races: so only one is.
ActiveIsOwner == lapses = 0 => \A d \in Daemon : Active(d) => owner = d

\* A daemon that knows its key to be lost is recovering: no report of a loss is
\* swallowed by one that was made before, or by a run that is about to end.
LossIsRecovered ==
    \A d \in Daemon : lifecycle[d] /\ ~owned[d] /\ CanRecover(d) => recovery[d] # None

\* A token that is stored is one that its daemon will still renew or delete,
\* unless its daemon crashed or a command failed.
NoOrphanedKey ==
    \A d \in Daemon : owner = d /\ faults = 0 /\ boot[d] # "crashed" =>
        \/ lifecycle[d]
        \/ boot[d] \in {"won", "releasing"} \/ stopping[d] = "releasing"
        \/ /\ recovery[d] # None
           /\ \/ recovery[d].at = "cleanup"
              \/ recovery[d].at = "claim" /\ recovery[d].reply = "yes"

\* Nobody takes a key over: it is free before it has another owner.
NoTakeover == [][owner # None /\ owner' # owner => owner' = None]_vars

\* Of two owners the one without the key gives up or gets it back, and every
\* runtime that is up and has lost its readiness gets it back or stops.
OwnershipIsSettled ==
    \A d \in Daemon :
        boot[d] = "up" /\ ~(state[d] = "ready" /\ owner = d)
          ~> (state[d] = "ready" /\ owner = d) \/ state[d] = "stopped"

\* The design's word: never two active owners.
OneActiveOwner == \A d, e \in Daemon : Active(d) /\ Active(e) => d = e

=============================================================================
