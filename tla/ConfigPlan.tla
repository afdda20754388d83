----------------------------- MODULE ConfigPlan -----------------------------
(***************************************************************************)
(* Managed configuration: a plan of file changes is prepared, approved,    *)
(* applied to the files of the agents under a journal, and recorded in     *)
(* Redis; a reconciliation at every start, and on request, decides about   *)
(* the operations whose journal was left open.                             *)
(*                                                                         *)
(* Three records tell of an operation: the files, its receipt on disk, and *)
(* the plan with its projected operation in Redis.  No step writes two of  *)
(* them, and the daemon, Redis, the disk and the user's editor may each    *)
(* interfere between two steps.  A file's hash stands for its content.     *)
(***************************************************************************)
EXTENDS Naturals, FiniteSets, Functions

CONSTANTS
    Path,        \* the managed files
    Content,     \* what a file can hold
    Absent,      \* the hash of a file that is not there
    Found,       \* what the files hold at first
    Plan,        \* plan identifiers
    Want,        \* per plan that is no rollback, what its files are to hold
    Caller,      \* requests to apply a plan that run at once
    None,
    MaxOps,      \* bound: operations
    MaxFaults    \* bound: failing calls, crashes and edits from outside

ASSUME ConfigAssumption ==
    /\ Absent \notin Content /\ Found \in Content \cup {Absent}
    /\ DOMAIN Want \subseteq Plan
    /\ \A p \in DOMAIN Want : Want[p] \in UNION {[fs -> Content] : fs \in (SUBSET Path) \ {{}}}
    /\ MaxOps \in Nat \ {0} /\ MaxFaults \in Nat

Hash == Content \cup {Absent}
Op == 1..MaxOps

VARIABLES
    files,       \* the hash of every file
    receipt,     \* per operation, its receipt on disk
    snapshot,    \* per operation, what it found and what it copied
    managed,     \* per file, the operation that owns it and the hash it left
    locks,       \* files with a lock file
    plan,        \* the plans in Redis
    projected,   \* operations recorded in Redis
    daemon,      \* "off", "starting", "up" or "recovering"
    requested,   \* a recovery is requested
    call,        \* the requests in flight
    recon,       \* the reconciliation that runs
    faults,
    wrote,       \* history: the files each operation wrote
    edited,      \* history: the user edited a file
    unseen,      \* history: files edited since they were last checked
    overlapped,  \* history: a reconciliation met an operation in flight
    unreached    \* history: operations that a reconciliation could not fail in Redis

disk == <<files, receipt, snapshot, managed, locks>>
redis == <<plan, projected>>
memory == <<daemon, requested, call, recon>>
history == <<wrote, edited, unseen, overlapped, unreached>>
vars == <<disk, redis, memory, faults, history>>

NoPlan == [state |-> "none", pre |-> <<>>, want |-> <<>>, source |-> 0]
NoReceipt == [state |-> "none", code |-> "none", plan |-> None, committed |-> FALSE]
NoSnapshot == [original |-> <<>>, payload |-> <<>>]
Unmanaged == [op |-> 0, hash |-> Absent]
NoCall == [at |-> "idle", plan |-> None, op |-> 0, left |-> {}]
NoLook == [op |-> 0, verdict |-> "none"]
NoRecon == [on |-> FALSE, todo |-> <<>>, look |-> NoLook, held |-> FALSE]

Init ==
    /\ files = [f \in Path |-> Found]
    /\ receipt = [o \in Op |-> NoReceipt]
    /\ snapshot = [o \in Op |-> NoSnapshot]
    /\ managed = [f \in Path |-> Unmanaged]
    /\ locks = {}
    /\ plan = [p \in Plan |-> NoPlan]
    /\ projected = {}
    /\ daemon = "off" /\ requested = FALSE
    /\ call = [c \in Caller |-> NoCall]
    /\ recon = NoRecon
    /\ faults = 0
    /\ wrote = [o \in Op |-> {}]
    /\ edited = FALSE /\ unseen = {}
    /\ overlapped = FALSE /\ unreached = {}

Fault == faults < MaxFaults /\ faults' = faults + 1
NoFault == UNCHANGED faults

Targets(p) == DOMAIN plan[p].want
Matches(hash) == \A f \in DOMAIN hash : files[f] = hash[f]

\* The receipts a reconciliation looks at.
OpenState == {"prepared", "snapshotted", "writing", "files_committed",
              "redis_pending", "reconciliation_required"}
OpenReceipts == Restrict(receipt, {o \in Op : receipt[o].state \in OpenState})

\* A reconciliation of these receipts meets the files of an operation in flight.
Meets(todo, calls) ==
    \E o \in DOMAIN todo, c \in Caller :
        calls[c].op # 0 /\ Targets(calls[c].plan) \cap Targets(todo[o].plan) # {}

-----------------------------------------------------------------------------
(* Plans. *)

\* createRenderPlan, createImportPlan and createOptimizationPlan; a file that
\* nobody manages is taken over only when the request says so.
Propose(p) ==
    /\ daemon = "up" /\ plan[p].state = "none" /\ p \in DOMAIN Want
    /\ \E adopt \in BOOLEAN :
          adopt \/ \A f \in DOMAIN Want[p] : files[f] = Absent \/ managed[f] # Unmanaged
    /\ plan' = [plan EXCEPT ![p] =
                  [state |-> "prepared", pre |-> Restrict(files, DOMAIN Want[p]),
                   want |-> Want[p], source |-> 0]]
    /\ UNCHANGED <<disk, projected, memory, faults, history>>

\* createRollbackPlan: back to what a snapshot found.
ProposeRollback(p) ==
    /\ daemon = "up" /\ plan[p].state = "none" /\ p \notin DOMAIN Want
    /\ \E o \in Op :
          /\ snapshot[o] # NoSnapshot
          /\ plan' = [plan EXCEPT ![p] =
                        [state |-> "prepared",
                         pre |-> Restrict(files, DOMAIN snapshot[o].original),
                         want |-> snapshot[o].original, source |-> o]]
    /\ UNCHANGED <<disk, projected, memory, faults, history>>

Approve(p) ==
    /\ daemon = "up" /\ plan[p].state = "prepared"
    /\ plan' = [plan EXCEPT ![p].state = "approved"]
    /\ UNCHANGED <<disk, projected, memory, faults, history>>

-----------------------------------------------------------------------------
(* Applying a plan: applyPlan, and inside it the engine's apply and        *)
(* rollback.  A call that has begun runs on while the daemon recovers.     *)

At(c, place) == call[c].at = place
Go(c, place) == call' = [call EXCEPT ![c].at = place]
Mark(c, state) == receipt' = [receipt EXCEPT ![call[c].op].state = state]

\* The outcome of the call is left to a reconciliation.
LeaveOpen(c, code) ==
    /\ receipt' = [receipt EXCEPT ![call[c].op].state = "reconciliation_required",
                                  ![call[c].op].code = code]
    /\ requested' = TRUE
    /\ call' = [call EXCEPT ![c] = NoCall]

\* lockedTargetPaths of the process.
Owned == UNION {Targets(call[c].plan) : c \in {d \in Caller : call[d].op # 0}}

\* The plan and its token are checked first ...
Ask(c, p) ==
    /\ daemon = "up" /\ At(c, "idle") /\ plan[p].state = "approved"
    /\ call' = [call EXCEPT ![c] = [at |-> "read", plan |-> p, op |-> 0, left |-> {}]]
    /\ UNCHANGED <<disk, redis, daemon, requested, recon, faults, history>>

\* ... and the targets are taken some steps later.
Lock(c) ==
    /\ At(c, "read")
    /\ LET p == call[c].plan IN
       IF Targets(p) \cap Owned # {}
       THEN call' = [call EXCEPT ![c] = NoCall] /\ UNCHANGED receipt
       ELSE \E o \in Op :
              /\ \A q \in Op : receipt[q] = NoReceipt <=> q >= o
              /\ call' = [call EXCEPT ![c].at = "locked", ![c].op = o]
              /\ receipt' = [receipt EXCEPT ![o] =
                               [state |-> "prepared", code |-> "none",
                                plan |-> p, committed |-> FALSE]]
    /\ overlapped' = (overlapped \/ Meets(recon.todo, call'))
    /\ UNCHANGED <<files, snapshot, managed, locks, redis, daemon, requested, recon,
                   faults, wrote, edited, unseen, unreached>>

\* control_plan_transition: the plan moves on from the state it is expected
\* in, or the command is refused.
Transition(p, from, to) ==
    plan[p].state = from /\ plan' = [plan EXCEPT ![p].state = to]

Begin(c) ==
    /\ At(c, "locked")
    /\ LET p == call[c].plan IN
       \/ /\ Transition(p, "approved", "applying")
          /\ Go(c, "begun") /\ NoFault /\ UNCHANGED <<receipt, requested>>
       \/ /\ plan[p].state # "approved" /\ UNCHANGED plan /\ NoFault
          /\ LeaveOpen(c, "uncertain")
       \/ /\ Fault
          /\ Transition(p, "approved", "applying") \/ UNCHANGED plan
          /\ LeaveOpen(c, "uncertain")
    /\ UNCHANGED <<files, snapshot, managed, locks, projected, daemon, recon, history>>

\* (mutant: the copies are taken on trust)
PayloadTrusted(p) == plan[p].source \in Op \cup {0}

\* A snapshot whose copies are not what was found is not restored.
PayloadIntact(p) ==
    plan[p].source = 0
        \/ \A f \in Targets(p) :
              plan[p].want[f] # Absent =>
                  snapshot[plan[p].source].payload[f] = plan[p].want[f]

\* (mutant: the files are not compared again)
AcceptableAsPlanned(p) == locks \cap Targets(p) = {} /\ PayloadIntact(p)

\* Lock files, preconditions, and before a rollback the copies it restores.
Acceptable(p) ==
    locks \cap Targets(p) = {} /\ Matches(plan[p].pre) /\ PayloadIntact(p)

Check(c) ==
    /\ At(c, "begun")
    /\ IF Acceptable(call[c].plan)
       THEN /\ Go(c, "checked")
            /\ locks' = locks \cup Targets(call[c].plan)
            /\ unseen' = unseen \ Targets(call[c].plan)
       ELSE Go(c, "failing") /\ UNCHANGED <<locks, unseen>>
    /\ UNCHANGED <<files, receipt, snapshot, managed, redis, daemon, requested, recon,
                   faults, wrote, edited, overlapped, unreached>>

Unlock(c) == locks' = locks \ Targets(call[c].plan)

\* The engine stops before a file was touched.
Abandon(c) == Fault /\ Go(c, "failing") /\ Unlock(c)

Copy(c) ==
    /\ At(c, "checked")
    /\ LET p == call[c].plan
           o == call[c].op IN
       \/ /\ snapshot' = [snapshot EXCEPT ![o] =
                            [original |-> plan[p].pre, payload |-> Restrict(files, Targets(p))]]
          /\ receipt' = [receipt EXCEPT ![o].state = "snapshotted", ![o].committed = TRUE]
          /\ Go(c, "copied") /\ NoFault /\ UNCHANGED locks
       \/ Abandon(c) /\ UNCHANGED <<snapshot, receipt>>
    /\ UNCHANGED <<files, managed, redis, daemon, requested, recon, history>>

\* (mutant: no receipt before the first rename)
StageUnjournaled(c) ==
    /\ At(c, "copied")
    /\ call' = [call EXCEPT ![c].at = "writing", ![c].left = Targets(call[c].plan)]
    /\ UNCHANGED <<receipt, locks, faults>>
    /\ UNCHANGED <<files, snapshot, managed, redis, daemon, requested, recon, history>>

Stage(c) ==
    /\ At(c, "copied")
    /\ \/ /\ Mark(c, "writing") /\ NoFault /\ UNCHANGED locks
          /\ call' = [call EXCEPT ![c].at = "writing", ![c].left = Targets(call[c].plan)]
       \/ Abandon(c) /\ UNCHANGED receipt
    /\ UNCHANGED <<files, snapshot, managed, redis, daemon, requested, recon, history>>

\* The engine writes the plan's content, a rollback the copies it verified.
Written(p, f) ==
    IF plan[p].source = 0 \/ plan[p].want[f] = Absent THEN plan[p].want[f]
    ELSE snapshot[plan[p].source].payload[f]

\* One file after the other is renamed into place ...
Write(c, f) ==
    /\ At(c, "writing") /\ f \in call[c].left
    /\ LET p == call[c].plan
           o == call[c].op IN
       \/ /\ files' = [files EXCEPT ![f] = Written(p, f)]
          /\ wrote' = [wrote EXCEPT ![o] = @ \cup {f}]
          /\ call' = [call EXCEPT ![c].at = "wrote", ![c].left = @ \ {f}]
          /\ NoFault /\ UNCHANGED <<receipt, locks, requested>>
       \/ /\ wrote[o] = {} /\ Abandon(c)
          /\ UNCHANGED <<files, wrote, receipt, requested>>
       \/ /\ wrote[o] # {} /\ Fault /\ Unlock(c) /\ LeaveOpen(c, "partial")
          /\ UNCHANGED <<files, wrote>>
    /\ UNCHANGED <<snapshot, managed, redis, daemon, recon, edited, unseen, overlapped,
                   unreached>>

\* ... and each is followed by a receipt.
Note(c) ==
    /\ At(c, "wrote")
    /\ IF call[c].left = {}
       THEN Mark(c, "files_committed") /\ Go(c, "committed") /\ Unlock(c)
       ELSE Mark(c, "writing") /\ Go(c, "writing") /\ UNCHANGED locks
    /\ UNCHANGED <<files, snapshot, managed, redis, daemon, requested, recon,
                   faults, history>>

\* (mutant: the targets remember what the plan was made over)
OwnBefore(o) ==
    LET p == receipt[o].plan IN
    managed' = [f \in Path |->
                  IF f \in Targets(p) THEN [op |-> o, hash |-> plan[p].pre[f]] ELSE managed[f]]

\* writeManagedTargets.
Own(o) ==
    LET p == receipt[o].plan IN
    managed' = [f \in Path |->
                  IF f \in Targets(p) THEN [op |-> o, hash |-> plan[p].want[f]]
                                      ELSE managed[f]]

\* The imported or restored agent, and the managed targets.
Manage(c) ==
    /\ At(c, "committed")
    /\ \/ Own(call[c].op) /\ Go(c, "managed") /\ NoFault /\ UNCHANGED <<receipt, requested>>
       \/ Fault /\ LeaveOpen(c, "partial") /\ UNCHANGED managed
    /\ UNCHANGED <<files, snapshot, locks, redis, daemon, recon, history>>

\* (mutant: the operation is recorded whatever became of the plan)
RecordAnyway(p, o) ==
    /\ projected' = projected \cup {o}
    /\ plan' = [plan EXCEPT ![p].state = IF @ = "applying" THEN "applied" ELSE @]

\* completeConfigPlan: the plan and the operation in one command.
Record(p, o) ==
    o \notin projected /\ Transition(p, "applying", "applied") /\ projected' = projected \cup {o}

Complete(c) ==
    /\ At(c, "managed")
    /\ LET p == call[c].plan
           o == call[c].op IN
       \/ Record(p, o) /\ Go(c, "recorded") /\ NoFault /\ UNCHANGED <<receipt, requested>>
       \/ /\ plan[p].state # "applying" \/ o \in projected
          /\ NoFault /\ LeaveOpen(c, "projection") /\ UNCHANGED redis
       \/ Fault /\ LeaveOpen(c, "projection") /\ (Record(p, o) \/ UNCHANGED redis)
    /\ UNCHANGED <<files, snapshot, managed, locks, daemon, recon, history>>

\* The receipt is closed; onApplied may still fail.
Finish(c) ==
    /\ At(c, "recorded")
    /\ \/ /\ Mark(c, "completed") /\ call' = [call EXCEPT ![c] = NoCall]
          /\ NoFault /\ UNCHANGED requested
       \/ Fault /\ LeaveOpen(c, "partial")
    /\ UNCHANGED <<files, snapshot, managed, locks, redis, daemon, recon, history>>

\* failPlan, whose error is ignored, and then the receipt.
FailPlan(c) ==
    /\ At(c, "failing")
    /\ LET p == call[c].plan IN
       \/ Transition(p, "applying", "failed") /\ NoFault
       \/ plan[p].state # "applying" /\ UNCHANGED plan /\ NoFault
       \/ Fault /\ UNCHANGED plan
    /\ Go(c, "failed")
    /\ UNCHANGED <<disk, projected, daemon, requested, recon, history>>

FailReceipt(c) ==
    /\ At(c, "failed")
    /\ Mark(c, "failed") /\ call' = [call EXCEPT ![c] = NoCall]
    /\ UNCHANGED <<files, snapshot, managed, locks, redis, daemon, requested, recon,
                   faults, history>>

-----------------------------------------------------------------------------
(* The daemon and its reconciliation. *)

BeginRecon ==
    /\ recon' = [NoRecon EXCEPT !.on = TRUE, !.todo = OpenReceipts]
    /\ overlapped' = (overlapped \/ Meets(OpenReceipts, call))
    /\ UNCHANGED <<wrote, edited, unseen, unreached>>

\* Owned startup: the lock files of an earlier process go first.
Start ==
    /\ daemon = "off" /\ daemon' = "starting" /\ locks' = {} /\ BeginRecon
    /\ UNCHANGED <<files, receipt, snapshot, managed, redis, requested, call,
                   faults>>

Recover ==
    /\ ~recon.on
    /\ (daemon = "up" /\ requested) \/ daemon = "recovering"
    /\ daemon' = "recovering" /\ requested' = FALSE /\ BeginRecon
    /\ UNCHANGED <<disk, redis, call, faults>>

\* POST /api/v1/config/reconcile; without an open receipt it changes nothing.
AskRecon ==
    /\ ~recon.on /\ daemon = "up" /\ BeginRecon
    /\ \E o \in Op : receipt[o].state \in OpenState
    /\ UNCHANGED <<disk, redis, daemon, requested, call, faults>>

\* (mutant: a receipt that says "writing" counts as written)
EarlyBeforeWriting(r) == r.state \in {"prepared", "snapshotted"} \/ r.code = "uncertain"

\* What reconcile makes of a receipt r, the files and Redis.
Early(r) == r.state \in {"prepared", "snapshotted", "writing"} \/ r.code = "uncertain"

Landed(r) == IF r.committed THEN Matches(plan[r.plan].want)
             ELSE \A f \in Targets(r.plan) : files[f] = Absent

Verdict(o, r) ==
    LET s == plan[r.plan].state IN
    IF Early(r) /\ Matches(plan[r.plan].pre)
    THEN CASE o \notin projected /\ s = "applying" -> "fail"
           [] o \notin projected /\ s = "approved" -> "failed"
           [] OTHER -> "hold"
    ELSE CASE Landed(r) /\ s = "applying" /\ o \notin projected -> "complete"
           [] Landed(r) /\ s = "applied" /\ o \in projected -> "completed"
           [] OTHER -> "hold"

Look(o) ==
    /\ recon.on /\ recon.look = NoLook /\ o \in DOMAIN recon.todo
    /\ recon' = [recon EXCEPT !.look = [op |-> o, verdict |-> Verdict(o, recon.todo[o])]]
    /\ UNCHANGED <<disk, redis, daemon, requested, call, faults, history>>

\* A reconciliation that throws: startup fails, a recovery tries again.
Throw ==
    /\ recon' = NoRecon
    /\ daemon' = IF daemon = "starting" THEN "off" ELSE daemon

Saw(v) == recon.on /\ recon.look.verdict = v
Says(v) == recon' = [recon EXCEPT !.look.verdict = v]

\* The plan moves in Redis, before the receipt.
FailStale(p) ==
    /\ Saw("fail") /\ UNCHANGED <<projected, daemon>>
    /\ \/ /\ Transition(p, "applying", "failed") /\ Says("failed")
          /\ NoFault /\ UNCHANGED unreached
       \/ /\ plan[p].state # "applying" /\ UNCHANGED plan /\ Says("hold")
          /\ NoFault /\ UNCHANGED unreached
       \/ /\ Fault /\ Says("hold") /\ unreached' = unreached \cup {recon.look.op}
          /\ Transition(p, "applying", "failed") \/ UNCHANGED plan

CompleteStale(p, o) ==
    /\ Saw("complete") /\ UNCHANGED unreached
    /\ \/ Record(p, o) /\ Says("completed") /\ NoFault /\ UNCHANGED daemon
       \/ /\ plan[p].state # "applying" \/ o \in projected
          /\ UNCHANGED redis /\ Throw /\ NoFault
       \/ Fault /\ Throw /\ (Record(p, o) \/ UNCHANGED redis)

Decide ==
    /\ \E o \in DOMAIN recon.todo :
          /\ recon.look.op = o
          /\ FailStale(recon.todo[o].plan) \/ CompleteStale(recon.todo[o].plan, o)
    /\ UNCHANGED <<disk, requested, call, wrote, edited, unseen, overlapped>>

Closed(o, state, code) ==
    receipt' = [receipt EXCEPT ![o] = [recon.todo[o] EXCEPT !.state = state, !.code = code]]

\* The receipt follows.
Close ==
    LET o == recon.look.op IN
    /\ \/ Saw("failed") /\ Closed(o, "failed", "interrupted") /\ UNCHANGED managed
       \/ Saw("completed") /\ Closed(o, "completed", "none") /\ Own(o)
       \/ Saw("hold") /\ Closed(o, "reconciliation_required", "held") /\ UNCHANGED managed
    /\ recon' = [recon EXCEPT !.todo = Restrict(@, DOMAIN @ \ {o}), !.look = NoLook,
                              !.held = @ \/ recon.look.verdict = "hold"]
    /\ UNCHANGED <<files, snapshot, locks, redis, daemon, requested, call, faults,
                   history>>

EndRecon ==
    /\ recon.on /\ DOMAIN recon.todo = {}
    /\ \/ recon.held /\ Throw
       \/ /\ ~recon.held /\ recon' = NoRecon
          /\ daemon' = IF daemon = "recovering" /\ requested THEN daemon ELSE "up"
    /\ UNCHANGED <<disk, redis, requested, call, faults, history>>

\* Lock files, receipts and files stay; what the process knew is gone.
Crash ==
    /\ daemon # "off" /\ Fault
    /\ daemon' = "off" /\ requested' = FALSE
    /\ call' = [c \in Caller |-> NoCall] /\ recon' = NoRecon
    /\ UNCHANGED <<disk, redis, history>>

\* The user creates or deletes a file.
Edit(f) ==
    /\ Fault
    /\ \E h \in Hash \ {files[f]} : files' = [files EXCEPT ![f] = h]
    /\ edited' = TRUE /\ unseen' = unseen \cup {f}
    /\ UNCHANGED <<receipt, snapshot, managed, locks, redis, memory, wrote, overlapped,
                   unreached>>

-----------------------------------------------------------------------------
CallStep(c) ==
    \/ Lock(c) \/ Begin(c) \/ Check(c) \/ Copy(c) \/ Stage(c)
    \/ \E f \in Path : Write(c, f)
    \/ Note(c) \/ Manage(c) \/ Complete(c) \/ Finish(c) \/ FailPlan(c) \/ FailReceipt(c)

ReconStep == (\E o \in Op : Look(o)) \/ Decide \/ Close \/ EndRecon

PlanStep == \E p \in Plan : Propose(p) \/ ProposeRollback(p) \/ Approve(p)

Next ==
    \/ PlanStep
    \/ \E c \in Caller, p \in Plan : Ask(c, p)
    \/ \E c \in Caller : CallStep(c)
    \/ Start \/ Recover \/ AskRecon \/ ReconStep
    \/ Crash
    \/ \E f \in Path : Edit(f)

Spec == Init /\ [][Next]_vars

\* What the process has begun goes on, a daemon that is off is started again,
\* and one that asked for a recovery recovers; nobody has to propose a plan.
Fairness ==
    /\ \A c \in Caller : WF_vars(CallStep(c))
    /\ WF_vars(ReconStep) /\ WF_vars(Start) /\ WF_vars(Recover)

FairSpec == Spec /\ Fairness

-----------------------------------------------------------------------------
(* Properties. *)

PlanState == {"none", "prepared", "approved", "applying", "applied", "failed"}
ReceiptState == OpenState \cup {"none", "completed", "failed"}

\* The types; a recorded operation belongs to a plan that is applied, and what a
\* call has left to write is among its targets.
TypeOK ==
    /\ files \in [Path -> Hash] /\ locks \subseteq Path
    /\ \A o \in Op : receipt[o].state \in ReceiptState /\ receipt[o].plan \in Plan \cup {None}
    /\ \A f \in Path : managed[f].op \in Op \cup {0} /\ managed[f].hash \in Hash
    /\ \A p \in Plan : plan[p].state \in PlanState /\ DOMAIN plan[p].want = DOMAIN plan[p].pre
    /\ projected \subseteq Op
    /\ \A o \in projected : plan[receipt[o].plan].state = "applied"
    /\ daemon \in {"off", "starting", "up", "recovering"}
    /\ \A c \in Caller : call[c].op # 0 => call[c].left \subseteq Targets(call[c].plan)

\* The files an operation changed.
Touched(o) == {f \in wrote[o] : plan[receipt[o].plan].want[f] # plan[receipt[o].plan].pre[f]}

\* Whatever crashes and fails, a file that an operation changed is journaled:
\* its receipt is one that a reconciliation looks at or that owns the file,
\* and what the file held is in a snapshot.
JournalCoversWrites ==
    \A o \in Op : Touched(o) # {} /\ ~edited /\ ~overlapped =>
        /\ receipt[o].state \in {"writing", "files_committed", "reconciliation_required", "completed"}
        /\ snapshot[o] # NoSnapshot

\* No drift is reported of a file that nobody edited: once no operation on it
\* is open, it holds what its managed target says, if the operation that owns
\* it went as far as its snapshot.
NoFalseDrift ==
    \A h \in Path :
        \/ managed[h] = Unmanaged \/ edited \/ overlapped
        \/ \E o \in Op : receipt[o].state \in OpenState /\ h \in Targets(receipt[o].plan)
        \/ receipt[managed[h].op].committed => files[h] = managed[h].hash

Begun == {o \in Op : receipt[o].state # "none"}

\* Another operation wrote a file of this one: after it began, or before it
\* and other than the plan was made over.  Or another request applied the plan.
Outrun(o) ==
    \E x \in Begun \ {o} :
        \/ receipt[x].plan = receipt[o].plan
        \/ \E h \in wrote[x] \cap Targets(receipt[o].plan) :
              x > o \/ plan[receipt[o].plan].pre[h] # plan[receipt[x].plan].want[h]

\* An operation is held for review only for a reason: it stopped between two
\* files; its plan had failed in Redis before its receipt was closed, or could not
\* be made to fail; or another operation has its plan, or had written its files
\* since the plan was made.
HeldWithReason ==
    \A o \in Op : receipt[o].code = "held" /\ ~edited /\ ~overlapped =>
        \/ wrote[o] \notin {{}, Targets(receipt[o].plan)}
        \/ plan[receipt[o].plan].state = "failed"
        \/ o \in unreached
        \/ Outrun(o)

\* A file is replaced only while it holds what the plan was approved over; an
\* edit between the check and the rename is the one exception.
ReplacesOnlyApproved ==
    [][\A c \in Caller, h \in Path :
          At(c, "writing") /\ h \in call[c].left /\ h \notin call'[c].left
              /\ call'[c].at = "wrote"
          => files[h] = plan[call[c].plan].pre[h] \/ h \in unseen]_vars

Holds(x) == \A h \in Targets(x) : files[h] = plan[x].want[h] \/ h \in unseen
Applies(x) == plan[x].state # "applied" /\ plan'[x].state = "applied"

\* An operation that went as far as its snapshot, and that no reconciliation
\* met in flight, is recorded as applied only when its files hold what the plan
\* wanted, apart from edits since the check.
RecordedIsWritten ==
    [][\A x \in Plan, o \in Op :
          Applies(x) /\ o \in projected' \ projected /\ receipt[o].committed
              /\ ~overlapped => Holds(x)]_vars

\* Documented: the projection is rebuilt only from hashes that match, so that
\* no plan is applied whose files were not written.
AppliedIsWritten ==
    [][\A x \in Plan : Applies(x) /\ ~edited /\ ~overlapped => Holds(x)]_vars

\* Documented: startup recovers interrupted operations by comparing hashes.
InterruptedIsRecovered ==
    \A o \in Op : receipt[o].code = "held" /\ ~edited /\ ~overlapped => Touched(o) # {}

\* Every operation is closed in the end, or held for review.
OperationsSettle ==
    \A o \in Op :
        receipt[o].state \in OpenState ~>
            receipt[o].state \in {"completed", "failed"} \/ receipt[o].code = "held"
=============================================================================
