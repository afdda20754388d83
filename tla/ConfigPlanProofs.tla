-------------------------- MODULE ConfigPlanProofs --------------------------
(***************************************************************************)
(* Proofs about ConfigPlan, for every set of files, plans and requests and *)
(* every bound on operations and faults.                                   *)
(*                                                                         *)
(* The invariant says how plans, receipts and calls fit together           *)
(* (PlansFit, ReceiptsFit, CallsFit), that calls apply operations to       *)
(* disjoint files (Apart), and that what an open operation has written is  *)
(* in place until it is closed (WritesStand).  Of a reconciliation that    *)
(* met no call it says that nobody else changes the receipts it looks at   *)
(* (Separate), so that its verdict stands until it acts on it              *)
(* (LookStands); and of every file that its managed target is right, or    *)
(* that an operation on it is open (ManagedHolds).                         *)
(*                                                                         *)
(* A second invariant (Whys) says why an operation is held: unless another *)
(* one outran it, what it found and wrote is in place (Standing), so that  *)
(* its files tell whether it wrote none of them or all; and its receipt    *)
(* and its plan agree with that (ReceiptsTell, AppliedIsRecorded,          *)
(* RecordedChanged), so that a verdict can be reached.                     *)
(***************************************************************************)
EXTENDS ConfigPlan, TLAPS

\* The values the variables take: where a call is, why a receipt is open, what a
\* reconciliation makes of it, and the records.
Place == {"idle", "read", "locked", "begun", "checked", "copied", "writing", "wrote",
          "committed", "managed", "recorded", "failing", "failed"}
Code == {"none", "uncertain", "partial", "projection", "interrupted", "held"}
Outcome == {"none", "fail", "failed", "complete", "completed", "hold"}
Contents == UNION {[fs -> Hash] : fs \in SUBSET Path}
Receipt == [state : ReceiptState, code : Code, plan : Plan \cup {None}, committed : BOOLEAN]
Todo == UNION {[os -> Receipt] : os \in SUBSET Op}
PlanRecord == [state : PlanState, pre : Contents, want : Contents, source : Op \cup {0}]
CallRecord == [at : Place, plan : Plan \cup {None}, op : Op \cup {0}, left : SUBSET Path]
LookRecord == [op : Op \cup {0}, verdict : Outcome]
ReconRecord == [on : BOOLEAN, todo : Todo, look : LookRecord, held : BOOLEAN]
SnapshotRecord == [original : Contents, payload : Contents]

Types ==
    /\ files \in [Path -> Hash]
    /\ receipt \in [Op -> Receipt]
    /\ snapshot \in [Op -> SnapshotRecord]
    /\ managed \in [Path -> [op : Op \cup {0}, hash : Hash]]
    /\ locks \subseteq Path
    /\ plan \in [Plan -> PlanRecord]
    /\ projected \subseteq Op
    /\ daemon \in {"off", "starting", "up", "recovering"}
    /\ requested \in BOOLEAN
    /\ call \in [Caller -> CallRecord]
    /\ recon \in ReconRecord
    /\ faults \in Nat
    /\ wrote \in [Op -> SUBSET Path]
    /\ edited \in BOOLEAN /\ overlapped \in BOOLEAN /\ unseen \subseteq Path

\* The states of a plan that a call may have been made for.
Decided == {"approved", "applying", "applied", "failed"}

\* A plan is about the same files before and after, at least one; a rollback goes
\* back to a snapshot that was taken.
PlansFit ==
    \A p \in Plan :
        /\ DOMAIN plan[p].want = DOMAIN plan[p].pre
        /\ plan[p].state # "none" => Targets(p) # {}
        /\ plan[p].source # 0 => snapshot[plan[p].source] # NoSnapshot

\* Nothing tells of an operation that has not begun.
Fresh(o) ==
    /\ o \notin projected /\ snapshot[o] = NoSnapshot /\ wrote[o] = {}
    /\ \A f \in Path : managed[f].op # o

\* A receipt, its plan and its snapshot: what an operation wrote is among its
\* targets and in its snapshot, and only an operation whose plan is applied is
\* recorded.
ReceiptsFit ==
    \A o \in Op :
        /\ receipt[o].state = "none" => Fresh(o)
        /\ receipt[o].state # "none" =>
              receipt[o].plan \in Plan /\ plan[receipt[o].plan].state \in Decided
        /\ snapshot[o] # NoSnapshot =>
             snapshot[o].original = plan[receipt[o].plan].pre
        /\ wrote[o] # {} => snapshot[o] # NoSnapshot /\ wrote[o] \subseteq Targets(receipt[o].plan)
        /\ o \in projected => plan[receipt[o].plan].state = "applied"
        /\ receipt[o].code = "uncertain" => wrote[o] = {}

\* Where a call has written nothing, has a snapshot, and has checked its plan.
Untouched == {"locked", "begun", "checked", "copied", "failing", "failed"}
Saved == {"copied", "writing", "wrote", "committed", "managed", "recorded"}
Holding == {"checked", "copied", "writing", "wrote"}

\* A call has a receipt that says so, and has written what it has not left.
CallFits(k) ==
    /\ k.op = 0 <=> k.at \in {"idle", "read"}
    /\ k.at # "idle" => k.plan \in Plan /\ plan[k.plan].state \in Decided
    /\ k.op = 0 => k.left = {}
    /\ k.op # 0 =>
        /\ receipt[k.op].state # "none" /\ receipt[k.op].plan = k.plan
        /\ receipt[k.op].code # "uncertain"
        /\ k.left \subseteq Targets(k.plan)
    /\ k.at \in {"locked", "begun", "checked"} => snapshot[k.op] = NoSnapshot
    /\ k.at \in Untouched => wrote[k.op] = {}
    /\ k.at \in Saved => snapshot[k.op] # NoSnapshot
    /\ k.at \in {"writing", "wrote"} => k.left = Targets(k.plan) \ wrote[k.op]
    /\ k.at \in {"committed", "managed", "recorded"} => wrote[k.op] = Targets(k.plan)
    /\ k.at \in Holding => PayloadIntact(k.plan)

CallsFit == \A c \in Caller : CallFits(call[c])

\* No two calls apply operations to one file.
Apart ==
    \A c, d \in Caller :
        c # d /\ call[c].op # 0 /\ call[d].op # 0 =>
            call[c].op # call[d].op /\ Targets(call[c].plan) \cap Targets(call[d].plan) = {}

\* What a checked call has not written yet is as it was approved, or was edited.
StillApproved ==
    \A c \in Caller : call[c].at \in Holding =>
        \A f \in Targets(call[c].plan) \ wrote[call[c].op] :
            files[f] = plan[call[c].plan].pre[f] \/ f \in unseen

\* The receipts a call keeps until its files are written, and whose call it is.
EarlyState == {"prepared", "snapshotted", "writing"}
Underway(o) == \E c \in Caller : call[c].op = o

\* Until the daemon has reconciled, no request is in flight.
Quiet ==
    /\ daemon \in {"off", "starting"} => \A c \in Caller : call[c].op = 0 /\ call[c].at = "idle"
    /\ daemon = "off" => ~recon.on

\* An early receipt belongs to a call, or to a start that has it still to decide.
NoOrphan ==
    \A o \in Op : receipt[o].state \in EarlyState =>
        \/ Underway(o) \/ daemon = "off"
        \/ daemon = "starting" /\ o \in DOMAIN recon.todo

\* What an operation wrote that is under way stands, apart from edits.
Live(o) == receipt[o].state \in EarlyState \/ Underway(o)
WritesStand ==
    \A o \in Op : Live(o) =>
        \A f \in wrote[o] : files[f] = plan[receipt[o].plan].want[f] \/ f \in unseen

\* Only an edit goes unseen.
OnlyEdited == unseen # {} => edited

\* What a reconciliation looks at are receipts of operations that have begun.
TodoFits ==
    /\ \A o \in DOMAIN recon.todo :
          receipt[o].state # "none" /\ recon.todo[o].plan = receipt[o].plan
    /\ recon.look.verdict # "none" => recon.look.op \in DOMAIN recon.todo

\* A reconciliation that met no call looks at receipts as they are.
Separate ==
    ~overlapped =>
        /\ ~Meets(recon.todo, call)
        /\ \A o \in DOMAIN recon.todo : recon.todo[o] = receipt[o]

\* Its verdict stands until it acts on it: what it is to complete is written, what
\* it is to fail changed nothing.
LookStands ==
    ~overlapped =>
        /\ recon.look.verdict \in {"complete", "completed"} /\ receipt[recon.look.op].committed
              => Holds(receipt[recon.look.op].plan)
        /\ recon.look.verdict \in {"fail", "failed"} /\ ~edited => Touched(recon.look.op) = {}

\* The receipt of a call says how far it is, and once the targets are managed they
\* are managed for this operation.
CallMarked(k) ==
    /\ k.at \in {"writing", "wrote"} => receipt[k.op].state = "writing"
    /\ k.at \in {"committed", "managed", "recorded"} => receipt[k.op].state = "files_committed"
    /\ k.at \in {"managed", "recorded"} =>
          \A f \in Targets(k.plan) : managed[f] = [op |-> k.op, hash |-> plan[k.plan].want[f]]
    /\ k.at \in {"locked", "begun", "checked"} => \A f \in Path : managed[f].op # k.op
Marked == ~overlapped => \A c \in Caller : CallMarked(call[c])

\* Every managed file holds what its target says, or an open operation changed it.
ManagedHolds ==
    ~edited /\ ~overlapped =>
        \A f \in Path :
            \/ managed[f] = Unmanaged
            \/ \E o \in Op : receipt[o].state \in OpenState /\ f \in Touched(o)
            \/ managed[f].op # 0 /\ (receipt[managed[f].op].committed => files[f] = managed[f].hash)

\* The inductive invariant.
IInv == /\ Types /\ PlansFit /\ ReceiptsFit /\ CallsFit /\ Apart /\ StillApproved /\ Quiet /\ NoOrphan
        /\ WritesStand /\ OnlyEdited /\ TodoFits /\ Separate /\ LookStands /\ Marked /\ ManagedHolds
        /\ JournalCoversWrites

\* A part of the files is the content of a plan.
LEMMA RestrictContents ==
    ASSUME NEW g \in [Path -> Hash], NEW S \in SUBSET Path
    PROVE  Restrict(g, S) \in Contents /\ DOMAIN Restrict(g, S) = S
BY DEF Restrict, Contents

\* What such a content is about.
LEMMA ContentsFacts ==
    ASSUME NEW g \in Contents
    PROVE  DOMAIN g \in SUBSET Path /\ \A f \in DOMAIN g : g[f] \in Hash
BY DEF Contents

\* The content of no file.
LEMMA EmptyContents == <<>> \in Contents /\ DOMAIN <<>> = {}
<1>1. DOMAIN <<>> = {}
  OBVIOUS
<1>2. <<>> \in [{} -> Hash]
  OBVIOUS
<1> QED BY <1>1, <1>2 DEF Contents

\* What a plan is given to want is about at least one file.
LEMMA WantContents ==
    ASSUME NEW p \in DOMAIN Want
    PROVE  Want[p] \in Contents /\ DOMAIN Want[p] # {}
<1>1. PICK fs \in (SUBSET Path) \ {{}} : Want[p] \in [fs -> Content]
  BY ConfigAssumption
<1>2. Want[p] \in [fs -> Hash]
  BY <1>1 DEF Hash
<1>3. DOMAIN Want[p] = fs
  BY <1>1
<1>4. Want[p] \in Contents
  BY <1>1, <1>2 DEF Contents
<1> QED BY <1>1, <1>3, <1>4

\* What a reconciliation has still to look at.
LEMMA TodoFacts ==
    ASSUME NEW t \in Todo
    PROVE  DOMAIN t \in SUBSET Op /\ \A o \in DOMAIN t : t[o] \in Receipt
BY DEF Todo

\* Less of it is of the same type.
LEMMA RestrictTodo ==
    ASSUME NEW t, NEW S \in SUBSET Op, \A o \in S : t[o] \in Receipt
    PROVE  Restrict(t, S) \in Todo /\ DOMAIN Restrict(t, S) = S
BY DEF Restrict, Todo

\* Nothing to look at.
LEMMA EmptyTodo == <<>> \in Todo /\ DOMAIN <<>> = {}
<1>1. DOMAIN <<>> = {}
  OBVIOUS
<1>2. <<>> \in [{} -> Receipt]
  OBVIOUS
<1> QED BY <1>1, <1>2 DEF Todo

-----------------------------------------------------------------------------
\* The types hold at first.
LEMMA InitTypes == Init => Types
<1> SUFFICES ASSUME Init PROVE Types
  OBVIOUS
<1>1. NoReceipt \in Receipt
  BY DEF NoReceipt, Receipt, ReceiptState, OpenState, Code
<1>2. NoSnapshot \in SnapshotRecord
  BY EmptyContents DEF NoSnapshot, SnapshotRecord
<1>3. NoPlan \in PlanRecord
  BY EmptyContents DEF NoPlan, PlanRecord, PlanState
<1>4. NoCall \in CallRecord
  BY DEF NoCall, CallRecord, Place
<1>5. NoRecon \in ReconRecord
  BY EmptyTodo DEF NoRecon, ReconRecord, NoLook, LookRecord, Outcome
<1>6. Unmanaged \in [op : Op \cup {0}, hash : Hash]
  BY DEF Unmanaged, Hash
<1>7. files \in [Path -> Hash]
  BY ConfigAssumption DEF Init, Hash
<1> QED BY <1>1, <1>2, <1>3, <1>4, <1>5, <1>6, <1>7 DEF Init, Types

\* The steps of a plan keep the types.
LEMMA PlanTypes ==
    ASSUME Types, NEW p \in Plan, Propose(p) \/ ProposeRollback(p) \/ Approve(p)
    PROVE  Types'
<1>1. plan' \in [Plan -> PlanRecord]
  <2>1. CASE Propose(p)
    <3>1. DOMAIN Want[p] \in SUBSET Path /\ Want[p] \in Contents
      BY <2>1, WantContents, ContentsFacts DEF Propose
    <3>2. Restrict(files, DOMAIN Want[p]) \in Contents
      BY <3>1, RestrictContents DEF Types
    <3> DEFINE r == [state |-> "prepared", pre |-> Restrict(files, DOMAIN Want[p]),
                     want |-> Want[p], source |-> 0]
    <3>3. r \in PlanRecord
      BY <3>1, <3>2 DEF PlanRecord, PlanState
    <3>4. plan' = [plan EXCEPT ![p] = r]
      BY <2>1 DEF Propose
    <3> HIDE DEF r
    <3> QED BY <3>3, <3>4 DEF Types
  <2>2. CASE ProposeRollback(p)
    <3>1. PICK o \in Op :
             plan' = [plan EXCEPT ![p] =
                        [state |-> "prepared",
                         pre |-> Restrict(files, DOMAIN snapshot[o].original),
                         want |-> snapshot[o].original, source |-> o]]
      BY <2>2 DEF ProposeRollback
    <3>2. snapshot[o].original \in Contents
      BY DEF Types, SnapshotRecord
    <3>3. DOMAIN snapshot[o].original \in SUBSET Path
      BY <3>2, ContentsFacts
    <3>4. Restrict(files, DOMAIN snapshot[o].original) \in Contents
      BY <3>3, RestrictContents DEF Types
    <3> DEFINE r == [state |-> "prepared",
                     pre |-> Restrict(files, DOMAIN snapshot[o].original),
                     want |-> snapshot[o].original, source |-> o]
    <3>5. r \in PlanRecord
      BY <3>2, <3>4 DEF PlanRecord, PlanState
    <3>6. plan' = [plan EXCEPT ![p] = r]
      BY <3>1
    <3> HIDE DEF r
    <3> QED BY <3>5, <3>6 DEF Types
  <2>3. CASE Approve(p)
    BY <2>3 DEF Approve, Types, PlanRecord, PlanState
  <2> QED BY <2>1, <2>2, <2>3
<1>2. UNCHANGED <<disk, projected, memory, faults, history>>
  BY DEF Propose, ProposeRollback, Approve
<1> QED BY <1>1, <1>2 DEF Types, disk, memory, history

\* A call replaced by a call.
LEMMA CallUpdate ==
    ASSUME Types, NEW c \in Caller, NEW k \in CallRecord, call' = [call EXCEPT ![c] = k]
    PROVE  call' \in [Caller -> CallRecord]
BY DEF Types

\* A call that goes on keeps its type.
LEMMA GoTypes ==
    ASSUME Types, NEW c \in Caller, NEW place \in Place, Go(c, place)
    PROVE  call' \in [Caller -> CallRecord]
<1>1. [call[c] EXCEPT !.at = place] \in CallRecord
  BY DEF Types, CallRecord
<1>2. call' = [call EXCEPT ![c] = [call[c] EXCEPT !.at = place]]
  BY DEF Go
<1> QED BY <1>1, <1>2, CallUpdate

\* So does one that ends,
LEMMA NoCallTypes ==
    ASSUME Types, NEW c \in Caller, call' = [call EXCEPT ![c] = NoCall]
    PROVE  call' \in [Caller -> CallRecord]
<1>1. NoCall \in CallRecord
  BY DEF NoCall, CallRecord, Place
<1> QED BY <1>1, CallUpdate

\* a receipt that is marked,
LEMMA MarkTypes ==
    ASSUME Types, NEW c \in Caller, NEW s \in ReceiptState, Mark(c, s)
    PROVE  receipt' \in [Op -> Receipt]
BY DEF Types, Mark, Receipt

\* an operation that is left to a reconciliation,
LEMMA LeaveOpenTypes ==
    ASSUME Types, NEW c \in Caller, NEW x \in Code, LeaveOpen(c, x)
    PROVE  /\ receipt' \in [Op -> Receipt] /\ requested' \in BOOLEAN
           /\ call' \in [Caller -> CallRecord]
<1> DEFINE o == call[c].op
           r == [receipt[o] EXCEPT !.state = "reconciliation_required", !.code = x]
<1>1. ASSUME o \in Op PROVE receipt' \in [Op -> Receipt]
  <2> receipt[o] \in Receipt /\ "reconciliation_required" \in ReceiptState
    BY <1>1 DEF Types, ReceiptState, OpenState
  <2>1. r \in Receipt
    BY DEF Receipt
  <2>2. receipt' = [receipt EXCEPT ![o] = r]
    BY <1>1 DEF LeaveOpen, Types
  <2> QED BY <2>1, <2>2 DEF Types
<1>2. ASSUME o \notin Op PROVE receipt' \in [Op -> Receipt]
  BY <1>2 DEF LeaveOpen, Types
<1> QED BY <1>1, <1>2, NoCallTypes DEF LeaveOpen

\* a plan that moves on,
LEMMA TransitionTypes ==
    ASSUME Types, NEW p, NEW from, NEW to \in PlanState, Transition(p, from, to)
    PROVE  plan' \in [Plan -> PlanRecord]
BY DEF Types, Transition, PlanRecord

\* and the count of faults.
LEMMA FaultTypes == ASSUME Types, Fault \/ NoFault PROVE faults' \in Nat
BY DEF Types, Fault, NoFault

\* The targets of a plan are managed files, and its contents have hashes.
LEMMA PlanFacts ==
    ASSUME Types, NEW p \in Plan
    PROVE  /\ Targets(p) \in SUBSET Path
           /\ \A f \in Targets(p) : plan[p].want[f] \in Hash
           /\ \A f \in DOMAIN plan[p].pre : plan[p].pre[f] \in Hash
           /\ plan[p].pre \in Contents /\ plan[p].want \in Contents
           /\ DOMAIN plan[p].pre \in SUBSET Path
           /\ plan[p].source \in Op \cup {0}
<1>1. plan[p].want \in Contents /\ plan[p].pre \in Contents /\ plan[p].source \in Op \cup {0}
  BY DEF Types, PlanRecord
<1> QED BY <1>1, ContentsFacts DEF Targets

\* What a rollback writes are the copies it has verified.
LEMMA WrittenIsWanted ==
    ASSUME NEW p, PayloadIntact(p), NEW f \in Targets(p)
    PROVE  Written(p, f) = plan[p].want[f]
BY DEF PayloadIntact, Written

\* The managed targets keep their type.
LEMMA OwnTypes ==
    ASSUME Types, NEW o \in Op, receipt[o].plan \in Plan, Own(o)
    PROVE  managed' \in [Path -> [op : Op \cup {0}, hash : Hash]]
<1>1. \A f \in Targets(receipt[o].plan) : plan[receipt[o].plan].want[f] \in Hash
  BY PlanFacts
<1> QED BY <1>1 DEF Own, Types

\* Asking and every step of a call keep the types.
LEMMA CallTypes ==
    ASSUME Types, ReceiptsFit, CallsFit, NEW c \in Caller,
           \/ \E p \in Plan : Ask(c, p)
           \/ CallStep(c)
    PROVE  Types'
<1> USE DEF disk, redis, memory, history
<1> DEFINE p == call[c].plan
           o == call[c].op
<1>0. /\ call[c] \in CallRecord /\ CallFits(call[c])
      /\ call[c].at # "idle" => p \in Plan
      /\ call[c].at \notin {"idle", "read"} => o \in Op
      /\ call[c].at \notin {"idle", "read"} => receipt[o].plan = p
  <2>1. call[c] \in CallRecord /\ CallFits(call[c])
    BY DEF Types, CallsFit
  <2> QED BY <2>1 DEF CallRecord, CallFits
<1>1. ASSUME NEW q \in Plan, Ask(c, q) PROVE Types'
  <2> DEFINE k == [at |-> "read", plan |-> q, op |-> 0, left |-> {}]
  <2>1. k \in CallRecord
    BY DEF CallRecord, Place
  <2>2. call' = [call EXCEPT ![c] = k]
    BY <1>1 DEF Ask
  <2>3. call' \in [Caller -> CallRecord]
    <3> HIDE DEF k
    <3> QED BY <2>1, <2>2, CallUpdate
  <2> QED BY <1>1, <2>3 DEF Ask, Types
<1>2. CASE Lock(c)
  <2>1. CASE Targets(p) \cap Owned # {}
    <3>1. call' = [call EXCEPT ![c] = NoCall] /\ UNCHANGED receipt
      BY <1>2, <2>1 DEF Lock
    <3>2. call' \in [Caller -> CallRecord]
      BY <3>1, NoCallTypes
    <3>3. overlapped' \in BOOLEAN
      BY <1>2 DEF Lock, Types
    <3> QED BY <1>2, <3>1, <3>2, <3>3 DEF Lock, Types
  <2>2. CASE ~(Targets(p) \cap Owned # {})
    <3>1. PICK n \in Op :
            /\ call' = [call EXCEPT ![c].at = "locked", ![c].op = n]
            /\ receipt' = [receipt EXCEPT ![n] =
                             [state |-> "prepared", code |-> "none",
                              plan |-> p, committed |-> FALSE]]
      BY <1>2, <2>2 DEF Lock
    <3> DEFINE k == [call[c] EXCEPT !.at = "locked", !.op = n]
               r == [state |-> "prepared", code |-> "none", plan |-> p, committed |-> FALSE]
    <3>2. k \in CallRecord
      BY <1>0 DEF CallRecord, Place
    <3>3. r \in Receipt
      BY <1>0, <1>2 DEF Receipt, ReceiptState, OpenState, Code, Lock, At
    <3>4. call' = [call EXCEPT ![c] = k] /\ receipt' = [receipt EXCEPT ![n] = r]
      BY <3>1
    <3>5. call' \in [Caller -> CallRecord] /\ receipt' \in [Op -> Receipt]
      <4> HIDE DEF k, r
      <4> QED BY <3>2, <3>3, <3>4, CallUpdate DEF Types
    <3>6. overlapped' \in BOOLEAN
      BY <1>2 DEF Lock, Types
    <3> QED BY <1>2, <3>5, <3>6 DEF Lock, Types
  <2> QED BY <2>1, <2>2
<1>3. CASE Begin(c)
  <2>1. plan' \in [Plan -> PlanRecord]
    <3>1. Transition(p, "approved", "applying") \/ UNCHANGED plan
      BY <1>3 DEF Begin
    <3>2. "applying" \in PlanState
      BY DEF PlanState
    <3> QED BY <3>1, <3>2, TransitionTypes DEF Types
  <2>2. /\ receipt' \in [Op -> Receipt] /\ requested' \in BOOLEAN
        /\ call' \in [Caller -> CallRecord] /\ faults' \in Nat
    <3>1. "begun" \in Place /\ "uncertain" \in Code
      BY DEF Place, Code
    <3> QED BY <1>3, <3>1, GoTypes, LeaveOpenTypes, FaultTypes DEF Begin, Types
  <2> QED BY <1>3, <2>1, <2>2 DEF Begin, Types
<1>4. CASE Check(c)
  <2>1. call' \in [Caller -> CallRecord]
    <3>1. "checked" \in Place /\ "failing" \in Place
      BY DEF Place
    <3> QED BY <1>4, <3>1, GoTypes DEF Check
  <2>2. Targets(p) \in SUBSET Path
    BY <1>0, <1>4, PlanFacts DEF Check, At
  <2>3. locks' \in SUBSET Path /\ unseen' \in SUBSET Path
    BY <1>4, <2>2 DEF Check, Types
  <2> QED BY <1>4, <2>1, <2>3 DEF Check, Types
<1>5. CASE Copy(c)
  <2>1. call' \in [Caller -> CallRecord]
    <3>1. "copied" \in Place /\ "failing" \in Place
      BY DEF Place
    <3> QED BY <1>5, <3>1, GoTypes DEF Copy, Abandon
  <2>2. /\ p \in Plan /\ Targets(p) \in SUBSET Path /\ plan[p].pre \in Contents
        /\ Restrict(files, Targets(p)) \in Contents
    BY <1>0, <1>5, PlanFacts, RestrictContents DEF Copy, At, Types
  <2>3. snapshot' \in [Op -> SnapshotRecord]
    <3> DEFINE s == [original |-> plan[p].pre, payload |-> Restrict(files, Targets(p))]
    <3>1. s \in SnapshotRecord
      BY <2>2 DEF SnapshotRecord
    <3>2. snapshot' = [snapshot EXCEPT ![o] = s] \/ UNCHANGED snapshot
      BY <1>5 DEF Copy
    <3> HIDE DEF s
    <3> QED BY <3>1, <3>2 DEF Types
  <2>4. receipt' \in [Op -> Receipt]
    <3> DEFINE r == [receipt[o] EXCEPT !.state = "snapshotted", !.committed = TRUE]
    <3>1. o \in Op
      BY <1>0, <1>5 DEF Copy, At
    <3> receipt[o] \in Receipt /\ "snapshotted" \in ReceiptState
      BY <3>1 DEF Types, ReceiptState, OpenState
    <3>2. r \in Receipt
      BY DEF Receipt
    <3>3. receipt' = [receipt EXCEPT ![o] = r] \/ UNCHANGED receipt
      BY <1>5, <3>1 DEF Copy, Types
    <3> HIDE DEF r
    <3> QED BY <3>2, <3>3 DEF Types
  <2>5. locks' \in SUBSET Path /\ faults' \in Nat
    BY <1>5, FaultTypes DEF Copy, Abandon, Unlock, Types
  <2> QED BY <1>5, <2>1, <2>3, <2>4, <2>5 DEF Copy, Types
<1>6. CASE Stage(c)
  <2>1. call' \in [Caller -> CallRecord]
    <3> DEFINE k == [call[c] EXCEPT !.at = "writing", !.left = Targets(p)]
    <3>1. k \in CallRecord
      BY <1>0, <1>6, PlanFacts DEF CallRecord, Place, Stage, At
    <3>2. call' = [call EXCEPT ![c] = k] \/ Go(c, "failing")
      BY <1>6 DEF Stage, Abandon
    <3>3. "failing" \in Place
      BY DEF Place
    <3> HIDE DEF k
    <3> QED BY <3>1, <3>2, <3>3, GoTypes, CallUpdate
  <2>2. receipt' \in [Op -> Receipt]
    <3>1. "writing" \in ReceiptState
      BY DEF ReceiptState, OpenState
    <3> QED BY <1>6, <3>1, MarkTypes DEF Stage, Types
  <2>3. locks' \in SUBSET Path /\ faults' \in Nat
    BY <1>6, FaultTypes DEF Stage, Abandon, Unlock, Types
  <2> QED BY <1>6, <2>1, <2>2, <2>3 DEF Stage, Types
<1>7. ASSUME NEW f \in Path, Write(c, f) PROVE Types'
  <2>1. call' \in [Caller -> CallRecord] /\ receipt' \in [Op -> Receipt] /\ requested' \in BOOLEAN
    <3> DEFINE k == [call[c] EXCEPT !.at = "wrote", !.left = @ \ {f}]
    <3>1. k \in CallRecord
      BY <1>0 DEF CallRecord, Place
    <3>2. \/ call' = [call EXCEPT ![c] = k] /\ UNCHANGED <<receipt, requested>>
          \/ Go(c, "failing") /\ UNCHANGED <<receipt, requested>>
          \/ LeaveOpen(c, "partial")
      BY <1>7 DEF Write, Abandon
    <3>3. "failing" \in Place /\ "partial" \in Code
      BY DEF Place, Code
    <3> HIDE DEF k
    <3> QED BY <3>1, <3>2, <3>3, GoTypes, CallUpdate, LeaveOpenTypes DEF Types
  <2>2. files' \in [Path -> Hash]
    <3>1. p \in Plan /\ f \in Targets(p) /\ PayloadIntact(p)
      BY <1>0, <1>7 DEF Write, At, CallFits, Holding
    <3>2. Written(p, f) \in Hash
      BY <3>1, WrittenIsWanted, PlanFacts
    <3> QED BY <1>7, <3>2 DEF Write, Types
  <2>3. wrote' \in [Op -> SUBSET Path]
    BY <1>7 DEF Write, Types
  <2>4. locks' \in SUBSET Path /\ faults' \in Nat
    BY <1>7, FaultTypes DEF Write, Abandon, Unlock, Types
  <2> QED BY <1>7, <2>1, <2>2, <2>3, <2>4 DEF Write, Types
<1>8. CASE Note(c)
  <2>1. /\ "committed" \in Place /\ "writing" \in Place
        /\ "files_committed" \in ReceiptState /\ "writing" \in ReceiptState
    BY DEF Place, ReceiptState, OpenState
  <2>2. call' \in [Caller -> CallRecord] /\ receipt' \in [Op -> Receipt]
    BY <1>8, <2>1, GoTypes, MarkTypes DEF Note
  <2>3. locks' \in SUBSET Path
    BY <1>8 DEF Note, Unlock, Types
  <2> QED BY <1>8, <2>2, <2>3 DEF Note, Types
<1>9. CASE Manage(c)
  <2>1. "managed" \in Place /\ "partial" \in Code
    BY DEF Place, Code
  <2>2. call' \in [Caller -> CallRecord] /\ receipt' \in [Op -> Receipt] /\ requested' \in BOOLEAN
    BY <1>9, <2>1, GoTypes, LeaveOpenTypes DEF Manage, Types
  <2>3. managed' \in [Path -> [op : Op \cup {0}, hash : Hash]]
    BY <1>0, <1>9, OwnTypes DEF Manage, At, Types
  <2>4. faults' \in Nat
    BY <1>9, FaultTypes DEF Manage
  <2> QED BY <1>9, <2>2, <2>3, <2>4 DEF Manage, Types
<1>10. CASE Complete(c)
  <2>1. "recorded" \in Place /\ "projection" \in Code /\ "applied" \in PlanState
    BY DEF Place, Code, PlanState
  <2>2. call' \in [Caller -> CallRecord] /\ receipt' \in [Op -> Receipt] /\ requested' \in BOOLEAN
    BY <1>10, <2>1, GoTypes, LeaveOpenTypes DEF Complete, Types
  <2>3. plan' \in [Plan -> PlanRecord]
    BY <1>10, <2>1, TransitionTypes DEF Complete, Record, Types
  <2>4. projected' \in SUBSET Op /\ o \in Op
    BY <1>0, <1>10 DEF Complete, Record, Types, At
  <2>5. faults' \in Nat
    BY <1>10, FaultTypes DEF Complete
  <2> QED BY <1>10, <2>2, <2>3, <2>4, <2>5 DEF Complete, Types
<1>11. CASE Finish(c)
  <2>1. "completed" \in ReceiptState /\ "partial" \in Code
    BY DEF ReceiptState, Code
  <2>2. call' \in [Caller -> CallRecord] /\ receipt' \in [Op -> Receipt] /\ requested' \in BOOLEAN
    BY <1>11, <2>1, NoCallTypes, MarkTypes, LeaveOpenTypes DEF Finish, Types
  <2>3. faults' \in Nat
    BY <1>11, FaultTypes DEF Finish
  <2> QED BY <1>11, <2>2, <2>3 DEF Finish, Types
<1>12. CASE FailPlan(c)
  <2>1. "failed" \in Place /\ "failed" \in PlanState
    BY DEF Place, PlanState
  <2>2. call' \in [Caller -> CallRecord]
    BY <1>12, <2>1, GoTypes DEF FailPlan
  <2>3. plan' \in [Plan -> PlanRecord]
    BY <1>12, <2>1, TransitionTypes DEF FailPlan, Types
  <2>4. faults' \in Nat
    BY <1>12, FaultTypes DEF FailPlan
  <2> QED BY <1>12, <2>2, <2>3, <2>4 DEF FailPlan, Types
<1>13. CASE FailReceipt(c)
  <2>1. "failed" \in ReceiptState
    BY DEF ReceiptState
  <2>2. call' \in [Caller -> CallRecord] /\ receipt' \in [Op -> Receipt]
    BY <1>13, <2>1, NoCallTypes, MarkTypes DEF FailReceipt
  <2> QED BY <1>13, <2>2 DEF FailReceipt, Types
<1> QED BY <1>1, <1>2, <1>3, <1>4, <1>5, <1>6, <1>7, <1>8, <1>9, <1>10, <1>11, <1>12, <1>13 DEF CallStep

\* No reconciliation is of the type of one.
LEMMA NoReconTypes == NoRecon \in ReconRecord /\ NoRecon.todo = <<>> /\ NoRecon.look = NoLook
BY EmptyTodo DEF NoRecon, ReconRecord, NoLook, LookRecord, Outcome

\* A reconciliation begins with the receipts that are open.
LEMMA OpenReceiptsFacts ==
    ASSUME Types
    PROVE  /\ OpenReceipts \in Todo
           /\ DOMAIN OpenReceipts = {o \in Op : receipt[o].state \in OpenState}
           /\ \A o \in DOMAIN OpenReceipts : OpenReceipts[o] = receipt[o]
<1> DEFINE S == {o \in Op : receipt[o].state \in OpenState}
<1>1. S \in SUBSET Op /\ \A o \in S : receipt[o] \in Receipt
  BY DEF Types
<1>2. Restrict(receipt, S) \in Todo /\ DOMAIN Restrict(receipt, S) = S
  BY <1>1, RestrictTodo
<1>3. \A o \in S : Restrict(receipt, S)[o] = receipt[o]
  BY DEF Restrict
<1> QED BY <1>2, <1>3 DEF OpenReceipts

\* Its beginning keeps the types,
LEMMA BeginReconTypes ==
    ASSUME Types, BeginRecon
    PROVE  recon' \in ReconRecord /\ overlapped' \in BOOLEAN
<1> DEFINE t == OpenReceipts
<1>1. t \in Todo
  BY OpenReceiptsFacts
<1>2. NoRecon \in ReconRecord
  BY NoReconTypes
<1> HIDE DEF t
<1>3. [NoRecon EXCEPT !.on = TRUE, !.todo = t] \in ReconRecord
  BY <1>1, <1>2 DEF ReconRecord
<1>4. recon' = [NoRecon EXCEPT !.on = TRUE, !.todo = t]
  BY DEF BeginRecon, t
<1> QED BY <1>3, <1>4 DEF BeginRecon, Types

\* and so does what it says,
LEMMA SaysTypes ==
    ASSUME Types, NEW v \in Outcome, Says(v)
    PROVE  recon' \in ReconRecord
<1>1. recon \in ReconRecord
  BY DEF Types
<1>2. recon.look \in LookRecord
  BY <1>1 DEF ReconRecord
<1> DEFINE k == [recon.look EXCEPT !.verdict = v]
<1>3. k \in LookRecord
  BY <1>2 DEF LookRecord
<1>4. recon' = [recon EXCEPT !.look = k]
  BY <1>1 DEF Says, ReconRecord
<1> HIDE DEF k
<1> QED BY <1>1, <1>3, <1>4 DEF ReconRecord

\* and what it makes of a receipt.
LEMMA VerdictTypes == ASSUME NEW o, NEW r PROVE Verdict(o, r) \in Outcome
BY DEF Verdict, Outcome

\* A start, a reconciliation, a crash and an edit keep the types.
LEMMA ReconTypes ==
    ASSUME Types, ReceiptsFit, TodoFits,
           \/ Start \/ Recover \/ AskRecon \/ ReconStep \/ Crash
           \/ \E f \in Path : Edit(f)
    PROVE  Types'
<1> USE DEF disk, redis, memory, history
<1>0. recon \in ReconRecord /\ recon.todo \in Todo /\ recon.look \in LookRecord
  BY DEF Types, ReconRecord
<1>1. CASE Start
  BY <1>1, BeginReconTypes DEF Start, Types, BeginRecon
<1>2. CASE Recover
  BY <1>2, BeginReconTypes DEF Recover, Types, BeginRecon
<1>3. CASE AskRecon
  BY <1>3, BeginReconTypes DEF AskRecon, Types, BeginRecon
<1>4. ASSUME NEW o \in Op, Look(o) PROVE Types'
  <2> DEFINE k == [op |-> o, verdict |-> Verdict(o, recon.todo[o])]
  <2>1. k \in LookRecord
    BY VerdictTypes DEF LookRecord
  <2>2. recon' = [recon EXCEPT !.look = k]
    BY <1>4 DEF Look
  <2>3. recon' \in ReconRecord
    <3> HIDE DEF k
    <3> QED BY <1>0, <2>1, <2>2 DEF ReconRecord
  <2> QED BY <1>4, <2>3 DEF Look, Types
<1>5. CASE Decide
  <2>1. PICK o \in DOMAIN recon.todo :
            FailStale(recon.todo[o].plan) \/ CompleteStale(recon.todo[o].plan, o)
    BY <1>5 DEF Decide
  <2> DEFINE p == recon.todo[o].plan
  <2>2. o \in Op
    BY <1>0, TodoFacts
  <2>3. /\ "failed" \in PlanState /\ "applied" \in PlanState
        /\ "failed" \in Outcome /\ "hold" \in Outcome /\ "completed" \in Outcome
    BY DEF PlanState, Outcome
  <2>4. plan' \in [Plan -> PlanRecord]
    BY <2>1, <2>3, TransitionTypes DEF FailStale, CompleteStale, Record, Types
  <2>5. projected' \in SUBSET Op
    BY <2>1, <2>2 DEF FailStale, CompleteStale, Record, Types
  <2>6. recon' \in ReconRecord
    BY <2>1, <2>3, SaysTypes, NoReconTypes DEF FailStale, CompleteStale, Throw
  <2>7. daemon' \in {"off", "starting", "up", "recovering"} /\ faults' \in Nat
    BY <2>1, FaultTypes DEF FailStale, CompleteStale, Throw, Types
  <2> QED BY <1>5, <2>4, <2>5, <2>6, <2>7 DEF Decide, Types
<1>6. CASE Close
  <2> DEFINE o == recon.look.op
             v == recon.look.verdict
  <2>1. v # "none" /\ o \in DOMAIN recon.todo
    BY <1>6 DEF Close, Saw, TodoFits
  <2>2. o \in Op /\ recon.todo[o] \in Receipt
    BY <1>0, <2>1, TodoFacts
  <2>3. /\ "failed" \in ReceiptState /\ "completed" \in ReceiptState
        /\ "reconciliation_required" \in ReceiptState
        /\ "interrupted" \in Code /\ "none" \in Code /\ "held" \in Code
    BY DEF ReceiptState, OpenState, Code
  <2>4. ASSUME NEW s \in ReceiptState, NEW x \in Code, Closed(o, s, x)
        PROVE  receipt' \in [Op -> Receipt]
    <3> DEFINE r == [recon.todo[o] EXCEPT !.state = s, !.code = x]
    <3>1. r \in Receipt
      BY <2>2, <2>4 DEF Receipt
    <3>2. receipt' = [receipt EXCEPT ![o] = r]
      BY <2>4 DEF Closed
    <3> HIDE DEF r
    <3> QED BY <2>2, <3>1, <3>2 DEF Types
  <2>5. receipt' \in [Op -> Receipt]
    BY <1>6, <2>3, <2>4 DEF Close
  <2>6. receipt[o].plan \in Plan
    BY <2>1, <2>2 DEF TodoFits, ReceiptsFit
  <2>7. managed' \in [Path -> [op : Op \cup {0}, hash : Hash]]
    BY <1>6, <2>2, <2>6, OwnTypes DEF Close, Types
  <2>8. recon' \in ReconRecord
    <3> DEFINE t == Restrict(recon.todo, DOMAIN recon.todo \ {o})
    <3>1. t \in Todo
      BY <1>0, TodoFacts, RestrictTodo
    <3>2. NoLook \in LookRecord /\ (recon.held \/ v = "hold") \in BOOLEAN
      BY DEF NoLook, LookRecord, Outcome
    <3>3. recon' = [recon EXCEPT !.todo = t, !.look = NoLook, !.held = @ \/ v = "hold"]
      BY <1>6 DEF Close
    <3> HIDE DEF t, v
    <3> QED BY <1>0, <3>1, <3>2, <3>3 DEF ReconRecord
  <2> QED BY <1>6, <2>5, <2>7, <2>8 DEF Close, Types
<1>7. CASE EndRecon
  BY <1>7, NoReconTypes DEF EndRecon, Throw, Types
<1>8. CASE Crash
  <2>1. NoCall \in CallRecord
    BY DEF NoCall, CallRecord, Place
  <2> QED BY <1>8, <2>1, NoReconTypes, FaultTypes DEF Crash, Types
<1>9. ASSUME NEW f \in Path, Edit(f) PROVE Types'
  BY <1>9, FaultTypes DEF Edit, Types
<1> QED BY <1>1, <1>2, <1>3, <1>4, <1>5, <1>6, <1>7, <1>8, <1>9 DEF ReconStep

\* Every step keeps the types.
LEMMA TypesStep ==
    ASSUME Types, ReceiptsFit, CallsFit, TodoFits, [Next]_vars
    PROVE  Types'
<1>1. CASE PlanStep
  BY <1>1, PlanTypes DEF PlanStep
<1>2. CASE UNCHANGED vars
  BY <1>2 DEF vars, disk, redis, memory, history, Types
<1> QED BY <1>1, <1>2, CallTypes, ReconTypes DEF Next

-----------------------------------------------------------------------------
\* What no step takes back: the files of a plan and what it wants of them, the
\* plan of an operation, and what a snapshot holds.

\* A plan that was made says the same for good, and does not fall back from being
\* applied.
PlanStays(p) ==
    plan[p].state # "none" =>
        /\ plan'[p].state # "none"
        /\ plan'[p].pre = plan[p].pre /\ plan'[p].want = plan[p].want
        /\ plan'[p].source = plan[p].source
        /\ plan[p].state \in Decided => plan'[p].state \in Decided
        /\ plan[p].state = "applied" => plan'[p].state = "applied"

\* A plan comes into being by being proposed.
PlanBegins(p) ==
    plan[p].state = "none" => plan'[p] = plan[p] \/ Propose(p) \/ ProposeRollback(p)

\* A receipt stays with its plan.
ReceiptStays(o) ==
    receipt[o].state # "none" =>
        receipt'[o].state # "none" /\ receipt'[o].plan = receipt[o].plan

\* A snapshot is taken once.
SnapshotStays(o) == snapshot[o] # NoSnapshot => snapshot'[o] = snapshot[o]

\* What no step takes back.
Steady ==
    /\ \A p \in Plan : PlanStays(p) /\ PlanBegins(p)
    /\ \A o \in Op : ReceiptStays(o) /\ SnapshotStays(o)

\* A command that moves a plan keeps what the plan says.
LEMMA TransitionStays ==
    ASSUME Types, NEW p, NEW from, NEW to \in Decided, from \in {"approved", "applying"},
           Transition(p, from, to)
    PROVE  \A q \in Plan : PlanStays(q) /\ PlanBegins(q)
BY DEF Types, Transition, PlanStays, PlanBegins, PlanRecord, Decided

\* Every step does.
LEMMA PlansStay ==
    ASSUME Types, Next
    PROVE  \A p \in Plan : PlanStays(p) /\ PlanBegins(p)
<1> USE DEF disk, redis, memory, history
<1>1. CASE UNCHANGED plan
  BY <1>1 DEF PlanStays, PlanBegins
<1>2. ASSUME NEW p \in Plan, Propose(p) \/ ProposeRollback(p) PROVE \A q \in Plan : PlanStays(q) /\ PlanBegins(q)
  BY <1>2 DEF Propose, ProposeRollback, PlanStays, PlanBegins, Types
<1>3. ASSUME NEW p \in Plan, Approve(p) PROVE \A q \in Plan : PlanStays(q) /\ PlanBegins(q)
  <2>1. plan' = [plan EXCEPT ![p] = [plan[p] EXCEPT !.state = "approved"]] /\ plan[p].state = "prepared"
    BY <1>3 DEF Approve
  <2>2. plan[p] \in PlanRecord
    BY DEF Types
  <2> QED BY <2>1, <2>2 DEF PlanStays, PlanBegins, Types, PlanRecord, Decided
<1>4. "applying" \in Decided /\ "applied" \in Decided /\ "failed" \in Decided
  BY DEF Decided
<1>5. ASSUME NEW c \in Caller, CallStep(c) PROVE \A q \in Plan : PlanStays(q) /\ PlanBegins(q)
  <2>1. CASE Begin(c)
    BY <1>1, <1>4, <2>1, TransitionStays DEF Begin
  <2>2. CASE Complete(c)
    BY <1>1, <1>4, <2>2, TransitionStays DEF Complete, Record
  <2>3. CASE FailPlan(c)
    BY <1>1, <1>4, <2>3, TransitionStays DEF FailPlan
  <2>4. CASE ~Begin(c) /\ ~Complete(c) /\ ~FailPlan(c)
    <3>1. UNCHANGED plan
      BY <1>5, <2>4 DEF CallStep, Lock, Check, Copy, Stage, Write, Note, Manage, Finish, FailReceipt
    <3> QED BY <1>1, <3>1
  <2> QED BY <2>1, <2>2, <2>3, <2>4
<1>6. CASE Decide
  BY <1>1, <1>4, <1>6, TransitionStays DEF Decide, FailStale, CompleteStale, Record
<1>7. CASE ~PlanStep /\ ~(\E c \in Caller : CallStep(c)) /\ ~Decide
  <2>1. UNCHANGED plan
    BY <1>7 DEF Next, Ask, Start, Recover, AskRecon, ReconStep, Look, Close, EndRecon, Crash, Edit
  <2> QED BY <1>1, <2>1
<1> QED BY <1>2, <1>3, <1>5, <1>6, <1>7 DEF PlanStep

\* What one step makes of the receipts.
LEMMA MarkEffect ==
    ASSUME Types, NEW c \in Caller, NEW s, Mark(c, s)
    PROVE  \A o \in Op :
             /\ receipt'[o].plan = receipt[o].plan /\ receipt'[o].code = receipt[o].code
             /\ receipt'[o].committed = receipt[o].committed
             /\ receipt'[o].state = IF o = call[c].op THEN s ELSE receipt[o].state
             /\ o # call[c].op => receipt'[o] = receipt[o]
BY DEF Types, Mark, Receipt

\* What leaving an operation open changes, and what it leaves.
LEMMA LeaveOpenEffect ==
    ASSUME Types, NEW c \in Caller, NEW x, LeaveOpen(c, x)
    PROVE  \A o \in Op :
             /\ receipt'[o].plan = receipt[o].plan
             /\ receipt'[o].committed = receipt[o].committed
             /\ receipt'[o].code = IF o = call[c].op THEN x ELSE receipt[o].code
             /\ receipt'[o].state = IF o = call[c].op THEN "reconciliation_required"
                                                       ELSE receipt[o].state
             /\ o # call[c].op => receipt'[o] = receipt[o]
<1> DEFINE n == call[c].op
           r == [receipt[n] EXCEPT !.state = "reconciliation_required", !.code = x]
<1>1. CASE n \in Op
  <2>1. receipt' = [receipt EXCEPT ![n] = r]
    BY <1>1 DEF LeaveOpen, Types
  <2>2. receipt[n] \in Receipt
    BY <1>1 DEF Types
  <2>3. /\ r.plan = receipt[n].plan /\ r.committed = receipt[n].committed
        /\ r.state = "reconciliation_required" /\ r.code = x
    BY <2>2 DEF Receipt
  <2> HIDE DEF r
  <2> QED BY <1>1, <2>1, <2>3 DEF Types
<1>2. CASE n \notin Op
  BY <1>2 DEF LeaveOpen, Types
<1> QED BY <1>1, <1>2

\* A request takes its targets with the first receipt that is free, or goes.
LEMMA LockEffect ==
    ASSUME Types, NEW c \in Caller, Lock(c)
    PROVE  \/ UNCHANGED receipt /\ call' = [call EXCEPT ![c] = NoCall]
           \/ \E n \in Op :
                 /\ Targets(call[c].plan) \cap Owned = {}
                 /\ receipt[n] = NoReceipt /\ receipt[n].state = "none"
                 /\ call' = [call EXCEPT ![c] = [call[c] EXCEPT !.at = "locked", !.op = n]]
                 /\ receipt' = [receipt EXCEPT ![n] =
                                  [state |-> "prepared", code |-> "none",
                                   plan |-> call[c].plan, committed |-> FALSE]]
<1> DEFINE p == call[c].plan
<1>1. CASE Targets(p) \cap Owned # {}
  BY <1>1 DEF Lock
<1>2. CASE Targets(p) \cap Owned = {}
  <2>1. PICK n \in Op :
          /\ \A q \in Op : receipt[q] = NoReceipt <=> q >= n
          /\ call' = [call EXCEPT ![c].at = "locked", ![c].op = n]
          /\ receipt' = [receipt EXCEPT ![n] =
                           [state |-> "prepared", code |-> "none",
                            plan |-> p, committed |-> FALSE]]
    BY <1>2 DEF Lock
  <2>2. n >= n
    BY ConfigAssumption DEF Op
  <2>3. receipt[n] = NoReceipt
    <3>1. receipt[n] = NoReceipt <=> n >= n
      BY <2>1
    <3> QED BY <2>2, <3>1
  <2>4. receipt[n].state = "none"
    BY <2>3 DEF NoReceipt
  <2>5. call' = [call EXCEPT ![c] = [call[c] EXCEPT !.at = "locked", !.op = n]]
    BY <2>1
  <2> QED BY <1>2, <2>1, <2>3, <2>4, <2>5
<1> QED BY <1>1, <1>2

\* What taking the snapshot changes in the receipts.
LEMMA CopyEffect ==
    ASSUME Types, NEW c \in Caller, Copy(c)
    PROVE  \A o \in Op :
             /\ receipt'[o].plan = receipt[o].plan /\ receipt'[o].code = receipt[o].code
             /\ o # call[c].op \/ receipt' = receipt => receipt'[o] = receipt[o]
             /\ o = call[c].op /\ receipt' # receipt =>
                   receipt'[o].committed /\ receipt'[o].state = "snapshotted"
<1> DEFINE n == call[c].op
           r == [receipt[n] EXCEPT !.state = "snapshotted", !.committed = TRUE]
<1>1. CASE UNCHANGED receipt
  BY <1>1
<1>2. CASE n \in Op /\ receipt' # receipt
  <2>1. receipt' = [receipt EXCEPT ![n] = r]
    BY <1>2 DEF Copy, Types
  <2>2. receipt[n] \in Receipt
    BY <1>2 DEF Types
  <2>3. /\ r.plan = receipt[n].plan /\ r.committed = TRUE
        /\ r.state = "snapshotted" /\ r.code = receipt[n].code
    BY <2>2 DEF Receipt
  <2> HIDE DEF r
  <2> QED BY <1>2, <2>1, <2>3 DEF Types
<1>3. CASE n \notin Op
  BY <1>3 DEF Copy, Types
<1> QED BY <1>1, <1>2, <1>3

\* Every step leaves a receipt with its plan.
LEMMA ReceiptsStay ==
    ASSUME Types, CallsFit, TodoFits, Next
    PROVE  \A o \in Op : ReceiptStays(o)
<1> USE DEF disk, redis, memory, history
<1>1. CASE UNCHANGED receipt
  BY <1>1 DEF ReceiptStays
<1>2. ASSUME NEW n \in Op, NEW r \in Receipt, receipt' = [receipt EXCEPT ![n] = r],
             receipt[n].state # "none" => r.state # "none" /\ r.plan = receipt[n].plan
      PROVE  \A o \in Op : ReceiptStays(o)
  BY <1>2 DEF ReceiptStays, Types
<1>3. ASSUME NEW c \in Caller, CallStep(c) PROVE \A o \in Op : ReceiptStays(o)
  <2>1. CASE UNCHANGED receipt
    BY <1>1, <2>1
  <2>2. ASSUME NEW s, s # "none", Mark(c, s) PROVE \A o \in Op : ReceiptStays(o)
    BY <2>2, MarkEffect DEF ReceiptStays
  <2>3. ASSUME NEW x, LeaveOpen(c, x) PROVE \A o \in Op : ReceiptStays(o)
    BY <2>3, LeaveOpenEffect DEF ReceiptStays
  <2>4. CASE Lock(c) /\ receipt' # receipt
    BY <2>4, LockEffect DEF ReceiptStays, Types
  <2>5. CASE Copy(c) /\ receipt' # receipt
    BY <2>5, CopyEffect DEF ReceiptStays
  <2> QED BY <1>3, <2>1, <2>2, <2>3, <2>4, <2>5
          DEF CallStep, Lock, Begin, Check, Copy, Stage, Write, Note, Manage, Complete, Finish,
              FailPlan, FailReceipt
<1>4. CASE Close
  <2> DEFINE o == recon.look.op
  <2>1. recon.look.verdict # "none" /\ o \in DOMAIN recon.todo
    BY <1>4 DEF Close, Saw, TodoFits
  <2>2. o \in Op /\ recon.todo[o] \in Receipt
    BY <2>1, TodoFacts DEF Types, ReconRecord
  <2>3. recon.todo[o].plan = receipt[o].plan
    BY <2>1 DEF TodoFits
  <2>4. ASSUME NEW s, NEW x, s # "none", Closed(o, s, x) PROVE \A q \in Op : ReceiptStays(q)
    BY <2>2, <2>3, <2>4 DEF Closed, ReceiptStays, Types, Receipt
  <2> QED BY <1>4, <2>4 DEF Close
<1>5. CASE ~(\E c \in Caller : CallStep(c)) /\ ~Close
  <2>1. UNCHANGED receipt
    BY <1>5 DEF Next, PlanStep, Propose, ProposeRollback, Approve, Ask, Start, Recover, AskRecon,
                ReconStep, Look, Decide, EndRecon, Crash, Edit
  <2> QED BY <1>1, <2>1
<1> QED BY <1>3, <1>4, <1>5

\* Every step leaves a snapshot as it was taken.
LEMMA SnapshotsStay ==
    ASSUME Types, CallsFit, Next
    PROVE  \A o \in Op : SnapshotStays(o)
<1> USE DEF disk, redis, memory, history
<1>1. CASE UNCHANGED snapshot
  BY <1>1 DEF SnapshotStays
<1>2. ASSUME NEW c \in Caller, Copy(c) PROVE \A o \in Op : SnapshotStays(o)
  <2>1. snapshot[call[c].op] = NoSnapshot
    BY <1>2 DEF Copy, At, CallsFit, CallFits
  <2> QED BY <1>2, <2>1 DEF Copy, SnapshotStays, Types
<1>3. CASE ~(\E c \in Caller : Copy(c))
  <2>1. UNCHANGED snapshot
    BY <1>3 DEF Next, PlanStep, Propose, ProposeRollback, Approve, Ask, CallStep, Lock, Begin, Check,
                Stage, Write, Note, Manage, Complete, Finish, FailPlan, FailReceipt,
                Start, Recover, AskRecon, ReconStep, Look, Decide, Close, EndRecon, Crash, Edit
  <2> QED BY <1>1, <2>1
<1> QED BY <1>2, <1>3

\* Every step is steady.
LEMMA SteadyStep ==
    ASSUME Types, CallsFit, TodoFits, Next
    PROVE  Steady
BY PlansStay, ReceiptsStay, SnapshotsStay DEF Steady

-----------------------------------------------------------------------------
\* The plans.

\* A snapshot belongs to an operation that has begun, and is about its targets.
LEMMA SnapshotOfOp ==
    ASSUME Types, PlansFit, ReceiptsFit, NEW o \in Op, snapshot[o] # NoSnapshot
    PROVE  /\ receipt[o].state # "none" /\ receipt[o].plan \in Plan
           /\ plan[receipt[o].plan].state \in Decided
           /\ snapshot[o].original = plan[receipt[o].plan].pre
           /\ DOMAIN snapshot[o].original = Targets(receipt[o].plan)
           /\ Targets(receipt[o].plan) # {}
BY DEF ReceiptsFit, Fresh, PlansFit, Targets, Decided

\* The targets of a plan stay.
LEMMA TargetsStay ==
    ASSUME NEW p \in Plan, PlanStays(p), plan[p].state # "none"
    PROVE  Targets(p)' = Targets(p)
BY DEF PlanStays, Targets

\* Every step keeps the plans in order.
LEMMA PlansFitStep ==
    ASSUME Types, PlansFit, ReceiptsFit, Steady
    PROVE  PlansFit'
<1> SUFFICES ASSUME NEW p \in Plan
             PROVE  /\ DOMAIN plan'[p].want = DOMAIN plan'[p].pre
                    /\ plan'[p].state # "none" => Targets(p)' # {}
                    /\ plan'[p].source # 0 => snapshot'[plan'[p].source] # NoSnapshot
  BY DEF PlansFit
<1>0. plan[p].source \in Op \cup {0} /\ PlanStays(p) /\ PlanBegins(p)
  BY DEF Types, PlanRecord, Steady
<1>1. CASE plan[p].state # "none" \/ plan'[p] = plan[p]
  <2>1. /\ plan'[p].want = plan[p].want /\ plan'[p].pre = plan[p].pre
        /\ plan'[p].source = plan[p].source
        /\ plan'[p].state # "none" => plan[p].state # "none"
    BY <1>0, <1>1 DEF PlanStays
  <2>2. \A o \in Op : snapshot[o] # NoSnapshot => snapshot'[o] # NoSnapshot
    BY DEF Steady, SnapshotStays
  <2> QED BY <1>0, <2>1, <2>2 DEF PlansFit, Targets
<1>2. CASE Propose(p)
  <2>1. DOMAIN Want[p] \in SUBSET Path /\ DOMAIN Want[p] # {}
    BY <1>2, WantContents, ContentsFacts DEF Propose
  <2>2. DOMAIN Restrict(files, DOMAIN Want[p]) = DOMAIN Want[p]
    BY <2>1, RestrictContents DEF Types
  <2>3. /\ plan'[p].want = Want[p] /\ plan'[p].source = 0
        /\ plan'[p].pre = Restrict(files, DOMAIN Want[p])
    BY <1>2 DEF Propose, Types
  <2> QED BY <2>1, <2>2, <2>3 DEF Targets
<1>3. CASE ProposeRollback(p)
  <2>1. PICK o \in Op :
          /\ snapshot[o] # NoSnapshot
          /\ plan' = [plan EXCEPT ![p] =
                        [state |-> "prepared",
                         pre |-> Restrict(files, DOMAIN snapshot[o].original),
                         want |-> snapshot[o].original, source |-> o]]
    BY <1>3 DEF ProposeRollback
  <2> DEFINE S == DOMAIN snapshot[o].original
  <2>2. S # {} /\ S \in SUBSET Path
    BY <2>1, SnapshotOfOp, PlanFacts
  <2>3. DOMAIN Restrict(files, S) = S
    BY <2>2, RestrictContents DEF Types
  <2>4. /\ plan'[p].want = snapshot[o].original /\ plan'[p].source = o
        /\ plan'[p].pre = Restrict(files, S)
    BY <2>1 DEF Types
  <2>5. snapshot'[o] # NoSnapshot
    BY <2>1 DEF Steady, SnapshotStays
  <2> QED BY <2>2, <2>3, <2>4, <2>5 DEF Targets
<1> QED BY <1>0, <1>1, <1>2, <1>3 DEF PlanBegins

-----------------------------------------------------------------------------
\* Which steps change what.

\* The beginnings of a reconciliation.
Restart == Start \/ Recover \/ AskRecon

\* Which actions change a variable.
LEMMA Changes ==
    ASSUME Next
    PROVE  /\ UNCHANGED files \/ (\E c \in Caller, f \in Path : Write(c, f)) \/ (\E f \in Path : Edit(f))
           /\ UNCHANGED wrote \/ (\E c \in Caller, f \in Path : Write(c, f))
           /\ UNCHANGED snapshot \/ (\E c \in Caller : Copy(c))
           /\ UNCHANGED managed \/ (\E c \in Caller : Manage(c)) \/ Close
           /\ UNCHANGED projected \/ (\E c \in Caller : Complete(c)) \/ Decide
           /\ UNCHANGED receipt \/ (\E c \in Caller : CallStep(c)) \/ Close
           /\ UNCHANGED call \/ (\E c \in Caller, p \in Plan : Ask(c, p))
                 \/ (\E c \in Caller : CallStep(c)) \/ Crash
           /\ UNCHANGED unseen \/ (\E c \in Caller : Check(c)) \/ (\E f \in Path : Edit(f))
           /\ UNCHANGED edited \/ edited'
           /\ UNCHANGED overlapped \/ (\E c \in Caller : Lock(c)) \/ Restart
           /\ UNCHANGED recon \/ Restart \/ ReconStep \/ Crash
           /\ UNCHANGED daemon \/ Start \/ Recover \/ Decide \/ EndRecon \/ Crash
<1> USE DEF disk, redis, memory, history
<1>1. CASE PlanStep
  BY <1>1 DEF PlanStep, Propose, ProposeRollback, Approve
<1>2. ASSUME NEW c \in Caller, NEW p \in Plan, Ask(c, p)
      PROVE  UNCHANGED <<disk, redis, daemon, recon, history>>
  BY <1>2 DEF Ask
<1>3. ASSUME NEW c \in Caller, CallStep(c)
      PROVE  /\ UNCHANGED files \/ (\E f \in Path : Write(c, f))
             /\ UNCHANGED wrote \/ (\E f \in Path : Write(c, f))
             /\ UNCHANGED snapshot \/ Copy(c)
             /\ UNCHANGED managed \/ Manage(c)
             /\ UNCHANGED projected \/ Complete(c)
             /\ UNCHANGED unseen \/ Check(c)
             /\ UNCHANGED overlapped \/ Lock(c)
             /\ UNCHANGED <<daemon, recon, edited>>
  BY <1>3 DEF CallStep, Lock, Begin, Check, Copy, Stage, Write, Note, Manage, Complete, Finish,
              FailPlan, FailReceipt
<1>4. CASE Restart
  BY <1>4 DEF Restart, Start, Recover, AskRecon, BeginRecon
<1>5. CASE ReconStep
  BY <1>5 DEF ReconStep, Look, Decide, Close, EndRecon, FailStale, CompleteStale
<1>6. CASE Crash
  BY <1>6 DEF Crash
<1>7. ASSUME NEW f \in Path, Edit(f)
      PROVE  UNCHANGED <<wrote, snapshot, managed, projected, receipt, call, overlapped, recon, daemon>>
             /\ edited'
  BY <1>7 DEF Edit
<1>8. CASE \E c \in Caller, p \in Plan : Ask(c, p)
  BY <1>2, <1>8
<1>9. CASE \E c \in Caller : CallStep(c)
  BY <1>3, <1>9
<1>10. CASE \E f \in Path : Edit(f)
  BY <1>7, <1>10
<1> QED BY <1>1, <1>4, <1>5, <1>6, <1>8, <1>9, <1>10 DEF Next, Restart

\* A call that has begun has a receipt, and a plan.
LEMMA CallFacts ==
    ASSUME Types, ReceiptsFit, CallsFit, NEW c \in Caller
    PROVE  /\ call[c] \in CallRecord /\ CallFits(call[c])
           /\ call[c].at # "idle" =>
                call[c].plan \in Plan /\ plan[call[c].plan].state \in Decided
           /\ call[c].at \notin {"idle", "read"} =>
                /\ call[c].op \in Op /\ call[c].op # 0
                /\ receipt[call[c].op].state # "none" /\ receipt[call[c].op].plan = call[c].plan
<1>1. call[c] \in CallRecord /\ CallFits(call[c])
  BY DEF Types, CallsFit
<1>2. 0 \notin Op
  BY ConfigAssumption DEF Op
<1> QED BY <1>1, <1>2 DEF CallRecord, CallFits

\* What a reconciliation looks at, and has looked at.
LEMMA LookFacts ==
    ASSUME Types, ReceiptsFit, TodoFits
    PROVE  /\ \A o \in DOMAIN recon.todo :
                /\ o \in Op /\ recon.todo[o] \in Receipt /\ receipt[o].state # "none"
                /\ recon.todo[o].plan = receipt[o].plan /\ receipt[o].plan \in Plan
           /\ recon.look.verdict # "none" => recon.look.op \in DOMAIN recon.todo
BY TodoFacts DEF Types, ReconRecord, TodoFits, ReceiptsFit

\* An operation is recorded with its plan, in one command.
LEMMA ProjectedEffect ==
    ASSUME Types, ReceiptsFit, CallsFit, TodoFits, Next, NEW o \in projected' \ projected
    PROVE  /\ o \in Op /\ receipt[o].state # "none" /\ receipt[o].plan \in Plan
           /\ Record(receipt[o].plan, o) /\ plan'[receipt[o].plan].state = "applied"
<1>1. ASSUME NEW x \in Op, receipt[x].state # "none", receipt[x].plan \in Plan,
             Record(receipt[x].plan, x)
      PROVE  o = x /\ plan'[receipt[x].plan].state = "applied"
  BY <1>1 DEF Record, Transition, Types, PlanRecord
<1>2. ASSUME NEW c \in Caller, Complete(c)
      PROVE  \E x \in Op : /\ receipt[x].state # "none" /\ receipt[x].plan \in Plan
                           /\ Record(receipt[x].plan, x)
  <2>1. Record(call[c].plan, call[c].op)
    BY <1>2 DEF Complete, redis
  <2> QED BY <1>2, <2>1, CallFacts DEF Complete, At
<1>3. ASSUME Decide
      PROVE  \E x \in Op : /\ receipt[x].state # "none" /\ receipt[x].plan \in Plan
                           /\ Record(receipt[x].plan, x)
  <2>1. PICK x \in DOMAIN recon.todo : CompleteStale(recon.todo[x].plan, x)
    BY <1>3 DEF Decide, FailStale
  <2>2. Record(recon.todo[x].plan, x)
    BY <2>1 DEF CompleteStale, redis
  <2> QED BY <2>2, LookFacts
<1> QED BY <1>1, <1>2, <1>3, Changes

\* Who makes an operation the owner of its targets.
LEMMA ManagedEffect ==
    ASSUME Types, ReceiptsFit, CallsFit, TodoFits, Next, managed' # managed
    PROVE  \E o \in Op :
             /\ receipt[o].state # "none" /\ receipt[o].plan \in Plan /\ Own(o)
             /\ \/ \E c \in Caller : call[c].at = "committed" /\ call[c].op = o /\ Go(c, "managed")
                                        /\ UNCHANGED <<receipt, files, recon, wrote>>
                \/ Close /\ Saw("completed") /\ o = recon.look.op
<1>1. ASSUME NEW c \in Caller, Manage(c)
      PROVE  /\ Own(call[c].op) /\ Go(c, "managed") /\ UNCHANGED <<receipt, files, recon, wrote>>
             /\ call[c].at = "committed"
  BY <1>1 DEF Manage, At, history
<1>2. CASE Close
  <2>1. Own(recon.look.op) /\ Saw("completed")
    BY <1>2 DEF Close
  <2>2. recon.look.op \in DOMAIN recon.todo
    BY <2>1, LookFacts DEF Saw
  <2> QED BY <1>2, <2>1, <2>2, LookFacts
<1> QED BY <1>1, <1>2, CallFacts, Changes

\* Every step keeps the receipts in order.
LEMMA ReceiptsFitStep ==
    ASSUME Types, PlansFit, ReceiptsFit, CallsFit, TodoFits, Steady, Next
    PROVE  ReceiptsFit'
<1> SUFFICES ASSUME NEW o \in Op
    PROVE  /\ receipt'[o].state = "none" => Fresh(o)'
           /\ receipt'[o].state # "none" =>
                receipt'[o].plan \in Plan /\ plan'[receipt'[o].plan].state \in Decided
           /\ snapshot'[o] # NoSnapshot => snapshot'[o].original = plan'[receipt'[o].plan].pre
           /\ wrote'[o] # {} =>
                snapshot'[o] # NoSnapshot /\ wrote'[o] \subseteq Targets(receipt[o].plan)'
           /\ o \in projected' => plan'[receipt'[o].plan].state = "applied"
           /\ receipt'[o].code = "uncertain" => wrote'[o] = {}
  BY DEF ReceiptsFit
<1>0. /\ ReceiptStays(o) /\ SnapshotStays(o)
      /\ receipt[o].state # "none" => receipt[o].plan \in Plan /\ PlanStays(receipt[o].plan)
      /\ receipt[o].state # "none" => plan[receipt[o].plan].state \in Decided
  BY DEF Steady, ReceiptsFit
<1>1. receipt'[o].state = "none" => Fresh(o)'
  <2> SUFFICES ASSUME receipt'[o].state = "none" PROVE Fresh(o)'
    OBVIOUS
  <2>1. receipt[o].state = "none" /\ Fresh(o)
    BY <1>0 DEF ReceiptStays, ReceiptsFit
  <2>2. o \notin projected'
    BY <2>1, ProjectedEffect DEF Fresh
  <2>3. snapshot'[o] = NoSnapshot
    <3>1. ASSUME NEW c \in Caller, Copy(c) PROVE snapshot'[o] = NoSnapshot
      BY <2>1, <3>1, CallFacts DEF Copy, At, Fresh, Types
    <3> QED BY <2>1, <3>1, Changes DEF Fresh
  <2>4. wrote'[o] = {}
    <3>1. ASSUME NEW c \in Caller, NEW f \in Path, Write(c, f) PROVE wrote'[o] = {}
      BY <2>1, <3>1, CallFacts DEF Write, At, Fresh, Types
    <3> QED BY <2>1, <3>1, Changes DEF Fresh
  <2>5. \A f \in Path : managed'[f].op # o
    <3>1. ASSUME NEW x \in Op, x # o, Own(x) PROVE \A f \in Path : managed'[f].op # o
      BY <2>1, <3>1 DEF Own, Fresh
    <3> QED BY <2>1, <3>1, ManagedEffect DEF Fresh
  <2> QED BY <2>2, <2>3, <2>4, <2>5 DEF Fresh
<1>2. receipt'[o].state # "none" =>
          receipt'[o].plan \in Plan /\ plan'[receipt'[o].plan].state \in Decided
  <2>1. CASE receipt[o].state # "none"
    <3>1. "none" \notin Decided
      BY DEF Decided
    <3> QED BY <1>0, <2>1, <3>1 DEF ReceiptStays, PlanStays
  <2>2. CASE receipt[o].state = "none" /\ receipt'[o].state # "none"
    <3>1. ASSUME NEW c \in Caller, CallStep(c), ~Lock(c) PROVE FALSE
      <4>1. ~UNCHANGED receipt
        BY <2>2
      <4>2. (\E s : Mark(c, s)) \/ (\E x : LeaveOpen(c, x)) \/ Copy(c)
        BY <3>1, <4>1 DEF CallStep, Begin, Check, Stage, Write, Note, Manage, Complete, Finish,
              FailPlan, FailReceipt, disk
      <4>3. o = call[c].op
        BY <2>2, <4>1, <4>2, MarkEffect, LeaveOpenEffect, CopyEffect
      <4>4. call[c].at \notin {"idle", "read"}
        BY <3>1 DEF CallStep, Begin, Check, Copy, Stage, Write, Note, Manage, Complete, Finish,
              FailPlan, FailReceipt, At
      <4> QED BY <2>2, <4>3, <4>4, CallFacts
    <3>2. ASSUME NEW c \in Caller, Lock(c)
          PROVE  receipt'[o].plan \in Plan /\ plan'[receipt'[o].plan].state \in Decided
      <4>1. receipt'[o].plan = call[c].plan
        <5> DEFINE r == [state |-> "prepared", code |-> "none",
                         plan |-> call[c].plan, committed |-> FALSE]
        <5>1. PICK n \in Op : receipt' = [receipt EXCEPT ![n] = r]
          BY <2>2, <3>2, LockEffect
        <5>2. o = n
          BY <2>2, <5>1
        <5> QED BY <5>1, <5>2 DEF Types
      <4>2. UNCHANGED plan /\ call[c].at = "read"
        BY <3>2 DEF Lock, redis, At
      <4> QED BY <4>1, <4>2, CallFacts
    <3>3. CASE Close
      <4>1. recon.look.op # o
        BY <2>2, <3>3, LookFacts DEF Close, Saw
      <4> QED BY <2>2, <3>3, <4>1 DEF Close, Closed, Types
    <3> QED BY <2>2, <3>1, <3>2, <3>3, Changes
  <2> QED BY <2>1, <2>2
<1>3. snapshot'[o] # NoSnapshot => snapshot'[o].original = plan'[receipt'[o].plan].pre
  <2>1. CASE snapshot[o] # NoSnapshot
    <3>1. /\ receipt[o].state # "none" /\ snapshot[o].original = plan[receipt[o].plan].pre
          /\ plan[receipt[o].plan].state # "none"
      BY <2>1, SnapshotOfOp DEF Decided
    <3> QED BY <1>0, <2>1, <3>1 DEF ReceiptStays, SnapshotStays, PlanStays
  <2>2. CASE snapshot[o] = NoSnapshot /\ snapshot'[o] # NoSnapshot
    <3>1. PICK c \in Caller : Copy(c)
      BY <2>2, Changes
    <3>2. o = call[c].op /\ snapshot'[o].original = plan[call[c].plan].pre /\ UNCHANGED plan
      BY <2>2, <3>1 DEF Copy, Types, redis
    <3>3. receipt'[o].plan = call[c].plan
      BY <3>1, <3>2, CallFacts, CopyEffect DEF Copy, At
    <3> QED BY <3>2, <3>3
  <2> QED BY <2>1, <2>2
<1>4. wrote'[o] # {} =>
          snapshot'[o] # NoSnapshot /\ wrote'[o] \subseteq Targets(receipt[o].plan)'
  <2>1. ASSUME wrote[o] # {} \/ snapshot[o] # NoSnapshot
        PROVE  /\ snapshot'[o] # NoSnapshot /\ receipt'[o].plan = receipt[o].plan
               /\ Targets(receipt[o].plan)' = Targets(receipt[o].plan)
    <3>1. /\ snapshot[o] # NoSnapshot /\ receipt[o].state # "none"
          /\ receipt[o].plan \in Plan /\ plan[receipt[o].plan].state # "none"
      BY <2>1, SnapshotOfOp DEF ReceiptsFit, Decided
    <3>2. /\ snapshot'[o] # NoSnapshot /\ receipt'[o].plan = receipt[o].plan
          /\ plan'[receipt[o].plan].want = plan[receipt[o].plan].want
      BY <1>0, <3>1 DEF ReceiptStays, SnapshotStays, PlanStays
    <3> QED BY <3>2 DEF Targets
  <2>2. ASSUME NEW c \in Caller, NEW f \in Path, Write(c, f), wrote'[o] # wrote[o]
        PROVE  snapshot[o] # NoSnapshot /\ wrote'[o] \subseteq Targets(receipt[o].plan)
    <3>1. o = call[c].op /\ wrote'[o] = wrote[o] \cup {f} /\ call[c].at = "writing" /\ f \in call[c].left
      BY <2>2 DEF Write, Types, At
    <3> QED BY <3>1, CallFacts DEF CallFits, Saved, ReceiptsFit
  <2>3. wrote[o] # {} => wrote[o] \subseteq Targets(receipt[o].plan)
    BY DEF ReceiptsFit
  <2> QED BY <2>1, <2>2, <2>3, Changes
<1>5. o \in projected' => plan'[receipt'[o].plan].state = "applied"
  <2>1. CASE o \in projected
    <3>1. receipt[o].state # "none" /\ plan[receipt[o].plan].state = "applied"
      BY <2>1 DEF ReceiptsFit, Fresh
    <3> QED BY <1>0, <3>1 DEF ReceiptStays, PlanStays
  <2>2. CASE o \in projected' \ projected
    BY <1>0, <2>2, ProjectedEffect DEF ReceiptStays
  <2> QED BY <2>1, <2>2
<1>6. receipt'[o].code = "uncertain" => wrote'[o] = {}
  <2>1. ASSUME NEW c \in Caller, NEW f \in Path, Write(c, f), wrote'[o] # wrote[o]
        PROVE  receipt'[o].code # "uncertain"
    <3>1. o = call[c].op /\ call[c].at = "writing" /\ UNCHANGED receipt
      BY <2>1 DEF Write, Types, At
    <3> QED BY <3>1, CallFacts DEF CallFits
  <2>2. ASSUME wrote[o] # {}, wrote'[o] = wrote[o] PROVE receipt'[o].code # "uncertain"
    <3>1. receipt[o].code # "uncertain" /\ receipt[o].state # "none"
      BY <2>2 DEF ReceiptsFit, Fresh
    <3>2. ASSUME NEW c \in Caller, CallStep(c) PROVE receipt'[o].code # "uncertain"
      <4>1. CASE Lock(c)
        BY <3>1, <4>1, LockEffect DEF Types
      <4>2. CASE Copy(c)
        BY <3>1, <4>2, CopyEffect
      <4>3. CASE UNCHANGED receipt
        BY <3>1, <4>3
      <4>4. ASSUME NEW s, Mark(c, s) PROVE receipt'[o].code # "uncertain"
        BY <3>1, <4>4, MarkEffect
      <4>5. ASSUME NEW x, x # "uncertain", LeaveOpen(c, x) PROVE receipt'[o].code # "uncertain"
        BY <3>1, <4>5, LeaveOpenEffect
      <4>6. CASE Begin(c)
        <5>1. wrote[call[c].op] = {}
          BY <4>6, CallFacts DEF Begin, At, CallFits, Untouched
        <5>2. LeaveOpen(c, "uncertain") \/ UNCHANGED receipt
          BY <4>6 DEF Begin
        <5> QED BY <2>2, <3>1, <5>1, <5>2, LeaveOpenEffect
      <4> QED BY <3>2, <4>1, <4>2, <4>3, <4>4, <4>5, <4>6
              DEF CallStep, Check, Stage, Write, Note, Manage, Complete, Finish, FailPlan,
                  FailReceipt, disk
    <3>3. ASSUME Close PROVE receipt'[o].code # "uncertain"
      <4>1. recon.look.op \in Op /\ recon.todo[recon.look.op] \in Receipt
        BY <3>3, LookFacts DEF Close, Saw
      <4>2. ASSUME NEW s, NEW x, x # "uncertain", Closed(recon.look.op, s, x)
            PROVE  receipt'[o].code # "uncertain"
        BY <3>1, <4>1, <4>2 DEF Closed, Types, Receipt
      <4> QED BY <3>3, <4>2 DEF Close
    <3> QED BY <3>1, <3>2, <3>3, Changes
  <2> QED BY <2>1, <2>2, Changes
<1> QED BY <1>1, <1>2, <1>3, <1>4, <1>5, <1>6

-----------------------------------------------------------------------------
\* The calls.

\* What going on changes in a call,
LEMMA GoEffect ==
    ASSUME Types, NEW c \in Caller, NEW place, Go(c, place)
    PROVE  /\ call'[c].at = place /\ call'[c].plan = call[c].plan
           /\ call'[c].op = call[c].op /\ call'[c].left = call[c].left
           /\ \A d \in Caller \ {c} : call'[d] = call[d]
BY DEF Go, Types, CallRecord

\* and going on with a file less.
LEMMA LeftEffect ==
    ASSUME Types, NEW c \in Caller, NEW place, NEW rest,
           call' = [call EXCEPT ![c].at = place, ![c].left = rest]
    PROVE  /\ call'[c].at = place /\ call'[c].plan = call[c].plan
           /\ call'[c].op = call[c].op /\ call'[c].left = rest
           /\ \A d \in Caller \ {c} : call'[d] = call[d]
<1> DEFINE k == [call[c] EXCEPT !.at = place, !.left = rest]
<1>1. call' = [call EXCEPT ![c] = k]
  BY DEF Types
<1>2. call[c] \in CallRecord
  BY DEF Types
<1>3. k.at = place /\ k.plan = call[c].plan /\ k.op = call[c].op /\ k.left = rest
  BY <1>2 DEF CallRecord
<1> HIDE DEF k
<1> QED BY <1>1, <1>3 DEF Types

\* A step of one call leaves the others.
LEMMA OthersStay ==
    ASSUME Types, NEW c \in Caller, CallStep(c)
    PROVE  \A d \in Caller \ {c} : call'[d] = call[d]
<1>1. ASSUME NEW place, Go(c, place) PROVE \A d \in Caller \ {c} : call'[d] = call[d]
  BY <1>1, GoEffect
<1>2. ASSUME NEW x, LeaveOpen(c, x) PROVE \A d \in Caller \ {c} : call'[d] = call[d]
  BY <1>2 DEF LeaveOpen, Types
<1>3. ASSUME NEW k, call' = [call EXCEPT ![c] = k] PROVE \A d \in Caller \ {c} : call'[d] = call[d]
  BY <1>3 DEF Types
<1>4. ASSUME NEW place, NEW rest, call' = [call EXCEPT ![c].at = place, ![c].left = rest]
      PROVE  \A d \in Caller \ {c} : call'[d] = call[d]
  BY <1>4, LeftEffect
<1>5. CASE Lock(c)
  BY <1>3, <1>5, LockEffect
<1>6. CASE \E f \in Path : Write(c, f)
  BY <1>1, <1>2, <1>4, <1>6 DEF Write, Abandon
<1>7. CASE Stage(c)
  BY <1>1, <1>4, <1>7 DEF Stage, Abandon
<1> QED BY <1>1, <1>2, <1>3, <1>5, <1>6, <1>7
        DEF CallStep, Begin, Check, Copy, Abandon, Note, Manage, Complete, Finish, FailPlan, FailReceipt

\* Copies that were verified stay as they are.
LEMMA PayloadStays ==
    ASSUME Types, PlansFit, Steady, NEW p \in Plan, plan[p].state \in Decided, PayloadIntact(p)
    PROVE  PayloadIntact(p)'
<1>1. /\ plan'[p].want = plan[p].want /\ plan'[p].source = plan[p].source
      /\ plan[p].source \in Op \cup {0}
      /\ plan[p].source # 0 => snapshot'[plan[p].source] = snapshot[plan[p].source]
  BY DEF Steady, PlanStays, SnapshotStays, PlansFit, Types, PlanRecord, Decided
<1> QED BY <1>1 DEF PayloadIntact, Targets

\* What others do leaves a call as it is.
LEMMA CallKept ==
    ASSUME Types, PlansFit, ReceiptsFit, CallsFit, TodoFits, Apart, Steady, Next,
           NEW d \in Caller, call'[d] = call[d], ~CallStep(d)
    PROVE  CallFits(call[d])'
<1> DEFINE o == call[d].op
           p == call[d].plan
<1>0. CallFits(call[d]) /\ call[d] \in CallRecord
  BY CallFacts
<1>1. CASE o = 0
  <2>1. call[d].at \in {"idle", "read"}
    BY <1>0, <1>1 DEF CallFits
  <2>2. call[d].at # "idle" => p \in Plan /\ plan'[p].state \in Decided
    BY CallFacts DEF Steady, PlanStays, Decided
  <2>3. call[d].left = {}
    BY <1>0, <1>1 DEF CallFits
  <2> QED BY <1>1, <2>1, <2>2, <2>3 DEF CallFits, Untouched, Saved, Holding
<1>2. CASE o # 0
  <2>1. /\ o \in Op /\ p \in Plan /\ plan[p].state \in Decided /\ receipt[o].state # "none"
        /\ receipt[o].plan = p /\ call[d].at \notin {"idle", "read"}
    BY <1>0, <1>2, CallFacts DEF CallFits
  <2>2. /\ receipt'[o].state # "none" /\ receipt'[o].plan = p /\ plan'[p].state \in Decided
        /\ plan'[p].want = plan[p].want
        /\ snapshot[o] # NoSnapshot => snapshot'[o] # NoSnapshot
    BY <2>1 DEF Steady, PlanStays, ReceiptStays, SnapshotStays, Decided
  <2>3. ASSUME NEW c \in Caller, c # d, call[c].op # 0 PROVE call[c].op # o
    BY <1>2, <2>3 DEF Apart
  <2>4. wrote'[o] = wrote[o]
    <3>1. ASSUME NEW c \in Caller, NEW f \in Path, Write(c, f) PROVE wrote'[o] = wrote[o]
      <4>1. c # d
        BY <3>1 DEF CallStep
      <4>2. call[c].op # o
        BY <2>3, <3>1, <4>1, CallFacts DEF Write, At
      <4> QED BY <2>1, <3>1, <4>2 DEF Write, Types
    <3> QED BY <3>1, Changes
  <2>5. snapshot[o] = NoSnapshot => snapshot'[o] = NoSnapshot
    <3>1. ASSUME NEW c \in Caller, Copy(c) PROVE snapshot'[o] = snapshot[o]
      <4>1. c # d
        BY <3>1 DEF CallStep
      <4>2. call[c].op # o
        BY <2>3, <3>1, <4>1, CallFacts DEF Copy, At
      <4> QED BY <2>1, <3>1, <4>2 DEF Copy, Types
    <3> QED BY <3>1, Changes
  <2>6. receipt'[o].code # "uncertain"
    <3>1. receipt[o].code # "uncertain"
      BY <1>0, <1>2 DEF CallFits
    <3>2. ASSUME NEW c \in Caller, CallStep(c) PROVE receipt'[o] = receipt[o]
      <4>1. c # d
        BY <3>2
      <4>2. CASE Lock(c)
        BY <2>1, <4>2, LockEffect DEF Types
      <4>3. CASE ~Lock(c)
        <5>1. call[c].op # o
          BY <2>3, <3>2, <4>1, <4>3, CallFacts
             DEF CallStep, Begin, Check, Copy, Stage, Write, Note, Manage, Complete, Finish,
                 FailPlan, FailReceipt, At
        <5>2. UNCHANGED receipt \/ (\E s : Mark(c, s)) \/ (\E x : LeaveOpen(c, x)) \/ Copy(c)
          BY <3>2, <4>3
             DEF CallStep, Begin, Check, Stage, Write, Note, Manage, Complete, Finish, FailPlan,
                 FailReceipt, disk
        <5> QED BY <2>1, <5>1, <5>2, MarkEffect, LeaveOpenEffect, CopyEffect
      <4> QED BY <4>2, <4>3
    <3>3. ASSUME Close PROVE receipt'[o].code # "uncertain"
      <4>1. recon.look.op \in Op /\ recon.todo[recon.look.op] \in Receipt
        BY <3>3, LookFacts DEF Close, Saw
      <4>2. ASSUME NEW s, NEW x, x # "uncertain", Closed(recon.look.op, s, x)
            PROVE  receipt'[o].code # "uncertain"
        BY <2>1, <3>1, <4>1, <4>2 DEF Closed, Types, Receipt
      <4> QED BY <3>3, <4>2 DEF Close
    <3> QED BY <3>1, <3>2, <3>3, Changes
  <2>7. Targets(p)' = Targets(p)
    BY <2>2 DEF Targets
  <2>8. call[d].at \in Holding => PayloadIntact(p)'
    BY <1>0, <2>1, PayloadStays DEF CallFits
  <2> QED BY <1>0, <1>2, <2>1, <2>2, <2>4, <2>5, <2>6, <2>7, <2>8 DEF CallFits
<1> QED BY <1>1, <1>2

\* A call that ended is in order.
LEMMA GoneFits ==
    ASSUME NEW d \in Caller, call'[d] = NoCall
    PROVE  CallFits(call[d])'
BY DEF CallFits, NoCall, Untouched, Saved, Holding

\* A call's own step keeps it in order.
LEMMA CallMoves ==
    ASSUME Types, PlansFit, ReceiptsFit, CallsFit, Steady, NEW d \in Caller, CallStep(d),
           ReceiptsFit'
    PROVE  CallFits(call[d])'
<1> USE DEF disk, redis, memory, history
<1> SUFFICES ASSUME NEW o, NEW p, o = call[d].op, p = call[d].plan PROVE CallFits(call[d])'
  OBVIOUS
<1>0. CallFits(call[d]) /\ call[d] \in CallRecord
  BY CallFacts
<1>1. ASSUME LeaveOpen(d, "uncertain") \/ LeaveOpen(d, "partial") \/ LeaveOpen(d, "projection")
                 \/ call' = [call EXCEPT ![d] = NoCall]
      PROVE  CallFits(call[d])'
  BY <1>1, GoneFits DEF LeaveOpen, Types
<1>2. CASE Lock(d)
  <2>1. CASE call' = [call EXCEPT ![d] = NoCall]
    BY <1>1, <2>1
  <2>2. CASE call' # [call EXCEPT ![d] = NoCall]
    <3> DEFINE r == [state |-> "prepared", code |-> "none", plan |-> p, committed |-> FALSE]
    <3>1. PICK n \in Op :
             /\ receipt[n].state = "none"
             /\ call' = [call EXCEPT ![d] = [call[d] EXCEPT !.at = "locked", !.op = n]]
             /\ receipt' = [receipt EXCEPT ![n] = r]
      BY <1>2, <2>2, LockEffect
    <3>2. /\ call'[d].at = "locked" /\ call'[d].op = n /\ call'[d].plan = p /\ call'[d].left = call[d].left
      BY <1>0, <3>1 DEF Types, CallRecord
    <3>3. receipt'[n] = r
      BY <3>1 DEF Types
    <3>4. call[d].left = {} /\ p \in Plan /\ plan[p].state \in Decided
      BY <1>0, <1>2, CallFacts DEF Lock, At, CallFits
    <3>5. Fresh(n) /\ UNCHANGED <<plan, snapshot, wrote>> /\ n # 0
      BY <1>2, <3>1, ConfigAssumption DEF ReceiptsFit, Lock, Op
    <3> QED BY <3>2, <3>3, <3>4, <3>5 DEF CallFits, Fresh, Untouched, Saved, Holding
  <2> QED BY <2>1, <2>2
<1>3. CASE ~Lock(d)
  <2>1. /\ o \in Op /\ o # 0 /\ p \in Plan /\ plan[p].state \in Decided
        /\ receipt[o].state # "none" /\ receipt[o].plan = p /\ receipt[o].code # "uncertain"
        /\ call[d].left \subseteq Targets(p)
        /\ call[d].at \notin {"idle", "read"}
    BY <1>0, <1>3, CallFacts
       DEF CallStep, Begin, Check, Copy, Stage, Write, Note, Manage, Complete, Finish,
           FailPlan, FailReceipt, At, CallFits
  <2>2. /\ receipt'[o].state # "none" /\ receipt'[o].plan = p /\ plan'[p].state \in Decided
        /\ Targets(p)' = Targets(p)
        /\ snapshot[o] # NoSnapshot => snapshot'[o] # NoSnapshot
        /\ PayloadIntact(p) => PayloadIntact(p)'
    <3>1. /\ receipt'[o].state # "none" /\ receipt'[o].plan = p /\ plan'[p].state \in Decided
          /\ plan'[p].want = plan[p].want
          /\ snapshot[o] # NoSnapshot => snapshot'[o] # NoSnapshot
      BY <2>1 DEF Steady, PlanStays, ReceiptStays, SnapshotStays, Decided
    <3>2. PayloadIntact(p) => PayloadIntact(p)'
      BY <2>1, PayloadStays
    <3> QED BY <3>1, <3>2 DEF Targets
  <2>3. ASSUME call'[d] # NoCall PROVE receipt'[o].code # "uncertain"
    <3>1. ~(\E x : LeaveOpen(d, x))
      BY <2>3 DEF LeaveOpen, Types
    <3>2. UNCHANGED receipt \/ (\E s : Mark(d, s)) \/ Copy(d)
      BY <1>3, <3>1
         DEF CallStep, Begin, Check, Stage, Write, Note, Manage, Complete, Finish, FailPlan, FailReceipt
    <3> QED BY <2>1, <3>2, MarkEffect, CopyEffect
  <2> DEFINE Basics ==
        /\ call'[d].op = o /\ call'[d].plan = p /\ call'[d].left \subseteq Targets(p)
        /\ call'[d].at \notin {"idle", "read"}
        /\ receipt'[o].code # "uncertain"
  <2>4. ASSUME NEW place, Go(d, place), place \notin {"idle", "read"}
        PROVE  call'[d].at = place /\ call'[d].left = call[d].left /\ Basics
    <3>1. call'[d].at = place /\ call'[d].plan = p /\ call'[d].op = o /\ call'[d].left = call[d].left
      BY <2>4, GoEffect
    <3> QED BY <2>1, <2>3, <2>4, <3>1 DEF NoCall
  <2>5. ASSUME Basics,
               call'[d].at \in {"locked", "begun", "checked"} => snapshot'[o] = NoSnapshot,
               call'[d].at \in Untouched => wrote'[o] = {},
               call'[d].at \in Saved => snapshot'[o] # NoSnapshot,
               call'[d].at \in {"writing", "wrote"} => call'[d].left = Targets(p) \ wrote'[o],
               call'[d].at \in {"committed", "managed", "recorded"} => wrote'[o] = Targets(p),
               call'[d].at \in Holding => PayloadIntact(p)'
        PROVE  CallFits(call[d])'
    BY <2>1, <2>2, <2>5 DEF CallFits
  <2> HIDE DEF Basics
  <2> USE DEF Untouched, Saved, Holding
  <2>6. CASE Begin(d)
    <3>1. CASE Go(d, "begun")
      <4>1. call'[d].at = "begun" /\ Basics
        BY <2>4, <3>1
      <4>2. wrote[o] = {} /\ snapshot[o] = NoSnapshot /\ UNCHANGED <<wrote, snapshot>>
        BY <1>0, <2>6 DEF Begin, At, CallFits
      <4> QED BY <2>5, <4>1, <4>2
    <3> QED BY <1>1, <2>6, <3>1 DEF Begin
  <2>7. CASE Check(d)
    <3>1. wrote[o] = {} /\ snapshot[o] = NoSnapshot /\ UNCHANGED <<wrote, snapshot>>
      BY <1>0, <2>7 DEF Check, At, CallFits
    <3>2. CASE Go(d, "failing")
      BY <2>4, <2>5, <3>1, <3>2
    <3>3. CASE Go(d, "checked") /\ Acceptable(p)
      BY <2>2, <2>4, <2>5, <3>1, <3>3 DEF Acceptable
    <3> QED BY <2>7, <3>2, <3>3 DEF Check
  <2>8. CASE Copy(d)
    <3>1. wrote[o] = {} /\ UNCHANGED wrote /\ PayloadIntact(p)
      BY <1>0, <2>8 DEF Copy, At, CallFits
    <3>2. CASE Go(d, "failing")
      BY <2>4, <2>5, <3>1, <3>2
    <3>3. CASE Go(d, "copied") /\ ~Go(d, "failing")
      <4>1. snapshot'[o] # NoSnapshot
        <5>1. snapshot'[o].original = plan[p].pre
          BY <2>1, <2>8, <3>3 DEF Copy, Abandon, Types
        <5>2. DOMAIN plan[p].pre # {}
          BY <2>1 DEF PlansFit, Targets, Decided
        <5>3. NoSnapshot.original = <<>>
          BY DEF NoSnapshot
        <5> QED BY <5>1, <5>2, <5>3, EmptyContents
      <4> QED BY <2>2, <2>4, <2>5, <3>1, <3>3, <4>1
    <3> QED BY <2>8, <3>2, <3>3 DEF Copy, Abandon
  <2>9. CASE Stage(d)
    <3>1. wrote[o] = {} /\ UNCHANGED <<wrote, snapshot>> /\ PayloadIntact(p) /\ snapshot[o] # NoSnapshot
      BY <1>0, <2>9 DEF Stage, At, CallFits
    <3>2. CASE Go(d, "failing")
      BY <2>4, <2>5, <3>1, <3>2
    <3>3. CASE call' = [call EXCEPT ![d].at = "writing", ![d].left = Targets(p)]
      <4>1. call'[d].at = "writing" /\ call'[d].plan = p /\ call'[d].op = o /\ call'[d].left = Targets(p)
        <5> DEFINE k == [call[d] EXCEPT !.at = "writing", !.left = Targets(p)]
        <5>1. call' = [call EXCEPT ![d] = k]
          BY <3>3
        <5>2. k.at = "writing" /\ k.plan = p /\ k.op = o /\ k.left = Targets(p)
          BY <1>0 DEF CallRecord
        <5> HIDE DEF k
        <5>3. call'[d] = k
          BY <5>1 DEF Types
        <5> QED BY <5>2, <5>3
      <4>2. Basics
        BY <2>3, <4>1 DEF NoCall, Basics
      <4> QED BY <2>2, <2>5, <3>1, <4>1, <4>2
    <3> QED BY <2>9, <3>2, <3>3 DEF Stage, Abandon
  <2>10. ASSUME NEW f \in Path, Write(d, f) PROVE CallFits(call[d])'
    <3>1. /\ UNCHANGED snapshot /\ PayloadIntact(p) /\ snapshot[o] # NoSnapshot /\ f \in call[d].left
          /\ call[d].left = Targets(p) \ wrote[o]
      BY <1>0, <2>10 DEF Write, At, CallFits
    <3>2. CASE Go(d, "failing") /\ wrote[o] = {} /\ UNCHANGED wrote
      BY <2>4, <2>5, <3>1, <3>2
    <3>3. CASE /\ call' = [call EXCEPT ![d].at = "wrote", ![d].left = @ \ {f}]
               /\ wrote' = [wrote EXCEPT ![o] = @ \cup {f}]
      <4>1. /\ call'[d].at = "wrote" /\ call'[d].plan = p /\ call'[d].op = o
            /\ call'[d].left = call[d].left \ {f}
        <5> DEFINE k == [call[d] EXCEPT !.at = "wrote", !.left = call[d].left \ {f}]
        <5>1. call' = [call EXCEPT ![d] = k]
          BY <3>3
        <5>2. k.at = "wrote" /\ k.plan = p /\ k.op = o /\ k.left = call[d].left \ {f}
          BY <1>0 DEF CallRecord
        <5> HIDE DEF k
        <5>3. call'[d] = k
          BY <5>1 DEF Types
        <5> QED BY <5>2, <5>3
      <4>2. Basics
        BY <2>1, <2>3, <4>1 DEF NoCall, Basics
      <4>3. wrote'[o] = wrote[o] \cup {f}
        BY <2>1, <3>3 DEF Types
      <4> QED BY <2>2, <2>5, <3>1, <4>1, <4>2, <4>3
    <3> QED BY <1>1, <2>10, <3>2, <3>3 DEF Write, Abandon
  <2>11. CASE Note(d)
    <3>1. /\ UNCHANGED <<snapshot, wrote>> /\ PayloadIntact(p) /\ snapshot[o] # NoSnapshot
          /\ call[d].left = Targets(p) \ wrote[o]
      BY <1>0, <2>11 DEF Note, At, CallFits
    <3>2. CASE Go(d, "committed") /\ call[d].left = {}
      <4>1. wrote[o] # {} => wrote[o] \subseteq Targets(p)
        BY <2>1 DEF ReceiptsFit
      <4>2. Targets(p) = wrote[o]
        BY <3>1, <3>2, <4>1
      <4> QED BY <2>2, <2>4, <2>5, <3>1, <3>2, <4>2
    <3>3. CASE Go(d, "writing")
      BY <2>2, <2>4, <2>5, <3>1, <3>3
    <3> QED BY <2>11, <3>2, <3>3 DEF Note
  <2>12. CASE Manage(d) \/ Complete(d)
    <3>1. UNCHANGED <<snapshot, wrote>> /\ wrote[o] = Targets(p) /\ snapshot[o] # NoSnapshot
      BY <1>0, <2>12 DEF Manage, Complete, At, CallFits
    <3>2. CASE Go(d, "managed") \/ Go(d, "recorded")
      BY <2>2, <2>4, <2>5, <3>1, <3>2
    <3> QED BY <1>1, <2>12, <3>2 DEF Manage, Complete
  <2>13. CASE FailPlan(d)
    <3>1. UNCHANGED <<snapshot, wrote>> /\ wrote[o] = {} /\ Go(d, "failed")
      BY <1>0, <2>13 DEF FailPlan, At, CallFits
    <3> QED BY <2>4, <2>5, <3>1
  <2>14. CASE Finish(d) \/ FailReceipt(d)
    BY <1>1, <2>14 DEF Finish, FailReceipt
  <2> QED BY <1>3, <2>6, <2>7, <2>8, <2>9, <2>10, <2>11, <2>12, <2>13, <2>14 DEF CallStep
<1> QED BY <1>2, <1>3

\* Every step keeps the calls in order.
LEMMA CallsFitStep ==
    ASSUME Types, PlansFit, ReceiptsFit, CallsFit, TodoFits, Apart, Steady, Next, ReceiptsFit'
    PROVE  CallsFit'
<1> SUFFICES ASSUME NEW d \in Caller PROVE CallFits(call[d])'
  BY DEF CallsFit
<1>1. CASE CallStep(d)
  BY <1>1, CallMoves
<1>2. CASE call'[d] = call[d] /\ ~CallStep(d)
  <2>1. CallFits(call[d])'
    BY <1>2, CallKept
  <2> QED BY <2>1
<1>3. ASSUME NEW p \in Plan, Ask(d, p) PROVE CallFits(call[d])'
  <2>1. /\ call'[d] = [at |-> "read", plan |-> p, op |-> 0, left |-> {}]
        /\ UNCHANGED plan /\ plan[p].state \in Decided
    BY <1>3 DEF Ask, Types, redis, Decided
  <2> QED BY <2>1 DEF CallFits, Untouched, Saved, Holding
<1>4. CASE Crash
  BY <1>4, GoneFits DEF Crash
<1>5. ASSUME NEW c \in Caller, c # d, (\E p \in Plan : Ask(c, p)) \/ CallStep(c)
      PROVE  call'[d] = call[d]
  BY <1>5, OthersStay DEF Ask, Types
<1> QED BY <1>1, <1>2, <1>3, <1>4, <1>5, Changes

\* A call keeps its operation and its plan until it ends.
LEMMA CallEnds ==
    ASSUME Types, NEW c \in Caller, CallStep(c), ~Lock(c)
    PROVE  \/ call'[c].op = call[c].op /\ call'[c].plan = call[c].plan
           \/ /\ call'[c].op = 0
              /\ \/ \E x : LeaveOpen(c, x)
                 \/ \E s \in {"completed", "failed"} : Mark(c, s)
<1> DEFINE Same == call'[c].op = call[c].op /\ call'[c].plan = call[c].plan
<1>1. ASSUME NEW place, Go(c, place) PROVE Same
  BY <1>1, GoEffect
<1>2. ASSUME NEW x, LeaveOpen(c, x) PROVE call'[c].op = 0
  BY <1>2 DEF LeaveOpen, Types, NoCall
<1>3. ASSUME NEW place, NEW rest, call' = [call EXCEPT ![c].at = place, ![c].left = rest]
      PROVE  Same
  BY <1>3, LeftEffect
<1>4. ASSUME NEW f \in Path, Write(c, f) PROVE Same \/ \E x : LeaveOpen(c, x)
  BY <1>1, <1>3, <1>4 DEF Write, Abandon
<1>5. ASSUME Stage(c) PROVE Same
  BY <1>1, <1>3, <1>5 DEF Stage, Abandon
<1>6. ASSUME Begin(c) \/ Check(c) \/ Copy(c) \/ Note(c) \/ Manage(c) \/ Complete(c) \/ FailPlan(c)
      PROVE  Same \/ \E x : LeaveOpen(c, x)
  BY <1>1, <1>6 DEF Begin, Check, Copy, Abandon, Note, Manage, Complete, FailPlan
<1>7. ASSUME Finish(c) \/ FailReceipt(c)
      PROVE  \/ \E x : LeaveOpen(c, x)
             \/ call'[c].op = 0 /\ \E s \in {"completed", "failed"} : Mark(c, s)
  BY <1>7 DEF Finish, FailReceipt, Types, NoCall
<1> QED BY <1>2, <1>4, <1>5, <1>6, <1>7 DEF CallStep

\* What a call does to the receipts, it does to its own.
LEMMA ReceiptEffect ==
    ASSUME Types, ReceiptsFit, CallsFit, NEW c \in Caller, CallStep(c), ~Lock(c)
    PROVE  /\ call[c].op \in Op /\ call[c].op # 0 /\ call[c].plan \in Plan
           /\ receipt[call[c].op].state # "none" /\ receipt[call[c].op].plan = call[c].plan
           /\ plan[call[c].plan].state \in Decided
           /\ call[c].at \notin {"idle", "read"}
           /\ \A o \in Op \ {call[c].op} : receipt'[o] = receipt[o]
<1>1. call[c].at \notin {"idle", "read"}
  BY DEF CallStep, Begin, Check, Copy, Stage, Write, Note, Manage, Complete, Finish,
         FailPlan, FailReceipt, At
<1>2. UNCHANGED receipt \/ (\E s : Mark(c, s)) \/ (\E x : LeaveOpen(c, x)) \/ Copy(c)
  BY DEF CallStep, Begin, Check, Stage, Write, Note, Manage, Complete, Finish, FailPlan,
         FailReceipt, disk
<1> QED BY <1>1, <1>2, CallFacts, MarkEffect, LeaveOpenEffect, CopyEffect

\* A request that takes its targets.
Takes(c, n) ==
    /\ n # 0 /\ receipt[n].state = "none" /\ Fresh(n)
    /\ call[c].at = "read" /\ Targets(call[c].plan) \cap Owned = {}
    /\ call'[c].at = "locked" /\ call'[c].op = n /\ call'[c].plan = call[c].plan
    /\ receipt'[n].state = "prepared" /\ receipt'[n].plan = call[c].plan
    /\ \A o \in Op \ {n} : receipt'[o] = receipt[o]
    /\ UNCHANGED <<files, snapshot, managed, redis, daemon, recon, wrote, edited, unseen>>

\* A request that comes to its turn takes its targets, or goes.
LEMMA LockTakes ==
    ASSUME Types, ReceiptsFit, NEW c \in Caller, Lock(c)
    PROVE  \/ UNCHANGED receipt /\ call'[c] = NoCall
           \/ \E n \in Op : Takes(c, n)
<1> DEFINE r == [state |-> "prepared", code |-> "none", plan |-> call[c].plan, committed |-> FALSE]
<1>1. CASE UNCHANGED receipt /\ call' = [call EXCEPT ![c] = NoCall]
  BY <1>1 DEF Types
<1>2. ASSUME NEW n \in Op, Targets(call[c].plan) \cap Owned = {}, receipt[n].state = "none",
             call' = [call EXCEPT ![c] = [call[c] EXCEPT !.at = "locked", !.op = n]],
             receipt' = [receipt EXCEPT ![n] = r]
      PROVE  Takes(c, n)
  <2>1. call'[c].at = "locked" /\ call'[c].op = n /\ call'[c].plan = call[c].plan
    BY <1>2 DEF Types, CallRecord
  <2>2. receipt'[n] = r /\ \A o \in Op \ {n} : receipt'[o] = receipt[o]
    BY <1>2 DEF Types
  <2>3. n # 0 /\ Fresh(n)
    BY <1>2, ConfigAssumption DEF Op, ReceiptsFit
  <2> QED BY <1>2, <2>1, <2>2, <2>3 DEF Takes, Lock, At
<1> QED BY <1>1, <1>2, LockEffect

\* Calls stay apart: the targets of the process are taken and tested in one step
\* (lockedTargetPaths).
LEMMA ApartStep ==
    ASSUME Types, PlansFit, ReceiptsFit, CallsFit, Apart, Steady, Next
    PROVE  Apart'
<1> DEFINE Kept(c) == /\ call'[c].op = call[c].op /\ call'[c].plan = call[c].plan
           Split(c, d) == /\ call'[c].op # call'[d].op
                          /\ Targets(call[c].plan)' \cap Targets(call[d].plan)' = {}
<1>1. SUFFICES ASSUME NEW c \in Caller, NEW d \in Caller, c # d, call'[c].op # 0, call'[d].op # 0
               PROVE  Split(c, d)
  BY DEF Apart
<1>2. ASSUME NEW x \in Caller, call[x].op # 0
      PROVE  /\ call[x].plan \in Plan /\ receipt[call[x].op].state # "none"
             /\ plan'[call[x].plan].want = plan[call[x].plan].want
  BY <1>2, CallFacts DEF CallFits, Steady, PlanStays, Decided
<1>3. CASE Kept(c) /\ Kept(d)
  BY <1>1, <1>2, <1>3 DEF Apart, Targets
<1>4. ASSUME NEW x \in Caller, NEW y \in Caller, x # y, Kept(y), call'[y].op # 0,
             NEW n \in Op, Takes(x, n)
      PROVE  Split(x, y)
  <2>1. call[y].op # n
    BY <1>2, <1>4 DEF Takes
  <2>2. Targets(call[x].plan) \cap Targets(call[y].plan) = {}
    BY <1>4 DEF Takes, Owned
  <2> QED BY <1>4, <2>1, <2>2 DEF Takes, Targets, redis
<1>5. ASSUME NEW x \in Caller, CallStep(x) PROVE Split(c, d)
  <2>1. \A y \in Caller \ {x} : Kept(y)
    BY <1>5, OthersStay
  <2>2. CASE Kept(x)
    BY <1>3, <2>1, <2>2
  <2>3. CASE call'[x].op = 0
    BY <1>1, <1>3, <2>1, <2>3
  <2>4. ASSUME NEW n \in Op, Takes(x, n) PROVE Split(c, d)
    BY <1>1, <1>3, <1>4, <2>1, <2>4
  <2> QED BY <1>5, <2>2, <2>3, <2>4, LockTakes, CallEnds DEF NoCall
<1>6. ASSUME NEW x \in Caller, NEW p \in Plan, Ask(x, p) PROVE Split(c, d)
  <2>1. call'[x].op = 0 /\ \A y \in Caller \ {x} : Kept(y)
    BY <1>6 DEF Ask, Types
  <2> QED BY <1>1, <1>3, <2>1
<1>7. CASE Crash
  BY <1>1, <1>7 DEF Crash, NoCall
<1>8. CASE UNCHANGED call
  BY <1>3, <1>8
<1> QED BY <1>5, <1>6, <1>7, <1>8, Changes

\* No step brings a call to a daemon that has not reconciled.
LEMMA QuietStep ==
    ASSUME Types, ReceiptsFit, CallsFit, Quiet, Next
    PROVE  Quiet'
<1> DEFINE Idle == \A c \in Caller : call[c].op = 0 /\ call[c].at = "idle"
<1>1. CASE PlanStep
  BY <1>1 DEF PlanStep, Propose, ProposeRollback, Approve, memory, Quiet
<1>2. ASSUME NEW c \in Caller, NEW p \in Plan, Ask(c, p) PROVE Quiet'
  BY <1>2 DEF Ask, Quiet
<1>3. ASSUME NEW c \in Caller, CallStep(c) PROVE Quiet'
  <2>1. UNCHANGED <<daemon, recon>>
    BY <1>3 DEF CallStep, Lock, Begin, Check, Copy, Stage, Write, Note, Manage, Complete, Finish,
                FailPlan, FailReceipt
  <2>2. call[c].at # "idle"
    BY <1>3 DEF CallStep, Lock, Begin, Check, Copy, Stage, Write, Note, Manage, Complete, Finish,
                FailPlan, FailReceipt, At
  <2> QED BY <2>1, <2>2 DEF Quiet
<1>4. CASE Restart
  BY <1>4 DEF Restart, Start, Recover, AskRecon, Quiet
<1>5. CASE ReconStep
  <2>1. ASSUME NEW o \in Op, Look(o) PROVE Quiet'
    BY <2>1 DEF Look, Quiet, Types, ReconRecord
  <2>2. CASE Decide
    BY <2>2 DEF Decide, FailStale, CompleteStale, Saw, Says, Throw, NoRecon, Quiet
  <2>3. CASE Close
    BY <2>3 DEF Close, Saw, Quiet
  <2>4. CASE EndRecon
    BY <2>4 DEF EndRecon, Throw, NoRecon, Quiet
  <2> QED BY <1>5, <2>1, <2>2, <2>3, <2>4 DEF ReconStep
<1>6. CASE Crash
  BY <1>6 DEF Crash, NoCall, NoRecon, Quiet
<1>7. ASSUME NEW f \in Path, Edit(f) PROVE Quiet'
  BY <1>7 DEF Edit, memory, Quiet
<1> QED BY <1>1, <1>2, <1>3, <1>4, <1>5, <1>6, <1>7 DEF Next, Restart

\* An edit that was not seen is remembered as one.
LEMMA OnlyEditedStep == ASSUME Types, OnlyEdited, Next PROVE OnlyEdited'
<1>1. ASSUME NEW c \in Caller, Check(c) PROVE unseen' \subseteq unseen /\ UNCHANGED edited
  BY <1>1 DEF Check
<1>2. ASSUME NEW f \in Path, Edit(f) PROVE edited'
  BY <1>2 DEF Edit
<1> QED BY <1>1, <1>2, Changes DEF OnlyEdited

-----------------------------------------------------------------------------
\* The reconciliation.

\* How a reconciliation begins.
LEMMA RestartEffect ==
    ASSUME Types, Restart
    PROVE  /\ recon'.todo = OpenReceipts /\ recon'.look = NoLook
           /\ overlapped' = (overlapped \/ Meets(OpenReceipts, call))
           /\ UNCHANGED <<files, receipt, snapshot, managed, redis, call, wrote, edited, unseen>>
<1>1. BeginRecon /\ UNCHANGED <<files, receipt, snapshot, managed, redis, call>>
  BY DEF Restart, Start, Recover, AskRecon, disk
<1>2. recon' = [NoRecon EXCEPT !.on = TRUE, !.todo = OpenReceipts]
  BY <1>1 DEF BeginRecon
<1>3. recon'.todo = OpenReceipts /\ recon'.look = NoLook
  BY <1>2 DEF NoRecon
<1> QED BY <1>1, <1>3 DEF BeginRecon

\* How a reconciliation goes from one receipt to the next.
LEMMA ReconEffect ==
    ASSUME Types, ReceiptsFit, TodoFits, ReconStep
    PROVE  \/ /\ recon'.todo = recon.todo /\ UNCHANGED receipt
              /\ recon'.look.op = recon.look.op /\ recon.look.verdict # "none"
           \/ /\ recon'.todo = recon.todo /\ UNCHANGED receipt
              /\ \E o \in DOMAIN recon.todo : Look(o) /\ recon'.look.op = o
                    /\ recon'.look.verdict = Verdict(o, recon.todo[o])
           \/ recon' = NoRecon /\ UNCHANGED receipt
           \/ /\ Close /\ recon'.look = NoLook
              /\ DOMAIN recon'.todo = DOMAIN recon.todo \ {recon.look.op}
              /\ \A o \in DOMAIN recon'.todo : recon'.todo[o] = recon.todo[o]
<1>0. recon \in ReconRecord /\ recon.look \in LookRecord
  BY DEF Types, ReconRecord
<1>1. ASSUME NEW v, Says(v) PROVE recon'.todo = recon.todo /\ recon'.look.op = recon.look.op
  <2> DEFINE k == [recon.look EXCEPT !.verdict = v]
  <2>1. recon' = [recon EXCEPT !.look = k]
    BY <1>0, <1>1 DEF Says, ReconRecord
  <2>2. k.op = recon.look.op
    BY <1>0 DEF LookRecord
  <2> HIDE DEF k
  <2> QED BY <1>0, <2>1, <2>2 DEF ReconRecord
<1>2. ASSUME NEW o \in Op, Look(o)
      PROVE  /\ recon'.todo = recon.todo /\ recon'.look.op = o /\ o \in DOMAIN recon.todo
             /\ recon'.look.verdict = Verdict(o, recon.todo[o]) /\ UNCHANGED receipt
  <2> DEFINE k == [op |-> o, verdict |-> Verdict(o, recon.todo[o])]
  <2>1. recon' = [recon EXCEPT !.look = k]
    BY <1>2 DEF Look
  <2>2. k.op = o /\ k.verdict = Verdict(o, recon.todo[o])
    OBVIOUS
  <2>3. o \in DOMAIN recon.todo /\ UNCHANGED receipt
    BY <1>2 DEF Look, disk
  <2> HIDE DEF k
  <2> QED BY <1>0, <2>1, <2>2, <2>3 DEF ReconRecord
<1>3. CASE Decide
  BY <1>1, <1>3 DEF Decide, FailStale, CompleteStale, Throw, Saw, disk
<1>4. CASE Close
  <2> DEFINE t == Restrict(recon.todo, DOMAIN recon.todo \ {recon.look.op})
             h == recon.held \/ recon.look.verdict = "hold"
  <2>1. recon' = [recon EXCEPT !.todo = t, !.look = NoLook, !.held = h]
    BY <1>0, <1>4 DEF Close, ReconRecord
  <2>2. /\ DOMAIN t = DOMAIN recon.todo \ {recon.look.op}
        /\ \A o \in DOMAIN t : t[o] = recon.todo[o]
    BY DEF Restrict
  <2> HIDE DEF t, h
  <2> QED BY <1>0, <1>4, <2>1, <2>2 DEF ReconRecord
<1>5. CASE EndRecon
  BY <1>5 DEF EndRecon, Throw, disk
<1> QED BY <1>2, <1>3, <1>4, <1>5 DEF ReconStep

\* No reconciliation has nothing to look at, and no verdict.
LEMMA NoReconFacts == DOMAIN NoRecon.todo = {} /\ NoRecon.look.verdict = "none" /\ NoRecon.look.op = 0
BY EmptyTodo DEF NoRecon, NoLook

\* Every step leaves a reconciliation receipts of operations that have begun.
LEMMA TodoFitsStep ==
    ASSUME Types, ReceiptsFit, TodoFits, Steady, Next
    PROVE  TodoFits'
<1>0. NoLook.verdict = "none"
  BY DEF NoLook
<1>1. ASSUME recon'.look.verdict # "none" => recon'.look.op \in DOMAIN recon'.todo,
             \A o \in DOMAIN recon'.todo : o \in DOMAIN recon.todo /\ recon'.todo[o] = recon.todo[o]
      PROVE  TodoFits'
  BY <1>1, LookFacts DEF TodoFits, Steady, ReceiptStays
<1>2. CASE UNCHANGED recon
  BY <1>1, <1>2 DEF TodoFits
<1>3. CASE Restart
  BY <1>0, <1>3, RestartEffect, OpenReceiptsFacts DEF TodoFits, OpenState
<1>4. CASE recon' = NoRecon
  BY <1>1, <1>4, NoReconFacts
<1>5. CASE ReconStep
  <2>1. CASE recon'.todo = recon.todo /\ recon'.look.op \in DOMAIN recon.todo
    BY <1>1, <2>1
  <2> QED BY <1>0, <1>1, <1>4, <1>5, <2>1, ReconEffect, LookFacts
<1> QED BY <1>2, <1>3, <1>4, <1>5, Changes DEF Crash

\* A crash leaves early receipts to the next start, which decides about them all.
LEMMA NoOrphanStep ==
    ASSUME Types, ReceiptsFit, CallsFit, TodoFits, Quiet, NoOrphan, Next
    PROVE  NoOrphan'
<1> SUFFICES ASSUME NEW o \in Op, receipt'[o].state \in EarlyState
             PROVE  \/ \E c \in Caller : call'[c].op = o
                    \/ daemon' = "off"
                    \/ daemon' = "starting" /\ o \in DOMAIN recon'.todo
  BY DEF NoOrphan, Underway
<1> DEFINE Goal == \/ \E c \in Caller : call'[c].op = o
                   \/ daemon' = "off"
                   \/ daemon' = "starting" /\ o \in DOMAIN recon'.todo
<1>1. ASSUME receipt'[o].state = receipt[o].state
      PROVE  \/ \E c \in Caller : call[c].op = o
             \/ daemon = "off"
             \/ daemon = "starting" /\ o \in DOMAIN recon.todo
  BY <1>1 DEF NoOrphan, Underway
<1>2. ASSUME NEW c \in Caller, CallStep(c) PROVE Goal
  <2>1. UNCHANGED <<daemon, recon>>
    BY <1>2 DEF CallStep, Lock, Begin, Check, Copy, Stage, Write, Note, Manage, Complete, Finish,
                FailPlan, FailReceipt
  <2>2. ASSUME receipt'[o] = receipt[o], call[c].op # o \/ call'[c].op = o PROVE Goal
    BY <1>1, <1>2, <2>1, <2>2, OthersStay
  <2>3. CASE Lock(c)
    <3>1. call[c].op # o
      BY <2>3, ConfigAssumption, CallFacts DEF Lock, At, CallFits, Op
    <3>2. ASSUME NEW n \in Op, Takes(c, n) PROVE Goal
      BY <2>2, <3>1, <3>2 DEF Takes
    <3> QED BY <2>2, <2>3, <3>1, <3>2, LockTakes
  <2>4. CASE ~Lock(c)
    <3>1. CASE o # call[c].op
      BY <1>2, <2>2, <2>4, <3>1, ReceiptEffect
    <3>2. CASE o = call[c].op
      <4>1. ASSUME NEW x, LeaveOpen(c, x) PROVE FALSE
        BY <3>2, <4>1, LeaveOpenEffect DEF EarlyState
      <4>2. ASSUME NEW s \in {"completed", "failed"}, Mark(c, s) PROVE FALSE
        BY <3>2, <4>2, MarkEffect DEF EarlyState
      <4> QED BY <1>2, <2>4, <3>2, <4>1, <4>2, CallEnds
    <3> QED BY <3>1, <3>2
  <2> QED BY <2>3, <2>4
<1>3. ASSUME NEW c \in Caller, NEW p \in Plan, Ask(c, p) PROVE Goal
  <2>1. UNCHANGED <<receipt, daemon, recon>> /\ call[c].at = "idle"
    BY <1>3 DEF Ask, disk, At
  <2>2. call[c].op = 0 /\ o # 0
    BY <2>1, ConfigAssumption, CallFacts DEF CallFits, Op
  <2>3. \A d \in Caller \ {c} : call'[d] = call[d]
    BY <1>3 DEF Ask, Types
  <2> QED BY <1>1, <2>1, <2>2, <2>3
<1>4. CASE Restart
  <2>1. UNCHANGED <<receipt, call>>
    BY <1>4, RestartEffect
  <2>2. CASE Start
    BY <1>4, <2>1, <2>2, RestartEffect, OpenReceiptsFacts DEF Start, EarlyState, OpenState
  <2>3. CASE Recover \/ AskRecon
    BY <1>1, <2>1, <2>3 DEF Recover, AskRecon
  <2> QED BY <1>4, <2>2, <2>3 DEF Restart
<1>5. CASE ReconStep
  <2>0. recon.on /\ UNCHANGED call
    BY <1>5 DEF ReconStep, Look, Decide, FailStale, CompleteStale, Saw, Close, EndRecon, memory
  <2>1. CASE Close
    <3> DEFINE n == recon.look.op
    <3>1. n \in Op /\ recon.todo[n] \in Receipt
      BY <2>1, LookFacts DEF Close, Saw
    <3>2. ASSUME NEW s, NEW x, s \notin EarlyState, Closed(n, s, x) PROVE o # n /\ receipt'[o] = receipt[o]
      BY <3>1, <3>2 DEF Closed, Types, Receipt
    <3>3. o # n /\ receipt'[o] = receipt[o]
      BY <2>1, <3>2 DEF Close, EarlyState
    <3>4. UNCHANGED daemon
      BY <2>1 DEF Close
    <3>5. DOMAIN recon'.todo = DOMAIN recon.todo \ {n}
      <4>1. recon' = [recon EXCEPT !.todo = Restrict(@, DOMAIN @ \ {n}), !.look = NoLook,
                              !.held = @ \/ recon.look.verdict = "hold"]
        BY <2>1 DEF Close
      <4>2. DOMAIN Restrict(recon.todo, DOMAIN recon.todo \ {n}) = DOMAIN recon.todo \ {n}
        BY DEF Restrict
      <4> QED BY <4>1, <4>2 DEF Types, ReconRecord
    <3> QED BY <1>1, <2>0, <3>3, <3>4, <3>5
  <2>2. CASE EndRecon
    BY <1>1, <2>0, <2>2 DEF EndRecon, Quiet, disk
  <2>3. CASE Decide
    <3>1. UNCHANGED receipt
      BY <2>3 DEF Decide, disk
    <3>2. CASE \E v : Says(v) /\ UNCHANGED daemon
      <4>1. recon'.todo = recon.todo
        BY <3>2 DEF Says, Types, ReconRecord
      <4> QED BY <1>1, <2>0, <3>1, <3>2, <4>1
    <3>3. CASE Throw
      BY <1>1, <2>0, <3>1, <3>3 DEF Throw
    <3> QED BY <2>3, <3>2, <3>3 DEF Decide, FailStale, CompleteStale
  <2>4. ASSUME NEW n \in Op, Look(n) PROVE Goal
    <3>1. recon'.todo = recon.todo
      BY <2>4 DEF Look, Types, ReconRecord
    <3> QED BY <1>1, <2>4, <3>1 DEF Look, disk
  <2> QED BY <1>5, <2>1, <2>2, <2>3, <2>4 DEF ReconStep
<1>6. CASE Crash
  BY <1>6 DEF Crash
<1>7. CASE PlanStep
  BY <1>1, <1>7 DEF PlanStep, Propose, ProposeRollback, Approve, disk, memory
<1>8. ASSUME NEW f \in Path, Edit(f) PROVE Goal
  BY <1>1, <1>8 DEF Edit, memory
<1>9. CASE UNCHANGED vars
  BY <1>1, <1>9 DEF vars, disk, memory
<1> QED BY <1>2, <1>3, <1>4, <1>5, <1>6, <1>7, <1>8 DEF Next, Restart

-----------------------------------------------------------------------------
\* The files.

\* A rename that succeeded.
Renames(c, f) ==
    /\ call[c].at = "writing" /\ f \in call[c].left /\ call[c].op \in Op
    /\ f \in Targets(call[c].plan) /\ f \notin wrote[call[c].op]
    /\ files' = [files EXCEPT ![f] = plan[call[c].plan].want[f]]
    /\ wrote' = [wrote EXCEPT ![call[c].op] = @ \cup {f}]
    /\ call'[c].at = "wrote" /\ call'[c].op = call[c].op /\ call'[c].plan = call[c].plan
    /\ UNCHANGED <<receipt, snapshot, managed, plan, recon, daemon, edited, unseen, overlapped>>

\* A write renames the file, or leaves everything as it is.
LEMMA WriteRenames ==
    ASSUME Types, ReceiptsFit, CallsFit, NEW c \in Caller, NEW f \in Path, Write(c, f)
    PROVE  \/ Renames(c, f)
           \/ UNCHANGED <<files, wrote>> /\ (Go(c, "failing") \/ LeaveOpen(c, "partial"))
<1> SUFFICES ASSUME ~(UNCHANGED <<files, wrote>> /\ (Go(c, "failing") \/ LeaveOpen(c, "partial")))
             PROVE  Renames(c, f)
  OBVIOUS
<1>1. /\ call[c].at = "writing" /\ f \in call[c].left /\ call[c].op \in Op
      /\ CallFits(call[c])
  BY CallFacts DEF Write, At
<1>2. /\ f \in Targets(call[c].plan) /\ f \notin wrote[call[c].op] /\ PayloadIntact(call[c].plan)
  BY <1>1 DEF CallFits, Holding
<1>3. /\ files' = [files EXCEPT ![f] = Written(call[c].plan, f)]
      /\ wrote' = [wrote EXCEPT ![call[c].op] = @ \cup {f}]
      /\ call' = [call EXCEPT ![c].at = "wrote", ![c].left = call[c].left \ {f}]
      /\ UNCHANGED <<receipt, snapshot, managed, plan, recon, daemon, edited, unseen, overlapped>>
  BY DEF Write, redis, Abandon
<1>4. Written(call[c].plan, f) = plan[call[c].plan].want[f]
  BY <1>2, WrittenIsWanted
<1>5. call'[c].at = "wrote" /\ call'[c].op = call[c].op /\ call'[c].plan = call[c].plan
  <2> DEFINE k == [call[c] EXCEPT !.at = "wrote", !.left = call[c].left \ {f}]
  <2>1. call' = [call EXCEPT ![c] = k]
    BY <1>3
  <2>2. k.at = "wrote" /\ k.op = call[c].op /\ k.plan = call[c].plan
    BY DEF Types, CallRecord
  <2> HIDE DEF k
  <2> QED BY <2>1, <2>2 DEF Types
<1> QED BY <1>1, <1>2, <1>3, <1>4, <1>5 DEF Renames

\* A file changes by a rename or by an edit, and an edit is seen by a check.
LEMMA FileEffect ==
    ASSUME Types, ReceiptsFit, CallsFit, Next
    PROVE  /\ \A f \in Path :
                \/ files'[f] = files[f] \/ f \in unseen'
                \/ \E c \in Caller : Renames(c, f)
           /\ UNCHANGED wrote \/ \E c \in Caller, f \in Path : Renames(c, f)
           /\ \A f \in unseen \ unseen' :
                \E c \in Caller : /\ Check(c) /\ call[c].at = "begun" /\ f \in Targets(call[c].plan)
                                  /\ UNCHANGED files
<1>1. ASSUME NEW c \in Caller, NEW g \in Path, Write(c, g), NEW f \in Path
      PROVE  files'[f] = files[f] \/ Renames(c, f)
  BY <1>1, WriteRenames DEF Renames, Types
<1>2. ASSUME NEW g \in Path, Edit(g), NEW f \in Path
      PROVE  files'[f] = files[f] \/ f \in unseen'
  BY <1>2 DEF Edit, Types
<1>3. ASSUME NEW g \in Path, Edit(g) PROVE unseen \subseteq unseen'
  BY <1>3 DEF Edit
<1>4. ASSUME NEW c \in Caller, Check(c), NEW f \in unseen \ unseen'
      PROVE  call[c].at = "begun" /\ f \in Targets(call[c].plan) /\ UNCHANGED files
  BY <1>4 DEF Check, At
<1>5. \A f \in Path :
          files'[f] = files[f] \/ f \in unseen' \/ \E c \in Caller : Renames(c, f)
  BY <1>1, <1>2, Changes
<1>6. UNCHANGED wrote \/ \E c \in Caller, f \in Path : Renames(c, f)
  BY WriteRenames, Changes
<1> QED BY <1>3, <1>4, <1>5, <1>6, Changes

\* What was written stays written, and a rename adds to it.
LEMMA WroteEffect ==
    ASSUME Types, ReceiptsFit, CallsFit, Next, NEW o \in Op
    PROVE  /\ wrote[o] \subseteq wrote'[o]
           /\ \A f \in wrote'[o] \ wrote[o] :
                \E c \in Caller : Renames(c, f) /\ call[c].op = o
<1>1. ASSUME NEW c \in Caller, NEW g \in Path, Renames(c, g)
      PROVE  /\ wrote[o] \subseteq wrote'[o]
             /\ \A f \in wrote'[o] \ wrote[o] : f = g /\ call[c].op = o
  <2>1. CASE call[c].op = o
    <3>1. wrote'[o] = wrote[o] \cup {g}
      BY <1>1, <2>1 DEF Renames, Types
    <3> QED BY <2>1, <3>1
  <2>2. CASE call[c].op # o
    <3>1. wrote'[o] = wrote[o]
      BY <1>1, <2>2 DEF Renames, Types
    <3> QED BY <3>1
  <2> QED BY <2>1, <2>2
<1>2. CASE UNCHANGED wrote
  BY <1>2
<1> QED BY <1>1, <1>2, FileEffect

\* What was approved is there until its own call replaces it.
LEMMA StillApprovedStep ==
    ASSUME Types, PlansFit, ReceiptsFit, CallsFit, Apart, StillApproved, Steady, Next
    PROVE  StillApproved'
<1> DEFINE Goal(d) ==
      call'[d].at \in Holding =>
          \A f \in Targets(call[d].plan)' \ wrote'[call'[d].op] :
              files'[f] = plan'[call'[d].plan].pre[f] \/ f \in unseen'
<1> SUFFICES ASSUME NEW d \in Caller PROVE Goal(d)
  BY DEF StillApproved
<1>0. ASSUME call[d].at \in Holding
      PROVE  /\ call[d].plan \in Plan /\ plan'[call[d].plan].pre = plan[call[d].plan].pre
             /\ plan'[call[d].plan].want = plan[call[d].plan].want
             /\ call[d].op \in Op /\ call[d].op # 0
             /\ \A f \in Targets(call[d].plan) \ wrote[call[d].op] :
                   files[f] = plan[call[d].plan].pre[f] \/ f \in unseen
             /\ Targets(call[d].plan) \subseteq Path
  BY <1>0, CallFacts, PlanFacts DEF Holding, Steady, PlanStays, Decided, StillApproved
<1>1. ASSUME call'[d] = call[d], ~CallStep(d) PROVE Goal(d)
  <2> SUFFICES ASSUME call[d].at \in Holding,
                      NEW f \in Targets(call[d].plan) \ wrote'[call[d].op]
               PROVE  files'[f] = plan[call[d].plan].pre[f] \/ f \in unseen'
    BY <1>0, <1>1 DEF Targets
  <2>1. f \notin wrote[call[d].op]
    BY <1>0, WroteEffect
  <2>2. ASSUME NEW c \in Caller, c # d, call[c].op # 0 PROVE f \notin Targets(call[c].plan)
    BY <1>0, <2>2 DEF Apart
  <2>3. ASSUME NEW c \in Caller, Renames(c, f) PROVE FALSE
    <3>1. c # d
      <4>1. call'[c].at = "wrote" /\ call[c].at = "writing"
        BY <2>3 DEF Renames
      <4> QED BY <1>1, <4>1
    <3> QED BY <2>2, <2>3, <3>1, CallFacts DEF Renames
  <2>4. ASSUME f \in unseen \ unseen' PROVE FALSE
    <3>1. PICK c \in Caller : Check(c) /\ call[c].at = "begun" /\ f \in Targets(call[c].plan)
      BY <2>4, FileEffect
    <3>2. c # d
      BY <1>1, <3>1 DEF CallStep
    <3> QED BY <2>2, <3>1, <3>2, CallFacts
  <2> QED BY <1>0, <2>1, <2>3, <2>4, FileEffect
<1>2. ASSUME CallStep(d) PROVE Goal(d)
  <2>1. ASSUME call[d].at \in Holding, call'[d].plan = call[d].plan, call'[d].op = call[d].op,
               UNCHANGED <<files, unseen, wrote>>
        PROVE  Goal(d)
    BY <1>0, <2>1 DEF Targets
  <2>2. ASSUME NEW place, Go(d, place), place \notin Holding PROVE Goal(d)
    BY <2>2, GoEffect
  <2>3. ASSUME call'[d] = NoCall PROVE Goal(d)
    BY <2>3 DEF NoCall, Holding
  <2>4. ASSUME NEW x, LeaveOpen(d, x) PROVE Goal(d)
    BY <2>3, <2>4 DEF LeaveOpen, Types
  <2>5. CASE Lock(d)
    BY <2>3, <2>5, LockTakes DEF Takes, Holding
  <2>6. CASE Begin(d)
    BY <2>2, <2>4, <2>6 DEF Begin, Holding
  <2>7. CASE Check(d)
    <3>1. CASE Go(d, "failing")
      BY <2>2, <3>1 DEF Holding
    <3>2. CASE Go(d, "checked") /\ Acceptable(call[d].plan)
      <4>1. /\ call'[d].plan = call[d].plan /\ call[d].plan \in Plan /\ UNCHANGED <<files, plan>>
            /\ DOMAIN plan[call[d].plan].pre = Targets(call[d].plan)
        BY <2>7, <3>2, GoEffect, CallFacts DEF Check, At, redis, PlansFit, Targets
      <4>2. \A f \in Targets(call[d].plan) : files[f] = plan[call[d].plan].pre[f]
        BY <3>2, <4>1 DEF Acceptable, Matches
      <4> QED BY <4>1, <4>2 DEF Targets
    <3> QED BY <2>7, <3>1, <3>2 DEF Check
  <2>8. CASE Copy(d)
    <3>1. CASE Go(d, "copied")
      BY <2>1, <2>8, <3>1, GoEffect DEF Copy, At, Holding, history
    <3> QED BY <2>2, <2>8, <3>1 DEF Copy, Abandon, Holding
  <2>9. CASE Stage(d)
    <3>1. CASE call' = [call EXCEPT ![d].at = "writing", ![d].left = Targets(call[d].plan)]
      <4>1. call'[d].plan = call[d].plan /\ call'[d].op = call[d].op
        BY <2>9, ReceiptEffect, CallEnds, <3>1, LeftEffect
      <4> QED BY <2>1, <2>9, <4>1 DEF Stage, At, Holding, history
    <3> QED BY <2>2, <2>9, <3>1 DEF Stage, Abandon, Holding
  <2>10. ASSUME NEW g \in Path, Write(d, g) PROVE Goal(d)
    <3>1. CASE Renames(d, g)
      BY <1>0, <3>1 DEF Renames, Types, Targets, Holding
    <3> QED BY <2>2, <2>4, <2>10, <3>1, WriteRenames DEF Holding
  <2>11. CASE Note(d)
    <3>1. CASE Go(d, "writing")
      BY <2>1, <2>11, <3>1, GoEffect DEF Note, At, Holding, history
    <3> QED BY <2>2, <2>11, <3>1 DEF Note, Holding
  <2>12. CASE Manage(d) \/ Complete(d) \/ FailPlan(d)
    BY <2>2, <2>4, <2>12 DEF Manage, Complete, FailPlan, Holding
  <2>13. CASE Finish(d) \/ FailReceipt(d)
    BY <2>3, <2>4, <2>13 DEF Finish, FailReceipt, Types
  <2> QED BY <1>2, <2>5, <2>6, <2>7, <2>8, <2>9, <2>10, <2>11, <2>12, <2>13 DEF CallStep
<1>3. ASSUME NEW p \in Plan, Ask(d, p) PROVE Goal(d)
  BY <1>3 DEF Ask, Types, Holding
<1>4. CASE Crash
  BY <1>4 DEF Crash, NoCall, Holding
<1>5. ASSUME NEW c \in Caller, c # d, (\E p \in Plan : Ask(c, p)) \/ CallStep(c)
      PROVE  call'[d] = call[d]
  BY <1>5, OthersStay DEF Ask, Types
<1> QED BY <1>1, <1>2, <1>3, <1>4, <1>5, Changes

\* The files of an operation that is under way belong to no other call.
LEMMA LiveAlone ==
    ASSUME Types, ReceiptsFit, CallsFit, Apart, Quiet, NoOrphan,
           NEW o \in Op, Live(o), receipt[o].state # "none",
           NEW c \in Caller, call[c].op # 0,
           Targets(call[c].plan) \cap Targets(receipt[o].plan) # {}
    PROVE  call[c].op = o
<1>1. ASSUME NEW d \in Caller, call[d].op = o PROVE call[c].op = o
  <2>1. call[d].op # 0 /\ receipt[o].plan = call[d].plan
    BY <1>1, ConfigAssumption, CallFacts DEF Op, CallFits
  <2> QED BY <1>1, <2>1 DEF Apart
<1>2. CASE ~Underway(o)
  <2>1. daemon \in {"off", "starting"}
    BY <1>2 DEF Live, NoOrphan
  <2> QED BY <2>1 DEF Quiet
<1> QED BY <1>1, <1>2 DEF Underway

\* An operation comes under way only when it begins.
LEMMA LiveBefore ==
    ASSUME Types, ReceiptsFit, CallsFit, TodoFits, Steady, Next, NEW o \in Op, Live(o)',
           receipt[o].state # "none"
    PROVE  Live(o)
<1> SUFFICES ASSUME ~Live(o) PROVE FALSE
  OBVIOUS
<1>1. receipt[o].state \notin EarlyState /\ \A c \in Caller : call[c].op # o
  BY DEF Live, Underway
<1>2. receipt'[o].state \in EarlyState \/ \E d \in Caller : call'[d].op = o
  BY DEF Live, Underway
<1>3. o # 0
  BY ConfigAssumption DEF Op
<1>4. ASSUME NEW c \in Caller, CallStep(c) PROVE FALSE
  <2>1. receipt'[o] = receipt[o] /\ call'[c].op # o
    <3>1. CASE Lock(c)
      BY <1>1, <1>3, <3>1, LockTakes DEF Takes, NoCall
    <3>2. CASE ~Lock(c)
      BY <1>1, <1>3, <1>4, <3>2, ReceiptEffect, CallEnds
    <3> QED BY <3>1, <3>2
  <2> QED BY <1>1, <1>2, <1>4, <2>1, OthersStay
<1>5. CASE Close
  <2>1. recon.look.op \in Op /\ recon.todo[recon.look.op] \in Receipt /\ UNCHANGED call
    BY <1>5, LookFacts DEF Close, Saw
  <2>2. ASSUME NEW s, NEW x, s \notin EarlyState, Closed(recon.look.op, s, x)
        PROVE  receipt'[o].state \notin EarlyState
    BY <1>1, <2>1, <2>2 DEF Closed, Types, Receipt
  <2>3. receipt'[o].state \notin EarlyState
    BY <1>5, <2>2 DEF Close, EarlyState
  <2> QED BY <1>1, <1>2, <2>1, <2>3
<1>6. ASSUME NEW c \in Caller, NEW p \in Plan, Ask(c, p) PROVE FALSE
  <2>1. UNCHANGED receipt /\ call'[c].op = 0 /\ \A d \in Caller \ {c} : call'[d] = call[d]
    BY <1>6 DEF Ask, Types, disk
  <2> QED BY <1>1, <1>2, <1>3, <2>1
<1>7. CASE Crash
  BY <1>1, <1>2, <1>3, <1>7 DEF Crash, NoCall, disk
<1>8. CASE UNCHANGED <<receipt, call>>
  BY <1>1, <1>2, <1>8
<1> QED BY <1>4, <1>5, <1>6, <1>7, <1>8, Changes

\* No step but an edit changes what an operation under way has written.
LEMMA WritesStandStep ==
    ASSUME Types, PlansFit, ReceiptsFit, CallsFit, TodoFits, Apart, Quiet, NoOrphan, WritesStand,
           Steady, Next
    PROVE  WritesStand'
<1> SUFFICES ASSUME NEW o \in Op, Live(o)', NEW f \in wrote'[o]
             PROVE  files'[f] = plan'[receipt'[o].plan].want[f] \/ f \in unseen'
  BY DEF WritesStand, Live
<1>1. ASSUME f \in wrote[o]
      PROVE  files'[f] = plan'[receipt'[o].plan].want[f] \/ f \in unseen'
  <2>1. /\ receipt[o].state # "none" /\ receipt[o].plan \in Plan /\ f \in Targets(receipt[o].plan)
        /\ plan[receipt[o].plan].state # "none" /\ f \in Path
    BY <1>1 DEF ReceiptsFit, Fresh, Decided, Types
  <2>2. Live(o)
    BY <2>1, LiveBefore
  <2>3. files[f] = plan[receipt[o].plan].want[f] \/ f \in unseen
    BY <1>1, <2>2 DEF WritesStand, Live
  <2>4. receipt'[o].plan = receipt[o].plan /\ plan'[receipt[o].plan].want = plan[receipt[o].plan].want
    BY <2>1 DEF Steady, ReceiptStays, PlanStays
  <2>5. ASSUME NEW c \in Caller, Renames(c, f) PROVE FALSE
    <3>1. /\ call[c].op \in Op /\ f \in Targets(call[c].plan) /\ f \notin wrote[call[c].op]
      BY <2>5 DEF Renames
    <3>2. call[c].op # 0
      BY <3>1, ConfigAssumption DEF Op
    <3>3. call[c].op = o
      BY <2>1, <2>2, <3>1, <3>2, LiveAlone
    <3> QED BY <1>1, <3>1, <3>3
  <2>6. ASSUME NEW c \in Caller, call[c].at = "begun", f \in Targets(call[c].plan) PROVE FALSE
    <3>1. call[c].op = o
      BY <2>1, <2>2, <2>6, LiveAlone, CallFacts
    <3> QED BY <1>1, <2>6, <3>1, CallFacts DEF CallFits, Untouched
  <2> QED BY <2>1, <2>3, <2>4, <2>5, <2>6, FileEffect
<1>2. ASSUME f \notin wrote[o] PROVE files'[f] = plan'[receipt'[o].plan].want[f]
  <2>1. PICK c \in Caller : Renames(c, f) /\ call[c].op = o
    BY <1>2, WroteEffect
  <2>2. /\ receipt[o].plan = call[c].plan /\ UNCHANGED <<receipt, plan>>
        /\ files' = [files EXCEPT ![f] = plan[call[c].plan].want[f]]
    BY <2>1, CallFacts DEF Renames
  <2>3. f \in Path
    BY <2>1, CallFacts, PlanFacts DEF Renames
  <2> QED BY <2>2, <2>3 DEF Types
<1> QED BY <1>1, <1>2

\* While no reconciliation has met a call, the receipts it looks at are those of
\* operations that nobody applies, on files that nobody writes.
LEMMA Outside ==
    ASSUME Types, PlansFit, ReceiptsFit, CallsFit, TodoFits, Separate, ~overlapped,
           NEW c \in Caller, call[c].op # 0
    PROVE  /\ call[c].op \notin DOMAIN recon.todo
           /\ \A o \in DOMAIN recon.todo :
                Targets(call[c].plan) \cap Targets(receipt[o].plan) = {}
<1>1. \A o \in DOMAIN recon.todo :
         Targets(call[c].plan) \cap Targets(receipt[o].plan) = {}
  BY LookFacts DEF Separate, Meets
<1>2. call[c].plan \in Plan /\ receipt[call[c].op].plan = call[c].plan /\ Targets(call[c].plan) # {}
  BY CallFacts DEF CallFits, PlansFit, Decided
<1> QED BY <1>1, <1>2

\* A reconciliation that met a call is remembered.
LEMMA OverlappedStays == ASSUME Types, Next, ~overlapped' PROVE ~overlapped
BY Changes, RestartEffect DEF Lock, Types

\* A reconciliation and the calls stay apart until one takes the other's files.
LEMMA SeparateStep ==
    ASSUME Types, PlansFit, ReceiptsFit, CallsFit, TodoFits, Separate, Steady, Next
    PROVE  Separate'
<1> SUFFICES ASSUME ~overlapped'
             PROVE  /\ ~Meets(recon.todo, call)'
                    /\ \A o \in DOMAIN recon'.todo : recon'.todo[o] = receipt'[o]
  BY DEF Separate
<1>0. ~overlapped /\ ~Meets(recon.todo, call) /\ \A o \in DOMAIN recon.todo : recon.todo[o] = receipt[o]
  BY OverlappedStays DEF Separate
<1> DEFINE Part == \A o \in DOMAIN recon'.todo :
                      o \in DOMAIN recon.todo /\ recon'.todo[o] = recon.todo[o]
<1>1. ASSUME Part, \A c \in Caller : call'[c].op # 0 =>
                        call'[c].op = call[c].op /\ call'[c].plan = call[c].plan
      PROVE  ~Meets(recon.todo, call)'
  <2> SUFFICES ASSUME NEW o \in DOMAIN recon'.todo, NEW c \in Caller, call'[c].op # 0
               PROVE  Targets(call[c].plan)' \cap Targets(recon.todo[o].plan)' = {}
    BY DEF Meets
  <2>1. /\ o \in DOMAIN recon.todo /\ recon'.todo[o].plan = receipt[o].plan
        /\ call[c].op # 0 /\ call'[c].plan = call[c].plan
    BY <1>1, LookFacts
  <2>2. Targets(call[c].plan) \cap Targets(receipt[o].plan) = {}
    BY <1>0, <2>1, Outside
  <2>3. /\ plan'[receipt[o].plan].want = plan[receipt[o].plan].want
        /\ plan'[call[c].plan].want = plan[call[c].plan].want
    BY <2>1, LookFacts, CallFacts DEF Steady, PlanStays, ReceiptsFit, CallFits, Decided
  <2> QED BY <2>1, <2>2, <2>3 DEF Targets
<1>2. ASSUME Part, \A o \in DOMAIN recon'.todo : receipt'[o] = receipt[o]
      PROVE  \A o \in DOMAIN recon'.todo : recon'.todo[o] = receipt'[o]
  BY <1>0, <1>2
<1>3. ASSUME NEW c \in Caller, CallStep(c)
      PROVE  /\ ~Meets(recon.todo, call)'
             /\ \A o \in DOMAIN recon'.todo : recon'.todo[o] = receipt'[o]
  <2>1. UNCHANGED recon /\ \A d \in Caller \ {c} : call'[d] = call[d]
    BY <1>3, OthersStay
       DEF CallStep, Lock, Begin, Check, Copy, Stage, Write, Note, Manage, Complete, Finish,
           FailPlan, FailReceipt
  <2>2. CASE Lock(c)
    <3>1. ~Meets(recon.todo, call') /\ UNCHANGED plan
      BY <2>2 DEF Lock, redis
    <3>2. ~Meets(recon.todo, call)'
      BY <2>1, <3>1 DEF Meets, Targets
    <3>3. \A o \in DOMAIN recon.todo : receipt'[o] = receipt[o]
      BY <2>2, LockTakes, LookFacts DEF Takes
    <3> QED BY <1>2, <2>1, <3>2, <3>3
  <2>3. CASE ~Lock(c)
    <3>1. \A o \in DOMAIN recon.todo : receipt'[o] = receipt[o]
      BY <1>0, <1>3, <2>3, ReceiptEffect, Outside, LookFacts
    <3> QED BY <1>1, <1>2, <1>3, <2>1, <2>3, <3>1, CallEnds
  <2> QED BY <2>2, <2>3
<1>4. CASE Restart
  <2>1. /\ recon'.todo = OpenReceipts /\ UNCHANGED <<receipt, plan, call>>
        /\ ~Meets(OpenReceipts, call)
    BY <1>4, RestartEffect DEF redis
  <2> QED BY <2>1, OpenReceiptsFacts DEF Meets, Targets
<1>5. CASE recon' = NoRecon
  <2>1. DOMAIN recon'.todo = {}
    BY <1>5, NoReconFacts
  <2> QED BY <2>1 DEF Meets
<1>6. CASE ReconStep
  <2>1. UNCHANGED call
    BY <1>6 DEF ReconStep, Look, Decide, Close, EndRecon, memory
  <2>2. CASE recon'.todo = recon.todo /\ UNCHANGED receipt
    BY <1>1, <1>2, <2>1, <2>2
  <2>3. CASE /\ Close /\ DOMAIN recon'.todo = DOMAIN recon.todo \ {recon.look.op}
             /\ \A o \in DOMAIN recon'.todo : recon'.todo[o] = recon.todo[o]
    <3>1. \A o \in DOMAIN recon'.todo : receipt'[o] = receipt[o]
      BY <2>3, LookFacts DEF Close, Closed, Types
    <3> QED BY <1>1, <1>2, <2>1, <2>3, <3>1
  <2> QED BY <1>5, <1>6, <2>2, <2>3, ReconEffect
<1>7. ASSUME NEW c \in Caller, NEW p \in Plan, Ask(c, p)
      PROVE  /\ ~Meets(recon.todo, call)'
             /\ \A o \in DOMAIN recon'.todo : recon'.todo[o] = receipt'[o]
  <2>1. UNCHANGED <<recon, receipt>> /\ call'[c].op = 0 /\ \A d \in Caller \ {c} : call'[d] = call[d]
    BY <1>7 DEF Ask, Types, disk
  <2> QED BY <1>1, <1>2, <2>1
<1>8. CASE UNCHANGED <<recon, call, receipt>>
  BY <1>1, <1>2, <1>8
<1> QED BY <1>3, <1>4, <1>5, <1>6, <1>7, <1>8, Changes DEF Crash, Close, Restart, ReconStep

\* Until a reconciliation acts on its verdict, nothing refutes it.
LEMMA LookStandsStep ==
    ASSUME Types, PlansFit, ReceiptsFit, CallsFit, TodoFits, Separate, WritesStand, OnlyEdited,
           LookStands, Steady, Next, TodoFits', Separate', OnlyEdited'
    PROVE  LookStands'
<1> DEFINE n == recon'.look.op
           Right(o) == receipt'[o].committed =>
                         \A f \in DOMAIN plan'[receipt'[o].plan].want :
                             files'[f] = plan'[receipt'[o].plan].want[f] \/ f \in unseen'
           Wrong(o) == ~edited' =>
                         \A f \in wrote'[o] : plan'[receipt'[o].plan].want[f]
                                                  = plan'[receipt'[o].plan].pre[f]
<1> SUFFICES ASSUME ~overlapped'
             PROVE  /\ recon'.look.verdict \in {"complete", "completed"} => Right(n)
                    /\ recon'.look.verdict \in {"fail", "failed"} => Wrong(n)
  BY DEF LookStands, Holds, Touched, Targets
<1>0. ~overlapped
  BY OverlappedStays
<1>1. ASSUME NEW o \in DOMAIN recon.todo
      PROVE  /\ o \in Op /\ receipt[o].state # "none" /\ receipt[o].plan \in Plan
             /\ recon.todo[o] = receipt[o] /\ receipt'[o].plan = receipt[o].plan
             /\ plan'[receipt[o].plan].want = plan[receipt[o].plan].want
             /\ plan'[receipt[o].plan].pre = plan[receipt[o].plan].pre
             /\ DOMAIN plan[receipt[o].plan].pre = Targets(receipt[o].plan)
             /\ Targets(receipt[o].plan) \subseteq Path
             /\ \A c \in Caller : call[c].op # 0 =>
                   call[c].op # o /\ Targets(call[c].plan) \cap Targets(receipt[o].plan) = {}
  <2>1. o \in Op /\ receipt[o].state # "none" /\ receipt[o].plan \in Plan /\ recon.todo[o] = receipt[o]
    BY <1>0, <1>1, LookFacts DEF Separate
  <2>2. /\ receipt'[o].plan = receipt[o].plan
        /\ plan'[receipt[o].plan].want = plan[receipt[o].plan].want
        /\ plan'[receipt[o].plan].pre = plan[receipt[o].plan].pre
    BY <2>1 DEF Steady, PlanStays, ReceiptStays, ReceiptsFit, Decided
  <2>3. \A c \in Caller : call[c].op # 0 =>
            call[c].op # o /\ Targets(call[c].plan) \cap Targets(receipt[o].plan) = {}
    BY <1>0, <1>1, Outside
  <2> QED BY <2>1, <2>2, <2>3, PlanFacts DEF PlansFit, Targets
<1>2. ASSUME NEW o \in DOMAIN recon.todo, receipt'[o] = receipt[o],
             receipt[o].committed => Holds(receipt[o].plan)
      PROVE  Right(o)
  <2> SUFFICES ASSUME receipt[o].committed, NEW f \in Targets(receipt[o].plan)
               PROVE  files'[f] = plan[receipt[o].plan].want[f] \/ f \in unseen'
    BY <1>1, <1>2 DEF Targets
  <2>1. f \in Path /\ (files[f] = plan[receipt[o].plan].want[f] \/ f \in unseen)
    BY <1>1, <1>2 DEF Holds
  <2>2. ASSUME NEW c \in Caller, call[c].at \notin {"idle", "read"}, f \in Targets(call[c].plan) PROVE FALSE
    BY <1>1, <2>2, CallFacts
  <2> QED BY <2>1, <2>2, FileEffect DEF Renames
<1>3. ASSUME NEW o \in DOMAIN recon.todo, ~edited => Touched(o) = {} PROVE Wrong(o)
  <2>1. ~edited' => ~edited
    BY Changes
  <2>2. wrote'[o] = wrote[o]
    <3>1. ASSUME NEW c \in Caller, NEW f \in Path, Renames(c, f) PROVE call[c].op # o
      BY <1>1, <3>1, CallFacts DEF Renames
    <3>2. wrote[o] \subseteq wrote'[o] /\ wrote'[o] \ wrote[o] = {}
      BY <1>1, <3>1, WroteEffect, CallFacts, PlanFacts DEF Renames
    <3> QED BY <3>2
  <2> QED BY <1>1, <1>3, <2>1, <2>2 DEF Touched
<1>4. ASSUME NEW o \in DOMAIN recon.todo, Look(o), recon'.look.op = o,
             recon'.look.verdict = Verdict(o, recon.todo[o])
      PROVE  /\ recon'.look.verdict \in {"complete", "completed"} => Right(n)
             /\ recon'.look.verdict \in {"fail", "failed"} => Wrong(n)
  <2> DEFINE r == receipt[o]
  <2>1. recon'.look.verdict = Verdict(o, r) /\ UNCHANGED receipt /\ recon.todo[o] = r
    BY <1>1, <1>4 DEF Look, disk
  <2>2. ASSUME Verdict(o, r) \in {"complete", "completed"} PROVE Right(o)
    <3>1. Landed(r)
      BY <2>2 DEF Verdict
    <3>2. r.committed => Holds(r.plan)
      BY <3>1 DEF Landed, Matches, Holds, Targets
    <3> QED BY <1>2, <2>1, <3>2
  <2>3. ASSUME Verdict(o, r) \in {"fail", "failed"} PROVE Wrong(o)
    <3>1. Early(r) /\ Matches(plan[r.plan].pre)
      BY <2>3 DEF Verdict
    <3>2. ASSUME ~edited, NEW f \in Touched(o) PROVE FALSE
      <4>1. f \in wrote[o] /\ f \in Targets(r.plan) /\ plan[r.plan].want[f] # plan[r.plan].pre[f]
        BY <1>1, <3>2 DEF Touched, ReceiptsFit
      <4>2. files[f] = plan[r.plan].pre[f]
        BY <1>1, <3>1, <4>1 DEF Matches
      <4>3. r.state \in EarlyState
        BY <1>1, <3>1, <4>1 DEF Early, ReceiptsFit, EarlyState
      <4>4. files[f] = plan[r.plan].want[f]
        BY <1>1, <3>2, <4>1, <4>3 DEF WritesStand, Live, OnlyEdited
      <4> QED BY <4>1, <4>2, <4>4
    <3> QED BY <1>3, <3>2
  <2> QED BY <1>4, <2>1, <2>2, <2>3
<1>5. ASSUME n = recon.look.op, n \in DOMAIN recon.todo, n \in DOMAIN recon'.todo,
             recon'.todo[n] = recon.todo[n],
             recon'.look.verdict \in {"complete", "completed"} =>
                 recon.look.verdict \in {"complete", "completed"},
             recon'.look.verdict \in {"fail", "failed"} =>
                 recon.look.verdict \in {"fail", "failed"}
      PROVE  /\ recon'.look.verdict \in {"complete", "completed"} => Right(n)
             /\ recon'.look.verdict \in {"fail", "failed"} => Wrong(n)
  <2>1. receipt'[n] = receipt[n]
    BY <1>0, <1>5 DEF Separate
  <2> QED BY <1>0, <1>2, <1>3, <1>5, <2>1 DEF LookStands
<1>6. CASE UNCHANGED recon
  BY <1>0, <1>5, <1>6, LookFacts DEF Separate
<1>7. CASE recon'.look = NoLook \/ recon' = NoRecon
  BY <1>7, NoReconFacts DEF NoLook
<1>8. ASSUME ReconStep, recon'.todo = recon.todo, recon'.look.op = recon.look.op,
             recon.look.verdict # "none", UNCHANGED receipt, recon' # NoRecon,
             \A o \in Op : ~Look(o)
      PROVE  /\ recon'.look.verdict \in {"complete", "completed"} => Right(n)
             /\ recon'.look.verdict \in {"fail", "failed"} => Wrong(n)
  <2>1. ASSUME NEW v, Says(v) PROVE recon'.look.verdict = v
    <3> DEFINE k == [recon.look EXCEPT !.verdict = v]
    <3>1. recon.look \in LookRecord /\ recon \in ReconRecord
      BY DEF Types, ReconRecord
    <3>2. recon' = [recon EXCEPT !.look = k]
      BY <2>1, <3>1 DEF Says, ReconRecord
    <3>3. k.verdict = v
      BY <3>1 DEF LookRecord
    <3> HIDE DEF k
    <3> QED BY <3>1, <3>2, <3>3 DEF ReconRecord
  <2>2. CASE Decide
    <3>1. \/ recon.look.verdict = "fail" /\ recon'.look.verdict \in {"failed", "hold"}
          \/ recon.look.verdict = "complete" /\ recon'.look.verdict = "completed"
      BY <1>8, <2>1, <2>2 DEF Decide, FailStale, CompleteStale, Saw, Throw
    <3> QED BY <1>5, <1>8, <3>1, LookFacts
  <2>3. CASE Close
    <3>1. recon'.look = NoLook
      BY <2>3 DEF Close, Types, ReconRecord
    <3> QED BY <1>7, <3>1
  <2>4. CASE EndRecon
    BY <1>8, <2>4, NoReconFacts, LookFacts DEF EndRecon
  <2> QED BY <1>8, <2>2, <2>3, <2>4 DEF ReconStep
<1>9. CASE ReconStep
  <2>1. ASSUME NEW o \in Op, Look(o)
        PROVE  /\ recon'.look.verdict \in {"complete", "completed"} => Right(n)
               /\ recon'.look.verdict \in {"fail", "failed"} => Wrong(n)
    <3> DEFINE k == [op |-> o, verdict |-> Verdict(o, recon.todo[o])]
    <3>1. recon' = [recon EXCEPT !.look = k] /\ o \in DOMAIN recon.todo
      BY <2>1 DEF Look
    <3>2. k.op = o /\ k.verdict = Verdict(o, recon.todo[o])
      OBVIOUS
    <3>3. recon'.look = k
      <4> HIDE DEF k
      <4> QED BY <3>1 DEF Types, ReconRecord
    <3> QED BY <1>4, <2>1, <3>1, <3>2, <3>3
  <2>2. CASE recon' = NoRecon \/ recon'.look = NoLook
    BY <1>7, <2>2
  <2>3. CASE \E o \in Op : Look(o)
    BY <2>1, <2>3
  <2> HIDE DEF Right, Wrong
  <2> QED BY <1>8, <1>9, <2>2, <2>3, ReconEffect, LookFacts
<1> QED BY <1>6, <1>7, <1>9, Changes, RestartEffect DEF Crash

-----------------------------------------------------------------------------
\* What is managed, and the journal.

\* Whose turn it was when the managed targets changed.
LEMMA OwnEffect ==
    ASSUME Types, PlansFit, ReceiptsFit, CallsFit, TodoFits, Apart, Separate, ~overlapped, Next,
           NEW d \in Caller, call[d].op # 0, ~Manage(d)
    PROVE  /\ \A f \in Path : managed[f].op # call[d].op => managed'[f].op # call[d].op
           /\ \A f \in Targets(call[d].plan) : managed'[f] = managed[f]
<1>0. call[d].plan \in Plan /\ Targets(call[d].plan) \subseteq Path
  BY CallFacts, PlanFacts DEF CallFits
<1>1. ASSUME NEW o \in Op, Own(o), o # call[d].op,
             Targets(receipt[o].plan) \cap Targets(call[d].plan) = {}
      PROVE  /\ \A f \in Path : managed[f].op # call[d].op => managed'[f].op # call[d].op
             /\ \A f \in Targets(call[d].plan) : managed'[f] = managed[f]
  BY <1>0, <1>1 DEF Own
<1>2. ASSUME NEW c \in Caller, Manage(c)
      PROVE  \/ UNCHANGED managed
             \/ \E o \in Op : /\ Own(o) /\ o # call[d].op
                              /\ Targets(receipt[o].plan) \cap Targets(call[d].plan) = {}
  <2>1. /\ call[c].op \in Op /\ call[c].op # 0 /\ receipt[call[c].op].plan = call[c].plan
        /\ Own(call[c].op) \/ UNCHANGED managed
    BY <1>2, CallFacts DEF Manage, At
  <2>2. c # d
    BY <1>2
  <2> QED BY <2>1, <2>2 DEF Apart
<1>3. ASSUME Close
      PROVE  \/ UNCHANGED managed
             \/ \E o \in Op : /\ Own(o) /\ o # call[d].op
                              /\ Targets(receipt[o].plan) \cap Targets(call[d].plan) = {}
  <2>1. recon.look.op \in DOMAIN recon.todo /\ recon.look.op \in Op
    BY <1>3, LookFacts DEF Close, Saw
  <2>2. Own(recon.look.op) \/ UNCHANGED managed
    BY <1>3 DEF Close
  <2> QED BY <2>1, <2>2, Outside
<1> QED BY <1>1, <1>2, <1>3, Changes

\* A receipt whose operation a call applies is changed by that call alone.
LEMMA OwnReceipt ==
    ASSUME Types, PlansFit, ReceiptsFit, CallsFit, TodoFits, Apart, Separate, ~overlapped, Next,
           NEW d \in Caller, call[d].op # 0, ~CallStep(d)
    PROVE  receipt'[call[d].op] = receipt[call[d].op]
<1> DEFINE o == call[d].op
<1>0. o \in Op /\ receipt[o].state # "none"
  BY CallFacts DEF CallFits
<1>1. ASSUME NEW c \in Caller, CallStep(c) PROVE receipt'[o] = receipt[o]
  <2>1. CASE Lock(c)
    BY <1>0, <2>1, LockTakes DEF Takes
  <2>2. CASE ~Lock(c)
    BY <1>0, <1>1, <2>2, ReceiptEffect DEF Apart
  <2> QED BY <2>1, <2>2
<1>2. ASSUME Close PROVE receipt'[o] = receipt[o]
  <2>1. recon.look.op \in DOMAIN recon.todo
    BY <1>2, LookFacts DEF Close, Saw
  <2>2. recon.look.op # o
    BY <2>1, Outside
  <2> QED BY <1>0, <1>2, <2>2 DEF Close, Closed, Types
<1> QED BY <1>1, <1>2, Changes

\* What others do leaves a call's receipt and its targets,
LEMMA MarkedKept ==
    ASSUME Types, PlansFit, ReceiptsFit, CallsFit, TodoFits, Apart, Separate, ~overlapped, Steady,
           Next, NEW d \in Caller, call'[d] = call[d], ~CallStep(d), CallMarked(call[d])
    PROVE  CallMarked(call[d])'
<1>1. CASE call[d].op = 0
  <2>1. call[d].at \in {"idle", "read"}
    BY <1>1, CallFacts DEF CallFits
  <2> QED BY <2>1 DEF CallMarked
<1>2. CASE call[d].op # 0
  <2>1. receipt'[call[d].op] = receipt[call[d].op]
    BY <1>2, OwnReceipt
  <2>2. /\ \A f \in Path : managed[f].op # call[d].op => managed'[f].op # call[d].op
        /\ \A f \in Targets(call[d].plan) : managed'[f] = managed[f]
    BY <1>2, OwnEffect DEF CallStep
  <2>3. plan'[call[d].plan].want = plan[call[d].plan].want
    BY <1>2, CallFacts DEF CallFits, Steady, PlanStays, Decided
  <2> QED BY <2>1, <2>2, <2>3 DEF CallMarked, Targets
<1> QED BY <1>1, <1>2

\* its own steps keep them in order,
LEMMA MarkedMoves ==
    ASSUME Types, PlansFit, ReceiptsFit, CallsFit, TodoFits, Steady,
           NEW d \in Caller, CallStep(d), CallMarked(call[d])
    PROVE  CallMarked(call[d])'
<1> DEFINE o == call[d].op
           p == call[d].plan
<1>1. ASSUME call'[d].at \in {"idle", "read", "copied", "failing", "failed"} PROVE CallMarked(call[d])'
  BY <1>1 DEF CallMarked
<1>2. ASSUME NEW place, Go(d, place), place \in {"copied", "failing", "failed"} PROVE CallMarked(call[d])'
  BY <1>1, <1>2, GoEffect
<1>3. ASSUME (\E x : LeaveOpen(d, x)) \/ call'[d] = NoCall \/ call' = [call EXCEPT ![d] = NoCall]
      PROVE  CallMarked(call[d])'
  <2>1. call'[d] = NoCall
    BY <1>3 DEF LeaveOpen, Types
  <2> QED BY <1>1, <2>1 DEF NoCall
<1>4. CASE Lock(d)
  <2>1. ASSUME NEW n \in Op, Takes(d, n) PROVE CallMarked(call[d])'
    BY <2>1 DEF Takes, CallMarked, Fresh
  <2> QED BY <1>3, <1>4, <2>1, LockTakes
<1>5. CASE ~Lock(d)
  <2>1. o \in Op /\ p \in Plan /\ receipt[o].plan = p /\ Targets(p) \subseteq Path
        /\ plan'[p].want = plan[p].want
    BY <1>5, ReceiptEffect, PlanFacts DEF Steady, PlanStays, Decided
  <2>2. CASE Begin(d) \/ Check(d)
    <3>1. ASSUME NEW place, Go(d, place), place \in {"begun", "checked"},
                 UNCHANGED <<receipt, managed>>, call[d].at \in {"locked", "begun"}
          PROVE  CallMarked(call[d])'
      BY <3>1, GoEffect DEF CallMarked
    <3> QED BY <1>2, <1>3, <2>2, <3>1 DEF Begin, Check, At
  <2>3. CASE Copy(d) \/ FailPlan(d)
    BY <1>2, <2>3 DEF Copy, Abandon, FailPlan
  <2>4. CASE Stage(d)
    <3>1. CASE Mark(d, "writing") /\ call' = [call EXCEPT ![d].at = "writing", ![d].left = Targets(p)]
      <4>1. call'[d].at = "writing" /\ call'[d].op = o /\ call'[d].plan = p
        BY <3>1, LeftEffect
      <4>2. receipt'[o].state = "writing"
        BY <2>1, <3>1, MarkEffect
      <4> QED BY <4>1, <4>2 DEF CallMarked
    <3> QED BY <1>2, <2>4, <3>1 DEF Stage, Abandon
  <2>5. ASSUME NEW f \in Path, Write(d, f) PROVE CallMarked(call[d])'
    <3>1. CASE Renames(d, f)
      BY <3>1 DEF Renames, CallMarked
    <3> QED BY <1>2, <1>3, <2>5, <3>1, WriteRenames
  <2>6. CASE Note(d)
    <3>1. ASSUME NEW place, NEW s, Go(d, place), Mark(d, s),
                 <<place, s>> \in {<<"committed", "files_committed">>, <<"writing", "writing">>}
          PROVE  CallMarked(call[d])'
      <4>1. receipt'[o].state = s
        BY <2>1, <3>1, MarkEffect
      <4> QED BY <3>1, <4>1, GoEffect DEF CallMarked
    <3> QED BY <2>6, <3>1 DEF Note
  <2>7. CASE Manage(d)
    <3>1. CASE Own(o) /\ Go(d, "managed") /\ UNCHANGED receipt
      <4>1. \A f \in Targets(p) : managed'[f] = [op |-> o, hash |-> plan'[p].want[f]]
        BY <2>1, <3>1 DEF Own
      <4>2. receipt'[o].state = "files_committed"
        BY <2>7, <3>1 DEF Manage, At, CallMarked
      <4> QED BY <2>1, <3>1, <4>1, <4>2, GoEffect DEF CallMarked, Targets
    <3> QED BY <1>3, <2>7, <3>1 DEF Manage
  <2>8. CASE Complete(d)
    <3>1. CASE Go(d, "recorded") /\ UNCHANGED <<receipt, managed>>
      BY <2>1, <2>8, <3>1, GoEffect DEF Complete, At, CallMarked, Targets
    <3> QED BY <1>3, <2>8, <3>1 DEF Complete
  <2>9. CASE Finish(d) \/ FailReceipt(d)
    BY <1>3, <2>9 DEF Finish, FailReceipt
  <2> QED BY <1>5, <2>2, <2>3, <2>4, <2>5, <2>6, <2>7, <2>8, <2>9 DEF CallStep
<1> QED BY <1>4, <1>5

\* and so does every step.
LEMMA MarkedStep ==
    ASSUME Types, PlansFit, ReceiptsFit, CallsFit, TodoFits, Apart, Separate, Marked, Steady, Next
    PROVE  Marked'
<1> SUFFICES ASSUME ~overlapped', NEW d \in Caller PROVE CallMarked(call[d])'
  BY DEF Marked, CallMarked
<1>1. ~overlapped /\ CallMarked(call[d])
  BY OverlappedStays DEF Marked, CallMarked
<1>2. CASE CallStep(d)
  BY <1>1, <1>2, MarkedMoves
<1>3. CASE call'[d] = call[d] /\ ~CallStep(d)
  BY <1>1, <1>3, MarkedKept
<1>4. ASSUME NEW p \in Plan, Ask(d, p) PROVE CallMarked(call[d])'
  BY <1>4 DEF Ask, Types, CallMarked
<1>5. CASE Crash
  BY <1>5 DEF Crash, NoCall, CallMarked
<1>6. ASSUME NEW c \in Caller, c # d, (\E p \in Plan : Ask(c, p)) \/ CallStep(c)
      PROVE  call'[d] = call[d]
  BY <1>6, OthersStay DEF Ask, Types
<1> QED BY <1>2, <1>3, <1>4, <1>5, <1>6, Changes

\* How a receipt is closed, or reopened.
LEMMA CallCloses ==
    ASSUME Types, ReceiptsFit, CallsFit, NEW c \in Caller, CallStep(c), NEW o \in Op,
           receipt'[o].state # receipt[o].state
    PROVE  \/ Lock(c) /\ receipt[o].state = "none"
           \/ /\ call[c].op = o
              /\ \/ receipt'[o].state \in {"writing", "files_committed", "reconciliation_required"}
                 \/ Finish(c) /\ receipt'[o].state = "completed"
                 \/ wrote[o] = {} /\ UNCHANGED wrote
<1>1. CASE Lock(c)
  BY <1>1, LockTakes DEF Takes
<1>2. CASE ~Lock(c)
  <2>1. call[c].op = o
    BY <1>2, ReceiptEffect
  <2>2. ASSUME NEW x, LeaveOpen(c, x) PROVE receipt'[o].state = "reconciliation_required"
    BY <2>1, <2>2, LeaveOpenEffect
  <2>3. ASSUME NEW s, Mark(c, s) PROVE receipt'[o].state = s
    BY <2>1, <2>3, MarkEffect
  <2>4. ASSUME Copy(c) \/ FailReceipt(c) PROVE wrote[o] = {} /\ UNCHANGED wrote
    BY <2>1, <2>4, CallFacts DEF Copy, FailReceipt, At, CallFits, Untouched, history
  <2> QED BY <1>2, <2>1, <2>2, <2>3, <2>4
          DEF CallStep, Begin, Check, Stage, Write, Note, Manage, Complete, Finish, FailPlan, disk
<1> QED BY <1>1, <1>2

\* How a reconciliation closes a receipt.
LEMMA ReconCloses ==
    ASSUME Types, ReceiptsFit, TodoFits, Close, NEW o \in Op, receipt'[o].state # receipt[o].state
    PROVE  /\ o = recon.look.op /\ o \in DOMAIN recon.todo
           /\ \/ receipt'[o].state = "reconciliation_required"
              \/ receipt'[o].state = "failed" /\ recon.look.verdict = "failed"
              \/ receipt'[o].state = "completed" /\ recon.look.verdict = "completed" /\ Own(o)
<1>1. recon.look.op \in DOMAIN recon.todo /\ recon.todo[recon.look.op] \in Receipt
  BY LookFacts DEF Close, Saw
<1>2. ASSUME NEW s, NEW x, Closed(recon.look.op, s, x)
      PROVE  o = recon.look.op /\ receipt'[o].state = s
  BY <1>1, <1>2 DEF Closed, Types, Receipt
<1> QED BY <1>1, <1>2 DEF Close, Saw

\* The plan of an operation that wrote keeps its files.
LEMMA WroteFacts ==
    ASSUME Types, ReceiptsFit, Steady, NEW o \in Op, wrote[o] # {}
    PROVE  /\ receipt[o].state # "none" /\ wrote[o] \subseteq Targets(receipt[o].plan)
           /\ receipt'[o].plan = receipt[o].plan
           /\ plan'[receipt[o].plan].want = plan[receipt[o].plan].want
           /\ plan'[receipt[o].plan].pre = plan[receipt[o].plan].pre
BY DEF ReceiptsFit, Fresh, Steady, PlanStays, ReceiptStays, Decided

\* Nothing that was changed is forgotten.
LEMMA TouchedStays ==
    ASSUME Types, ReceiptsFit, CallsFit, Steady, Next, NEW o \in Op, NEW f \in Touched(o)
    PROVE  f \in Touched(o)'
<1>1. f \in wrote[o] /\ f \in wrote'[o]
  BY WroteEffect DEF Touched
<1> QED BY <1>1, WroteFacts DEF Touched

\* The journal goes before the rename, and is closed only over what is owned.
LEMMA JournalStep ==
    ASSUME Types, PlansFit, ReceiptsFit, CallsFit, TodoFits, LookStands, Marked, Steady, Next,
           JournalCoversWrites, ReceiptsFit'
    PROVE  JournalCoversWrites'
<1> DEFINE Journaled == {"writing", "files_committed", "reconciliation_required", "completed"}
<1> SUFFICES ASSUME NEW o \in Op, Touched(o)' # {}, ~edited', ~overlapped'
             PROVE  receipt'[o].state \in Journaled /\ snapshot'[o] # NoSnapshot
  BY DEF JournalCoversWrites
<1>0. ~edited /\ ~overlapped
  BY OverlappedStays, Changes
<1>1. wrote'[o] # {}
  BY DEF Touched
<1>2. snapshot'[o] # NoSnapshot
  BY <1>1 DEF ReceiptsFit
<1>3. CASE Touched(o) = {}
  <2>1. wrote'[o] # wrote[o]
    <3>1. CASE wrote[o] = {}
      BY <1>1, <3>1
    <3>2. CASE wrote[o] # {}
      BY <1>3, <3>2, WroteFacts DEF Touched
    <3> QED BY <3>1, <3>2
  <2>2. wrote[o] \subseteq wrote'[o]
    BY WroteEffect
  <2>3. PICK f \in wrote'[o] : f \notin wrote[o]
    BY <2>1, <2>2
  <2>4. PICK c \in Caller : Renames(c, f) /\ call[c].op = o
    BY <2>3, WroteEffect
  <2>5. receipt[o].state = "writing" /\ UNCHANGED receipt
    BY <1>0, <2>4 DEF Marked, CallMarked, Renames
  <2> QED BY <1>2, <2>5
<1>4. CASE Touched(o) # {}
  <2>1. receipt[o].state \in Journaled /\ wrote[o] # {} /\ receipt[o].state # "none"
    BY <1>0, <1>4 DEF JournalCoversWrites, Touched
  <2>2. ASSUME receipt'[o].state # receipt[o].state PROVE receipt'[o].state \in Journaled
    <3>1. ASSUME NEW c \in Caller, CallStep(c) PROVE receipt'[o].state \in Journaled
      BY <2>1, <2>2, <3>1, CallCloses
    <3>2. ASSUME Close PROVE receipt'[o].state \in Journaled
      BY <1>0, <1>4, <2>2, <3>2, ReconCloses DEF LookStands
    <3> QED BY <2>2, <3>1, <3>2, Changes
  <2> QED BY <1>2, <2>1, <2>2
<1> QED BY <1>3, <1>4

\* A target changes under its owner only while the next operation is open.
LEMMA ManagedHoldsStep ==
    ASSUME Types, PlansFit, ReceiptsFit, CallsFit, TodoFits, Apart, StillApproved, WritesStand,
           OnlyEdited, Separate, LookStands, Marked, ManagedHolds, Steady, Next, OnlyEdited', Separate'
    PROVE  ManagedHolds'
<1> DEFINE Excused(f) == \E o \in Op : receipt'[o].state \in OpenState /\ f \in Touched(o)'
           Right(f) == /\ managed'[f].op # 0
                       /\ receipt'[managed'[f].op].committed => files'[f] = managed'[f].hash
<1> SUFFICES ASSUME ~edited', ~overlapped', NEW f \in Path
             PROVE  managed'[f] = Unmanaged \/ Excused(f) \/ Right(f)
  BY DEF ManagedHolds
<1>0. ~edited /\ ~overlapped /\ unseen = {} /\ unseen' = {}
  BY OverlappedStays, Changes DEF OnlyEdited
<1>1. ASSUME NEW c \in Caller, Manage(c), managed' # managed, f \in Targets(call[c].plan) PROVE Right(f)
  <2> DEFINE o == call[c].op
  <2>1. /\ o \in Op /\ o # 0 /\ receipt[o].plan = call[c].plan /\ wrote[o] = Targets(call[c].plan)
        /\ Own(o) /\ UNCHANGED files
    BY <1>1, CallFacts DEF Manage, At, CallFits, disk
  <2>2. managed'[f] = [op |-> o, hash |-> plan[call[c].plan].want[f]]
    BY <1>1, <2>1 DEF Own
  <2>3. files[f] = plan[call[c].plan].want[f]
    BY <1>0, <1>1, <2>1 DEF WritesStand, Live, Underway
  <2> QED BY <2>1, <2>2, <2>3
<1>2. ASSUME Close, recon.look.verdict = "completed", f \in Targets(receipt[recon.look.op].plan)
      PROVE  Right(f)
  <2> DEFINE o == recon.look.op
  <2>1. o \in DOMAIN recon.todo /\ o \in Op /\ o # 0
    BY <1>2, LookFacts, ConfigAssumption DEF Op
  <2>2. Own(o) /\ UNCHANGED files /\ Closed(o, "completed", "none")
    BY <1>2 DEF Close, Saw
  <2>3. managed'[f] = [op |-> o, hash |-> plan[receipt[o].plan].want[f]]
    BY <1>2, <2>2 DEF Own
  <2>4. receipt'[o].committed = receipt[o].committed
    <3>1. recon.todo[o] = receipt[o] /\ recon.todo[o] \in Receipt
      BY <1>0, <2>1, LookFacts DEF Separate
    <3> QED BY <2>1, <2>2, <3>1 DEF Closed, Types, Receipt
  <2>5. receipt[o].committed => files[f] = plan[receipt[o].plan].want[f]
    BY <1>0, <1>2 DEF LookStands, Holds
  <2> QED BY <2>1, <2>2, <2>3, <2>4, <2>5
<1>3. ASSUME managed'[f] = managed[f], NEW o \in Op, receipt[o].state \in OpenState, f \in Touched(o)
      PROVE  Excused(f) \/ Right(f)
  <2>1. f \in Touched(o)' /\ wrote[o] # {}
    BY <1>3, TouchedStays DEF Touched
  <2>2. f \in Targets(receipt[o].plan)
    BY <1>3, <2>1, WroteFacts DEF Touched
  <2>3. CASE receipt'[o].state \in OpenState
    BY <2>1, <2>3
  <2>4. ASSUME NEW c \in Caller, CallStep(c), receipt'[o].state \notin OpenState PROVE Right(f)
    <3>1. Finish(c) /\ call[c].op = o
      BY <1>3, <2>1, <2>4, CallCloses DEF OpenState
    <3>2. /\ call[c].at = "recorded" /\ receipt[o].plan = call[c].plan /\ o # 0
          /\ UNCHANGED <<files, managed>>
      BY <3>1, CallFacts DEF Finish, At
    <3>3. managed[f] = [op |-> o, hash |-> plan[receipt[o].plan].want[f]]
      BY <1>0, <2>2, <3>1, <3>2 DEF Marked, CallMarked
    <3>4. files[f] = plan[receipt[o].plan].want[f]
      BY <1>0, <1>3, <3>1 DEF WritesStand, Live, Underway, Touched
    <3> QED BY <3>2, <3>3, <3>4
  <2>5. ASSUME Close, receipt'[o].state \notin OpenState PROVE Right(f)
    <3>1. o = recon.look.op /\ recon.look.verdict \in {"failed", "completed"}
      BY <1>3, <2>5, ReconCloses DEF OpenState
    <3>2. recon.look.verdict = "completed"
      BY <1>0, <1>3, <3>1 DEF LookStands
    <3> QED BY <1>2, <2>2, <2>5, <3>1, <3>2
  <2>6. CASE UNCHANGED receipt
    BY <1>3, <2>1, <2>6
  <2> QED BY <2>3, <2>4, <2>5, <2>6, Changes
<1>4. ASSUME managed'[f] = managed[f], managed[f].op # 0,
             receipt[managed[f].op].committed => files[f] = managed[f].hash
      PROVE  Excused(f) \/ Right(f)
  <2> DEFINE m == managed[f].op
  <2>0. m \in Op
    BY <1>4 DEF Types
  <2>1. ASSUME NEW c \in Caller, Renames(c, f), files'[f] # files[f] PROVE Excused(f)
    <3> DEFINE o == call[c].op
               p == call[c].plan
    <3>1. o \in Op /\ receipt[o].plan = p /\ UNCHANGED <<receipt, plan>> /\ f \in wrote'[o]
      BY <2>1, CallFacts DEF Renames, Types
    <3>2. receipt[o].state = "writing"
      BY <1>0, <2>1 DEF Marked, CallMarked, Renames
    <3>3. files[f] = plan[p].pre[f] /\ files'[f] = plan[p].want[f]
      BY <1>0, <2>1 DEF StillApproved, Renames, Holding, Types
    <3> QED BY <2>1, <3>1, <3>2, <3>3 DEF Touched, OpenState
  <2>2. receipt'[m].committed => receipt[m].committed
    <3>1. ASSUME NEW c \in Caller, CallStep(c) PROVE receipt'[m].committed => receipt[m].committed
      <4>1. CASE Lock(c)
        <5>1. ASSUME NEW n \in Op, Takes(c, n) PROVE receipt'[m] = receipt[m]
          BY <2>0, <5>1 DEF Takes, Fresh
        <5> QED BY <4>1, <5>1, LockTakes
      <4>2. CASE Copy(c)
        <5>1. call[c].op # m
          BY <1>0, <4>2 DEF Marked, CallMarked, Copy, At
        <5> QED BY <2>0, <4>2, <5>1, CopyEffect
      <4>3. CASE UNCHANGED receipt
        BY <4>3
      <4>4. ASSUME NEW s, Mark(c, s) PROVE receipt'[m].committed => receipt[m].committed
        BY <2>0, <4>4, MarkEffect
      <4>5. ASSUME NEW x, LeaveOpen(c, x) PROVE receipt'[m].committed => receipt[m].committed
        BY <2>0, <4>5, LeaveOpenEffect
      <4> QED BY <3>1, <4>1, <4>2, <4>3, <4>4, <4>5
              DEF CallStep, Begin, Check, Stage, Write, Note, Manage, Complete, Finish, FailPlan,
                  FailReceipt, disk
    <3>2. ASSUME Close PROVE receipt'[m].committed => receipt[m].committed
      <4>1. recon.look.op \in DOMAIN recon.todo /\ recon.todo[recon.look.op] = receipt[recon.look.op]
            /\ recon.todo[recon.look.op] \in Receipt
        BY <1>0, <3>2, LookFacts DEF Close, Saw, Separate
      <4>2. ASSUME NEW s, NEW x, Closed(recon.look.op, s, x)
            PROVE  receipt'[m].committed => receipt[m].committed
        BY <2>0, <4>1, <4>2 DEF Closed, Types, Receipt
      <4> QED BY <3>2, <4>2 DEF Close
    <3> QED BY <3>1, <3>2, Changes
  <2> QED BY <1>0, <1>4, <2>1, <2>2, FileEffect
<1>5. CASE managed'[f] = managed[f]
  BY <1>0, <1>3, <1>4, <1>5 DEF ManagedHolds
<1>6. CASE managed'[f] # managed[f]
  <2>1. ASSUME NEW c \in Caller, Manage(c) PROVE f \in Targets(call[c].plan)
    <3>1. Own(call[c].op) /\ receipt[call[c].op].plan = call[c].plan
      BY <1>6, <2>1, CallFacts DEF Manage, At
    <3> QED BY <1>6, <3>1 DEF Own
  <2>2. ASSUME Close PROVE recon.look.verdict = "completed" /\ f \in Targets(receipt[recon.look.op].plan)
    BY <1>6, <2>2 DEF Close, Own, Saw
  <2> QED BY <1>1, <1>2, <1>6, <2>1, <2>2, Changes
<1> QED BY <1>5, <1>6

-----------------------------------------------------------------------------
\* The rest of the invariant holds at first.
LEMMA InitRest ==
    ASSUME Init
    PROVE  /\ PlansFit /\ ReceiptsFit /\ CallsFit /\ Apart /\ StillApproved /\ Quiet /\ NoOrphan
           /\ WritesStand /\ OnlyEdited /\ TodoFits /\ Separate /\ LookStands /\ Marked
           /\ ManagedHolds /\ JournalCoversWrites
<1>0. 0 \notin Op
  BY ConfigAssumption DEF Op
<1>1. PlansFit
  BY DEF Init, PlansFit, NoPlan
<1>2. \A o \in Op : receipt[o] = NoReceipt /\ receipt[o].state = "none" /\ receipt[o].code = "none"
                       /\ wrote[o] = {} /\ snapshot[o] = NoSnapshot /\ o \notin projected
  BY DEF Init, NoReceipt
<1>3. \A f \in Path : managed[f] = Unmanaged /\ managed[f].op = 0
  BY DEF Init, Unmanaged
<1>4. \A c \in Caller : call[c] = NoCall /\ call[c].at = "idle" /\ call[c].op = 0 /\ call[c].left = {}
  BY DEF Init, NoCall
<1>5. DOMAIN recon.todo = {} /\ recon.look.verdict = "none" /\ recon.look.op = 0 /\ ~recon.on
  BY NoReconFacts DEF Init, NoRecon
<1>6. ReceiptsFit
  BY <1>0, <1>2, <1>3 DEF ReceiptsFit, Fresh
<1>7. CallsFit
  BY <1>4 DEF CallsFit, CallFits, Untouched, Saved, Holding
<1>8. Apart /\ StillApproved /\ Marked
  BY <1>4 DEF Apart, StillApproved, Marked, CallMarked, Holding
<1>9. Quiet /\ OnlyEdited
  BY <1>4, <1>5 DEF Init, Quiet, OnlyEdited
<1>10. NoOrphan /\ WritesStand
  BY <1>2 DEF NoOrphan, WritesStand, EarlyState
<1>11. TodoFits /\ Separate /\ LookStands
  BY <1>5 DEF TodoFits, Separate, Meets, LookStands
<1>12. ManagedHolds
  BY <1>3 DEF ManagedHolds
<1>13. JournalCoversWrites
  BY <1>2 DEF JournalCoversWrites, Touched
<1> QED BY <1>1, <1>6, <1>7, <1>8, <1>9, <1>10, <1>11, <1>12, <1>13

\* Every step keeps it,
LEMMA InvariantStep ==
    ASSUME IInv, Next
    PROVE  IInv'
<1> USE DEF IInv
<1>1. Types'
  BY TypesStep
<1>2. Steady
  BY SteadyStep
<1>3. PlansFit' /\ ReceiptsFit'
  BY <1>2, PlansFitStep, ReceiptsFitStep
<1>4. CallsFit' /\ Apart' /\ TodoFits' /\ OnlyEdited' /\ Quiet' /\ NoOrphan'
  BY <1>2, <1>3, CallsFitStep, ApartStep, TodoFitsStep, OnlyEditedStep, QuietStep, NoOrphanStep
<1>5. StillApproved' /\ WritesStand' /\ Separate'
  BY <1>2, StillApprovedStep, WritesStandStep, SeparateStep
<1>6. LookStands' /\ Marked'
  BY <1>2, <1>4, <1>5, LookStandsStep, MarkedStep
<1>7. ManagedHolds' /\ JournalCoversWrites'
  BY <1>2, <1>3, <1>4, <1>5, ManagedHoldsStep, JournalStep
<1> QED BY <1>1, <1>3, <1>4, <1>5, <1>6, <1>7

\* and so does a step that changes nothing.
LEMMA InvariantStutters ==
    ASSUME IInv, UNCHANGED vars
    PROVE  IInv'
<1> USE DEF IInv, vars, disk, redis, memory, history
<1>1. Types'
  BY TypesStep
<1>2. PlansFit' /\ ReceiptsFit'
  BY DEF PlansFit, ReceiptsFit, Fresh, Targets
<1>3. CallsFit'
  <2>1. \A c \in Caller : CallFits(call[c])
    BY DEF CallsFit
  <2>2. ASSUME NEW c \in Caller PROVE CallFits(call[c])'
    BY <2>1 DEF CallFits, PayloadIntact, Targets
  <2> QED BY <2>2 DEF CallsFit
<1>4. Apart' /\ StillApproved'
  BY DEF Apart, StillApproved, Targets
<1>5. Quiet' /\ NoOrphan' /\ OnlyEdited' /\ TodoFits'
  BY DEF Quiet, NoOrphan, Underway, OnlyEdited, TodoFits
<1>6. WritesStand'
  BY DEF WritesStand, Live, Underway
<1>7. Separate'
  BY DEF Separate, Meets, Targets
<1>8. LookStands'
  BY DEF LookStands, Holds, Touched, Targets
<1>9. Marked'
  BY DEF Marked, CallMarked, Targets
<1>10. ManagedHolds' /\ JournalCoversWrites'
  BY DEF ManagedHolds, JournalCoversWrites, Touched
<1> QED BY <1>1, <1>2, <1>3, <1>4, <1>5, <1>6, <1>7, <1>8, <1>9, <1>10

\* The invariant holds in every behaviour.
THEOREM SpecIInv == Spec => []IInv
<1>1. Init => IInv
  BY InitTypes, InitRest DEF IInv
<1>2. IInv /\ [Next]_vars => IInv'
  BY InvariantStep, InvariantStutters
<1> QED BY <1>1, <1>2, PTL DEF Spec

-----------------------------------------------------------------------------
\* The types; a recorded operation belongs to an applied plan, and what a call
\* (applyPlan) has left to write is among its targets.
THEOREM SpecTypeOK == Spec => []TypeOK
<1>1. IInv => TypeOK
  <2> SUFFICES ASSUME IInv PROVE TypeOK
    OBVIOUS
  <2>1. files \in [Path -> Hash] /\ locks \subseteq Path /\ projected \subseteq Op
        /\ daemon \in {"off", "starting", "up", "recovering"}
    BY DEF IInv, Types
  <2>2. \A o \in Op : receipt[o].state \in ReceiptState /\ receipt[o].plan \in Plan \cup {None}
    BY DEF IInv, Types, Receipt
  <2>3. \A f \in Path : managed[f].op \in Op \cup {0} /\ managed[f].hash \in Hash
    BY DEF IInv, Types
  <2>4. \A p \in Plan : plan[p].state \in PlanState /\ DOMAIN plan[p].want = DOMAIN plan[p].pre
    BY DEF IInv, Types, PlanRecord, PlansFit
  <2>5. \A o \in projected : plan[receipt[o].plan].state = "applied"
    BY <2>1 DEF IInv, ReceiptsFit
  <2>6. \A c \in Caller : call[c].op # 0 => call[c].left \subseteq Targets(call[c].plan)
    BY DEF IInv, CallsFit, CallFits
  <2> QED BY <2>1, <2>2, <2>3, <2>4, <2>5, <2>6 DEF TypeOK
<1> QED BY <1>1, SpecIInv, PTL

\* Whatever crashes and fails, a file that applyPlan changed is covered by a
\* receipt that a reconciliation looks at, or that owns it, and by a snapshot of
\* what it held.
THEOREM SpecJournalCoversWrites == Spec => []JournalCoversWrites
<1>1. IInv => JournalCoversWrites
  BY DEF IInv
<1> QED BY <1>1, SpecIInv, PTL

\* No drift is reported of a file nobody edited: its managed target, written by
\* writeManagedTargets, is what it holds, unless an operation on it is open or its
\* owner never went as far as its snapshot.
THEOREM SpecNoFalseDrift == Spec => []NoFalseDrift
<1>1. IInv => NoFalseDrift
  <2> SUFFICES ASSUME IInv, ~edited, ~overlapped, NEW h \in Path, managed[h] # Unmanaged,
                      receipt[managed[h].op].committed, files[h] # managed[h].hash
               PROVE  \E o \in Op : receipt[o].state \in OpenState /\ h \in Targets(receipt[o].plan)
    BY DEF NoFalseDrift
  <2>1. PICK o \in Op : receipt[o].state \in OpenState /\ h \in Touched(o)
    BY DEF IInv, ManagedHolds
  <2>2. h \in Targets(receipt[o].plan)
    BY <2>1 DEF Touched, IInv, ReceiptsFit
  <2> QED BY <2>1, <2>2
<1> QED BY <1>1, SpecIInv, PTL

\* The engine renames over a file only while it holds what the plan was approved
\* over, or was edited since the check.
THEOREM SpecReplacesOnlyApproved == Spec => ReplacesOnlyApproved
<1> DEFINE Replaces(c, h) == At(c, "writing") /\ h \in call[c].left /\ h \notin call'[c].left
                                /\ call'[c].at = "wrote"
           Approved == \A c \in Caller, h \in Path :
                          Replaces(c, h) => files[h] = plan[call[c].plan].pre[h] \/ h \in unseen
<1>1. IInv => Approved
  <2> SUFFICES ASSUME IInv, NEW c \in Caller, NEW h \in Path, Replaces(c, h)
               PROVE  files[h] = plan[call[c].plan].pre[h] \/ h \in unseen
    OBVIOUS
  <2>1. h \in Targets(call[c].plan) \ wrote[call[c].op]
    BY DEF IInv, CallsFit, CallFits, At
  <2> QED BY <2>1 DEF IInv, StillApproved, Holding, At
<1>2. IInv => [Approved]_vars
  BY <1>1
<1>3. Spec => [][Approved]_vars
  BY <1>2, SpecIInv, PTL
<1> QED BY <1>3 DEF ReplacesOnlyApproved

\* Who records an operation, and what he has seen of its files.
LEMMA RecordedHolds ==
    ASSUME IInv, Next, NEW o \in projected' \ projected, receipt[o].committed, ~overlapped
    PROVE  Holds(receipt[o].plan)
<1> USE DEF IInv
<1>1. ASSUME NEW c \in Caller, Complete(c) PROVE Holds(receipt[o].plan)
  <2>1. o = call[c].op
    BY <1>1 DEF Complete, Record, redis
  <2>2. o \in Op /\ receipt[o].plan = call[c].plan /\ wrote[o] = Targets(call[c].plan)
    BY <1>1, <2>1, CallFacts DEF Complete, At, CallFits
  <2> QED BY <2>1, <2>2 DEF WritesStand, Live, Underway, Holds
<1>2. CASE Decide
  <2>1. o = recon.look.op /\ recon.look.verdict = "complete"
    BY <1>2 DEF Decide, FailStale, CompleteStale, Record, Saw, redis
  <2> QED BY <2>1 DEF LookStands
<1> QED BY <1>1, <1>2, Changes

\* completeConfigPlan records an operation that took its snapshot only when its
\* files hold what the plan wanted, apart from edits since the check.
THEOREM SpecRecordedIsWritten == Spec => RecordedIsWritten
<1> DEFINE Records(x, o) == Applies(x) /\ o \in projected' \ projected /\ receipt[o].committed
                              /\ ~overlapped
           Rightly == \A x \in Plan, o \in Op : Records(x, o) => Holds(x)
<1>1. IInv /\ [Next]_vars => [Rightly]_vars
  <2> SUFFICES ASSUME IInv, Next, NEW x \in Plan, NEW o \in Op, Records(x, o) PROVE Holds(x)
    OBVIOUS
  <2>1. receipt[o].plan \in Plan /\ Record(receipt[o].plan, o)
    BY ProjectedEffect DEF IInv
  <2>2. x = receipt[o].plan
    BY <2>1 DEF Record, Transition, Applies, IInv, Types
  <2> QED BY <2>2, RecordedHolds
<1>2. Spec => [][Rightly]_vars
  BY <1>1, SpecIInv, PTL DEF Spec
<1> QED BY <1>2 DEF RecordedIsWritten
-----------------------------------------------------------------------------
(* Why an operation is held.                                               *)

\* What an operation found and wrote is in place, unless another one outran it.
InPlace(o) ==
    LET x == plan[receipt[o].plan] IN
    \A h \in DOMAIN x.want : files[h] = IF h \in wrote[o] THEN x.want[h] ELSE x.pre[h]
Standing ==
    ~edited => \A o \in Op : receipt[o].state # "none" /\ ~Outrun(o) => InPlace(o)

\* What a plan was made over is in place, unless an operation wrote something else.
PlanStanding ==
    ~edited => \A p \in Plan : plan[p].state # "none" =>
        \A h \in Targets(p) :
            \/ files[h] = plan[p].pre[h]
            \/ \E x \in Op : h \in wrote[x] /\ plan[receipt[x].plan].want[h] # plan[p].pre[h]

\* An operation that begins while a call runs is about other files.
LaterElsewhere ==
    \A c \in Caller, o \in Op :
        call[c].op # 0 /\ receipt[o].state # "none" /\ o > call[c].op =>
            Targets(receipt[o].plan) \cap Targets(call[c].plan) = {}

\* What the state and the code of a receipt say of what was written.
ReceiptsTell ==
    \A o \in Op :
        /\ receipt[o].state = "none" => receipt[o] = NoReceipt
        /\ receipt[o].state # "redis_pending"
        /\ receipt[o].state = "files_committed" => wrote[o] = Targets(receipt[o].plan)
        /\ receipt[o].state = "reconciliation_required" =>
              receipt[o].code \in {"uncertain", "partial", "projection", "held"}
        /\ receipt[o].code \in {"partial", "projection"} => wrote[o] # {}
        /\ wrote[o] # {} => plan[receipt[o].plan].state # "approved"
        /\ ~overlapped /\ snapshot[o] # NoSnapshot => receipt[o].committed

\* A plan is applied by an operation that is recorded.
AppliedIsRecorded ==
    \A p \in Plan : plan[p].state = "applied" => \E x \in projected : receipt[x].plan = p

\* A call has begun its plan, its receipt is not decided about, and it is recorded
\* last.
CallsTell ==
    \A c \in Caller :
        /\ call[c].at \notin {"idle", "read", "locked"} => plan[call[c].plan].state # "approved"
        /\ ~overlapped /\ call[c].op # 0 =>
              receipt[call[c].op].code = "none" /\ (call[c].op \in projected => call[c].at = "recorded")

\* A recorded operation whose receipt is early changed a file.
RecordedChanged ==
    ~edited /\ ~overlapped =>
        \A o \in projected : Early(receipt[o]) /\ ~Outrun(o) => Touched(o) # {}

\* Why an operation is held.
Reason(o) ==
    \/ wrote[o] \notin {{}, Targets(receipt[o].plan)}
    \/ plan[receipt[o].plan].state = "failed"
    \/ o \in unreached
    \/ Outrun(o)

\* What a verdict has found.
LookTells ==
    /\ \A o \in DOMAIN recon.todo : recon.todo[o].state \in OpenState
    /\ ~edited /\ ~overlapped =>
        \A o \in DOMAIN recon.todo : recon.look.op = o =>
            /\ Saw("fail") => plan[receipt[o].plan].state = "applying"
            /\ Saw("complete") /\ Early(receipt[o]) /\ ~Outrun(o) => Touched(o) # {}
            /\ Saw("hold") => Reason(o)

Whys == /\ Standing /\ PlanStanding /\ LaterElsewhere /\ ReceiptsTell /\ AppliedIsRecorded /\ CallsTell
        /\ RecordedChanged /\ LookTells /\ HeldWithReason

\* Every step of the invariant is steady.
LEMMA IInvSteady == ASSUME IInv, Next PROVE Steady
BY SteadyStep DEF IInv

\* What stays of an operation that has begun.
LEMMA OpKept ==
    ASSUME IInv, Next, NEW o \in Begun
    PROVE  /\ o \in Op /\ receipt[o].state # "none" /\ receipt[o].plan \in Plan
           /\ plan[receipt[o].plan].state \in Decided
           /\ Targets(receipt[o].plan) \in SUBSET Path /\ Targets(receipt[o].plan) # {}
           /\ wrote[o] \subseteq Targets(receipt[o].plan) /\ wrote[o] \subseteq wrote'[o]
           /\ receipt'[o].state # "none" /\ receipt'[o].plan = receipt[o].plan
           /\ plan'[receipt[o].plan].want = plan[receipt[o].plan].want
           /\ plan'[receipt[o].plan].pre = plan[receipt[o].plan].pre
           /\ plan'[receipt[o].plan].state \in Decided
<1> USE DEF IInv
<1>1. o \in Op /\ receipt[o].state # "none"
  BY DEF Begun
<1>2. receipt[o].plan \in Plan /\ plan[receipt[o].plan].state \in Decided
  BY <1>1 DEF ReceiptsFit
<1>3. plan[receipt[o].plan].state # "none"
  BY <1>2 DEF Decided
<1>4. Targets(receipt[o].plan) \in SUBSET Path /\ Targets(receipt[o].plan) # {}
  BY <1>2, <1>3, PlanFacts DEF PlansFit, Targets
<1>5. wrote[o] \subseteq Targets(receipt[o].plan)
  BY <1>1 DEF ReceiptsFit
<1>6. wrote[o] \subseteq wrote'[o]
  BY <1>1, WroteEffect
<1>7. PlanStays(receipt[o].plan) /\ ReceiptStays(o)
  BY <1>1, <1>2, IInvSteady DEF Steady
<1> QED BY <1>1, <1>2, <1>3, <1>4, <1>5, <1>6, <1>7 DEF PlanStays, ReceiptStays

\* An operation that has written has begun.
LEMMA WriterBegun == ASSUME IInv, NEW o \in Op, wrote[o] # {} PROVE o \in Begun
BY DEF IInv, ReceiptsFit, Fresh, Begun

\* An operation that was outrun stays so.
LEMMA OutrunStays ==
    ASSUME IInv, Next, NEW o \in Begun, Outrun(o)
    PROVE  Outrun(o)'
<1> USE DEF IInv
<1>1. PICK x \in Begun \ {o} :
        \/ receipt[x].plan = receipt[o].plan
        \/ \E h \in wrote[x] \cap Targets(receipt[o].plan) :
              x > o \/ plan[receipt[o].plan].pre[h] # plan[receipt[x].plan].want[h]
  BY DEF Outrun
<1>2. x \in Begun'
  BY OpKept DEF Begun
<1>3. CASE receipt[x].plan = receipt[o].plan
  <2>1. receipt'[x].plan = receipt'[o].plan
    BY <1>3, OpKept
  <2> QED BY <1>1, <1>2, <2>1 DEF Outrun
<1>4. ASSUME NEW h \in wrote[x] \cap Targets(receipt[o].plan),
             x > o \/ plan[receipt[o].plan].pre[h] # plan[receipt[x].plan].want[h]
      PROVE  Outrun(o)'
  <2>1. h \in wrote'[x] /\ h \in DOMAIN plan'[receipt'[o].plan].want
    BY <1>4, OpKept DEF Targets
  <2>2. x > o \/ plan'[receipt'[o].plan].pre[h] # plan'[receipt'[x].plan].want[h]
    BY <1>4, OpKept
  <2> QED BY <1>1, <1>2, <2>1, <2>2 DEF Outrun, Targets
<1> QED BY <1>1, <1>3, <1>4

\* An operation begins when a request takes its targets.
LEMMA BeginningTakes ==
    ASSUME IInv, Next, NEW o \in Op, receipt[o].state = "none", receipt'[o].state # "none"
    PROVE  \E c \in Caller : Lock(c) /\ Takes(c, o)
<1> USE DEF IInv
<1>1. ASSUME NEW c \in Caller, CallStep(c), ~Lock(c) PROVE FALSE
  <2>1. o # call[c].op
    BY <1>1, ReceiptEffect
  <2> QED BY <1>1, <2>1, ReceiptEffect
<1>2. ASSUME Close PROVE FALSE
  <2>1. recon.look.verdict # "none"
    BY <1>2 DEF Close, Saw
  <2>2. recon.look.op \in Op /\ receipt[recon.look.op].state # "none"
    BY <2>1, LookFacts
  <2>3. receipt'[o] = receipt[o]
    BY <1>2, <2>2 DEF Close, Closed, Types
  <2> QED BY <2>3
<1>3. PICK c \in Caller : Lock(c)
  BY <1>1, <1>2, Changes
<1>4. PICK n \in Op : Takes(c, n)
  BY <1>3, LockTakes
<1>5. n = o
  BY <1>4 DEF Takes
<1> QED BY <1>3, <1>4, <1>5

\* It takes the first receipt that is free.
LEMMA LockFirst ==
    ASSUME Types, NEW c \in Caller, Lock(c), NEW n \in Op, Takes(c, n)
    PROVE  \A q \in Op : q > n => receipt[q].state = "none"
<1> DEFINE p == call[c].plan
<1>1. CASE Targets(p) \cap Owned # {}
  BY <1>1 DEF Takes
<1>2. CASE Targets(p) \cap Owned = {}
  <2>1. PICK m \in Op :
          /\ \A q \in Op : receipt[q] = NoReceipt <=> q >= m
          /\ call' = [call EXCEPT ![c].at = "locked", ![c].op = m]
    BY <1>2 DEF Lock
  <2>2. call' = [call EXCEPT ![c] = [call[c] EXCEPT !.at = "locked", !.op = m]]
    BY <2>1
  <2>3. call'[c].op = m
    BY <2>2 DEF Types, CallRecord
  <2>4. m = n /\ m \in Nat
    BY <2>3, ConfigAssumption DEF Takes, Op
  <2>5. ASSUME NEW q \in Op, q > n PROVE receipt[q].state = "none"
    <3>1. q >= m
      BY <2>4, <2>5, ConfigAssumption DEF Op
    <3> QED BY <2>1, <3>1 DEF NoReceipt
  <2> QED BY <2>5
<1> QED BY <1>1, <1>2

\* What runs keeps off what begins, and the other way round.
LEMMA LaterElsewhereStep ==
    ASSUME IInv, Whys, Next
    PROVE  LaterElsewhere'
<1> USE DEF IInv, Whys
<1> SUFFICES ASSUME NEW c \in Caller, NEW o \in Op, call'[c].op # 0, receipt'[o].state # "none",
                    o > call'[c].op
             PROVE  Targets(receipt[o].plan)' \cap Targets(call[c].plan)' = {}
  BY DEF LaterElsewhere
<1>1. ASSUME NEW d \in Caller, call[d].op # 0
      PROVE  call[d].plan \in Plan /\ plan'[call[d].plan].want = plan[call[d].plan].want
  BY <1>1, CallFacts, IInvSteady DEF CallFits, Steady, PlanStays, Decided
<1>2. CASE call'[c].op = call[c].op /\ call'[c].plan = call[c].plan
  <2>1. CASE receipt[o].state # "none"
    <3>1. Targets(receipt[o].plan) \cap Targets(call[c].plan) = {}
      BY <1>2, <2>1 DEF LaterElsewhere
    <3>2. o \in Begun
      BY <2>1 DEF Begun
    <3> QED BY <1>1, <1>2, <3>1, <3>2, OpKept DEF Targets
  <2>2. CASE receipt[o].state = "none"
    <3>1. PICK d \in Caller : Takes(d, o)
      BY <2>2, BeginningTakes
    <3>2. call[d].op = 0
      BY <3>1 DEF Takes, CallsFit, CallFits
    <3>3. Targets(call[d].plan) \cap Targets(call[c].plan) = {}
      BY <1>2, <3>1 DEF Takes, Owned
    <3>4. receipt'[o].plan = call[d].plan /\ plan' = plan
      BY <3>1 DEF Takes, redis
    <3> QED BY <1>2, <3>3, <3>4 DEF Targets
  <2> QED BY <2>1, <2>2
<1>3. ASSUME NEW n \in Op, Lock(c), Takes(c, n) PROVE FALSE
  <2>1. receipt[o].state = "none" /\ o # n
    BY <1>3, LockFirst, ConfigAssumption DEF Takes, Op
  <2> QED BY <1>3, <2>1 DEF Takes
<1>4. ASSUME NEW d \in Caller, CallStep(d)
      PROVE  \/ call'[c].op = call[c].op /\ call'[c].plan = call[c].plan
             \/ \E n \in Op : Lock(c) /\ Takes(c, n)
  BY <1>4, OthersStay, LockTakes, CallEnds DEF NoCall
<1>5. ASSUME NEW d \in Caller, NEW p \in Plan, Ask(d, p)
      PROVE  call'[c].op = call[c].op /\ call'[c].plan = call[c].plan
  BY <1>5 DEF Ask, Types
<1>6. ~Crash
  BY DEF Crash, NoCall
<1>7. CASE UNCHANGED call
  BY <1>2, <1>7
<1> QED BY <1>2, <1>3, <1>4, <1>5, <1>6, <1>7, Changes

\* A plan says what the files were when it was made.
LEMMA PlanMade ==
    ASSUME IInv, Next, NEW p \in Plan, plan[p].state = "none", plan'[p].state # "none",
           NEW h \in Targets(p)'
    PROVE  files' = files /\ plan'[p].pre[h] = files[h]
<1> USE DEF IInv
<1>1. PlanBegins(p)
  BY IInvSteady DEF Steady
<1>2. CASE Propose(p)
  <2>1. DOMAIN Want[p] \in SUBSET Path
    BY <1>2, WantContents, ContentsFacts DEF Propose
  <2>2. plan'[p].want = Want[p] /\ plan'[p].pre = Restrict(files, DOMAIN Want[p]) /\ files' = files
    BY <1>2 DEF Propose, Types, disk
  <2> QED BY <2>1, <2>2 DEF Targets, Restrict
<1>3. CASE ProposeRollback(p)
  <2>1. PICK o \in Op :
          plan' = [plan EXCEPT ![p] =
                        [state |-> "prepared",
                         pre |-> Restrict(files, DOMAIN snapshot[o].original),
                         want |-> snapshot[o].original, source |-> o]]
    BY <1>3 DEF ProposeRollback
  <2>2. /\ plan'[p].want = snapshot[o].original
        /\ plan'[p].pre = Restrict(files, DOMAIN snapshot[o].original)
    BY <2>1 DEF Types
  <2>3. files' = files
    BY <1>3 DEF ProposeRollback, disk
  <2> QED BY <2>2, <2>3 DEF Targets, Restrict
<1> QED BY <1>1, <1>2, <1>3 DEF PlanBegins

\* Without an edit, a file changes by being renamed into place.
LEMMA OnlyRenamed ==
    ASSUME IInv, Next, ~edited', NEW h \in Path
    PROVE  ~edited /\ (files'[h] = files[h] \/ \E c \in Caller : Renames(c, h))
<1> USE DEF IInv
<1>1. ~edited
  BY Changes DEF Types
<1>2. unseen' = {}
  BY OnlyEditedStep DEF OnlyEdited
<1> QED BY <1>1, <1>2, FileEffect

\* Whose rename it is.
LEMMA RenamerBegun ==
    ASSUME IInv, Next, NEW c \in Caller, NEW h \in Path, Renames(c, h)
    PROVE  /\ call[c].op \in Begun /\ call[c].op # 0 /\ receipt[call[c].op].plan = call[c].plan
           /\ h \in wrote'[call[c].op] /\ h \in Targets(call[c].plan)
           /\ files'[h] = plan[receipt[call[c].op].plan].want[h]
<1> USE DEF IInv
<1>1. /\ call[c].op \in Begun /\ call[c].op # 0 /\ receipt[call[c].op].plan = call[c].plan
  BY CallFacts DEF Renames, Begun
<1>2. h \in wrote'[call[c].op] /\ files'[h] = plan[call[c].plan].want[h]
  BY <1>1 DEF Renames, Types
<1> QED BY <1>1, <1>2 DEF Renames

\* What a plan was made over.
LEMMA PlanStandingStep ==
    ASSUME IInv, Whys, Next
    PROVE  PlanStanding'
<1> USE DEF IInv, Whys
<1> SUFFICES ASSUME ~edited', NEW p \in Plan, plan'[p].state # "none", NEW h \in Targets(p)'
             PROVE  \/ files'[h] = plan'[p].pre[h]
                    \/ \E x \in Op : /\ h \in wrote'[x]
                                     /\ plan'[receipt'[x].plan].want[h] # plan'[p].pre[h]
  BY DEF PlanStanding
<1>1. CASE plan[p].state = "none"
  BY <1>1, PlanMade
<1>2. CASE plan[p].state # "none"
  <2>1. plan'[p].want = plan[p].want /\ plan'[p].pre = plan[p].pre
    BY <1>2, IInvSteady DEF Steady, PlanStays
  <2>2. h \in Targets(p) /\ h \in Path
    BY <2>1, PlanFacts DEF Targets
  <2>3. ASSUME NEW x \in Op, h \in wrote[x], plan[receipt[x].plan].want[h] # plan[p].pre[h]
        PROVE  h \in wrote'[x] /\ plan'[receipt'[x].plan].want[h] # plan'[p].pre[h]
    <3>1. x \in Begun
      BY <2>3, WriterBegun
    <3> QED BY <2>1, <2>3, <3>1, OpKept
  <2>4. CASE files[h] = plan[p].pre[h] /\ files'[h] = files[h]
    BY <2>1, <2>4
  <2>5. ASSUME NEW c \in Caller, Renames(c, h)
        PROVE  /\ call[c].op \in Op /\ h \in wrote'[call[c].op]
               /\ files'[h] = plan'[receipt'[call[c].op].plan].want[h]
    <3>1. call[c].op \in Begun
      BY <2>2, <2>5, RenamerBegun
    <3> QED BY <2>2, <2>5, <3>1, RenamerBegun, OpKept
  <2>6. ~edited
    BY <2>2, OnlyRenamed
  <2>7. \/ files[h] = plan[p].pre[h]
        \/ \E x \in Op : h \in wrote[x] /\ plan[receipt[x].plan].want[h] # plan[p].pre[h]
    BY <1>2, <2>2, <2>6 DEF PlanStanding
  <2> QED BY <2>2, <2>3, <2>4, <2>5, <2>7, OnlyRenamed
<1> QED BY <1>1, <1>2

\* What an operation found and wrote.
LEMMA StandingStep ==
    ASSUME IInv, Whys, Next
    PROVE  Standing'
<1> USE DEF IInv, Whys
<1> SUFFICES ASSUME ~edited', NEW o \in Op, receipt'[o].state # "none", ~Outrun(o)',
                    NEW h \in DOMAIN plan'[receipt'[o].plan].want
             PROVE  files'[h] = IF h \in wrote'[o] THEN plan'[receipt'[o].plan].want[h]
                                ELSE plan'[receipt'[o].plan].pre[h]
  BY DEF Standing, InPlace
<1>1. CASE receipt[o].state # "none"
  <2>1. o \in Begun
    BY <1>1 DEF Begun
  <2>2. /\ plan'[receipt'[o].plan].want = plan[receipt[o].plan].want
        /\ plan'[receipt'[o].plan].pre = plan[receipt[o].plan].pre
        /\ h \in Targets(receipt[o].plan) /\ h \in Path
    BY <2>1, OpKept DEF Targets
  <2>3. ~edited
    BY <2>2, OnlyRenamed
  <2>4. ~Outrun(o)
    BY <2>1, OutrunStays
  <2>5. files[h] = IF h \in wrote[o] THEN plan[receipt[o].plan].want[h]
                                     ELSE plan[receipt[o].plan].pre[h]
    BY <1>1, <2>2, <2>3, <2>4 DEF Standing, InPlace, Targets
  <2>6. ASSUME NEW c \in Caller, Renames(c, h)
        PROVE  h \in wrote'[o] /\ files'[h] = plan[receipt[o].plan].want[h]
    <3> DEFINE x == call[c].op
    <3>1. /\ x \in Begun /\ x # 0 /\ receipt[x].plan = call[c].plan /\ h \in wrote'[x]
          /\ h \in Targets(call[c].plan) /\ files'[h] = plan[receipt[x].plan].want[h]
      BY <2>2, <2>6, RenamerBegun
    <3>2. ~(x > o)
      <4>1. ASSUME x > o PROVE Outrun(o)'
        <5>1. x \in Begun' /\ x # o
          BY <3>1, <4>1, OpKept, ConfigAssumption DEF Begun, Op
        <5>2. h \in wrote'[x] \cap DOMAIN plan'[receipt'[o].plan].want
          BY <3>1
        <5> QED BY <4>1, <5>1, <5>2 DEF Outrun, Targets
      <4> QED BY <4>1
    <3>3. ~(o > x)
      BY <1>1, <2>2, <3>1 DEF LaterElsewhere
    <3>4. x = o
      BY <3>1, <3>2, <3>3, ConfigAssumption DEF Begun, Op
    <3> QED BY <3>1, <3>4
  <2>7. CASE files'[h] = files[h] /\ ~\E c \in Caller : Renames(c, h)
    <3>1. h \in wrote'[o] <=> h \in wrote[o]
      <4>1. wrote[o] \subseteq wrote'[o]
        BY <2>1, OpKept
      <4> QED BY <2>7, <4>1, WroteEffect
    <3> QED BY <2>2, <2>5, <2>7, <3>1
  <2> QED BY <2>2, <2>6, <2>7, OnlyRenamed
<1>2. CASE receipt[o].state = "none"
  <2>1. PICK c \in Caller : Takes(c, o)
    BY <1>2, BeginningTakes
  <2> DEFINE p == call[c].plan
  <2>2. /\ files' = files /\ wrote' = wrote /\ plan' = plan /\ edited' = edited
        /\ receipt'[o].plan = p /\ wrote[o] = {}
        /\ \A x \in Op \ {o} : receipt'[x] = receipt[x]
    BY <2>1 DEF Takes, Fresh, redis
  <2>3. p \in Plan /\ plan[p].state # "none"
    BY <2>1, CallFacts DEF Takes, Decided
  <2>4. \/ files[h] = plan[p].pre[h]
        \/ \E x \in Op : h \in wrote[x] /\ plan[receipt[x].plan].want[h] # plan[p].pre[h]
    BY <2>2, <2>3 DEF PlanStanding, Targets
  <2>5. ASSUME NEW x \in Op, h \in wrote[x], plan[receipt[x].plan].want[h] # plan[p].pre[h]
        PROVE  Outrun(o)'
    <3>1. x # o /\ x \in Begun
      BY <2>2, <2>5, WriterBegun
    <3>2. x \in Begun' /\ receipt'[x] = receipt[x]
      BY <2>2, <3>1 DEF Begun
    <3>3. h \in wrote'[x] \cap DOMAIN plan'[receipt'[o].plan].want
      BY <2>2, <2>5
    <3>4. plan'[receipt'[o].plan].pre[h] # plan'[receipt'[x].plan].want[h]
      BY <2>2, <2>5, <3>2
    <3> QED BY <3>1, <3>2, <3>3, <3>4 DEF Outrun, Targets
  <2> QED BY <2>2, <2>4, <2>5
<1> QED BY <1>1, <1>2

\* How a plan goes from state to state, and through whom.
LEMMA PlanMoves ==
    ASSUME IInv, Next, NEW p \in Plan, plan'[p].state # plan[p].state
    PROVE  \/ plan[p].state \in {"none", "prepared"} /\ plan'[p].state \in {"prepared", "approved"}
           \/ /\ plan[p].state = "approved" /\ plan'[p].state = "applying"
              /\ \E c \in Caller : call[c].op # 0 /\ call[c].plan = p
           \/ /\ plan[p].state = "applying" /\ plan'[p].state \in {"applied", "failed"}
              /\ plan'[p].state = "applied" => \E x \in Begun : x \in projected' /\ receipt[x].plan = p
              /\ \/ \E c \in Caller : call[c].op # 0 /\ call[c].plan = p
                 \/ Decide
<1> USE DEF IInv
<1>1. ASSUME NEW q \in Plan, Propose(q) \/ ProposeRollback(q) \/ Approve(q)
      PROVE  plan[p].state \in {"none", "prepared"} /\ plan'[p].state \in {"prepared", "approved"}
  <2>1. CASE p # q
    BY <1>1, <2>1 DEF Propose, ProposeRollback, Approve, Types
  <2>2. CASE p = q /\ (Propose(q) \/ ProposeRollback(q))
    BY <2>2 DEF Propose, ProposeRollback, Types
  <2>3. CASE p = q /\ Approve(q)
    BY <2>3 DEF Approve, Types, PlanRecord
  <2> QED BY <1>1, <2>1, <2>2, <2>3
<1>2. ASSUME NEW q \in Plan, NEW from, NEW to, Transition(q, from, to)
      PROVE  p = q /\ plan[p].state = from /\ plan'[p].state = to
  BY <1>2 DEF Transition, Types, PlanRecord
<1>3. ASSUME NEW x \in Begun, NEW q \in Plan, receipt[x].plan = q, Record(q, x)
      PROVE  /\ p = q /\ plan[p].state = "applying" /\ plan'[p].state = "applied"
             /\ x \in projected'
  BY <1>2, <1>3 DEF Record
<1>4. ASSUME NEW c \in Caller, CallStep(c), plan' # plan
      PROVE  /\ call[c].op # 0 /\ call[c].plan = p
             /\ \/ plan[p].state = "approved" /\ plan'[p].state = "applying"
                \/ plan[p].state = "applying" /\ plan'[p].state = "failed"
                \/ /\ plan[p].state = "applying" /\ plan'[p].state = "applied"
                   /\ \E x \in Begun : x \in projected' /\ receipt[x].plan = p
  <2>1. ~Lock(c)
    BY <1>4 DEF Lock, redis
  <2>2. call[c].op \in Begun /\ call[c].op # 0 /\ call[c].plan \in Plan /\ receipt[call[c].op].plan = call[c].plan
    BY <1>4, <2>1, ReceiptEffect DEF Begun
  <2>3. CASE Begin(c)
    BY <1>2, <1>4, <2>2, <2>3 DEF Begin
  <2>4. CASE FailPlan(c)
    BY <1>2, <1>4, <2>2, <2>4 DEF FailPlan
  <2>5. CASE Complete(c)
    BY <1>3, <1>4, <2>2, <2>5 DEF Complete, redis
  <2> QED BY <1>4, <2>1, <2>3, <2>4, <2>5
          DEF CallStep, Check, Copy, Stage, Write, Note, Manage, Finish, FailReceipt, redis, disk
<1>5. ASSUME Decide
      PROVE  /\ plan[p].state = "applying" /\ plan'[p].state \in {"applied", "failed"}
             /\ plan'[p].state = "applied" => \E x \in Begun : x \in projected' /\ receipt[x].plan = p
  <2>1. PICK o \in DOMAIN recon.todo :
          FailStale(recon.todo[o].plan) \/ CompleteStale(recon.todo[o].plan, o)
    BY <1>5 DEF Decide
  <2>2. o \in Begun /\ receipt[o].plan \in Plan /\ recon.todo[o].plan = receipt[o].plan
    BY LookFacts DEF Begun
  <2>3. CASE FailStale(receipt[o].plan)
    BY <1>2, <2>2, <2>3 DEF FailStale
  <2>4. CASE CompleteStale(receipt[o].plan, o)
    BY <1>3, <2>2, <2>4 DEF CompleteStale, redis
  <2> QED BY <2>1, <2>2, <2>3, <2>4
<1>6. CASE ~PlanStep /\ ~Decide /\ ~\E c \in Caller : CallStep(c)
  BY <1>6 DEF Next, Ask, Start, Recover, AskRecon, ReconStep, Look, Close, EndRecon, Crash, Edit,
              redis
<1>7. CASE PlanStep
  BY <1>1, <1>7 DEF PlanStep
<1>8. CASE \E c \in Caller : CallStep(c)
  BY <1>4, <1>8
<1> QED BY <1>5, <1>6, <1>7, <1>8

\* A plan is approved once, and a failed one stays so.
LEMMA PlanOnward ==
    ASSUME IInv, Next, NEW p \in Plan
    PROVE  /\ plan[p].state \in Decided \ {"approved"} => plan'[p].state # "approved"
           /\ plan[p].state = "failed" => plan'[p].state = "failed"
BY PlanMoves DEF Decided

\* What is recorded stays recorded.
LEMMA ProjectedGrows ==
    ASSUME IInv, Next
    PROVE  projected \subseteq projected'
<1>1. ASSUME NEW c \in Caller, Complete(c) PROVE projected \subseteq projected'
  BY <1>1 DEF Complete, Record, redis
<1>2. CASE Decide
  BY <1>2 DEF Decide, FailStale, CompleteStale, Record, redis
<1> QED BY <1>1, <1>2, Changes

\* A plan is applied by an operation.
LEMMA AppliedIsRecordedStep ==
    ASSUME IInv, Whys, Next
    PROVE  AppliedIsRecorded'
<1> USE DEF IInv, Whys
<1> SUFFICES ASSUME NEW p \in Plan, plan'[p].state = "applied"
             PROVE  \E x \in projected' : receipt'[x].plan = p
  BY DEF AppliedIsRecorded
<1>1. \A x \in projected : x \in Begun
  BY DEF Types, ReceiptsFit, Fresh, Begun
<1>2. CASE plan[p].state = "applied"
  <2>1. PICK x \in projected : receipt[x].plan = p
    BY <1>2 DEF AppliedIsRecorded
  <2> QED BY <1>1, <2>1, OpKept, ProjectedGrows
<1>3. CASE plan[p].state # "applied"
  <2>1. PICK x \in Begun : x \in projected' /\ receipt[x].plan = p
    BY <1>3, PlanMoves
  <2> QED BY <2>1, OpKept
<1> QED BY <1>2, <1>3

\* Who has an operation recorded.
LEMMA NewlyRecorded ==
    ASSUME IInv, Next, NEW o \in projected' \ projected
    PROVE  /\ o \in Begun
           /\ \/ \E c \in Caller : Complete(c) /\ call[c].op = o /\ call[c].at = "managed"
                                     /\ (call'[c].op = 0 \/ call'[c].at = "recorded")
              \/ /\ o \in DOMAIN recon.todo /\ o = recon.look.op /\ Saw("complete")
                 /\ Decide /\ UNCHANGED <<receipt, call, wrote>>
<1> USE DEF IInv
<1>1. o \in Begun
  BY ProjectedEffect DEF Begun
<1>2. ASSUME NEW c \in Caller, Complete(c)
      PROVE  /\ call[c].op = o /\ call[c].at = "managed"
             /\ call'[c].op = 0 \/ call'[c].at = "recorded"
  <2>1. call[c].op = o
    BY <1>2 DEF Complete, Record, redis
  <2>2. call[c].at = "managed"
    BY <1>2 DEF Complete, At
  <2>3. Go(c, "recorded") \/ LeaveOpen(c, "projection")
    BY <1>2 DEF Complete
  <2>4. call'[c].op = 0 \/ call'[c].at = "recorded"
    BY <2>3, GoEffect DEF LeaveOpen, NoCall, Types
  <2> QED BY <2>1, <2>2, <2>4
<1>3. CASE Decide
  <2>1. PICK x \in DOMAIN recon.todo : recon.look.op = x /\ CompleteStale(recon.todo[x].plan, x)
    BY <1>3 DEF Decide, FailStale
  <2>2. x = o
    BY <2>1 DEF CompleteStale, Record, redis
  <2> QED BY <1>1, <1>3, <2>1, <2>2 DEF Decide, CompleteStale, disk
<1> QED BY <1>1, <1>2, <1>3, Changes

\* What a step of its own call makes of a receipt.
Marks(c, o) ==
    /\ receipt'[o].code = receipt[o].code
    /\ \/ /\ receipt'[o].committed = receipt[o].committed
          /\ \/ receipt'[o].state = "writing" /\ call[c].at \in {"copied", "wrote"}
             \/ receipt'[o].state = "files_committed" /\ call[c].at = "wrote" /\ call[c].left = {}
             \/ receipt'[o].state = "completed" /\ call[c].at = "recorded"
             \/ receipt'[o].state = "failed" /\ call[c].at = "failed"
       \/ receipt'[o].committed /\ receipt'[o].state = "snapshotted" /\ call[c].at = "checked"
Leaves(c, o) ==
    /\ receipt'[o].state = "reconciliation_required" /\ receipt'[o].committed = receipt[o].committed
    /\ \/ receipt'[o].code = "uncertain" /\ call[c].at = "locked"
       \/ /\ receipt'[o].code \in {"partial", "projection"}
          /\ \/ call[c].at = "writing" /\ wrote[o] # {}
             \/ call[c].at \in {"committed", "managed", "recorded"}

\* What the reconciliation makes of it.
Closes(o) ==
    /\ Close /\ o \in DOMAIN recon.todo /\ o = recon.look.op
    /\ receipt'[o].committed = recon.todo[o].committed
    /\ \/ receipt'[o].state = "failed" /\ receipt'[o].code = "interrupted"
       \/ receipt'[o].state = "completed" /\ receipt'[o].code = "none"
       \/ /\ receipt'[o].state = "reconciliation_required" /\ receipt'[o].code = "held"
          /\ Saw("hold")

Early0(p) == [state |-> "prepared", code |-> "none", plan |-> p, committed |-> FALSE]

\* The receipt of a request that takes its targets.
LEMMA FirstReceipt ==
    ASSUME Types, NEW c \in Caller, Lock(c), NEW n \in Op, Takes(c, n)
    PROVE  receipt'[n] = Early0(call[c].plan)
<1> DEFINE r == Early0(call[c].plan)
<1>1. CASE UNCHANGED receipt
  BY <1>1 DEF Takes
<1>2. ASSUME NEW m \in Op, receipt' = [receipt EXCEPT ![m] = r] PROVE receipt'[n] = r
  <2> HIDE DEF r
  <2> QED BY <1>2 DEF Takes, Types
<1> QED BY <1>1, <1>2, LockEffect DEF Early0

\* What a call does to its receipt.
LEMMA OwnMoves ==
    ASSUME IInv, NEW c \in Caller, CallStep(c), ~Lock(c), NEW o \in Op, o = call[c].op,
           receipt'[o] # receipt[o]
    PROVE  Marks(c, o) \/ Leaves(c, o)
<1> USE DEF IInv
<1>1. ASSUME NEW s, Mark(c, s)
      PROVE  /\ receipt'[o].code = receipt[o].code /\ receipt'[o].committed = receipt[o].committed
             /\ receipt'[o].state = s
  BY <1>1, MarkEffect
<1>2. ASSUME NEW x, LeaveOpen(c, x)
      PROVE  /\ receipt'[o].state = "reconciliation_required" /\ receipt'[o].code = x
             /\ receipt'[o].committed = receipt[o].committed
  BY <1>2, LeaveOpenEffect
<1>3. CASE Begin(c)
  BY <1>2, <1>3 DEF Begin, At, Leaves
<1>4. CASE Copy(c)
  BY <1>4, CopyEffect DEF Copy, At, Marks
<1>5. CASE Stage(c)
  BY <1>1, <1>5 DEF Stage, At, Marks
<1>6. ASSUME NEW f \in Path, Write(c, f) PROVE Leaves(c, o)
  BY <1>2, <1>6 DEF Write, At, Leaves
<1>7. CASE Note(c)
  BY <1>1, <1>7 DEF Note, At, Marks
<1>8. CASE Manage(c)
  BY <1>2, <1>8 DEF Manage, At, Leaves
<1>9. CASE Complete(c)
  BY <1>2, <1>9 DEF Complete, At, Leaves
<1>10. CASE Finish(c)
  BY <1>1, <1>2, <1>10 DEF Finish, At, Marks, Leaves
<1>11. CASE FailReceipt(c)
  BY <1>1, <1>11 DEF FailReceipt, At, Marks
<1> QED BY <1>3, <1>4, <1>5, <1>6, <1>7, <1>8, <1>9, <1>10, <1>11
        DEF CallStep, Check, FailPlan, disk

\* How a receipt changes, and through whom.
LEMMA ReceiptMoves ==
    ASSUME IInv, Next, NEW o \in Op, receipt'[o] # receipt[o]
    PROVE  \/ \E c \in Caller : Lock(c) /\ Takes(c, o) /\ receipt'[o] = Early0(call[c].plan)
           \/ \E c \in Caller : /\ CallStep(c) /\ call[c].op = o /\ call[c].op # 0 /\ o \in Begun
                                /\ call[c].plan = receipt[o].plan
                                /\ Marks(c, o) \/ Leaves(c, o)
           \/ Closes(o)
<1> USE DEF IInv
<1>1. ASSUME NEW c \in Caller, Lock(c)
      PROVE  Takes(c, o) /\ receipt'[o] = Early0(call[c].plan)
  <2>1. PICK n \in Op : Takes(c, n)
    BY <1>1, LockTakes
  <2>2. n = o
    BY <2>1 DEF Takes
  <2> QED BY <1>1, <2>1, <2>2, FirstReceipt
<1>2. ASSUME NEW c \in Caller, CallStep(c), ~Lock(c)
      PROVE  /\ call[c].op = o /\ call[c].op # 0 /\ o \in Begun /\ call[c].plan = receipt[o].plan
             /\ Marks(c, o) \/ Leaves(c, o)
  <2>1. call[c].op = o /\ call[c].op # 0 /\ o \in Begun /\ call[c].plan = receipt[o].plan
    BY <1>2, ReceiptEffect DEF Begun
  <2> QED BY <1>2, <2>1, OwnMoves
<1>3. CASE Close
  <2> DEFINE n == recon.look.op
  <2>1. recon.look.verdict # "none" /\ n \in DOMAIN recon.todo
    BY <1>3, LookFacts DEF Close, Saw
  <2>2. n \in Op /\ recon.todo[n] \in Receipt
    BY <2>1, LookFacts
  <2>3. ASSUME NEW s, NEW x, Closed(n, s, x)
        PROVE  o = n /\ receipt'[o].state = s /\ receipt'[o].code = x
               /\ receipt'[o].committed = recon.todo[o].committed
    <3> DEFINE r == [recon.todo[n] EXCEPT !.state = s, !.code = x]
    <3>1. receipt' = [receipt EXCEPT ![n] = r]
      BY <2>3 DEF Closed
    <3>2. r.state = s /\ r.code = x /\ r.committed = recon.todo[n].committed
      BY <2>2 DEF Receipt
    <3> HIDE DEF r
    <3> QED BY <2>2, <3>1, <3>2 DEF Types
  <2>4. CASE Saw("failed") /\ Closed(n, "failed", "interrupted")
    BY <1>3, <2>1, <2>3, <2>4 DEF Closes
  <2>5. CASE Saw("completed") /\ Closed(n, "completed", "none")
    BY <1>3, <2>1, <2>3, <2>5 DEF Closes
  <2>6. CASE Saw("hold") /\ Closed(n, "reconciliation_required", "held")
    BY <1>3, <2>1, <2>3, <2>6 DEF Closes
  <2> QED BY <1>3, <2>4, <2>5, <2>6 DEF Close
<1> QED BY <1>1, <1>2, <1>3, Changes

\* What receipts say.
LEMMA ReceiptsTellStep ==
    ASSUME IInv, Whys, Next
    PROVE  ReceiptsTell'
<1> USE DEF IInv, Whys
<1> SUFFICES ASSUME NEW o \in Op
             PROVE  /\ receipt'[o].state = "none" => receipt'[o] = NoReceipt
                    /\ receipt'[o].state # "redis_pending"
                    /\ receipt'[o].state = "files_committed" =>
                          wrote'[o] = DOMAIN plan'[receipt'[o].plan].want
                    /\ receipt'[o].state = "reconciliation_required" =>
                          receipt'[o].code \in {"uncertain", "partial", "projection", "held"}
                    /\ receipt'[o].code \in {"partial", "projection"} => wrote'[o] # {}
                    /\ wrote'[o] # {} => plan'[receipt'[o].plan].state # "approved"
                    /\ ~overlapped' /\ snapshot'[o] # NoSnapshot => receipt'[o].committed
  BY DEF ReceiptsTell, Targets
<1>1. ReceiptsFit' /\ Steady
  BY IInvSteady, ReceiptsFitStep
<1>2. wrote[o] \subseteq wrote'[o]
  BY WroteEffect
<1>3. /\ receipt'[o].state = "none" => receipt'[o] = NoReceipt
      /\ receipt'[o].state # "redis_pending"
      /\ receipt'[o].state = "reconciliation_required" =>
            receipt'[o].code \in {"uncertain", "partial", "projection", "held"}
  <2>1. CASE receipt'[o] = receipt[o]
    BY <2>1 DEF ReceiptsTell
  <2>2. ASSUME NEW c \in Caller, receipt'[o] = Early0(call[c].plan)
        PROVE  receipt'[o].state = "prepared"
    BY <2>2 DEF Early0
  <2>3. ASSUME NEW c \in Caller, Marks(c, o) \/ Leaves(c, o)
        PROVE  /\ receipt'[o].state \notin {"none", "redis_pending"}
               /\ receipt'[o].state = "reconciliation_required" =>
                     receipt'[o].code \in {"uncertain", "partial", "projection", "held"}
    BY <2>3 DEF Marks, Leaves
  <2>4. ASSUME Closes(o)
        PROVE  /\ receipt'[o].state \notin {"none", "redis_pending"}
               /\ receipt'[o].state = "reconciliation_required" =>
                     receipt'[o].code \in {"uncertain", "partial", "projection", "held"}
    BY <2>4 DEF Closes
  <2>5. receipt'[o].state # "prepared" => receipt'[o] = receipt[o] \/ Closes(o)
                                           \/ \E c \in Caller : Marks(c, o) \/ Leaves(c, o)
    BY <2>2, ReceiptMoves
  <2> QED BY <2>1, <2>3, <2>4, <2>5
<1>4. ASSUME receipt'[o].state = "files_committed"
      PROVE  wrote'[o] = DOMAIN plan'[receipt'[o].plan].want
  <2>0. receipt'[o] = receipt[o] \/ \E c \in Caller : /\ call[c].op = o /\ call[c].op # 0 /\ o \in Begun
                                                    /\ call[c].plan = receipt[o].plan /\ Marks(c, o)
    <3>1. \A c \in Caller : receipt'[o] # Early0(call[c].plan) /\ ~Leaves(c, o)
      BY <1>4 DEF Early0, Leaves
    <3>2. ~Closes(o)
      BY <1>4 DEF Closes
    <3> QED BY <3>1, <3>2, ReceiptMoves
  <2>1. o \in Begun
    BY <1>4, <2>0 DEF Begun
  <2>2. wrote'[o] \subseteq DOMAIN plan'[receipt'[o].plan].want
    BY <1>1 DEF ReceiptsFit, Targets
  <2>3. wrote[o] = Targets(receipt[o].plan)
    <3>1. CASE receipt'[o] = receipt[o]
      BY <1>4, <3>1 DEF ReceiptsTell
    <3>2. CASE receipt'[o] # receipt[o]
      <4>1. PICK c \in Caller : /\ call[c].op = o /\ call[c].op # 0 /\ call[c].plan = receipt[o].plan
                                /\ call[c].at = "wrote" /\ call[c].left = {}
        BY <1>4, <2>0, <3>2 DEF Marks
      <4>2. Targets(call[c].plan) \ wrote[o] = {}
        BY <4>1 DEF CallsFit, CallFits
      <4> QED BY <2>1, <4>1, <4>2, OpKept
    <3> QED BY <3>1, <3>2
  <2> QED BY <1>2, <2>1, <2>2, <2>3, OpKept DEF Targets
<1>5. ASSUME receipt'[o].code \in {"partial", "projection"} PROVE wrote'[o] # {}
  <2>1. CASE receipt'[o] = receipt[o]
    BY <1>2, <1>5, <2>1 DEF ReceiptsTell
  <2>2. ASSUME NEW c \in Caller, call[c].op = o, call[c].op # 0, o \in Begun,
               call[c].plan = receipt[o].plan, Leaves(c, o)
        PROVE  wrote[o] # {}
    <3>1. CASE call[c].at \in {"committed", "managed", "recorded"}
      <4>1. wrote[o] = Targets(receipt[o].plan)
        BY <2>2, <3>1 DEF CallsFit, CallFits
      <4> QED BY <2>2, <4>1, OpKept
    <3> QED BY <1>5, <2>2, <3>1 DEF Leaves
  <2>3. ASSUME receipt'[o].code = receipt[o].code PROVE wrote[o] # {}
    BY <1>5, <2>3 DEF ReceiptsTell
  <2>4. ~Closes(o) /\ \A c \in Caller : receipt'[o] # Early0(call[c].plan)
    BY <1>5 DEF Closes, Early0
  <2>5. \A c \in Caller : Marks(c, o) => receipt'[o].code = receipt[o].code
    BY DEF Marks
  <2> QED BY <1>2, <2>1, <2>2, <2>3, <2>4, <2>5, ReceiptMoves
<1>6. ASSUME wrote'[o] # {} PROVE plan'[receipt'[o].plan].state # "approved"
  <2>1. CASE wrote[o] # {}
    <3>1. o \in Begun /\ plan[receipt[o].plan].state # "approved"
      BY <2>1, WriterBegun DEF ReceiptsTell
    <3> QED BY <3>1, OpKept, PlanOnward
  <2>2. CASE wrote[o] = {}
    <3>0. PICK f \in wrote'[o] \ wrote[o] : TRUE
      BY <1>6, <2>2
    <3>1. PICK c \in Caller : Renames(c, f) /\ call[c].op = o
      BY <3>0, WroteEffect
    <3>2. f \in Path
      BY <3>1, CallFacts, PlanFacts DEF Renames
    <3>3. plan[call[c].plan].state # "approved" /\ receipt[o].plan = call[c].plan
      BY <3>1, <3>2, RenamerBegun DEF CallsTell, Renames
    <3> QED BY <3>1, <3>3 DEF Renames
  <2> QED BY <2>1, <2>2
<1>7. ASSUME ~overlapped', snapshot'[o] # NoSnapshot PROVE receipt'[o].committed
  <2>1. ~overlapped
    BY <1>7, OverlappedStays
  <2>2. CASE snapshot[o] # NoSnapshot
    <3>1. receipt[o].committed /\ receipt[o].state # "none"
      BY <2>1, <2>2 DEF ReceiptsTell, ReceiptsFit, Fresh
    <3>2. ~\E c \in Caller : Takes(c, o)
      BY <3>1 DEF Takes
    <3>3. Closes(o) => recon.todo[o] = receipt[o]
      BY <2>1 DEF Closes, Separate
    <3> QED BY <3>1, <3>2, <3>3, ReceiptMoves DEF Marks, Leaves, Closes
  <2>3. CASE snapshot[o] = NoSnapshot
    <3>1. PICK c \in Caller : Copy(c) /\ snapshot' # snapshot
      BY <1>7, <2>3, Changes
    <3>2. o = call[c].op
      BY <1>7, <2>3, <3>1 DEF Copy, Types
    <3>3. receipt' = [receipt EXCEPT ![o] = [receipt[o] EXCEPT !.state = "snapshotted", !.committed = TRUE]]
      BY <3>1, <3>2 DEF Copy, Types
    <3>4. receipt[o] \in Receipt
      BY DEF Types
    <3> DEFINE r == [receipt[o] EXCEPT !.state = "snapshotted", !.committed = TRUE]
    <3>5. r.committed
      BY <3>4 DEF Receipt
    <3>6. receipt'[o] = r
      <4> HIDE DEF r
      <4>1. receipt' = [receipt EXCEPT ![o] = r]
        BY <3>3 DEF r
      <4> QED BY <4>1 DEF Types
    <3> QED BY <3>5, <3>6
  <2> QED BY <2>2, <2>3
<1> QED BY <1>3, <1>4, <1>5, <1>6, <1>7

\* Where a call comes from.
LEMMA CallCameFrom ==
    ASSUME IInv, Next, NEW c \in Caller, call'[c].at \notin {"idle", "read"}
    PROVE  \/ call'[c] = call[c] /\ ~CallStep(c)
           \/ CallStep(c) /\ ~Lock(c) /\ call'[c].op = call[c].op /\ call'[c].plan = call[c].plan
           \/ Lock(c) /\ call'[c].at = "locked"
<1> USE DEF IInv
<1>1. ASSUME NEW d \in Caller, CallStep(d), d # c, ~CallStep(c) PROVE call'[c] = call[c]
  BY <1>1, OthersStay
<1>2. CASE Lock(c)
  BY <1>2, LockTakes DEF Takes, NoCall
<1>3. CASE CallStep(c) /\ ~Lock(c)
  <2>1. ASSUME NEW x, LeaveOpen(c, x) PROVE FALSE
    BY <2>1 DEF LeaveOpen, NoCall, Types
  <2>2. ASSUME Finish(c) \/ FailReceipt(c) PROVE FALSE
    BY <2>1, <2>2 DEF Finish, FailReceipt, NoCall, Types
  <2>3. ~(call'[c].op = 0)
    <3>1. ASSUME NEW place, Go(c, place) PROVE call'[c].op = call[c].op
      BY <3>1, GoEffect
    <3>2. ASSUME NEW place, NEW rest, call' = [call EXCEPT ![c].at = place, ![c].left = rest]
          PROVE  call'[c].op = call[c].op
      BY <3>2, LeftEffect
    <3>3. call'[c].op = call[c].op
      BY <1>3, <2>1, <2>2, <3>1, <3>2
         DEF CallStep, Begin, Check, Copy, Stage, Write, Note, Manage, Complete, FailPlan, Abandon
    <3> QED BY <1>3, <3>3, ReceiptEffect
  <2> QED BY <1>3, <2>3, CallEnds
<1>4. ASSUME NEW d \in Caller, NEW p \in Plan, Ask(d, p)
      PROVE  call'[c] = call[c]
  <2>1. d # c => call'[c] = call[c]
    BY <1>4 DEF Ask, Types
  <2>2. d = c => call'[c].at = "read"
    BY <1>4 DEF Ask, Types
  <2> QED BY <2>1, <2>2
<1>5. ~Crash
  BY DEF Crash, NoCall
<1>6. CallStep(c) \/ call'[c] = call[c]
  BY <1>1, <1>4, <1>5, Changes
<1> QED BY <1>2, <1>3, <1>6

\* What calls say.
LEMMA CallsTellStep ==
    ASSUME IInv, Whys, Next
    PROVE  CallsTell'
<1> USE DEF IInv, Whys
<1> SUFFICES ASSUME NEW c \in Caller
             PROVE  /\ call'[c].at \notin {"idle", "read", "locked"} =>
                          plan'[call'[c].plan].state # "approved"
                    /\ ~overlapped' /\ call'[c].op # 0 =>
                          /\ receipt'[call'[c].op].code = "none"
                          /\ call'[c].op \in projected' => call'[c].at = "recorded"
  BY DEF CallsTell
<1>1. ASSUME call'[c].at \notin {"idle", "read", "locked"}
      PROVE  plan'[call'[c].plan].state # "approved"
  <2>1. /\ call'[c].plan = call[c].plan
        /\ call[c].at \notin {"idle", "read"} /\ call[c].plan \in Plan
        /\ plan[call[c].plan].state \in Decided
    BY <1>1, CallCameFrom, CallFacts, ReceiptEffect
  <2>2. CASE call[c].at # "locked"
    BY <2>1, <2>2, PlanOnward DEF CallsTell
  <2>3. CASE call[c].at = "locked"
    <3>1. Begin(c)
      BY <1>1, <2>3, CallCameFrom DEF CallStep, Lock, Check, Copy, Stage, Write, Note, Manage, Complete,
            Finish, FailPlan, FailReceipt, At
    <3>2. Transition(call[c].plan, "approved", "applying")
      BY <1>1, <3>1 DEF Begin, LeaveOpen, NoCall, Types
    <3> QED BY <2>1, <3>2 DEF Transition, Types, PlanRecord
  <2> QED BY <2>2, <2>3
<1>2. ASSUME ~overlapped', call'[c].op # 0
      PROVE  /\ receipt'[call'[c].op].code = "none"
             /\ call'[c].op \in projected' => call'[c].at = "recorded"
  <2>0. ~overlapped
    BY <1>2, OverlappedStays
  <2>1. CallsFit'
    BY IInvSteady, ReceiptsFitStep, CallsFitStep
  <2>2. call'[c].at \notin {"idle", "read"}
    BY <1>2, <2>1 DEF CallsFit, CallFits
  <2>3. CASE Lock(c)
    <3>1. PICK n \in Op : Takes(c, n)
      BY <1>2, <2>3, LockTakes DEF NoCall
    <3>2. receipt'[n].code = "none"
      <4>1. receipt'[n] = Early0(call[c].plan)
        BY <2>3, <3>1, FirstReceipt
      <4> QED BY <4>1 DEF Early0
    <3>3. n \notin projected'
      BY <3>1 DEF Takes, Fresh, redis
    <3> QED BY <3>1, <3>2, <3>3 DEF Takes
  <2>4. CASE call'[c].op = call[c].op /\ call[c].op # 0 /\ (CallStep(c) => ~Lock(c))
    <3> DEFINE o == call[c].op
    <3>1. /\ o \in Begun /\ o \in Op /\ call[c].plan = receipt[o].plan
          /\ receipt[o].code = "none" /\ (o \in projected => call[c].at = "recorded")
      BY <2>0, <2>4, CallFacts DEF CallsTell, CallsFit, CallFits, Begun
    <3>2. receipt'[o].code = "none"
      <4>1. CASE ~CallStep(c)
        BY <2>0, <2>4, <3>1, <4>1, OwnReceipt
      <4>2. CASE CallStep(c)
        <5>1. call'[c].op # 0 /\ ~Lock(c)
          BY <2>4, <4>2
        <5>2. ASSUME NEW x, LeaveOpen(c, x) PROVE FALSE
          <6>1. call' = [call EXCEPT ![c] = NoCall] /\ call \in [Caller -> CallRecord]
            BY <5>2 DEF LeaveOpen, Types
          <6>2. call'[c].op = 0
            BY <6>1 DEF NoCall
          <6> QED BY <5>1, <6>2
        <5>3. receipt'[o] = receipt[o] \/ (\E s : Mark(c, s)) \/ Copy(c)
          BY <4>2, <5>1, <5>2 DEF CallStep, Begin, Check, Stage, Write, Note, Manage, Complete,
                Finish, FailPlan, FailReceipt, disk
        <5> QED BY <3>1, <5>3, MarkEffect, CopyEffect
      <4> QED BY <4>1, <4>2
    <3>3. ASSUME o \in projected' PROVE call'[c].at = "recorded"
      <4>1. CASE o \in projected
        <5>1. call[c].at = "recorded"
          BY <3>1, <4>1
        <5>2. ~CallStep(c)
          <6>1. ASSUME CallStep(c) PROVE FALSE
            <7>1. Finish(c)
              BY <5>1, <6>1 DEF CallStep, Lock, Begin, Check, Copy, Stage, Write, Note, Manage, Complete,
                    FailPlan, FailReceipt, At
            <7>2. call'[c].op = 0
              BY <7>1 DEF Finish, LeaveOpen, NoCall, Types
            <7> QED BY <2>4, <7>2
          <6> QED BY <6>1
        <5> QED BY <2>2, <5>1, <5>2, CallCameFrom DEF CallStep
      <4>2. CASE o \notin projected
        <5>1. CASE \E d \in Caller : Complete(d) /\ call[d].op = o /\ (call'[d].op = 0 \/ call'[d].at = "recorded")
          <6>1. PICK d \in Caller : /\ Complete(d) /\ call[d].op = o
                                    /\ call'[d].op = 0 \/ call'[d].at = "recorded"
            BY <5>1
          <6>2. d = c
            BY <2>4, <6>1 DEF Apart
          <6> QED BY <2>4, <6>1, <6>2
        <5>2. CASE o \in DOMAIN recon.todo
          BY <2>0, <2>4, <5>2, Outside
        <5> QED BY <3>3, <4>2, <5>1, <5>2, NewlyRecorded
      <4> QED BY <4>1, <4>2
    <3> QED BY <2>4, <3>2, <3>3
  <2> QED BY <1>2, <2>2, <2>3, <2>4, CallCameFrom DEF CallStep
<1> QED BY <1>1, <1>2

\* A recorded operation is not early, unless it changed a file.
LEMMA RecordedChangedStep ==
    ASSUME IInv, Whys, Next
    PROVE  RecordedChanged'
<1> USE DEF IInv, Whys
<1> SUFFICES ASSUME ~edited', ~overlapped', NEW o \in projected', Early(receipt'[o]), ~Outrun(o)'
             PROVE  Touched(o)' # {}
  BY DEF RecordedChanged, Early
<1>1. ~overlapped /\ ~edited
  BY OverlappedStays, Changes DEF Types
<1>2. o \in Begun
  BY NewlyRecorded DEF Types, ReceiptsFit, Fresh, Begun
<1>3. ~Outrun(o)
  BY <1>2, OutrunStays
<1>4. Touched(o) # {} => Touched(o)' # {}
  BY <1>2, IInvSteady, TouchedStays DEF Begun
<1>5. CASE o \in projected
  <2>1. CASE receipt'[o] = receipt[o]
    BY <1>1, <1>3, <1>4, <1>5, <2>1 DEF RecordedChanged
  <2>2. ~Closes(o)
    BY DEF Closes, Early
  <2>3. ASSUME NEW c \in Caller, call[c].op = o, call[c].op # 0, Marks(c, o) \/ Leaves(c, o)
        PROVE  FALSE
    <3>1. call[c].at = "recorded" /\ receipt[o].code = "none"
      BY <1>1, <1>5, <2>3 DEF CallsTell
    <3> QED BY <2>3, <3>1 DEF Marks, Leaves, Early
  <2>4. ASSUME NEW c \in Caller, Takes(c, o) PROVE FALSE
    BY <1>5, <2>4 DEF Takes, Fresh
  <2> QED BY <1>2, <2>1, <2>2, <2>3, <2>4, ReceiptMoves DEF Begun
<1>6. CASE o \notin projected
  <2>1. ASSUME NEW c \in Caller, Complete(c), call[c].op = o, call[c].at = "managed" PROVE FALSE
    <3>0. 0 \notin Op
      BY ConfigAssumption DEF Op
    <3>1. call[c].op # 0 /\ receipt[o].state = "files_committed" /\ receipt[o].code = "none"
      BY <1>1, <1>2, <2>1, <3>0 DEF CallsTell, Marked, CallMarked, Begun
    <3>2. UNCHANGED receipt \/ LeaveOpen(c, "projection")
      BY <2>1 DEF Complete
    <3>3. /\ receipt'[o].state \in {"files_committed", "reconciliation_required"}
          /\ receipt'[o].code \in {"none", "projection"}
      BY <1>2, <2>1, <3>1, <3>2, LeaveOpenEffect DEF Begun
    <3> QED BY <3>3 DEF Early
  <2>2. CASE o \in DOMAIN recon.todo /\ o = recon.look.op /\ Saw("complete") /\ UNCHANGED receipt
    BY <1>1, <1>3, <1>4, <2>2 DEF LookTells
  <2> QED BY <1>6, <2>1, <2>2, NewlyRecorded
<1> QED BY <1>5, <1>6

\* What a reconciliation could not fail stays known.
LEMMA UnreachedGrows == ASSUME Next PROVE unreached \subseteq unreached'
<1>1. CASE Decide
  BY <1>1 DEF Decide, FailStale, CompleteStale
<1>2. ASSUME NEW c \in Caller, CallStep(c) PROVE unreached' = unreached
  <2>1. CASE Lock(c) \/ Check(c) \/ \E f \in Path : Write(c, f)
    BY <2>1 DEF Lock, Check, Write
  <2> QED BY <1>2, <2>1 DEF CallStep, Begin, Copy, Stage, Note, Manage, Complete, Finish, FailPlan,
          FailReceipt, history
<1>3. CASE Start \/ Recover \/ AskRecon
  BY <1>3 DEF Start, Recover, AskRecon, BeginRecon
<1>4. CASE PlanStep
  BY <1>4 DEF PlanStep, Propose, ProposeRollback, Approve, history
<1>5. CASE ~Decide /\ ReconStep
  BY <1>5 DEF ReconStep, Look, Close, EndRecon, history
<1> QED BY <1>1, <1>2, <1>3, <1>4, <1>5 DEF Next, Ask, Crash, Edit, history

\* The reason to hold an operation that no call applies stays.
LEMMA ReasonStays ==
    ASSUME IInv, Whys, Next, NEW o \in Begun, Reason(o), \A c \in Caller : call[c].op # o
    PROVE  Reason(o)'
<1> USE DEF IInv, Whys
<1> DEFINE p == receipt[o].plan
<1>1. /\ o \in Op /\ p \in Plan /\ receipt'[o].plan = p /\ plan'[p].want = plan[p].want
  BY OpKept
<1>2. wrote'[o] = wrote[o]
  <2>1. wrote[o] \subseteq wrote'[o] /\ wrote'[o] \ wrote[o] = {}
    BY <1>1, WroteEffect
  <2> QED BY <2>1
<1>3. CASE wrote[o] \notin {{}, Targets(p)}
  BY <1>1, <1>2, <1>3 DEF Reason, Targets
<1>4. CASE plan[p].state = "failed"
  BY <1>1, <1>4, PlanOnward DEF Reason
<1>5. CASE o \in unreached
  BY <1>5, UnreachedGrows DEF Reason
<1>6. CASE Outrun(o)
  BY <1>6, OutrunStays DEF Reason
<1> QED BY <1>3, <1>4, <1>5, <1>6 DEF Reason

\* An operation that wrote nothing, and has no reason to be held, looks as if it
\* had not begun; one that wrote all looks landed.
LEMMA VerdictFinds ==
    ASSUME IInv, Whys, ~edited, ~overlapped, NEW o \in DOMAIN recon.todo
    PROVE  LET r == receipt[o] IN
           /\ Verdict(o, r) = "fail" => plan[r.plan].state = "applying"
           /\ Verdict(o, r) = "complete" /\ Early(r) /\ ~Outrun(o) => Touched(o) # {}
           /\ Verdict(o, r) = "hold" => Reason(o)
<1> USE DEF IInv, Whys
<1> DEFINE r == receipt[o]
           p == r.plan
           s == plan[p].state
<1>0. /\ o \in Op /\ o \in Begun /\ r.state # "none" /\ p \in Plan /\ r.state \in OpenState
      /\ s \in Decided /\ Targets(p) # {} /\ wrote[o] \subseteq Targets(p)
      /\ DOMAIN plan[p].pre = Targets(p)
  <2>1. o \in Op /\ r.state # "none" /\ p \in Plan
    BY LookFacts
  <2>2. r.state \in OpenState
    BY DEF Separate, LookTells
  <2>3. s \in Decided /\ s # "none"
    BY <2>1 DEF ReceiptsFit, Decided
  <2>4. wrote[o] \subseteq Targets(p)
    BY <2>1 DEF ReceiptsFit
  <2> QED BY <2>1, <2>2, <2>3, <2>4 DEF PlansFit, Targets, Begun
<1>1. ~Outrun(o) => \A h \in Targets(p) : files[h] = IF h \in wrote[o] THEN plan[p].want[h]
                                                    ELSE plan[p].pre[h]
  BY <1>0 DEF Standing, InPlace, Targets
<1>2. Verdict(o, r) = "fail" => s = "applying"
  BY DEF Verdict
<1>3. ASSUME Early(r), ~Outrun(o), ~Matches(plan[p].pre) PROVE Touched(o) # {}
  <2>1. PICK f \in Targets(p) : files[f] # plan[p].pre[f]
    BY <1>0, <1>3 DEF Matches
  <2>2. f \in wrote[o] /\ plan[p].want[f] # plan[p].pre[f]
    BY <1>1, <1>3, <2>1
  <2> QED BY <2>2 DEF Touched
<1>4. ASSUME ~Reason(o) PROVE Verdict(o, r) # "hold"
  <2>1. ~Outrun(o) /\ s # "failed" /\ wrote[o] \in {{}, Targets(p)} /\ r.code # "held"
    BY <1>0, <1>4 DEF Reason, HeldWithReason
  <2>2. s = "applied" => o \in projected
    <3>1. ASSUME NEW x \in projected, receipt[x].plan = p, x # o PROVE FALSE
      <4>1. x \in Begun
        BY <3>1 DEF Types, ReceiptsFit, Fresh, Begun
      <4> QED BY <2>1, <3>1, <4>1 DEF Outrun
    <3> QED BY <1>0, <3>1 DEF AppliedIsRecorded
  <2>3. o \in projected => s = "applied"
    BY <1>0 DEF ReceiptsFit
  <2>4. ASSUME Early(r), Matches(plan[p].pre) PROVE o \notin projected
    <3>1. ASSUME o \in projected PROVE FALSE
      <4>1. PICK f \in Touched(o) : TRUE
        BY <2>1, <2>4, <3>1 DEF RecordedChanged
      <4>2. f \in wrote[o] /\ f \in Targets(p) /\ plan[p].want[f] # plan[p].pre[f]
        BY <1>0, <4>1 DEF Touched
      <4>3. files[f] = plan[p].want[f] /\ files[f] = plan[p].pre[f]
        BY <1>0, <1>1, <2>1, <2>4, <4>2 DEF Matches
      <4> QED BY <4>2, <4>3
    <3> QED BY <3>1
  <2>5. ASSUME wrote[o] = {} PROVE Early(r) /\ Matches(plan[p].pre)
    <3>1. Matches(plan[p].pre)
      BY <1>0, <1>1, <2>1, <2>5 DEF Matches
    <3>2. r.state # "files_committed" /\ r.state # "redis_pending"
      BY <1>0, <2>5 DEF ReceiptsTell
    <3>3. r.state = "reconciliation_required" => r.code = "uncertain"
      BY <1>0, <2>1, <2>5 DEF ReceiptsTell
    <3> QED BY <1>0, <3>1, <3>2, <3>3 DEF Early, OpenState
  <2>6. ASSUME wrote[o] = Targets(p) PROVE Landed(r) /\ s # "approved"
    <3>1. s # "approved" /\ r.committed
      BY <1>0, <2>6 DEF ReceiptsTell, ReceiptsFit
    <3>2. Matches(plan[p].want)
      BY <1>1, <2>1, <2>6 DEF Matches, Targets
    <3> QED BY <3>1, <3>2 DEF Landed
  <2>7. CASE Early(r) /\ Matches(plan[p].pre)
    <3>1. o \notin projected /\ s \in {"approved", "applying"}
      BY <1>0, <2>1, <2>2, <2>4, <2>7 DEF Decided
    <3> QED BY <2>7, <3>1 DEF Verdict
  <2>8. CASE ~(Early(r) /\ Matches(plan[p].pre))
    <3>1. Landed(r) /\ s \in {"applying", "applied"}
      BY <1>0, <2>1, <2>5, <2>6, <2>8 DEF Decided
    <3> QED BY <2>2, <2>3, <2>8, <3>1 DEF Verdict
  <2> QED BY <2>7, <2>8
<1>5. Verdict(o, r) = "complete" /\ Early(r) => ~Matches(plan[p].pre)
  BY DEF Verdict
<1> QED BY <1>2, <1>3, <1>4, <1>5

\* What a step makes of the operation a verdict is about.
LEMMA LookedAtStays ==
    ASSUME IInv, Whys, Next, ~overlapped, Separate', NEW o \in DOMAIN recon.todo,
           o \in DOMAIN recon'.todo, recon'.todo[o] = recon.todo[o], ~overlapped'
    PROVE  /\ o \in Begun /\ receipt'[o] = receipt[o]
           /\ Reason(o) => Reason(o)'
           /\ plan[receipt[o].plan].state = "applying" =>
                 plan'[receipt[o].plan].state = "applying" \/ Decide
           /\ Outrun(o) => Outrun(o)'
           /\ Touched(o) # {} => Touched(o)' # {}
<1> USE DEF IInv, Whys
<1>1. o \in Op /\ o \in Begun /\ receipt[o].plan \in Plan
  BY LookFacts DEF Begun
<1>2. receipt'[o] = receipt[o]
  BY DEF Separate
<1>3. \A c \in Caller : call[c].op # 0 =>
         call[c].op # o /\ Targets(call[c].plan) \cap Targets(receipt[o].plan) = {}
  BY Outside
<1>4. \A c \in Caller : call[c].op # o
  BY <1>1, <1>3, ConfigAssumption DEF Op
<1>5. Reason(o) => Reason(o)'
  BY <1>1, <1>4, ReasonStays
<1>6. ASSUME plan[receipt[o].plan].state = "applying", plan'[receipt[o].plan].state # "applying"
      PROVE  Decide
  <2>1. ~\E c \in Caller : call[c].op # 0 /\ call[c].plan = receipt[o].plan
    BY <1>1, <1>3, OpKept
  <2> QED BY <1>1, <1>6, <2>1, PlanMoves
<1>7. Outrun(o) => Outrun(o)'
  BY <1>1, OutrunStays
<1>8. Touched(o) # {} => Touched(o)' # {}
  BY <1>1, IInvSteady, TouchedStays
<1> QED BY <1>1, <1>2, <1>5, <1>6, <1>7, <1>8

\* What deciding makes of a verdict.
LEMMA DecideEffect ==
    ASSUME IInv, Decide
    PROVE  \/ recon' = NoRecon
           \/ /\ recon'.todo = recon.todo /\ recon'.look.op = recon.look.op
              /\ \/ recon'.look.verdict \in {"failed", "completed"}
                 \/ /\ recon'.look.verdict = "hold" /\ Saw("fail")
                    /\ \/ plan[receipt[recon.look.op].plan].state # "applying"
                       \/ recon.look.op \in unreached'
<1> USE DEF IInv
<1>1. PICK o \in DOMAIN recon.todo :
        recon.look.op = o /\ (FailStale(recon.todo[o].plan) \/ CompleteStale(recon.todo[o].plan, o))
  BY DEF Decide
<1>2. recon.todo[o].plan = receipt[o].plan
  BY LookFacts
<1>3. ASSUME NEW v, Says(v)
      PROVE  recon'.todo = recon.todo /\ recon'.look.op = recon.look.op /\ recon'.look.verdict = v
  <2> DEFINE k == [recon.look EXCEPT !.verdict = v]
  <2>1. recon.look \in LookRecord /\ recon \in ReconRecord
    BY DEF Types, ReconRecord
  <2>2. recon' = [recon EXCEPT !.look = k]
    BY <1>3, <2>1 DEF Says, ReconRecord
  <2>3. k.verdict = v /\ k.op = recon.look.op
    BY <2>1 DEF LookRecord
  <2> HIDE DEF k
  <2> QED BY <2>1, <2>2, <2>3 DEF ReconRecord
<1>4. CASE FailStale(receipt[o].plan)
  BY <1>1, <1>3, <1>4 DEF FailStale
<1>5. CASE CompleteStale(receipt[o].plan, o)
  BY <1>1, <1>3, <1>5 DEF CompleteStale, Throw
<1> QED BY <1>1, <1>2, <1>4, <1>5

\* What a verdict has found stays so until it is acted on.
LEMMA LookTellsStep ==
    ASSUME IInv, Whys, Next, IInv'
    PROVE  LookTells'
<1> USE DEF IInv, Whys
<1>1. \A o \in DOMAIN recon'.todo : recon'.todo[o].state \in OpenState
  <2>1. CASE Restart
    BY <2>1, RestartEffect, OpenReceiptsFacts
  <2>2. CASE recon' = NoRecon
    BY <2>2, NoReconFacts
  <2>3. CASE UNCHANGED recon
    BY <2>3 DEF LookTells
  <2>4. CASE ReconStep
    <3>1. CASE DOMAIN recon'.todo = DOMAIN recon.todo \ {recon.look.op}
                 /\ \A o \in DOMAIN recon'.todo : recon'.todo[o] = recon.todo[o]
      BY <3>1 DEF LookTells
    <3>2. CASE recon'.todo = recon.todo
      BY <3>2 DEF LookTells
    <3> QED BY <2>2, <2>4, <3>1, <3>2, ReconEffect
  <2> QED BY <2>1, <2>2, <2>3, <2>4, Changes DEF Crash
<1>2. ASSUME ~edited', ~overlapped', NEW o \in DOMAIN recon'.todo, recon'.look.op = o
      PROVE  /\ Saw("fail")' => plan'[receipt'[o].plan].state = "applying"
             /\ Saw("complete")' /\ Early(receipt'[o]) /\ ~Outrun(o)' => Touched(o)' # {}
             /\ Saw("hold")' => Reason(o)'
  <2>0. ~overlapped /\ ~edited
    BY <1>2, OverlappedStays, Changes DEF Types
  <2>1. CASE recon'.look.verdict \notin {"fail", "complete", "hold"}
    BY <2>1 DEF Saw
  <2>2. CASE UNCHANGED recon
    <3>1. o \in DOMAIN recon.todo /\ recon.look.op = o /\ ~Decide
      <4>1. ASSUME Decide PROVE FALSE
        <5>1. recon.look.verdict \in {"fail", "complete"} /\ recon # NoRecon
          BY <4>1, NoReconFacts DEF Decide, FailStale, CompleteStale, Saw
        <5> QED BY <2>2, <4>1, <5>1, DecideEffect
      <4> QED BY <1>2, <2>2, <4>1
    <3>2. /\ Saw("fail") => plan[receipt[o].plan].state = "applying"
          /\ Saw("complete") /\ Early(receipt[o]) /\ ~Outrun(o) => Touched(o) # {}
          /\ Saw("hold") => Reason(o)
      BY <2>0, <3>1 DEF LookTells
    <3>3. \A v : Saw(v)' => Saw(v)
      BY <2>2 DEF Saw
    <3> QED BY <1>2, <2>0, <2>2, <3>1, <3>2, <3>3, LookedAtStays
  <2>3. ASSUME NEW n \in DOMAIN recon.todo, Look(n), recon'.look.op = n, recon'.todo = recon.todo,
               recon'.look.verdict = Verdict(n, recon.todo[n])
        PROVE  /\ Saw("fail")' => plan'[receipt'[o].plan].state = "applying"
               /\ Saw("complete")' /\ Early(receipt'[o]) /\ ~Outrun(o)' => Touched(o)' # {}
               /\ Saw("hold")' => Reason(o)'
    <3>1. n = o /\ recon.todo[o] = receipt[o] /\ plan' = plan
      BY <1>2, <2>0, <2>3 DEF Separate, Look, redis
    <3>2. /\ recon'.look.verdict = "fail" => plan[receipt[o].plan].state = "applying"
          /\ recon'.look.verdict = "complete" /\ Early(receipt[o]) /\ ~Outrun(o) => Touched(o) # {}
          /\ recon'.look.verdict = "hold" => Reason(o)
      BY <2>0, <2>3, <3>1, VerdictFinds
    <3>3. \A v : Saw(v)' => recon'.look.verdict = v
      BY DEF Saw
    <3> QED BY <1>2, <2>0, <2>3, <3>1, <3>2, <3>3, LookedAtStays
  <2>4. CASE Decide
    <3>1. CASE recon' = NoRecon
      BY <2>1, <3>1, NoReconFacts
    <3>2. CASE /\ recon'.todo = recon.todo /\ recon.look.op = o /\ recon'.look.verdict = "hold"
               /\ Saw("fail")
               /\ plan[receipt[o].plan].state # "applying" \/ o \in unreached'
      <4>1. o \in unreached'
        BY <1>2, <2>0, <3>2 DEF LookTells
      <4>2. Reason(o)'
        BY <4>1 DEF Reason
      <4> QED BY <3>2, <4>2 DEF Saw
    <3> QED BY <1>2, <2>1, <2>4, <3>1, <3>2, DecideEffect
  <2>5. CASE recon'.look = NoLook \/ recon' = NoRecon
    BY <2>1, <2>5, NoReconFacts DEF NoLook
  <2>6. CASE ReconStep /\ ~Decide
    <3>1. CASE Close
      BY <2>5, <3>1, ReconEffect, NoReconFacts DEF Close
    <3>2. CASE EndRecon
      BY <2>5, <3>2 DEF EndRecon, Throw
    <3>3. ASSUME NEW n \in Op, Look(n)
          PROVE  /\ n \in DOMAIN recon.todo /\ recon'.look.op = n /\ recon'.todo = recon.todo
                 /\ recon'.look.verdict = Verdict(n, recon.todo[n])
      <4> DEFINE k == [op |-> n, verdict |-> Verdict(n, recon.todo[n])]
      <4>1. recon' = [recon EXCEPT !.look = k] /\ n \in DOMAIN recon.todo
        BY <3>3 DEF Look
      <4>2. k.op = n /\ k.verdict = Verdict(n, recon.todo[n])
        OBVIOUS
      <4> HIDE DEF k
      <4> QED BY <4>1, <4>2 DEF Types, ReconRecord
    <3> QED BY <2>3, <2>6, <3>1, <3>2, <3>3 DEF ReconStep
  <2> QED BY <2>2, <2>4, <2>5, <2>6, Changes, RestartEffect DEF Crash
<1> QED BY <1>1, <1>2 DEF LookTells

\* An operation is held for a reason.
LEMMA HeldWithReasonStep ==
    ASSUME IInv, Whys, Next
    PROVE  HeldWithReason'
<1> USE DEF IInv, Whys
<1> SUFFICES ASSUME NEW o \in Op, receipt'[o].code = "held", ~edited', ~overlapped'
             PROVE  Reason(o)'
  BY DEF HeldWithReason, Reason
<1>0. ~overlapped /\ ~edited
  BY OverlappedStays, Changes DEF Types
<1>1. CASE receipt[o].code = "held"
  <2>1. receipt[o].state # "none"
    BY <1>1 DEF ReceiptsTell, NoReceipt
  <2>2. o \in Begun /\ Reason(o)
    BY <1>0, <1>1, <2>1 DEF Begun, HeldWithReason, Reason
  <2>3. \A c \in Caller : call[c].op # o
    BY <1>0, <1>1, ConfigAssumption DEF CallsTell, Op
  <2> QED BY <2>2, <2>3, ReasonStays
<1>2. CASE receipt[o].code # "held"
  <2>1. receipt'[o] # receipt[o]
    BY <1>2
  <2>2. \A c \in Caller : receipt'[o] # Early0(call[c].plan) /\ ~Marks(c, o) /\ ~Leaves(c, o)
    BY <1>2 DEF Early0, Marks, Leaves
  <2>3. Closes(o)
    BY <2>1, <2>2, ReceiptMoves
  <2>4. Saw("hold") /\ o \in DOMAIN recon.todo /\ recon.look.op = o
    BY <2>3 DEF Closes
  <2>5. o \in Begun /\ Reason(o)
    BY <1>0, <2>4, LookFacts DEF LookTells, Begun
  <2>6. \A c \in Caller : call[c].op # o
    BY <1>0, <2>4, Outside, ConfigAssumption DEF Op
  <2> QED BY <2>5, <2>6, ReasonStays
<1> QED BY <1>1, <1>2

\* It holds at first,
LEMMA InitWhys == Init => Whys
<1> SUFFICES ASSUME Init PROVE Whys
  OBVIOUS
<1>1. \A o \in Op : receipt[o] = NoReceipt /\ receipt[o].state = "none" /\ receipt[o].code = "none"
                       /\ wrote[o] = {} /\ snapshot[o] = NoSnapshot
  BY DEF Init, NoReceipt
<1>2. \A p \in Plan : plan[p].state = "none"
  BY DEF Init, NoPlan
<1>3. \A c \in Caller : call[c].at = "idle" /\ call[c].op = 0
  BY DEF Init, NoCall
<1>4. projected = {} /\ DOMAIN recon.todo = {}
  BY NoReconFacts DEF Init
<1>5. Standing /\ PlanStanding /\ LaterElsewhere
  BY <1>1, <1>2, <1>3 DEF Standing, PlanStanding, LaterElsewhere
<1>6. ReceiptsTell
  BY <1>1 DEF ReceiptsTell
<1>7. AppliedIsRecorded /\ CallsTell /\ RecordedChanged /\ LookTells /\ HeldWithReason
  BY <1>1, <1>2, <1>3, <1>4 DEF AppliedIsRecorded, CallsTell, RecordedChanged, LookTells, HeldWithReason
<1> QED BY <1>5, <1>6, <1>7 DEF Whys

\* and every step keeps it.
LEMMA WhysStep ==
    ASSUME IInv, Whys, [Next]_vars, IInv'
    PROVE  Whys'
<1>1. CASE Next
  BY <1>1, StandingStep, PlanStandingStep, LaterElsewhereStep, ReceiptsTellStep,
     AppliedIsRecordedStep, CallsTellStep, RecordedChangedStep, LookTellsStep, HeldWithReasonStep
     DEF Whys
<1>2. CASE UNCHANGED vars
  <2> USE <1>2 DEF Whys, vars, disk, redis, memory, history
  <2>0. Begun' = Begun /\ \A o \in Op : (Outrun(o) <=> Outrun(o)')
    BY DEF Begun, Outrun, Targets
  <2>1. Standing'
    BY <2>0 DEF Standing, InPlace
  <2>2. PlanStanding' /\ LaterElsewhere'
    BY DEF PlanStanding, LaterElsewhere, Targets
  <2>3. ReceiptsTell'
    BY DEF ReceiptsTell, Targets
  <2>4. AppliedIsRecorded' /\ CallsTell'
    BY DEF AppliedIsRecorded, CallsTell
  <2>5. RecordedChanged'
    BY <2>0 DEF RecordedChanged, Touched, Early, IInv, Types
  <2>6. LookTells'
    BY <2>0, LookFacts DEF LookTells, Saw, Touched, Early, Reason, IInv, Targets
  <2>7. HeldWithReason'
    BY <2>0 DEF HeldWithReason, Targets
  <2> QED BY <2>1, <2>2, <2>3, <2>4, <2>5, <2>6, <2>7
<1> QED BY <1>1, <1>2

\* Without an edit from outside, and until a reconciliation meets a request in
\* flight, reconcile holds an operation for review only for a reason: it stopped
\* between two files, its plan failed in Redis or could not be made to, or another
\* operation has its plan or its files.
THEOREM SpecHeldWithReason == Spec => []HeldWithReason
<1>1. Init => Whys
  BY InitWhys
<1>2. IInv /\ IInv' /\ Whys /\ [Next]_vars => Whys'
  BY WhysStep
<1>3. Whys => HeldWithReason
  BY DEF Whys
<1> QED BY <1>1, <1>2, <1>3, SpecIInv, PTL DEF Spec
=============================================================================
