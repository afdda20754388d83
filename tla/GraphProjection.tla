-------------------------- MODULE GraphProjection ---------------------------
(***************************************************************************)
(* The operational graph: a projection of stored facts, kept in            *)
(* generations.  Every fact is followed by an incremental projection into  *)
(* the active generation; projections are coalesced, at most one runs.  A  *)
(* rebuild writes a generation of its own under a lock that expires, and   *)
(* activates it.  Retention deletes old generations piece by piece.  All   *)
(* three share Redis and none waits for another.                           *)
(*                                                                         *)
(* An item of a generation stands for the nodes and edges of one fact.     *)
(***************************************************************************)
EXTENDS Naturals, FiniteSets, Sequences, SequencesExt

CONSTANTS
    Fact,      \* stored records whose ingestion asks for a projection
    Rebuild,   \* rebuild operations; each names the generation it writes
    Initial,   \* the generation before any rebuild
    Keep,      \* generations that retention keeps
    MaxFaults, \* bound: failed commands, stalls that outlast the lock, crashes
    None

Generation == Rebuild \cup {Initial}

ASSUME GraphAssumption ==
    /\ Initial \notin Rebuild /\ None \notin Generation
    /\ Keep \in Nat \ {0} /\ MaxFaults \in Nat

VARIABLES
    facts,   \* the facts stored
    graph,   \* per generation: its items
    index,   \* the generations in the order of their scores
    active,  \* the generation that is read
    lock,    \* the rebuild that holds the lock
    health,  \* of the projection: healthy or degraded
    op,      \* per rebuild: its record
    mode,    \* the daemon: ready, recovering or down
    asking,  \* facts whose request has yet to ask for a projection
    proj,    \* the projection that runs
    pending, \* whether another one is to follow
    work,    \* per rebuild: the call that runs
    sweep,   \* the retention that runs
    faults,
    \* What the properties are told by:
    begun,   \* the rebuilds that took the lock, in this order
    missed   \* facts that the daemon gave up, knowing or not

stored == <<facts, graph, index, active, lock, health, op>>
told == <<begun, missed>>
vars == <<stored, mode, asking, proj, pending, work, sweep, faults, told>>

Idle == [pc |-> "idle", gen |-> None, next |-> {}, seen |-> {}]
NoWork == [pc |-> "off", snap |-> {}, written |-> {}, lost |-> FALSE, cut |-> {}]
NoSweep == [pc |-> "idle", spared |-> None, doomed |-> {}, gen |-> None, left |-> {}]

Init ==
    /\ facts = {} /\ graph = [g \in Generation |-> {}]
    /\ index = <<>> /\ active = None /\ lock = None /\ health = "healthy"
    /\ op = [r \in Rebuild |-> "none"]
    /\ mode = "ready" /\ asking = {}
    /\ proj = Idle /\ pending = FALSE
    /\ work = [r \in Rebuild |-> NoWork]
    /\ sweep = NoSweep /\ faults = 0
    /\ begun = <<>> /\ missed = {}

Faulty == faults < MaxFaults /\ faults' = faults + 1
Sound == UNCHANGED faults

\* The facts that a reader of a generation, of the active one, does not find.
Unseen(content) == facts \ content
Shown == IF active = None THEN {} ELSE graph[active]

\* Mutant: an entry of its own for every time.
LatestAgain(g) == Append(index, g)

\* A generation is scored with the time of what was recorded last: now, or
\* the time of an item older than all that the others were scored with.
Latest(g) == Append(RemoveFirst(index, g), g)
Oldest(g) == <<g>> \o RemoveFirst(index, g)

-----------------------------------------------------------------------------
(* Facts and the projections that follow them *)

\* A mutation stores its fact; its request goes on when Redis has answered.
Ingest(f) ==
    /\ mode = "ready" /\ f \in Fact \ facts
    /\ facts' = facts \cup {f} /\ asking' = asking \cup {f}
    /\ UNCHANGED <<graph, index, active, lock, health, op, mode, proj, pending, work, sweep, faults, told>>

\* Mutant: whoever comes while a projection runs relies on that projection.
AfterBusy(was) == was

AfterWaiting(was) == TRUE

\* projectIncrementally: dropped unless ready, one follow-up while one runs.
Project(f) ==
    /\ f \in asking /\ asking' = asking \ {f}
    /\ CASE mode # "ready" ->
              /\ missed' = missed \cup {f}
              /\ UNCHANGED <<proj, pending>>
         [] mode = "ready" /\ proj.pc = "idle" ->
              /\ proj' = [Idle EXCEPT !.pc = "look"]
              /\ UNCHANGED <<pending, missed>>
         [] OTHER ->
              /\ pending' = AfterWaiting(pending)
              /\ UNCHANGED <<proj, missed>>
    /\ UNCHANGED <<stored, mode, work, sweep, faults, begun>>

\* The active generation, or the initial one, which is then recorded.
Look ==
    /\ proj.pc = "look"
    /\ active' = IF active = None THEN Initial ELSE active
    /\ index' = IF active = None THEN Latest(Initial) ELSE index
    /\ proj' = [proj EXCEPT !.pc = "gather", !.gen = active']
    /\ UNCHANGED <<facts, graph, lock, health, op, mode, asking, pending, work, sweep, faults, told>>

\* The new snapshot is computed and the stored one is read.
Gather ==
    /\ proj.pc = "gather"
    /\ proj' = [proj EXCEPT !.pc = "replace", !.next = facts, !.seen = graph[proj.gen]]
    /\ UNCHANGED <<stored, mode, asking, pending, work, sweep, faults, told>>

\* The difference between the two is applied at once.
Replaced == (graph[proj.gen] \ (proj.seen \ proj.next)) \cup (proj.next \ proj.seen)

Replace ==
    /\ proj.pc = "replace"
    /\ graph' = [graph EXCEPT ![proj.gen] = Replaced]
    /\ proj' = [proj EXCEPT !.pc = IF proj.next = proj.seen THEN "next" ELSE "record",
                            !.next = {}, !.seen = {}]
    /\ missed' = IF proj.gen = active THEN missed \ Replaced ELSE missed
    /\ UNCHANGED <<facts, index, active, lock, health, op, mode, asking, pending, work, sweep, faults, begun>>

RecordGeneration ==
    /\ proj.pc = "record"
    /\ index' = Latest(proj.gen)
    /\ proj' = [proj EXCEPT !.pc = "next"]
    /\ UNCHANGED <<facts, graph, active, lock, health, op, mode, asking, pending, work, sweep, faults, told>>

ProjectionFails ==
    /\ proj.pc \in {"look", "gather", "replace", "record"} /\ Faulty
    /\ proj' = [Idle EXCEPT !.pc = "report"]
    /\ UNCHANGED <<stored, mode, asking, pending, work, sweep, told>>

Report ==
    /\ proj.pc = "report"
    /\ health' = "degraded"
    /\ proj' = [proj EXCEPT !.pc = "next"]
    /\ UNCHANGED <<facts, graph, index, active, lock, op, mode, asking, pending, work, sweep, faults, told>>

\* The report fails like the projection: the drain ends, and what is pending
\* waits for the next one.
ReportFails ==
    /\ proj.pc = "report"
    /\ proj' = Idle
    /\ missed' = missed \cup Unseen(Shown)
    /\ UNCHANGED <<stored, mode, asking, pending, work, sweep, faults, begun>>

\* The follow-up is taken, or dropped when the daemon is no longer ready.
Follow ==
    /\ proj.pc = "next" /\ pending' = FALSE
    /\ proj' = IF pending /\ mode = "ready" THEN [Idle EXCEPT !.pc = "look"] ELSE Idle
    /\ missed' = IF pending /\ mode # "ready" THEN missed \cup Unseen(Shown) ELSE missed
    /\ UNCHANGED <<stored, mode, asking, work, sweep, faults, begun>>

-----------------------------------------------------------------------------
(* Rebuilds *)

At(r, pc) == work[r].pc = pc
Goes(r, w) == work' = [work EXCEPT ![r] = w]
GoesTo(r, pc) == Goes(r, [work[r] EXCEPT !.pc = pc])
Leaves(r, pc) == Goes(r, [NoWork EXCEPT !.pc = pc])

\* The keep-alive timer runs from the writing of the record to the end.
Renewing(r) == work[r].pc \in {"write", "activate", "fail"}

\* A client asks for a rebuild, or the daemon does for a degraded graph when
\* it starts or recovers.  A lock that is held refuses it.
Begin(r) ==
    /\ mode = "ready" \/ (mode = "recovering" /\ health = "degraded")
    /\ r \notin ToSet(begun)
    /\ lock = None /\ lock' = r /\ begun' = Append(begun, r)
    /\ GoesTo(r, "enter")
    /\ UNCHANGED <<facts, graph, index, active, health, op, mode, asking, proj, pending, sweep, faults, missed>>

\* The record is written, then everything is read; if the first fails the lock stays until it expires.
Enter(r) ==
    /\ At(r, "enter")
    /\ \/ /\ Sound
          /\ op' = [op EXCEPT ![r] = "running"]
          /\ Goes(r, [work[r] EXCEPT !.pc = "write", !.snap = facts])
       \/ /\ Faulty
          /\ GoesTo(r, "off") /\ UNCHANGED op
    /\ UNCHANGED <<facts, graph, index, active, lock, health, mode, asking, proj, pending, sweep, told>>

\* One item is written, unless a renewal has found the lock gone.
Write(r, i) ==
    /\ At(r, "write") /\ ~work[r].lost
    /\ i \in work[r].snap \ work[r].written
    /\ graph' = [graph EXCEPT ![r] = @ \cup {i}]
    /\ index' \in {Latest(r), Oldest(r)}
    /\ Goes(r, [work[r] EXCEPT !.written = @ \cup {i}])
    /\ UNCHANGED <<facts, active, lock, health, op, mode, asking, proj, pending, sweep, faults, told>>

LosesHeart(r) ==
    /\ At(r, "write") /\ work[r].lost
    /\ Leaves(r, "fail")
    /\ UNCHANGED <<stored, mode, asking, proj, pending, sweep, faults, told>>

\* The counts of the stored generation are those of the snapshot.
Valid(r) == graph[r] = work[r].snap

Validate(r) ==
    /\ At(r, "write") /\ ~work[r].lost /\ work[r].written = work[r].snap
    /\ Goes(r, IF Valid(r) THEN [NoWork EXCEPT !.pc = "activate", !.snap = work[r].snap]
                          ELSE [NoWork EXCEPT !.pc = "fail"])
    /\ UNCHANGED <<stored, mode, asking, proj, pending, sweep, faults, told>>

\* Mutant: a rebuild whose lock has expired is welcome while nobody else holds it.
OwnsUncontested(r) == lock \in {r, None}

Owns(r) == lock = r

\* The pointer, the health, the record and the lock change in one Function.
\* A reply that is lost makes the service record a failure, which is refused.
Activate(r) ==
    /\ At(r, "activate")
    /\ IF Owns(r)
       THEN /\ active' = r /\ health' = "healthy" /\ lock' = None
            /\ op' = [op EXCEPT ![r] = "completed"]
            /\ missed' = Unseen(work[r].snap) \cup work[r].cut
            /\ (Sound /\ Leaves(r, "end")) \/ (Faulty /\ Leaves(r, "fail"))
       ELSE /\ Leaves(r, "fail") /\ Sound
            /\ UNCHANGED <<active, health, lock, op, missed>>
    /\ UNCHANGED <<facts, graph, index, mode, asking, proj, pending, sweep, begun>>

\* The failure is recorded only by the owner of the lock.
RecordFailure(r) ==
    /\ At(r, "fail")
    /\ Leaves(r, "end")
    /\ IF Owns(r)
       THEN /\ health' = "degraded" /\ lock' = None
            /\ op' = [op EXCEPT ![r] = "failed"]
       ELSE UNCHANGED <<health, lock, op>>
    /\ UNCHANGED <<facts, graph, index, active, mode, asking, proj, pending, sweep, faults, told>>

\* A command of the rebuild fails, the recording of a failure included.
RebuildFails(r) ==
    /\ Renewing(r) /\ Faulty
    /\ Leaves(r, IF At(r, "fail") THEN "end" ELSE "fail")
    /\ UNCHANGED <<stored, mode, asking, proj, pending, sweep, told>>

\* The renewal finds the lock gone, which only the writing looks at.
Renew(r) ==
    /\ At(r, "write") /\ lock # r /\ ~work[r].lost
    /\ Goes(r, [work[r] EXCEPT !.lost = TRUE])
    /\ UNCHANGED <<stored, mode, asking, proj, pending, sweep, faults, told>>

\* The renewal itself fails, which counts as a lock lost.
RenewFails(r) ==
    /\ At(r, "write") /\ ~work[r].lost /\ Faulty
    /\ Goes(r, [work[r] EXCEPT !.lost = TRUE])
    /\ UNCHANGED <<stored, mode, asking, proj, pending, sweep, told>>

\* A lock that nobody renews expires; one that is renewed does so in a stall.
Expire ==
    /\ lock # None
    /\ IF Renewing(lock) THEN Faulty ELSE Sound
    /\ lock' = None
    /\ UNCHANGED <<facts, graph, index, active, health, op, mode, asking, proj, pending, work, sweep, told>>

-----------------------------------------------------------------------------
(* Retention *)

Sweeps(s) == sweep' = s

\* Mutant: only the scores decide.
KeptByScore(known) == ToSet(SubSeq(known, Len(known) - Keep + 1, Len(known)))

\* The generations with the highest scores and the active one are kept.
Kept(known) ==
    ToSet(SubSeq(known, Len(known) - Keep + 1, Len(known))) \cup {active}

\* The index and the pointer are read.
Choose ==
    /\ mode = "ready" /\ sweep.pc = "idle" /\ Len(index) > Keep
    /\ LET doomed == ToSet(index) \ Kept(index)
       IN  /\ doomed # {}
           /\ Sweeps([NoSweep EXCEPT !.pc = "pick", !.spared = active, !.doomed = doomed])
    /\ UNCHANGED <<stored, mode, asking, proj, pending, work, faults, told>>

Pick(g) ==
    /\ sweep.pc = "pick" /\ g \in sweep.doomed
    /\ Sweeps([sweep EXCEPT !.pc = "remove", !.gen = g, !.left = graph[g]])
    /\ UNCHANGED <<stored, mode, asking, proj, pending, work, faults, told>>

\* What a listing found goes item by item, each with commands of its own.
RemoveItem(i) ==
    /\ sweep.pc = "remove" /\ i \in sweep.left
    /\ graph' = [graph EXCEPT ![sweep.gen] = @ \ {i}]
    /\ Sweeps([sweep EXCEPT !.left = @ \ {i}])
    /\ work' = IF sweep.gen \in Rebuild /\ At(sweep.gen, "activate")
               THEN [work EXCEPT ![sweep.gen].cut = @ \cup (graph[sweep.gen] \cap {i})] ELSE work
    /\ missed' = IF sweep.gen = active THEN missed \cup (graph[active] \cap {i}) ELSE missed
    /\ UNCHANGED <<facts, index, active, lock, health, op, mode, asking, proj, pending, faults, begun>>

Forget ==
    /\ sweep.pc = "remove" /\ sweep.left = {}
    /\ index' = RemoveFirst(index, sweep.gen)
    /\ LET rest == sweep.doomed \ {sweep.gen}
       IN  Sweeps(IF rest = {} THEN NoSweep ELSE [sweep EXCEPT !.pc = "pick", !.doomed = rest])
    /\ UNCHANGED <<facts, graph, active, lock, health, op, mode, asking, proj, pending, work, faults, told>>

SweepFails ==
    /\ sweep.pc # "idle" /\ Faulty
    /\ Sweeps(NoSweep)
    /\ UNCHANGED <<stored, mode, asking, proj, pending, work, told>>

-----------------------------------------------------------------------------
(* The daemon *)

\* It loses its ownership or Redis and recovers; what runs goes on.
Recover ==
    /\ mode = "ready" /\ Faulty
    /\ mode' = "recovering"
    /\ UNCHANGED <<stored, asking, proj, pending, work, sweep, told>>

Recovered ==
    /\ mode = "recovering"
    /\ mode' = "ready"
    /\ UNCHANGED <<stored, asking, proj, pending, work, sweep, faults, told>>

Crash ==
    /\ mode # "down" /\ Faulty
    /\ mode' = "down" /\ asking' = {}
    /\ proj' = Idle /\ pending' = FALSE
    /\ work' = [r \in Rebuild |-> NoWork]
    /\ sweep' = NoSweep
    /\ missed' = missed \cup Unseen(Shown)
    /\ UNCHANGED <<stored, begun>>

Start ==
    /\ mode = "down"
    /\ mode' = "recovering"
    /\ UNCHANGED <<stored, asking, proj, pending, work, sweep, faults, told>>

-----------------------------------------------------------------------------
ProjectionStep ==
    Look \/ Gather \/ Replace \/ RecordGeneration \/ Report \/ Follow

RebuildStep(r) ==
    \/ Enter(r) \/ LosesHeart(r) \/ Validate(r)
    \/ Activate(r) \/ RecordFailure(r)
    \/ \E i \in Fact : Write(r, i)

SweepStep == Choose \/ Forget \/ (\E g \in Generation : Pick(g)) \/ (\E i \in Fact : RemoveItem(i))

Next ==
    \/ \E f \in Fact : Ingest(f) \/ Project(f)
    \/ ProjectionStep \/ ProjectionFails \/ ReportFails
    \/ \E r \in Rebuild : Begin(r) \/ RebuildStep(r) \/ RebuildFails(r) \/ Renew(r) \/ RenewFails(r)
    \/ Expire
    \/ SweepStep \/ SweepFails
    \/ Recover \/ Recovered \/ Crash \/ Start

Spec == Init /\ [][Next]_vars

-----------------------------------------------------------------------------
ProjectionRecord ==
    [pc : {"idle", "look", "gather", "replace", "record", "report", "next"},
     gen : Generation \cup {None}, next : SUBSET Fact, seen : SUBSET Fact]

WorkRecord ==
    [pc : {"off", "enter", "write", "activate", "fail", "end"},
     snap : SUBSET Fact, written : SUBSET Fact, lost : BOOLEAN, cut : SUBSET Fact]

SweepRecord ==
    [pc : {"idle", "pick", "remove"}, spared : Generation \cup {None},
     doomed : SUBSET Generation, gen : Generation \cup {None}, left : SUBSET Fact]

\* Types: the index (a sorted set) holds a generation at most once, a request
\* that has yet to ask for its projection has stored its fact, and only stored
\* facts are given up.
TypeOK ==
    /\ facts \subseteq Fact /\ graph \in [Generation -> SUBSET Fact]
    /\ index \in Seq(Generation) /\ IsInjective(index)
    /\ active \in Generation \cup {None} /\ lock \in Rebuild \cup {None}
    /\ health \in {"healthy", "degraded"}
    /\ op \in [Rebuild -> {"none", "running", "completed", "failed"}]
    /\ mode \in {"ready", "recovering", "down"}
    /\ asking \subseteq facts
    /\ proj \in ProjectionRecord /\ pending \in BOOLEAN
    /\ work \in [Rebuild -> WorkRecord] /\ sweep \in SweepRecord
    /\ faults \in 0..MaxFaults
    /\ begun \in Seq(Rebuild) /\ missed \subseteq facts

\* When the projection calls itself healthy and nothing is under way or
\* pending, the active generation has every fact, except those that the daemon
\* could not know it lost: dropped while it was not ready or by a crash, stored
\* after the rebuild that was activated had read, or deleted by a retention
\* that had looked before the activation.  Coalescing, the validation and the
\* difference against an old reading must not lose others.
QuietGraphIsComplete ==
    (mode = "ready" /\ asking = {} /\ proj.pc = "idle" /\ ~pending /\ health = "healthy") =>
        Unseen(Shown) \subseteq missed

\* The generation that is read loses no fact, whatever projections, rebuilds
\* and retention do to Redis at the same time; the exception is a retention
\* that read the pointer before this generation was activated.
ActiveKeepsFacts ==
    [][active' = active /\ active # None /\ ~(sweep.gen = active /\ sweep.spared # active) =>
          graph[active] \subseteq graph'[active]]_vars

\* A rebuild is activated only if none has taken the lock after it, although
\* the lock expires under a rebuild that stalls and goes on.
NewestIsPublished ==
    [][active' # active /\ active' # Initial =>
          active' = Last(begun)]_vars

\* Retention keeps the active generation.  It does not: it compares with the
\* pointer it read, and deletes a generation that was activated after that.
ActiveSurvives ==
    [][active' = active /\ active # None => graph[active] \subseteq graph'[active]]_vars
=============================================================================
