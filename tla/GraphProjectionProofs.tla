----------------------- MODULE GraphProjectionProofs ------------------------
(***************************************************************************)
(* Proofs about GraphProjection, for every set of facts and of rebuilds,   *)
(* every number of generations that retention keeps and every bound on the *)
(* faults.                                                                 *)
(***************************************************************************)
EXTENDS GraphProjection, TLAPS, WellFoundedInduction, SequenceTheorems

\* A generation that readers may see: the initial one once it was recorded, or
\* that of a rebuild that has ended its writing.
Published(g) ==
    \/ g = Initial /\ active # None
    \/ /\ g \in Rebuild /\ g \in ToSet(begun)
       /\ work[g].pc \notin {"enter", "write", "activate"}

\* Generations hold stored facts.  The active one and the one that a projection
\* writes to are published, so that no rebuild still writes to either; and the
\* lock is held by the last that took it.
Generations ==
    /\ \A g \in Generation : graph[g] \subseteq facts
    /\ active # None => Published(active)
    /\ proj.pc \in {"gather", "replace", "record"} => Published(proj.gen)
    /\ \A r \in Rebuild : r \notin ToSet(begun) => work[r].pc = "off"
    /\ lock # None => begun # <<>> /\ lock = Last(begun)

\* What a rebuild has read is stored; when it is to activate its generation, this
\* has everything it read except what retention has cut from it since.
Rebuilds ==
    \A r \in Rebuild :
        /\ work[r].snap \subseteq facts /\ work[r].cut \subseteq facts
        /\ work[r].pc = "activate" => work[r].snap \subseteq graph[r] \cup work[r].cut

\* The generation that was active when retention looked is not one it deletes.
Sweeping ==
    /\ sweep.spared \notin sweep.doomed
    /\ sweep.pc = "remove" => sweep.gen \in sweep.doomed

\* A projection knows its generation.  What it read there is a part of what it is
\* to have: facts are only added, and the facts are gathered all at once.
Projecting ==
    /\ proj.pc \in {"gather", "replace", "record"} => proj.gen \in Generation
    /\ proj.pc = "replace" => proj.seen \subseteq proj.next /\ proj.next \subseteq facts

\* What tells that a fact may yet be missing from what readers see: its request
\* has yet to ask, or a projection is to follow, to look or to report, the one
\* that runs brings it to the active generation, or the health says so.
OnItsWay(f) ==
    \/ f \in asking \/ pending \/ health = "degraded"
    \/ proj.pc \in {"look", "report"}
    \/ proj.pc = "gather" /\ proj.gen = active
    \/ proj.pc = "replace" /\ proj.gen = active /\ f \in proj.next \ proj.seen

\* Every fact is shown, given up or on its way.
NoneLost == \A f \in facts : f \in Shown \/ f \in missed \/ OnItsWay(f)

\* The inductive invariant.
IInv == TypeOK /\ Generations /\ Rebuilds /\ Sweeping /\ Projecting /\ NoneLost

-----------------------------------------------------------------------------
(* The index *)

\* A set of numbers has a least one.
LEMMA NatMin ==
    ASSUME NEW T \in SUBSET Nat, T # {}
    PROVE  \E x \in T : \A y \in T : x <= y
<1>1. \E x \in T : \A y \in T : ~ (<<y, x>> \in OpToRel(<, Nat))
  BY NatLessThanWellFounded, WFMin, Zenon
<1>2. PICK x \in T : \A y \in T : ~ (<<y, x>> \in OpToRel(<, Nat))
  BY <1>1
<1>3. \A y \in T : ~(y < x)
  BY <1>2 DEF OpToRel
<1> QED BY <1>3

\* Without one of its entries a sequence that has each once has each once, and not
\* that one.
LEMMA RemoveFirstFacts ==
    ASSUME NEW s \in Seq(Generation), IsInjective(s), NEW g \in Generation
    PROVE  /\ RemoveFirst(s, g) \in Seq(Generation) /\ IsInjective(RemoveFirst(s, g))
           /\ \A i \in 1..Len(RemoveFirst(s, g)) : RemoveFirst(s, g)[i] # g
<1> DEFINE I == {i \in 1..Len(s) : s[i] = g}
<1>1. CASE I = {}
  BY <1>1 DEF RemoveFirst
<1>2. CASE I # {}
  <2>1. \E k \in I : \A i \in I : k <= i
    <3>1. I \in SUBSET Nat
      OBVIOUS
    <3> QED BY <1>2, <3>1, NatMin
  <2>2. SelectInSeq(s, LAMBDA v : v = g) = Min(I)
    BY <1>2 DEF SelectInSeq
  <2> DEFINE k == Min(I)
  <2>3. k \in I
    BY <2>1 DEF Min
  <2> HIDE DEF k
  <2>4. RemoveFirst(s, g) = SubSeq(s, 1, k - 1) \o SubSeq(s, k + 1, Len(s))
    BY <2>2, <2>3 DEF RemoveFirst, RemoveAt, k
  <2> DEFINE t == SubSeq(s, 1, k - 1) \o SubSeq(s, k + 1, Len(s))
  <2>5. k \in 1..Len(s) /\ s[k] = g
    BY <2>3
  <2> DEFINE a == SubSeq(s, 1, k - 1)
             b == SubSeq(s, k + 1, Len(s))
  <2>6. /\ a \in Seq(Generation) /\ Len(a) = k - 1 /\ \A i \in 1..(k - 1) : a[i] = s[i]
        /\ b \in Seq(Generation) /\ Len(b) = Len(s) - k /\ \A i \in 1..(Len(s) - k) : b[i] = s[i + k]
    BY <2>5
  <2> HIDE DEF a, b
  <2>7. /\ t \in Seq(Generation) /\ Len(t) = Len(s) - 1
        /\ \A i \in 1..(Len(s) - 1) : t[i] = IF i <= k - 1 THEN a[i] ELSE b[i - (k - 1)]
    <3>1. t = a \o b
      BY DEF a, b
    <3>2. Len(a) + Len(b) = Len(s) - 1
      BY <2>5, <2>6
    <3> HIDE DEF t
    <3> QED BY <2>6, <3>1, <3>2, ConcatProperties
  <2> HIDE DEF t
  <2>8. \A i \in 1..Len(t) : t[i] = IF i < k THEN s[i] ELSE s[i + 1]
    <3> SUFFICES ASSUME NEW i \in 1..Len(t) PROVE t[i] = IF i < k THEN s[i] ELSE s[i + 1]
      OBVIOUS
    <3>1. CASE i < k
      <4>1. t[i] = a[i] /\ i \in 1..(k - 1)
        BY <2>5, <2>7, <3>1
      <4> QED BY <2>6, <3>1, <4>1
    <3>2. CASE ~(i < k)
      <4>1. t[i] = b[i - (k - 1)]
        BY <2>5, <2>7, <3>2
      <4>2. i - (k - 1) \in 1..(Len(s) - k) /\ (i - (k - 1)) + k = i + 1
        BY <2>5, <2>7, <3>2
      <4> QED BY <2>6, <3>2, <4>1, <4>2
    <3> QED BY <3>1, <3>2
  <2>9. DOMAIN t = 1..Len(t) /\ DOMAIN s = 1..Len(s) /\ Len(s) \in Nat
    BY <2>7
  <2>10. IsInjective(t)
    <3> SUFFICES ASSUME NEW i \in 1..Len(t), NEW j \in 1..Len(t), t[i] = t[j] PROVE i = j
      BY <2>9 DEF IsInjective
    <3> DEFINE shift(m) == IF m < k THEN m ELSE m + 1
    <3>1. shift(i) \in 1..Len(s) /\ shift(j) \in 1..Len(s)
      BY <2>5, <2>7, <2>9
    <3>2. s[shift(i)] = s[shift(j)]
      BY <2>8
    <3>3. shift(i) = shift(j)
      BY <2>9, <3>1, <3>2 DEF IsInjective
    <3> QED BY <2>5, <3>3
  <2>11. \A i \in 1..Len(t) : t[i] # g
    <3> SUFFICES ASSUME NEW i \in 1..Len(t), t[i] = g PROVE FALSE
      OBVIOUS
    <3>1. CASE i < k
      BY <2>5, <2>7, <2>8, <2>9, <3>1 DEF IsInjective
    <3>2. CASE ~(i < k)
      <4>1. s[i + 1] = g /\ i + 1 \in 1..Len(s) /\ i + 1 # k
        BY <2>5, <2>7, <2>8, <2>9, <3>2
      <4> QED BY <2>5, <2>9, <4>1 DEF IsInjective
    <3> QED BY <3>1, <3>2
  <2> QED BY <2>4, <2>7, <2>10, <2>11 DEF t
<1> QED BY <1>1, <1>2

\* A score, new or changed, leaves every generation in the index once.
LEMMA LatestFacts ==
    ASSUME index \in Seq(Generation), IsInjective(index), NEW g \in Generation
    PROVE  /\ Latest(g) \in Seq(Generation) /\ IsInjective(Latest(g))
           /\ Oldest(g) \in Seq(Generation) /\ IsInjective(Oldest(g))
<1> DEFINE t == RemoveFirst(index, g)
<1>1. t \in Seq(Generation) /\ IsInjective(t) /\ \A i \in 1..Len(t) : t[i] # g
  BY RemoveFirstFacts
<1> HIDE DEF t
<1>2. Append(t, g) \in Seq(Generation) /\ <<g>> \o t \in Seq(Generation)
  BY <1>1
<1>3. IsInjective(Append(t, g))
  BY <1>1 DEF IsInjective
<1>4. \A i \in 1..Len(<<g>> \o t) : (<<g>> \o t)[i] = IF i = 1 THEN g ELSE t[i - 1]
  BY <1>1
<1>5. DOMAIN (<<g>> \o t) = 1..(Len(t) + 1) /\ DOMAIN t = 1..Len(t) /\ Len(t) \in Nat
  BY <1>1
<1>6. IsInjective(<<g>> \o t)
  BY <1>1, <1>4, <1>5 DEF IsInjective
<1> QED BY <1>2, <1>3, <1>6 DEF Latest, Oldest, t

\* The rebuild that is appended is the last one, and the only one to come in.
LEMMA AppendFacts ==
    ASSUME NEW s \in Seq(Rebuild), NEW r \in Rebuild
    PROVE  /\ Append(s, r) \in Seq(Rebuild) /\ Append(s, r) # <<>>
           /\ ToSet(Append(s, r)) = ToSet(s) \cup {r} /\ Last(Append(s, r)) = r
<1>1. Append(s, r) \in Seq(Rebuild) /\ Len(Append(s, r)) = Len(s) + 1
  OBVIOUS
<1>3. Last(Append(s, r)) = r
  BY <1>1 DEF Last
<1>4. Append(s, r) # <<>>
  <2>1. Len(s) \in Nat /\ Len(<<>>) = 0
    OBVIOUS
  <2> QED BY <1>1, <2>1
<1>2. ToSet(Append(s, r)) = ToSet(s) \cup {r}
  <2>1. ASSUME NEW x \in ToSet(Append(s, r)) PROVE x \in ToSet(s) \cup {r}
    BY DEF ToSet
  <2>2. ASSUME NEW x \in ToSet(s) PROVE x \in ToSet(Append(s, r))
    <3>1. PICK i \in 1..Len(s) : x = s[i]
      BY DEF ToSet
    <3>2. Append(s, r)[i] = x /\ i \in DOMAIN Append(s, r)
      BY <3>1
    <3> QED BY <3>2 DEF ToSet
  <2>3. r \in ToSet(Append(s, r))
    <3>1. Append(s, r)[Len(s) + 1] = r /\ Len(s) + 1 \in DOMAIN Append(s, r)
      OBVIOUS
    <3> QED BY <3>1 DEF ToSet
  <2> QED BY <2>1, <2>2, <2>3
<1> QED BY <1>1, <1>2, <1>3, <1>4

-----------------------------------------------------------------------------
(* Each step keeps the invariant *)

\* The call of one rebuild comes to a place, with what it read and what was cut
\* from it; the calls of the others stay what they were.
Turned(r, pc, snap, cut) ==
    /\ work' \in [Rebuild -> WorkRecord]
    /\ work'[r].pc = pc /\ work'[r].snap = snap /\ work'[r].cut = cut
    /\ \A q \in Rebuild \ {r} : work'[q] = work[q]

\* The three ways in which an action changes a call.
LEMMA GoesEffect ==
    ASSUME work \in [Rebuild -> WorkRecord], NEW r \in Rebuild,
           NEW w \in WorkRecord, Goes(r, w)
    PROVE  Turned(r, w.pc, w.snap, w.cut)
BY DEF Goes, Turned

\* It goes on with all that it has.
LEMMA GoesToEffect ==
    ASSUME work \in [Rebuild -> WorkRecord], NEW r \in Rebuild,
           NEW pc \in {"off", "enter", "write", "activate", "fail", "end"}, GoesTo(r, pc)
    PROVE  Turned(r, pc, work[r].snap, work[r].cut)
<1> DEFINE w == [work[r] EXCEPT !.pc = pc]
<1>1. w \in WorkRecord /\ w.pc = pc /\ w.snap = work[r].snap /\ w.cut = work[r].cut
  BY DEF WorkRecord
<1>2. Goes(r, w)
  BY DEF GoesTo
<1> HIDE DEF w
<1> QED BY <1>1, <1>2, GoesEffect

\* It goes on with nothing.
LEMMA LeavesEffect ==
    ASSUME work \in [Rebuild -> WorkRecord], NEW r \in Rebuild,
           NEW pc \in {"off", "enter", "write", "activate", "fail", "end"}, Leaves(r, pc)
    PROVE  Turned(r, pc, {}, {})
<1> DEFINE w == [NoWork EXCEPT !.pc = pc]
<1>1. w \in WorkRecord /\ w.pc = pc /\ w.snap = {} /\ w.cut = {}
  BY DEF WorkRecord, NoWork
<1>2. Goes(r, w)
  BY DEF Leaves
<1> HIDE DEF w
<1> QED BY <1>1, <1>2, GoesEffect

\* At first nothing is stored.
LEMMA InitIInv == Init => IInv
<1> SUFFICES ASSUME Init PROVE IInv
  OBVIOUS
<1> USE GraphAssumption DEF Init, Idle, NoWork, NoSweep
<1>1. TypeOK
  <2>1. index \in Seq(Generation) /\ IsInjective(index)
    BY DEF IsInjective
  <2>2. /\ graph \in [Generation -> SUBSET Fact]
        /\ op \in [Rebuild -> {"none", "running", "completed", "failed"}]
    BY DEF Generation
  <2>3. proj \in ProjectionRecord /\ work \in [Rebuild -> WorkRecord] /\ sweep \in SweepRecord
    BY DEF ProjectionRecord, WorkRecord, SweepRecord
  <2>4. begun \in Seq(Rebuild)
    OBVIOUS
  <2>5. faults \in 0..MaxFaults /\ asking \subseteq facts /\ missed \subseteq facts
    OBVIOUS
  <2> QED BY <2>1, <2>2, <2>3, <2>4, <2>5 DEF TypeOK
<1>2. Generations /\ Rebuilds /\ Projecting
  BY DEF Generations, Rebuilds, Projecting
<1>3. Sweeping /\ NoneLost
  BY DEF Sweeping, NoneLost
<1> QED BY <1>1, <1>2, <1>3 DEF IInv

\* A new fact is on its way because its request has yet to ask.
LEMMA IngestStep ==
    ASSUME IInv, NEW f \in Fact, Ingest(f)
    PROVE  IInv'
<1> USE DEF IInv, Ingest, told
<1>1. TypeOK'
  BY GraphAssumption DEF TypeOK, Generation
<1>2. Generations'
  BY DEF Generations, Published, TypeOK
<1>3. Rebuilds' /\ Sweeping' /\ Projecting'
  BY DEF Rebuilds, Sweeping, Projecting, Generations, TypeOK, Generation
<1>4. NoneLost'
  BY DEF NoneLost, OnItsWay, Shown, Unseen, TypeOK
<1> QED BY <1>1, <1>2, <1>3, <1>4

\* The fact of a request that has asked is missed when the daemon is not ready, or
\* a projection is to look, or one is pending.
LEMMA ProjectStep ==
    ASSUME IInv, NEW f \in Fact, Project(f)
    PROVE  IInv'
<1> USE DEF IInv, Project, Idle, AfterWaiting, stored
<1>1. TypeOK'
  <2>1. /\ facts' = facts
        /\ missed' = missed \/ missed' = missed \cup {f}
        /\ pending' = pending \/ pending' = TRUE
    OBVIOUS
  <2>2. proj' = proj \/ proj' = [Idle EXCEPT !.pc = "look"]
    OBVIOUS
  <2>3. proj' \in ProjectionRecord
    BY <2>2 DEF ProjectionRecord, TypeOK
  <2>4. asking' \subseteq facts' /\ missed' \subseteq facts' /\ pending' \in BOOLEAN
    BY <2>1 DEF TypeOK
  <2> QED BY <2>1, <2>2, <2>3, <2>4, GraphAssumption DEF TypeOK
<1>2. Generations'
  BY GraphAssumption DEF Generations, Published, TypeOK, ProjectionRecord, Generation
<1>3. Rebuilds' /\ Sweeping'
  BY DEF Rebuilds, Sweeping, Generations, TypeOK, Generation
<1>4. Projecting'
  BY GraphAssumption DEF Projecting, Generations, TypeOK, ProjectionRecord, Generation
<1>5. NoneLost'
  BY DEF NoneLost, OnItsWay, Shown, Unseen, TypeOK
<1> QED BY <1>1, <1>2, <1>3, <1>4, <1>5

\* The projection found the pointer: what it will gather goes where readers look.
LEMMA LookStep ==
    ASSUME IInv, Look
    PROVE  IInv'
<1> USE DEF IInv, Look, told
<1>1. TypeOK'
  BY LatestFacts, GraphAssumption DEF TypeOK, ProjectionRecord, Generation
<1>2. Generations'
  BY GraphAssumption DEF Generations, Published, TypeOK, ProjectionRecord, Generation
<1>3. Rebuilds' /\ Sweeping'
  BY DEF Rebuilds, Sweeping, Generations, TypeOK, Generation
<1>4. Projecting'
  BY GraphAssumption DEF Projecting, Generations, TypeOK, ProjectionRecord, Generation
<1>5. NoneLost'
  BY DEF NoneLost, OnItsWay, Shown, Unseen, TypeOK
<1> QED BY <1>1, <1>2, <1>3, <1>4, <1>5

\* All that is stored is gathered, so that the old reading is a part of it and
\* every fact that readers do not see is in the difference.
LEMMA GatherStep ==
    ASSUME IInv, Gather
    PROVE  IInv'
<1> USE DEF IInv, Gather, stored, told
<1>1. TypeOK'
  BY GraphAssumption DEF TypeOK, ProjectionRecord, Generation, Projecting
<1>2. Generations'
  BY GraphAssumption DEF Generations, Published, TypeOK, ProjectionRecord, Generation
<1>3. Rebuilds' /\ Sweeping'
  BY DEF Rebuilds, Sweeping, Generations, TypeOK, Generation
<1>4. Projecting'
  BY GraphAssumption DEF Projecting, Generations, TypeOK, ProjectionRecord, Generation
<1>5. NoneLost'
  BY GraphAssumption DEF NoneLost, OnItsWay, Shown, Unseen, TypeOK, ProjectionRecord,
     Projecting, Generation
<1> QED BY <1>1, <1>2, <1>3, <1>4, <1>5

\* The difference only adds: what was read is among what is to be written.
LEMMA ReplaceStep ==
    ASSUME IInv, Replace
    PROVE  IInv'
<1> USE DEF IInv, Replace, Replaced
<1>1. TypeOK'
  BY GraphAssumption DEF TypeOK, ProjectionRecord, Generation, Projecting
<1>2. Generations'
  BY GraphAssumption DEF Generations, Published, TypeOK, ProjectionRecord, Generation,
     Projecting
<1>3. Rebuilds'
  BY GraphAssumption DEF Rebuilds, Generations, Published, TypeOK, ProjectionRecord,
     Generation, Projecting
<1>4. Sweeping'
  BY DEF Sweeping
<1>5. Projecting'
  BY GraphAssumption DEF Projecting, Generations, TypeOK, ProjectionRecord, Generation
<1>6. NoneLost'
  BY GraphAssumption DEF NoneLost, OnItsWay, Shown, Unseen, TypeOK, ProjectionRecord,
     Projecting, Generation
<1> QED BY <1>1, <1>2, <1>3, <1>4, <1>5, <1>6

\* Only the order of the generations changes.
LEMMA RecordGenerationStep ==
    ASSUME IInv, RecordGeneration
    PROVE  IInv'
<1> USE DEF IInv, RecordGeneration, told
<1>1. TypeOK'
  BY LatestFacts, GraphAssumption DEF TypeOK, ProjectionRecord, Generation, Projecting
<1>2. Generations'
  BY GraphAssumption DEF Generations, Published, TypeOK, ProjectionRecord, Generation
<1>3. Rebuilds' /\ Sweeping'
  BY DEF Rebuilds, Sweeping, Generations, TypeOK, Generation
<1>4. Projecting'
  BY GraphAssumption DEF Projecting, Generations, TypeOK, ProjectionRecord, Generation
<1>5. NoneLost'
  BY DEF NoneLost, OnItsWay, Shown, Unseen, TypeOK
<1> QED BY <1>1, <1>2, <1>3, <1>4, <1>5

\* A projection that failed is to report; until then nothing is quiet.
LEMMA ProjectionFailsStep ==
    ASSUME IInv, ProjectionFails
    PROVE  IInv'
<1> USE DEF IInv, ProjectionFails, Faulty, Idle, stored, told
<1>1. TypeOK'
  <2>1. proj' \in ProjectionRecord
    BY DEF ProjectionRecord
  <2>2. faults' \in 0..MaxFaults
    BY GraphAssumption DEF TypeOK
  <2> QED BY <2>1, <2>2, GraphAssumption DEF TypeOK
<1>2. Generations'
  BY GraphAssumption DEF Generations, Published, TypeOK, ProjectionRecord, Generation
<1>3. Rebuilds' /\ Sweeping'
  BY DEF Rebuilds, Sweeping, Generations, TypeOK, Generation
<1>4. Projecting'
  BY GraphAssumption DEF Projecting, Generations, TypeOK, ProjectionRecord, Generation
<1>5. NoneLost'
  BY DEF NoneLost, OnItsWay, Shown, Unseen, TypeOK
<1> QED BY <1>1, <1>2, <1>3, <1>4, <1>5

\* What a failed projection leaves out is told by the health.
LEMMA ReportStep ==
    ASSUME IInv, Report
    PROVE  IInv'
<1> USE DEF IInv, Report, told
<1>1. TypeOK'
  BY GraphAssumption DEF TypeOK, ProjectionRecord, Generation
<1>2. Generations'
  BY GraphAssumption DEF Generations, Published, TypeOK, ProjectionRecord, Generation
<1>3. Rebuilds' /\ Sweeping'
  BY DEF Rebuilds, Sweeping, Generations, TypeOK, Generation
<1>4. Projecting'
  BY GraphAssumption DEF Projecting, Generations, TypeOK, ProjectionRecord, Generation
<1>5. NoneLost'
  BY DEF NoneLost, OnItsWay, Shown, Unseen, TypeOK
<1> QED BY <1>1, <1>2, <1>3, <1>4, <1>5

\* All that readers do not see is given up with the report.
LEMMA ReportFailsStep ==
    ASSUME IInv, ReportFails
    PROVE  IInv'
<1> USE DEF IInv, ReportFails, Idle, Unseen, Shown, stored
<1>1. TypeOK'
  BY GraphAssumption DEF TypeOK, ProjectionRecord, Generation
<1>2. Generations'
  BY GraphAssumption DEF Generations, Published, TypeOK, ProjectionRecord, Generation
<1>3. Rebuilds' /\ Sweeping'
  BY DEF Rebuilds, Sweeping, Generations, TypeOK, Generation
<1>4. Projecting'
  BY GraphAssumption DEF Projecting, Generations, TypeOK, ProjectionRecord, Generation
<1>5. NoneLost'
  BY DEF NoneLost, OnItsWay, Shown, Unseen, TypeOK
<1> QED BY <1>1, <1>2, <1>3, <1>4, <1>5

\* The follow-up is to look, or what readers do not see is given up.
LEMMA FollowStep ==
    ASSUME IInv, Follow
    PROVE  IInv'
<1> USE DEF IInv, Follow, Idle, Unseen, Shown, stored
<1>1. TypeOK'
  BY GraphAssumption DEF TypeOK, ProjectionRecord, Generation
<1>2. Generations'
  BY GraphAssumption DEF Generations, Published, TypeOK, ProjectionRecord, Generation
<1>3. Rebuilds' /\ Sweeping'
  BY DEF Rebuilds, Sweeping, Generations, TypeOK, Generation
<1>4. Projecting'
  BY GraphAssumption DEF Projecting, Generations, TypeOK, ProjectionRecord, Generation
<1>5. NoneLost'
  BY DEF NoneLost, OnItsWay, Shown, Unseen, TypeOK
<1> QED BY <1>1, <1>2, <1>3, <1>4, <1>5

\* The rebuild takes the lock when nobody holds it, and is the last that did.
LEMMA BeginStep ==
    ASSUME IInv, NEW r \in Rebuild, Begin(r)
    PROVE  IInv'
<1> USE DEF IInv, Begin
<1>1. Turned(r, "enter", work[r].snap, work[r].cut)
  BY GoesToEffect DEF TypeOK
<1>2. /\ begun' \in Seq(Rebuild) /\ begun' # <<>> /\ Last(begun') = r
      /\ ToSet(begun') = ToSet(begun) \cup {r}
  BY AppendFacts DEF TypeOK
<1>3. TypeOK'
  BY <1>1, <1>2, GraphAssumption DEF TypeOK, Turned, Generation
<1>4. Generations'
  <2>1. \A g \in Generation : graph'[g] \subseteq facts'
    BY GraphAssumption DEF Generations, Rebuilds, TypeOK, Generation
  <2>2. r \in Rebuild /\ r # Initial
    BY GraphAssumption
  <2>3. \A g \in Generation : Published(g) => Published(g)'
    BY <1>1, <1>2, <2>2, GraphAssumption DEF Published, Turned
  <2>4. active' # None => Published(active)'
    BY <1>1, <1>2, <2>2, <2>3, GraphAssumption
    DEF Generations, TypeOK, Published, Turned, Generation
  <2>5. proj'.pc \in {"gather", "replace", "record"} => Published(proj.gen)'
    BY <2>3 DEF Generations, Projecting, TypeOK
  <2>6. \A q \in Rebuild : q \notin ToSet(begun') => work'[q].pc = "off"
    BY <1>1, <1>2 DEF Generations, Turned
  <2>7. lock' # None => begun' # <<>> /\ lock' = Last(begun')
    BY <1>1, <1>2 DEF Generations
  <2> QED BY <2>1, <2>4, <2>5, <2>6, <2>7 DEF Generations
<1>5. Rebuilds'
  BY <1>1 DEF Rebuilds, Generations, TypeOK, Turned, Generation
<1>6. Sweeping' /\ Projecting'
  BY DEF Sweeping, Projecting, Generations, TypeOK
<1>7. NoneLost'
  BY DEF NoneLost, OnItsWay, Shown, Unseen, TypeOK
<1> QED BY <1>3, <1>4, <1>5, <1>6, <1>7

\* What the rebuild reads is stored.
LEMMA EnterStep ==
    ASSUME IInv, NEW r \in Rebuild, Enter(r)
    PROVE  IInv'
<1> USE DEF IInv, Enter, At, Sound, Faulty, told
<1>1. \/ Turned(r, "write", facts, work[r].cut) \/ Turned(r, "off", work[r].snap, work[r].cut)
  <2>1. CASE Goes(r, [work[r] EXCEPT !.pc = "write", !.snap = facts])
    <3> DEFINE w == [work[r] EXCEPT !.pc = "write", !.snap = facts]
    <3>1. w \in WorkRecord /\ w.pc = "write" /\ w.snap = facts /\ w.cut = work[r].cut
      BY DEF TypeOK, WorkRecord
    <3>2. Goes(r, w)
      BY <2>1
    <3> HIDE DEF w
    <3> QED BY <3>1, <3>2, GoesEffect DEF TypeOK
  <2>2. CASE GoesTo(r, "off")
    BY <2>2, GoesToEffect DEF TypeOK
  <2> QED BY <2>1, <2>2
<1>2. TypeOK'
  BY <1>1, GraphAssumption DEF TypeOK, Turned, Generation
<1>3. Generations'
  <2>1. \A g \in Generation : graph'[g] \subseteq facts'
    BY GraphAssumption DEF Generations, Rebuilds, TypeOK, Generation
  <2>2. r \in Rebuild /\ r # Initial
    BY GraphAssumption
  <2>3. \A g \in Generation : Published(g) => Published(g)'
    BY <1>1, <2>2, GraphAssumption DEF Published, Turned
  <2>4. active' # None => Published(active)'
    BY <1>1, <2>2, <2>3, GraphAssumption
    DEF Generations, TypeOK, Published, Turned, Generation
  <2>5. proj'.pc \in {"gather", "replace", "record"} => Published(proj.gen)'
    BY <2>3 DEF Generations, Projecting, TypeOK
  <2>6. \A q \in Rebuild : q \notin ToSet(begun') => work'[q].pc = "off"
    BY <1>1 DEF Generations, Turned
  <2>7. lock' # None => begun' # <<>> /\ lock' = Last(begun')
    BY <1>1 DEF Generations
  <2> QED BY <2>1, <2>4, <2>5, <2>6, <2>7 DEF Generations
<1>4. Rebuilds'
  BY <1>1 DEF Rebuilds, Generations, TypeOK, Turned, Generation
<1>5. Sweeping' /\ Projecting'
  BY DEF Sweeping, Projecting, Generations, TypeOK
<1>6. NoneLost'
  BY DEF NoneLost, OnItsWay, Shown, Unseen, TypeOK
<1> QED BY <1>2, <1>3, <1>4, <1>5, <1>6

\* A rebuild that gives up activates nothing.
LEMMA LosesHeartStep ==
    ASSUME IInv, NEW r \in Rebuild, LosesHeart(r)
    PROVE  IInv'
<1> USE DEF IInv, LosesHeart, At, stored, told
<1>1. Turned(r, "fail", {}, {})
  BY LeavesEffect DEF TypeOK
<1>2. TypeOK'
  BY <1>1, GraphAssumption DEF TypeOK, Turned, Generation
<1>3. Generations'
  <2>1. \A g \in Generation : graph'[g] \subseteq facts'
    BY GraphAssumption DEF Generations, Rebuilds, TypeOK, Generation
  <2>2. r \in Rebuild /\ r # Initial
    BY GraphAssumption
  <2>3. \A g \in Generation : Published(g) => Published(g)'
    BY <1>1, <2>2, GraphAssumption DEF Published, Turned
  <2>4. active' # None => Published(active)'
    BY <1>1, <2>2, <2>3, GraphAssumption
    DEF Generations, TypeOK, Published, Turned, Generation
  <2>5. proj'.pc \in {"gather", "replace", "record"} => Published(proj.gen)'
    BY <2>3 DEF Generations, Projecting, TypeOK
  <2>6. \A q \in Rebuild : q \notin ToSet(begun') => work'[q].pc = "off"
    BY <1>1 DEF Generations, Turned
  <2>7. lock' # None => begun' # <<>> /\ lock' = Last(begun')
    BY <1>1 DEF Generations
  <2> QED BY <2>1, <2>4, <2>5, <2>6, <2>7 DEF Generations
<1>4. Rebuilds'
  BY <1>1 DEF Rebuilds, Generations, TypeOK, Turned, Generation
<1>5. Sweeping' /\ Projecting'
  BY DEF Sweeping, Projecting, Generations, TypeOK
<1>6. NoneLost'
  BY DEF NoneLost, OnItsWay, Shown, Unseen, TypeOK
<1> QED BY <1>2, <1>3, <1>4, <1>5, <1>6

\* Validation sees the snapshot in the generation: nothing has been cut from it.
LEMMA ValidateStep ==
    ASSUME IInv, NEW r \in Rebuild, Validate(r)
    PROVE  IInv'
<1> USE DEF IInv, Validate, At, Valid, stored, told
<1>1. \/ Turned(r, "activate", work[r].snap, {}) /\ graph[r] = work[r].snap
      \/ Turned(r, "fail", {}, {})
  <2>1. CASE Valid(r)
    <3> DEFINE w == [NoWork EXCEPT !.pc = "activate", !.snap = work[r].snap]
    <3>1. w \in WorkRecord /\ w.pc = "activate" /\ w.snap = work[r].snap /\ w.cut = {}
      BY DEF TypeOK, WorkRecord, NoWork
    <3>2. Goes(r, w)
      BY <2>1
    <3> HIDE DEF w
    <3> QED BY <2>1, <3>1, <3>2, GoesEffect DEF TypeOK
  <2>2. CASE ~Valid(r)
    <3>1. Leaves(r, "fail")
      BY <2>2 DEF Leaves
    <3> QED BY <3>1, LeavesEffect DEF TypeOK
  <2> QED BY <2>1, <2>2
<1>2. TypeOK'
  BY <1>1, GraphAssumption DEF TypeOK, Turned, Generation
<1>3. Generations'
  <2>1. \A g \in Generation : graph'[g] \subseteq facts'
    BY GraphAssumption DEF Generations, Rebuilds, TypeOK, Generation
  <2>2. r \in Rebuild /\ r # Initial
    BY GraphAssumption
  <2>3. \A g \in Generation : Published(g) => Published(g)'
    BY <1>1, <2>2, GraphAssumption DEF Published, Turned
  <2>4. active' # None => Published(active)'
    BY <1>1, <2>2, <2>3, GraphAssumption
    DEF Generations, TypeOK, Published, Turned, Generation
  <2>5. proj'.pc \in {"gather", "replace", "record"} => Published(proj.gen)'
    BY <2>3 DEF Generations, Projecting, TypeOK
  <2>6. \A q \in Rebuild : q \notin ToSet(begun') => work'[q].pc = "off"
    BY <1>1 DEF Generations, Turned
  <2>7. lock' # None => begun' # <<>> /\ lock' = Last(begun')
    BY <1>1 DEF Generations
  <2> QED BY <2>1, <2>4, <2>5, <2>6, <2>7 DEF Generations
<1>4. Rebuilds'
  BY <1>1 DEF Rebuilds, Generations, TypeOK, Turned, Generation
<1>5. Sweeping' /\ Projecting'
  BY DEF Sweeping, Projecting, Generations, TypeOK
<1>6. NoneLost'
  BY DEF NoneLost, OnItsWay, Shown, Unseen, TypeOK
<1> QED BY <1>2, <1>3, <1>4, <1>5, <1>6

\* What the activation hides is not in the snapshot, or was cut from the generation
\* after the validation: both are missed.
LEMMA ActivateStep ==
    ASSUME IInv, NEW r \in Rebuild, Activate(r)
    PROVE  IInv'
<1> USE DEF IInv, Activate, At, Owns, Unseen, Sound, Faulty
<1>1. Turned(r, "end", {}, {}) \/ Turned(r, "fail", {}, {})
  BY LeavesEffect DEF TypeOK
<1>2. TypeOK'
  <2>1. facts' \subseteq Fact /\ missed' \subseteq facts' /\ asking' \subseteq facts'
    BY DEF TypeOK, Rebuilds
  <2>2. op' \in [Rebuild -> {"none", "running", "completed", "failed"}]
    BY DEF TypeOK
  <2>3. active' \in Generation \cup {None} /\ lock' \in Rebuild \cup {None}
    BY DEF TypeOK, Generation
  <2>4. faults' \in 0..MaxFaults
    BY GraphAssumption DEF TypeOK
  <2>5. work' \in [Rebuild -> WorkRecord]
    BY <1>1 DEF Turned
  <2> QED BY <2>1, <2>2, <2>3, <2>4, <2>5 DEF TypeOK
<1>3. Generations'
  <2>1. \A g \in Generation : graph'[g] \subseteq facts'
    BY GraphAssumption DEF Generations, Rebuilds, TypeOK, Generation
  <2>2. r \in Rebuild /\ r # Initial
    BY GraphAssumption
  <2>3. \A g \in Generation : Published(g) => Published(g)'
    BY <1>1, <2>2, GraphAssumption DEF Published, Turned, TypeOK, Generation
  <2>4. active' # None => Published(active)'
    BY <1>1, <2>2, <2>3, GraphAssumption
    DEF Generations, TypeOK, Published, Turned, Generation
  <2>5. proj'.pc \in {"gather", "replace", "record"} => Published(proj.gen)'
    BY <2>3 DEF Generations, Projecting, TypeOK
  <2>6. \A q \in Rebuild : q \notin ToSet(begun') => work'[q].pc = "off"
    BY <1>1 DEF Generations, Turned
  <2>7. lock' # None => begun' # <<>> /\ lock' = Last(begun')
    BY <1>1 DEF Generations
  <2> QED BY <2>1, <2>4, <2>5, <2>6, <2>7 DEF Generations
<1>4. Rebuilds'
  BY <1>1 DEF Rebuilds, Generations, TypeOK, Turned, Generation
<1>5. Sweeping' /\ Projecting'
  BY DEF Sweeping, Projecting, Generations, TypeOK
<1>6. NoneLost'
  <2>1. CASE lock = r
    <3> SUFFICES ASSUME NEW f \in facts, f \notin missed' PROVE f \in graph[r]
      BY <2>1, GraphAssumption DEF NoneLost, Shown, TypeOK, Generation
    <3> QED BY <2>1 DEF Rebuilds, TypeOK, Unseen
  <2>2. CASE lock # r
    BY <2>2 DEF NoneLost, OnItsWay, Shown, TypeOK
  <2> QED BY <2>1, <2>2
<1> QED BY <1>2, <1>3, <1>4, <1>5, <1>6

\* A failure is recorded by the owner, with the health.
LEMMA RecordFailureStep ==
    ASSUME IInv, NEW r \in Rebuild, RecordFailure(r)
    PROVE  IInv'
<1> USE DEF IInv, RecordFailure, At, Owns, told
<1>1. Turned(r, "end", {}, {})
  BY LeavesEffect DEF TypeOK
<1>2. TypeOK'
  BY <1>1, GraphAssumption DEF TypeOK, Turned, Generation
<1>3. Generations'
  <2>1. \A g \in Generation : graph'[g] \subseteq facts'
    BY GraphAssumption DEF Generations, Rebuilds, TypeOK, Generation
  <2>2. r \in Rebuild /\ r # Initial
    BY GraphAssumption
  <2>3. \A g \in Generation : Published(g) => Published(g)'
    BY <1>1, <2>2, GraphAssumption DEF Published, Turned
  <2>4. active' # None => Published(active)'
    BY <1>1, <2>2, <2>3, GraphAssumption
    DEF Generations, TypeOK, Published, Turned, Generation
  <2>5. proj'.pc \in {"gather", "replace", "record"} => Published(proj.gen)'
    BY <2>3 DEF Generations, Projecting, TypeOK
  <2>6. \A q \in Rebuild : q \notin ToSet(begun') => work'[q].pc = "off"
    BY <1>1 DEF Generations, Turned
  <2>7. lock' # None => begun' # <<>> /\ lock' = Last(begun')
    BY <1>1 DEF Generations
  <2> QED BY <2>1, <2>4, <2>5, <2>6, <2>7 DEF Generations
<1>4. Rebuilds'
  BY <1>1 DEF Rebuilds, Generations, TypeOK, Turned, Generation
<1>5. Sweeping' /\ Projecting'
  BY DEF Sweeping, Projecting, Generations, TypeOK
<1>6. NoneLost'
  BY DEF NoneLost, OnItsWay, Shown, Unseen, TypeOK
<1> QED BY <1>2, <1>3, <1>4, <1>5, <1>6

\* A rebuild that fails activates nothing.
LEMMA RebuildFailsStep ==
    ASSUME IInv, NEW r \in Rebuild, RebuildFails(r)
    PROVE  IInv'
<1> USE DEF IInv, RebuildFails, Renewing, Faulty, At, stored, told
<1>1. Turned(r, "end", {}, {}) \/ Turned(r, "fail", {}, {})
  BY LeavesEffect DEF TypeOK
<1>2. TypeOK'
  BY <1>1, GraphAssumption DEF TypeOK, Turned, Generation
<1>3. Generations'
  <2>1. \A g \in Generation : graph'[g] \subseteq facts'
    BY GraphAssumption DEF Generations, Rebuilds, TypeOK, Generation
  <2>2. r \in Rebuild /\ r # Initial
    BY GraphAssumption
  <2>3. \A g \in Generation : Published(g) => Published(g)'
    BY <1>1, <2>2, GraphAssumption DEF Published, Turned
  <2>4. active' # None => Published(active)'
    BY <1>1, <2>2, <2>3, GraphAssumption
    DEF Generations, TypeOK, Published, Turned, Generation
  <2>5. proj'.pc \in {"gather", "replace", "record"} => Published(proj.gen)'
    BY <2>3 DEF Generations, Projecting, TypeOK
  <2>6. \A q \in Rebuild : q \notin ToSet(begun') => work'[q].pc = "off"
    BY <1>1 DEF Generations, Turned
  <2>7. lock' # None => begun' # <<>> /\ lock' = Last(begun')
    BY <1>1 DEF Generations
  <2> QED BY <2>1, <2>4, <2>5, <2>6, <2>7 DEF Generations
<1>4. Rebuilds'
  BY <1>1 DEF Rebuilds, Generations, TypeOK, Turned, Generation
<1>5. Sweeping' /\ Projecting'
  BY DEF Sweeping, Projecting, Generations, TypeOK
<1>6. NoneLost'
  BY DEF NoneLost, OnItsWay, Shown, Unseen, TypeOK
<1> QED BY <1>2, <1>3, <1>4, <1>5, <1>6

\* Losing the lock changes nothing else.
LEMMA RenewStep ==
    ASSUME IInv, NEW r \in Rebuild, Renew(r)
    PROVE  IInv'
<1> USE DEF IInv, Renew, At, stored, told
<1>1. Turned(r, work[r].pc, work[r].snap, work[r].cut)
  <2> DEFINE w == [work[r] EXCEPT !.lost = TRUE]
  <2>1. w \in WorkRecord /\ w.pc = work[r].pc /\ w.snap = work[r].snap /\ w.cut = work[r].cut
    BY DEF TypeOK, WorkRecord
  <2>2. Goes(r, w)
    OBVIOUS
  <2> HIDE DEF w
  <2> QED BY <2>1, <2>2, GoesEffect DEF TypeOK
<1>2. TypeOK'
  BY <1>1, GraphAssumption DEF TypeOK, Turned, Generation
<1>3. Generations'
  <2>1. \A g \in Generation : graph'[g] \subseteq facts'
    BY GraphAssumption DEF Generations, Rebuilds, TypeOK, Generation
  <2>2. r \in Rebuild /\ r # Initial
    BY GraphAssumption
  <2>3. \A g \in Generation : Published(g) => Published(g)'
    BY <1>1, <2>2, GraphAssumption DEF Published, Turned
  <2>4. active' # None => Published(active)'
    BY <1>1, <2>2, <2>3, GraphAssumption
    DEF Generations, TypeOK, Published, Turned, Generation
  <2>5. proj'.pc \in {"gather", "replace", "record"} => Published(proj.gen)'
    BY <2>3 DEF Generations, Projecting, TypeOK
  <2>6. \A q \in Rebuild : q \notin ToSet(begun') => work'[q].pc = "off"
    BY <1>1 DEF Generations, Turned
  <2>7. lock' # None => begun' # <<>> /\ lock' = Last(begun')
    BY <1>1 DEF Generations
  <2> QED BY <2>1, <2>4, <2>5, <2>6, <2>7 DEF Generations
<1>4. Rebuilds'
  BY <1>1 DEF Rebuilds, Generations, TypeOK, Turned, Generation
<1>5. Sweeping' /\ Projecting'
  BY DEF Sweeping, Projecting, Generations, TypeOK
<1>6. NoneLost'
  BY DEF NoneLost, OnItsWay, Shown, Unseen, TypeOK
<1> QED BY <1>2, <1>3, <1>4, <1>5, <1>6

\* A renewal that fails counts as a lock lost.
LEMMA RenewFailsStep ==
    ASSUME IInv, NEW r \in Rebuild, RenewFails(r)
    PROVE  IInv'
<1> USE DEF IInv, RenewFails, At, Faulty, stored, told
<1>1. Turned(r, work[r].pc, work[r].snap, work[r].cut)
  <2> DEFINE w == [work[r] EXCEPT !.lost = TRUE]
  <2>1. w \in WorkRecord /\ w.pc = work[r].pc /\ w.snap = work[r].snap /\ w.cut = work[r].cut
    BY DEF TypeOK, WorkRecord
  <2>2. Goes(r, w)
    OBVIOUS
  <2> HIDE DEF w
  <2> QED BY <2>1, <2>2, GoesEffect DEF TypeOK
<1>2. TypeOK'
  BY <1>1, GraphAssumption DEF TypeOK, Turned, Generation
<1>3. Generations'
  <2>1. \A g \in Generation : graph'[g] \subseteq facts'
    BY GraphAssumption DEF Generations, Rebuilds, TypeOK, Generation
  <2>2. r \in Rebuild /\ r # Initial
    BY GraphAssumption
  <2>3. \A g \in Generation : Published(g) => Published(g)'
    BY <1>1, <2>2, GraphAssumption DEF Published, Turned
  <2>4. active' # None => Published(active)'
    BY <1>1, <2>2, <2>3, GraphAssumption
    DEF Generations, TypeOK, Published, Turned, Generation
  <2>5. proj'.pc \in {"gather", "replace", "record"} => Published(proj.gen)'
    BY <2>3 DEF Generations, Projecting, TypeOK
  <2>6. \A q \in Rebuild : q \notin ToSet(begun') => work'[q].pc = "off"
    BY <1>1 DEF Generations, Turned
  <2>7. lock' # None => begun' # <<>> /\ lock' = Last(begun')
    BY <1>1 DEF Generations
  <2> QED BY <2>1, <2>4, <2>5, <2>6, <2>7 DEF Generations
<1>4. Rebuilds'
  BY <1>1 DEF Rebuilds, Generations, TypeOK, Turned, Generation
<1>5. Sweeping' /\ Projecting'
  BY DEF Sweeping, Projecting, Generations, TypeOK
<1>6. NoneLost'
  BY DEF NoneLost, OnItsWay, Shown, Unseen, TypeOK
<1> QED BY <1>2, <1>3, <1>4, <1>5, <1>6

\* A rebuild writes facts that are stored, to a generation that nobody reads.
LEMMA WriteStep ==
    ASSUME IInv, NEW r \in Rebuild, NEW i \in Fact, Write(r, i)
    PROVE  IInv'
<1> USE DEF IInv, Write, At, told
<1>1. Turned(r, work[r].pc, work[r].snap, work[r].cut)
  <2> DEFINE w == [work[r] EXCEPT !.written = @ \cup {i}]
  <2>1. w \in WorkRecord /\ w.pc = work[r].pc /\ w.snap = work[r].snap /\ w.cut = work[r].cut
    BY DEF TypeOK, WorkRecord
  <2>2. Goes(r, w)
    OBVIOUS
  <2> HIDE DEF w
  <2> QED BY <2>1, <2>2, GoesEffect DEF TypeOK
<1>2. TypeOK'
  BY <1>1, LatestFacts, GraphAssumption DEF TypeOK, Turned, Generation
<1>3. Generations'
  <2>1. \A g \in Generation : graph'[g] \subseteq facts'
    BY GraphAssumption DEF Generations, Rebuilds, TypeOK, Generation
  <2>2. r \in Rebuild /\ r # Initial
    BY GraphAssumption
  <2>3. \A g \in Generation : Published(g) => Published(g)'
    BY <1>1, <2>2, GraphAssumption DEF Published, Turned
  <2>4. active' # None => Published(active)'
    BY <1>1, <2>2, <2>3, GraphAssumption
    DEF Generations, TypeOK, Published, Turned, Generation
  <2>5. proj'.pc \in {"gather", "replace", "record"} => Published(proj.gen)'
    BY <2>3 DEF Generations, Projecting, TypeOK
  <2>6. \A q \in Rebuild : q \notin ToSet(begun') => work'[q].pc = "off"
    BY <1>1 DEF Generations, Turned
  <2>7. lock' # None => begun' # <<>> /\ lock' = Last(begun')
    BY <1>1 DEF Generations
  <2> QED BY <2>1, <2>4, <2>5, <2>6, <2>7 DEF Generations
<1>4. Rebuilds'
  BY <1>1 DEF Rebuilds, Generations, TypeOK, Turned, Generation
<1>5. Sweeping' /\ Projecting'
  BY DEF Sweeping, Projecting, Generations, TypeOK
<1>6. NoneLost'
  BY DEF NoneLost, OnItsWay, Shown, Unseen, TypeOK
<1> QED BY <1>2, <1>3, <1>4, <1>5, <1>6

\* A lock that expires leaves no owner.
LEMMA ExpireStep ==
    ASSUME IInv, Expire
    PROVE  IInv'
<1> USE DEF IInv, Expire, Renewing, Faulty, Sound, told
<1>1. TypeOK'
  BY GraphAssumption DEF TypeOK, Generation
<1>2. Generations'
  BY DEF Generations, Published, TypeOK
<1>3. Rebuilds' /\ Sweeping' /\ Projecting'
  BY DEF Rebuilds, Sweeping, Projecting, Generations, TypeOK, Generation
<1>4. NoneLost'
  BY DEF NoneLost, OnItsWay, Shown, Unseen, TypeOK
<1> QED BY <1>1, <1>2, <1>3, <1>4

\* The pointer that retention read is not among what it will delete.
LEMMA ChooseStep ==
    ASSUME IInv, Choose
    PROVE  IInv'
<1> USE DEF IInv, Choose, Kept, Sweeps, NoSweep, stored, told
<1>1. TypeOK'
  <2>1. ToSet(index) \subseteq Generation
    BY DEF TypeOK, ToSet
  <2>2. sweep' \in SweepRecord
    BY <2>1 DEF TypeOK, SweepRecord
  <2> QED BY <2>1, <2>2, GraphAssumption DEF TypeOK
<1>2. Generations'
  BY DEF Generations, Published, TypeOK
<1>3. Rebuilds' /\ Sweeping' /\ Projecting'
  BY DEF Rebuilds, Sweeping, Projecting, Generations, TypeOK, Generation
<1>4. NoneLost'
  BY DEF NoneLost, OnItsWay, Shown, Unseen, TypeOK
<1> QED BY <1>1, <1>2, <1>3, <1>4

\* The next generation is one of those that are left.
LEMMA ForgetStep ==
    ASSUME IInv, Forget
    PROVE  IInv'
<1> USE DEF IInv, Forget, Sweeps, NoSweep, told
<1>1. TypeOK'
  <2>1. index' \in Seq(Generation) /\ IsInjective(index')
    BY RemoveFirstFacts DEF TypeOK, SweepRecord, Sweeping
  <2>2. sweep' \in SweepRecord
    BY GraphAssumption DEF TypeOK, SweepRecord
  <2> QED BY <2>1, <2>2, GraphAssumption DEF TypeOK
<1>2. Generations'
  BY DEF Generations, Published, TypeOK
<1>3. Rebuilds' /\ Sweeping' /\ Projecting'
  BY DEF Rebuilds, Sweeping, Projecting, Generations, TypeOK, Generation
<1>4. NoneLost'
  BY DEF NoneLost, OnItsWay, Shown, Unseen, TypeOK
<1> QED BY <1>1, <1>2, <1>3, <1>4

\* A retention that fails leaves nothing chosen.
LEMMA SweepFailsStep ==
    ASSUME IInv, SweepFails
    PROVE  IInv'
<1> USE DEF IInv, SweepFails, Faulty, Sweeps, NoSweep, stored, told
<1>1. TypeOK'
  BY GraphAssumption DEF TypeOK, SweepRecord, WorkRecord, ProjectionRecord, Generation
<1>2. Generations'
  BY DEF Generations, Published, TypeOK
<1>3. Rebuilds' /\ Sweeping' /\ Projecting'
  BY DEF Rebuilds, Sweeping, Projecting, Generations, TypeOK, Generation
<1>4. NoneLost'
  BY DEF NoneLost, OnItsWay, Shown, Unseen, TypeOK
<1> QED BY <1>1, <1>2, <1>3, <1>4

\* Recovering changes the mode alone.
LEMMA RecoverStep ==
    ASSUME IInv, Recover
    PROVE  IInv'
<1> USE DEF IInv, Recover, Faulty, stored, told
<1>1. TypeOK'
  BY GraphAssumption DEF TypeOK, Generation
<1>2. Generations'
  BY DEF Generations, Published, TypeOK
<1>3. Rebuilds' /\ Sweeping' /\ Projecting'
  BY DEF Rebuilds, Sweeping, Projecting, Generations, TypeOK, Generation
<1>4. NoneLost'
  BY DEF NoneLost, OnItsWay, Shown, Unseen, TypeOK
<1> QED BY <1>1, <1>2, <1>3, <1>4

\* So does its end.
LEMMA RecoveredStep ==
    ASSUME IInv, Recovered
    PROVE  IInv'
<1> USE DEF IInv, Recovered, stored, told
<1>1. TypeOK'
  BY GraphAssumption DEF TypeOK, Generation
<1>2. Generations'
  BY DEF Generations, Published, TypeOK
<1>3. Rebuilds' /\ Sweeping' /\ Projecting'
  BY DEF Rebuilds, Sweeping, Projecting, Generations, TypeOK, Generation
<1>4. NoneLost'
  BY DEF NoneLost, OnItsWay, Shown, Unseen, TypeOK
<1> QED BY <1>1, <1>2, <1>3, <1>4

\* All that is on its way but not visible is given up by a crash.
LEMMA CrashStep ==
    ASSUME IInv, Crash
    PROVE  IInv'
<1> USE DEF IInv, Crash, Faulty, Idle, NoWork, NoSweep, Unseen, Shown, stored
<1>1. TypeOK'
  <2>1. proj' \in ProjectionRecord
    BY DEF ProjectionRecord
  <2>2. work' \in [Rebuild -> WorkRecord]
    BY DEF WorkRecord
  <2>3. sweep' \in SweepRecord
    BY DEF SweepRecord
  <2>4. faults' \in 0..MaxFaults
    BY GraphAssumption DEF TypeOK
  <2>5. missed' \subseteq facts' /\ asking' \subseteq facts'
    BY DEF TypeOK
  <2> QED BY <2>1, <2>2, <2>3, <2>4, <2>5, GraphAssumption DEF TypeOK
<1>2. Generations'
  BY GraphAssumption DEF Generations, Published, TypeOK, WorkRecord, Generation
<1>3. Rebuilds' /\ Sweeping' /\ Projecting'
  BY DEF Rebuilds, Sweeping, Projecting, Generations, TypeOK, Generation
<1>4. NoneLost'
  BY DEF NoneLost, OnItsWay, Shown, Unseen, TypeOK
<1> QED BY <1>1, <1>2, <1>3, <1>4

\* A start changes the mode alone.
LEMMA StartStep ==
    ASSUME IInv, Start
    PROVE  IInv'
<1> USE DEF IInv, Start, stored, told
<1>1. TypeOK'
  BY GraphAssumption DEF TypeOK, Generation
<1>2. Generations'
  BY DEF Generations, Published, TypeOK
<1>3. Rebuilds' /\ Sweeping' /\ Projecting'
  BY DEF Rebuilds, Sweeping, Projecting, Generations, TypeOK, Generation
<1>4. NoneLost'
  BY DEF NoneLost, OnItsWay, Shown, Unseen, TypeOK
<1> QED BY <1>1, <1>2, <1>3, <1>4

\* The generation picked is one that was chosen.
LEMMA PickStep ==
    ASSUME IInv, NEW g \in Generation, Pick(g)
    PROVE  IInv'
<1> USE DEF IInv, Pick, Sweeps, stored, told
<1>0. sweep' \in SweepRecord
  BY GraphAssumption DEF TypeOK, SweepRecord, Generation
<1>1. TypeOK'
  BY <1>0 DEF TypeOK
<1>2. Generations'
  BY DEF Generations, Published, TypeOK
<1>3. Rebuilds' /\ Sweeping' /\ Projecting'
  BY DEF Rebuilds, Sweeping, Projecting, Generations, TypeOK, Generation
<1>4. NoneLost'
  BY DEF NoneLost, OnItsWay, Shown, Unseen, TypeOK
<1> QED BY <1>1, <1>2, <1>3, <1>4

\* An item goes from the active generation into missed, and from a generation that
\* awaits its activation into what was cut from it.
LEMMA RemoveItemStep ==
    ASSUME IInv, NEW i \in Fact, RemoveItem(i)
    PROVE  IInv'
<1> USE DEF IInv, RemoveItem, Sweeps, At
<1>1. TypeOK'
  <2>1. /\ graph' \in [Generation -> SUBSET Fact] /\ sweep.gen \in Generation
        /\ graph[sweep.gen] \in SUBSET facts
    BY DEF TypeOK, Sweeping, SweepRecord, Generations
  <2>2. sweep' \in SweepRecord
    BY DEF TypeOK, SweepRecord
  <2>3. missed' \subseteq facts'
    BY <2>1 DEF TypeOK, Generations
  <2>4. work' \in [Rebuild -> WorkRecord]
  <3>1. CASE sweep.gen \in Rebuild /\ At(sweep.gen, "activate")
      <4> DEFINE k == [work[sweep.gen] EXCEPT !.cut = @ \cup (graph[sweep.gen] \cap {i})]
      <4>1. k \in WorkRecord
        <5>1. work[sweep.gen] \in WorkRecord /\ graph[sweep.gen] \subseteq Fact
          BY <2>1, <3>1 DEF TypeOK
        <5> QED BY <5>1 DEF WorkRecord
      <4>2. work' = [work EXCEPT ![sweep.gen] = k]
        BY <3>1
      <4> HIDE DEF k
      <4> QED BY <3>1, <4>1, <4>2 DEF TypeOK
    <3>2. CASE ~(sweep.gen \in Rebuild /\ At(sweep.gen, "activate"))
      BY <3>2 DEF TypeOK
    <3> QED BY <3>1, <3>2
  <2> QED BY <2>1, <2>2, <2>3, <2>4, GraphAssumption DEF TypeOK
<1>2. Generations'
  BY DEF Generations, Published, TypeOK
<1>3. Rebuilds' /\ Sweeping' /\ Projecting'
  BY DEF Rebuilds, Sweeping, Projecting, Generations, TypeOK, Generation
<1>4. NoneLost'
  BY DEF NoneLost, OnItsWay, Shown, Unseen, TypeOK
<1> QED BY <1>1, <1>2, <1>3, <1>4

\* A step that changes nothing.
LEMMA StutterStep == IInv /\ UNCHANGED vars => IInv'
<1> SUFFICES ASSUME IInv, UNCHANGED vars PROVE IInv'
  OBVIOUS
<1> USE DEF IInv, vars, stored, told
<1>1. TypeOK'
  BY DEF TypeOK
<1>2. Generations'
  BY DEF Generations, Published
<1>3. Rebuilds' /\ Sweeping' /\ Projecting'
  BY DEF Rebuilds, Sweeping, Projecting
<1>4. NoneLost'
  BY DEF NoneLost, OnItsWay, Shown
<1> QED BY <1>1, <1>2, <1>3, <1>4

\* Every step keeps the invariant.
LEMMA StepIInv == IInv /\ [Next]_vars => IInv'
<1> SUFFICES ASSUME IInv, [Next]_vars PROVE IInv'
  OBVIOUS
<1>1. ASSUME NEW f \in Fact, Ingest(f) \/ Project(f) PROVE IInv'
  BY <1>1, IngestStep, ProjectStep
<1>2. CASE ProjectionStep \/ ProjectionFails \/ ReportFails
  BY <1>2, LookStep, GatherStep, ReplaceStep, RecordGenerationStep, ReportStep, FollowStep,
     ProjectionFailsStep, ReportFailsStep DEF ProjectionStep
<1>3. ASSUME NEW r \in Rebuild,
             Begin(r) \/ RebuildStep(r) \/ RebuildFails(r) \/ Renew(r) \/ RenewFails(r)
      PROVE  IInv'
  <2>1. CASE RebuildStep(r)
    BY <2>1, EnterStep, LosesHeartStep, ValidateStep, ActivateStep, RecordFailureStep,
       WriteStep
    DEF RebuildStep
  <2> QED BY <1>3, <2>1, BeginStep, RebuildFailsStep, RenewStep, RenewFailsStep
<1>4. CASE Expire \/ SweepFails
  BY <1>4, ExpireStep, SweepFailsStep
<1>5. CASE SweepStep
  BY <1>5, ChooseStep, ForgetStep, PickStep, RemoveItemStep DEF SweepStep
<1>6. CASE Recover \/ Recovered \/ Crash \/ Start
  BY <1>6, RecoverStep, RecoveredStep, CrashStep, StartStep
<1>7. CASE UNCHANGED vars
  BY <1>7, StutterStep
<1> QED BY <1>1, <1>2, <1>3, <1>4, <1>5, <1>6, <1>7 DEF Next

-----------------------------------------------------------------------------
(* What follows *)

\* The invariant holds in every reachable state.
LEMMA SpecIInv == Spec => []IInv
BY InitIInv, StepIInv, PTL DEF Spec

\* The types; in particular the index holds a generation at most once, and only
\* stored facts are given up.
THEOREM SpecTypeOK == Spec => []TypeOK
<1>1. IInv => TypeOK
  BY DEF IInv
<1> QED BY <1>1, SpecIInv, PTL

\* When the projection says that it is healthy and nothing is under way, readers
\* find every fact that the daemon has not given up: coalescing projections,
\* rebuilds whose lock expired, the difference against an old reading and
\* retention lose none, however they interleave.
THEOREM SpecQuietGraphIsComplete == Spec => []QuietGraphIsComplete
<1>1. IInv => QuietGraphIsComplete
  BY DEF IInv, NoneLost, OnItsWay, QuietGraphIsComplete, Unseen
<1> QED BY <1>1, SpecIInv, PTL

\* A projection adds to the active generation, a rebuild writes to another one, and
\* retention deletes from it only if it had looked before the activation.
LEMMA ActiveOnlyGrows ==
    ASSUME IInv, [Next]_vars, active' = active, active # None,
           ~(sweep.gen = active /\ sweep.spared # active)
    PROVE  graph[active] \subseteq graph'[active]
<1> USE DEF IInv
<1>1. graph \in [Generation -> SUBSET Fact] /\ active \in Generation
  BY DEF TypeOK
<1>2. CASE graph' = graph
  BY <1>2
<1>3. ASSUME Replace PROVE graph[active] \subseteq graph'[active]
  <2>1. CASE proj.gen = active
    BY <1>1, <1>3, <2>1 DEF Replace, Replaced, Projecting
  <2>2. CASE proj.gen # active
    BY <1>1, <1>3, <2>2 DEF Replace
  <2> QED BY <2>1, <2>2
<1>4. ASSUME NEW r \in Rebuild, NEW i \in Fact, Write(r, i)
      PROVE  graph[active] \subseteq graph'[active]
  BY <1>1, <1>4 DEF Write
<1>5. ASSUME NEW i \in Fact, RemoveItem(i) PROVE graph[active] \subseteq graph'[active]
  <2>1. sweep.gen # active
    BY <1>5 DEF RemoveItem, Sweeping
  <2> QED BY <1>1, <1>5, <2>1 DEF RemoveItem
<1>6. CASE UNCHANGED vars
  BY <1>2, <1>6 DEF vars, stored
<1>7. CASE Next
  <2>1. ASSUME NEW f \in Fact, Ingest(f) \/ Project(f) PROVE graph' = graph
    BY <2>1 DEF Ingest, Project, stored
  <2>2. CASE ProjectionStep \/ ProjectionFails \/ ReportFails
    BY <1>2, <1>3, <2>2 DEF ProjectionStep, ProjectionFails, ReportFails, Look, Gather,
       RecordGeneration, Report, Follow, stored
  <2>3. ASSUME NEW r \in Rebuild,
               Begin(r) \/ RebuildStep(r) \/ RebuildFails(r) \/ Renew(r) \/ RenewFails(r)
        PROVE  graph[active] \subseteq graph'[active]
    BY <1>2, <1>4, <2>3 DEF Begin, RebuildStep, RebuildFails, Renew, RenewFails, Enter,
       LosesHeart, Validate, Activate, RecordFailure, stored
  <2>4. CASE Expire \/ SweepFails
    BY <1>2, <2>4 DEF Expire, SweepFails, stored
  <2>5. CASE SweepStep
    BY <1>2, <1>5, <2>5 DEF SweepStep, Choose, Forget, Pick, stored
  <2>6. CASE Recover \/ Recovered \/ Crash \/ Start
    BY <1>2, <2>6 DEF Recover, Recovered, Crash, Start, stored
  <2> QED BY <1>2, <1>7, <2>1, <2>2, <2>3, <2>4, <2>5, <2>6 DEF Next
<1> QED BY <1>6, <1>7

\* The generation that is read loses no fact, except to a retention that read the
\* pointer before that generation was activated.
THEOREM SpecActiveKeepsFacts == Spec => ActiveKeepsFacts
<1>1. IInv /\ [Next]_vars =>
        [active' = active /\ active # None /\ ~(sweep.gen = active /\ sweep.spared # active) =>
            graph[active] \subseteq graph'[active]]_vars
  BY ActiveOnlyGrows
<1> QED BY <1>1, SpecIInv, PTL DEF Spec, ActiveKeepsFacts

\* Only the owner of the lock moves the pointer, and it was the last to take it.
LEMMA OnlyOwnersActivate ==
    ASSUME IInv, [Next]_vars, active' # active, active' # Initial
    PROVE  active' = Last(begun)
<1> USE DEF IInv
<1>1. ASSUME Look PROVE FALSE
  BY <1>1 DEF Look
<1>2. ASSUME NEW r \in Rebuild, Activate(r) PROVE active' = Last(begun)
  BY <1>2, GraphAssumption DEF Activate, Owns, Generations, Generation
<1>3. CASE UNCHANGED vars
  BY <1>3 DEF vars, stored
<1>4. CASE Next
  <2>1. ASSUME NEW f \in Fact, Ingest(f) \/ Project(f) PROVE active' = active
    BY <2>1 DEF Ingest, Project, stored
  <2>2. CASE ProjectionStep \/ ProjectionFails \/ ReportFails
    BY <1>1, <2>2 DEF ProjectionStep, ProjectionFails, ReportFails, Gather, Replace,
       RecordGeneration, Report, Follow, stored
  <2>3. ASSUME NEW r \in Rebuild,
               Begin(r) \/ RebuildStep(r) \/ RebuildFails(r) \/ Renew(r) \/ RenewFails(r)
        PROVE  active' = Last(begun)
    BY <1>2, <2>3 DEF Begin, RebuildStep, RebuildFails, Renew, RenewFails, Enter, Write,
       LosesHeart, Validate, RecordFailure, stored
  <2>4. CASE Expire \/ SweepFails
    BY <2>4 DEF Expire, SweepFails, stored
  <2>5. CASE SweepStep
    BY <2>5 DEF SweepStep, Choose, Forget, Pick, RemoveItem, stored
  <2>6. CASE Recover \/ Recovered \/ Crash \/ Start
    BY <2>6 DEF Recover, Recovered, Crash, Start, stored
  <2> QED BY <1>4, <2>1, <2>2, <2>3, <2>4, <2>5, <2>6 DEF Next
<1> QED BY <1>3, <1>4

\* A rebuild is activated only if none has taken the lock after it, although the
\* lock expires under rebuilds that stall and go on.
THEOREM SpecNewestIsPublished == Spec => NewestIsPublished
<1>1. IInv /\ [Next]_vars =>
        [active' # active /\ active' # Initial => active' = Last(begun)]_vars
  BY OnlyOwnersActivate
<1> QED BY <1>1, SpecIInv, PTL DEF Spec, NewestIsPublished
=============================================================================
