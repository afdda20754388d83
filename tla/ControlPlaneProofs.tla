------------------------- MODULE ControlPlaneProofs -------------------------
(***************************************************************************)
(* Proofs about ControlPlane, for every set of definitions and assignments *)
(* and every bound on writes, admitted requests and failures.              *)
(***************************************************************************)
EXTENDS ControlPlane, TLAPS

\* The write whose turn it is: it is open, it says what its file is to be, and
\* its list of bindings has what was acknowledged.
WriteOK ==
    /\ write.at = "none" => write = NoWrite
    /\ write.at # "none" => write.of \in open
    /\ write.at # "none" /\ write.of \in Definition => write.value # None
    /\ write.at = "redis" => file[write.of] = write.value
    /\ write.at = "file" /\ write.of \in Binding =>
          \A b \in Binding \ (open \cup touched) : write.list[b] = told[b]

\* A definition is never taken away.
DefinitionsStay ==
    \A d \in Definition : redis[d] # None => file[d] # None

\* Redis and the files as the reconciliation has read them: what has not changed
\* since is still so.
ReadingOK ==
    /\ recon.at \in {"off", "manifests"} => recon.changed = {}
    /\ recon.at = "list" => recon.changed \cap Binding = {}
    /\ recon.changed \subseteq touched
    /\ \A e \in Entity \ recon.changed : GoesByReading(e) => recon.snap[e] = file[e]
    /\ recon.at # "off" => \A d \in Definition : recon.snap[d] # None => file[d] # None

\* The entities a stage looks at, and what it has left.
StageOK ==
    /\ recon.at \in {"off", "manifests", "list"} => recon.left = {} /\ recon.seen = {}
    /\ recon.at = "definitions" => recon.left \subseteq Present(Definition)
    /\ recon.at = "assignments" => recon.left = Present(Assignment) \cap recon.seen
    /\ recon.at = "unassign" => recon.left \subseteq Stale(Assignment, recon.listed)
    /\ recon.at = "bindings" => recon.left \subseteq Present(Binding)
    /\ recon.at = "unbind" => recon.left \subseteq {b \in Binding : recon.snap[b] = None}
    /\ recon.at \in {"definitions", "bindings"} => recon.seen \subseteq recon.left
    /\ recon.at = "assignments" => recon.seen \subseteq Assignment

\* The entities that the reconciliation is through with.
Handled(e) ==
    \/ recon.at = "definitions" /\ e \in Definition \ recon.left
    \/ recon.at = "assignments" /\ e \in Definition \cup (Assignment \ recon.seen)
    \/ recon.at = "unassign" /\ e \in Definition \cup (Assignment \ recon.left)
    \/ recon.at = "bindings" /\ e \in Definition \cup Assignment \cup (Present(Binding) \ recon.left)
    \/ recon.at = "unbind" /\ e \notin recon.left

\* What Redis was seen to have as the file has it.
SeenSame(e) ==
    /\ recon.at \in {"definitions", "assignments", "bindings"}
    /\ e \in recon.seen /\ recon.listed[e] = recon.snap[e]

\* What has not changed since it was read is in Redis as in its file once the
\* reconciliation is through with it, or has seen that it is.
Restored ==
    \A e \in Entity \ recon.changed : Handled(e) \/ SeenSame(e) => redis[e] = file[e]

IInv ==
    /\ TypeOK
    /\ WriteOK
    /\ DefinitionsStay
    /\ ReadingOK
    /\ StageOK
    /\ Restored
    /\ AcknowledgedIsKept

-----------------------------------------------------------------------------
(* Types *)

\* The kinds are disjoint.
LEMMA Kinds ==
    /\ \A d \in Definition : d \in Entity /\ d \notin Assignment /\ d \notin Binding
    /\ \A a \in Assignment : a \in Entity /\ a \notin Binding
    /\ \A b \in Binding : b \in Entity
    /\ \A e \in Entity : e \in Definition \/ e \in Assignment \/ e \in Binding
BY ConstantsAssumption DEF Entity

LEMMA NothingTypes ==
    /\ NoWrite \in Write /\ NoWrite.at = "none"
    /\ NoRecon \in Recon /\ Reading \in Recon
    /\ NoRecon.at = "off" /\ Reading.at = "manifests"
    /\ NoRecon.left = {} /\ NoRecon.seen = {} /\ NoRecon.changed = {}
    /\ Reading.left = {} /\ Reading.seen = {} /\ Reading.changed = {}
    /\ \A e \in Entity : NoRecon.snap[e] = None /\ Reading.snap[e] = None
BY DEF NoWrite, Write, Value, NoRecon, Reading, Recon, Phase

-----------------------------------------------------------------------------
(* The initial states *)

LEMMA InitIInv == Init => IInv
<1> SUFFICES ASSUME Init PROVE IInv
  OBVIOUS
<1> USE NothingTypes
<1>1. file \in [Entity -> {0, None}] /\ redis = file /\ told = file
  BY DEF Init
<1>2. {0, None} \subseteq Value
  BY ConstantsAssumption DEF Value
<1>3. TypeOK
  BY <1>1, <1>2, ConstantsAssumption DEF Init, TypeOK
<1>4. write = NoWrite /\ write.at = "none"
  BY DEF Init
<1>5. WriteOK
  BY <1>4 DEF WriteOK
<1>6. DefinitionsStay
  BY <1>1 DEF Init, DefinitionsStay
<1>7. ReadingOK /\ StageOK /\ Restored
  BY <1>1 DEF Init, ReadingOK, StageOK, Restored, Handled, SeenSame, GoesByReading, Entity
<1>8. AcknowledgedIsKept
  BY <1>1 DEF Init, AcknowledgedIsKept
<1> QED
  BY <1>3, <1>5, <1>6, <1>7, <1>8 DEF IInv

-----------------------------------------------------------------------------
(* Steps that do not touch the reconciliation or the registry *)

LEMMA AdmitStep == ASSUME IInv, Admit PROVE IInv'
<1>1. TypeOK'
  BY ConstantsAssumption DEF IInv, TypeOK, Admit, registry, history
<1> QED
  BY <1>1 DEF IInv, Admit, registry, history, WriteOK, DefinitionsStay, ReadingOK, StageOK,
     Restored, Handled, SeenSame, GoesByReading, Present, Stale, AcknowledgedIsKept

LEMMA BeginStep ==
    ASSUME IInv, NEW mode \in {"create", "update", "delete"}, NEW e \in Entity, Begin(mode, e)
    PROVE  IInv'
<1> USE DEF IInv
<1>1. /\ write' = [mode |-> mode, of |-> e, at |-> "file",
                  value |-> IF mode = "delete" THEN None ELSE writes + 1,
                  list |-> IF e \in Binding THEN [b \in Binding |-> redis[b]] ELSE <<>>]
      /\ write = NoWrite /\ writes \in Nat /\ writes + 1 \in 0..MaxWrites /\ writes' = writes + 1
      /\ open' = open \cup {e} /\ touched' = touched /\ told' = told
      /\ file' = file /\ redis' = redis
  BY ConstantsAssumption DEF Begin, TypeOK, registry
<1>2. [b \in Binding |-> redis[b]] \in [Binding -> Value]
  BY Kinds DEF TypeOK
<1>3. write'.value \in Value /\ write'.list \in [Binding -> Value] \cup {<<>>}
  BY <1>1, <1>2 DEF Value
<1>4. write' \in Write
  BY <1>1, <1>3 DEF Write
<1>5. TypeOK'
  BY <1>1, <1>2, <1>4, ConstantsAssumption DEF TypeOK, Begin, registry
<1>6. mode = "delete" => e \notin Definition
  BY DEF Begin, May
<1>7. writes + 1 # None
  BY <1>1, ConstantsAssumption
<1>8. ASSUME e \in Binding, NEW b \in Binding \ (open \cup touched)
      PROVE  write'.list[b] = told[b]
  BY <1>1, <1>8, Kinds DEF AcknowledgedIsKept
<1>9. WriteOK'
  BY <1>1, <1>6, <1>7, <1>8 DEF WriteOK
<1>10. DefinitionsStay' /\ AcknowledgedIsKept'
  BY DEF IInv, TypeOK, Begin, registry, DefinitionsStay, AcknowledgedIsKept
<1>11. ReadingOK' /\ StageOK' /\ Restored'
  BY DEF IInv, Begin, registry, ReadingOK, StageOK, Restored, Handled, SeenSame, GoesByReading, Present, Stale
<1> QED
  BY <1>5, <1>9, <1>10, <1>11 DEF IInv

-----------------------------------------------------------------------------
(* The steps of a write *)

\* What the write's turn makes of the files.
LEMMA FilesAfterFacts ==
    ASSUME IInv, write.at = "file"
    PROVE  /\ FilesAfter(write) \in [Entity -> Value]
           /\ FilesAfter(write)[write.of] = write.value
           /\ \A e \in Entity \ (open \cup touched) : FilesAfter(write)[e] = file[e]
           /\ \A e \in Entity : e \notin Binding /\ e # write.of => FilesAfter(write)[e] = file[e]
           /\ write.of \notin Binding => \A e \in Entity : e # write.of => FilesAfter(write)[e] = file[e]
           /\ \A d \in Definition : file[d] # None => FilesAfter(write)[d] # None
<1> DEFINE after == FilesAfter(write)
<1>1. write.of \in Entity /\ write.of \in open /\ write.value \in Value
  BY DEF IInv, TypeOK, WriteOK, Write
<1>2. write.of \in Binding => write.list \in [Binding -> Value]
  BY DEF IInv, TypeOK
<1>3. \A e \in Entity : /\ after[e] = IF e = write.of THEN write.value
                                   ELSE IF write.of \in Binding /\ e \in Binding THEN write.list[e] ELSE file[e]
  BY DEF FilesAfter
<1>4. after = [e \in Entity |-> after[e]]
  BY DEF FilesAfter
<1>5. \A e \in Entity : after[e] \in Value
  BY <1>1, <1>2, <1>3 DEF IInv, TypeOK
<1>6. after \in [Entity -> Value]
  BY <1>4, <1>5
<1>7. ASSUME NEW e \in Entity \ (open \cup touched)
      PROVE  after[e] = file[e]
  BY <1>1, <1>3 DEF IInv, WriteOK, AcknowledgedIsKept
<1>8. \A e \in Entity : e \notin Binding /\ e # write.of => after[e] = file[e]
  BY <1>3
<1>9. \A d \in Definition : file[d] # None => after[d] # None
  BY <1>1, <1>3, Kinds DEF IInv, WriteOK
<1> HIDE DEF after
<1>10. write.of \notin Binding => \A e \in Entity : e # write.of => after[e] = file[e]
  BY <1>3
<1> QED
  BY <1>1, <1>3, <1>6, <1>7, <1>8, <1>9, <1>10 DEF after

\* The file is replaced.
LEMMA FileIsWritten ==
    ASSUME IInv, write.at = "file",
           LET changed == {e \in Entity : FilesAfter(write)[e] # file[e]}
           IN /\ file' = FilesAfter(write)
              /\ write' = [write EXCEPT !.at = "redis"]
              /\ IF GoesByReading(write.of)
                 THEN /\ touched' = touched \cup changed
                      /\ recon' = [recon EXCEPT !.changed = @ \cup changed]
                 ELSE touched' = touched \ {write.of} /\ UNCHANGED recon,
           UNCHANGED <<redis, waiting, writes, told, open, faults>>
    PROVE  IInv'
<1> DEFINE after == FilesAfter(write)
           changed == {e \in Entity : after[e] # file[e]}
<1> USE FilesAfterFacts
<1>1. file' = after /\ after \in [Entity -> Value]
  OBVIOUS
<1>2. write.of \in Entity /\ write.of \in open /\ write \in Write /\ recon \in Recon
  BY DEF IInv, TypeOK, WriteOK
<1>3. /\ write' \in Write /\ write'.at = "redis" /\ write'.of = write.of
      /\ write'.value = write.value /\ write'.list = write.list
  BY <1>2 DEF Write
<1>4. CASE GoesByReading(write.of)
  <2>1. /\ touched' = touched \cup changed
        /\ recon' = [recon EXCEPT !.changed = @ \cup changed]
    BY <1>4
  <2>2. /\ recon' \in Recon
        /\ recon'.at = recon.at /\ recon'.snap = recon.snap /\ recon'.left = recon.left
        /\ recon'.seen = recon.seen /\ recon'.listed = recon.listed
        /\ recon'.changed = recon.changed \cup changed
    BY <1>2, <2>1 DEF Recon
  <2>3. \A e \in Entity \ recon'.changed : file'[e] = file[e] /\ e \notin recon.changed
    BY <1>1, <2>2
  <2>4. TypeOK'
    BY <1>1, <1>3, <2>1, <2>2 DEF IInv, TypeOK
  <2>5. WriteOK'
    BY <1>1, <1>2, <1>3, <2>1 DEF IInv, WriteOK
  <2>6. DefinitionsStay'
    BY <1>1 DEF IInv, DefinitionsStay
  <2>7. recon.at = "list" => write.of \notin Binding
    BY <1>4 DEF GoesByReading
  <2>8. recon.at \notin {"off", "manifests"}
    BY <1>4 DEF GoesByReading
  <2>9. recon.at = "list" => changed \cap Binding = {}
    BY <2>7
  <2>10. ReadingOK'
    BY <1>1, <2>1, <2>2, <2>3, <2>8, <2>9 DEF IInv, ReadingOK, GoesByReading
  <2>11. StageOK'
    BY <2>2 DEF IInv, StageOK, Present, Stale
  <2>12. Restored'
    BY <2>2, <2>3 DEF IInv, Restored, Handled, SeenSame, Present
  <2>13. AcknowledgedIsKept'
    BY <1>1, <2>1 DEF IInv, AcknowledgedIsKept
  <2> QED
    BY <2>4, <2>5, <2>6, <2>10, <2>11, <2>12, <2>13 DEF IInv
<1>5. CASE ~GoesByReading(write.of)
  <2>1. touched' = touched \ {write.of} /\ recon' = recon
    BY <1>5
  <2>2. /\ recon.at \in {"off", "manifests", "list"}
        /\ recon.at = "list" => write.of \in Binding
    BY <1>2, <1>5 DEF GoesByReading, Recon, Phase
  <2>3. write.of \notin recon.changed
    BY <2>2 DEF IInv, ReadingOK
  <2>4. TypeOK'
    BY <1>1, <1>3, <2>1 DEF IInv, TypeOK
  <2>5. WriteOK'
    BY <1>1, <1>2, <1>3 DEF IInv, WriteOK
  <2>6. DefinitionsStay'
    BY <1>1 DEF IInv, DefinitionsStay
  <2>7. \A e \in Entity : GoesByReading(e) => file'[e] = file[e]
    BY <1>1, <1>2, <2>2 DEF GoesByReading
  <2>8. ReadingOK'
    BY <1>1, <2>1, <2>2, <2>3, <2>7, Kinds DEF IInv, ReadingOK, GoesByReading
  <2>9. StageOK'
    BY <2>1 DEF IInv, StageOK, Present, Stale
  <2>10. Restored'
    BY <2>1, <2>2 DEF Restored, Handled, SeenSame
  <2>11. AcknowledgedIsKept'
    BY <1>1, <1>2, <2>1 DEF IInv, AcknowledgedIsKept
  <2> QED
    BY <2>4, <2>5, <2>6, <2>8, <2>9, <2>10, <2>11 DEF IInv
<1> QED
  BY <1>4, <1>5

\* The write is given up, and what it asked for stays open.
LEMMA WriteIsGivenUp ==
    ASSUME IInv, write' = NoWrite, UNCHANGED <<registry, history>>
    PROVE  write' \in Write /\ WriteOK' /\ DefinitionsStay' /\ AcknowledgedIsKept'
<1>1. write'.at = "none" /\ write' \in Write
  BY NothingTypes
<1> QED
  BY <1>1 DEF IInv, WriteOK, DefinitionsStay, AcknowledgedIsKept, registry, history

LEMMA WriteFileStep == ASSUME IInv, WriteFile PROVE IInv'
<1>1. CASE /\ NoFault
           /\ file' = FilesAfter(write)
           /\ write' = [write EXCEPT !.at = "redis"]
           /\ LET changed == {e \in Entity : FilesAfter(write)[e] # file[e]}
              IN IF GoesByReading(write.of)
                 THEN /\ touched' = touched \cup changed
                      /\ recon' = [recon EXCEPT !.changed = @ \cup changed]
                 ELSE touched' = touched \ {write.of} /\ UNCHANGED recon
  BY <1>1, FileIsWritten DEF WriteFile, NoFault
<1>2. CASE Fault /\ write' = NoWrite /\ UNCHANGED <<file, recon, touched>>
  <2>1. UNCHANGED <<registry, history, recon, waiting, writes>>
    BY <1>2 DEF WriteFile, registry, history
  <2>2. write' \in Write /\ WriteOK' /\ DefinitionsStay' /\ AcknowledgedIsKept'
    BY <1>2, <2>1, WriteIsGivenUp
  <2>3. write'.at = "none"
    BY <1>2, NothingTypes
  <2>4. TypeOK'
    BY <1>2, <2>1, <2>2, <2>3, ConstantsAssumption DEF IInv, TypeOK, Fault, registry, history
  <2>5. ReadingOK' /\ StageOK' /\ Restored'
    BY <2>1 DEF IInv, ReadingOK, StageOK, Restored, Handled, SeenSame, GoesByReading, Present, Stale,
       registry, history
  <2> QED
    BY <2>2, <2>4, <2>5 DEF IInv
<1> QED
  BY <1>1, <1>2 DEF WriteFile

\* Redis gets the write's value, acknowledged or not, or stays as it is.
LEMMA WriteRedisStep == ASSUME IInv, WriteRedis PROVE IInv'
<1> DEFINE e == write.of
<1>1. /\ e \in Entity /\ e \in open /\ write.value \in Value /\ file[e] = write.value
      /\ e \in Definition => write.value # None
  BY DEF IInv, TypeOK, WriteOK, Write, WriteRedis
<1>2. /\ write' = NoWrite /\ write'.at = "none" /\ write' \in Write
      /\ UNCHANGED <<file, waiting, writes, recon, touched>>
  BY NothingTypes DEF WriteRedis
<1>3. /\ redis' = [redis EXCEPT ![e] = write.value] \/ redis' = redis
      /\ \/ redis' = [redis EXCEPT ![e] = write.value] /\ told' = [told EXCEPT ![e] = write.value] /\ open' = open \ {e}
         \/ told' = told /\ open' = open
      /\ faults' = faults \/ Fault
  BY DEF WriteRedis, Put, NoFault
<1>4. /\ redis' \in [Entity -> Value] /\ told' \in [Entity -> Value] /\ open' \subseteq open
      /\ \A x \in Entity : x # e => redis'[x] = redis[x] /\ told'[x] = told[x]
      /\ redis'[e] \in {redis[e], file[e]}
  BY <1>1, <1>3 DEF IInv, TypeOK
<1>5. TypeOK'
  BY <1>2, <1>3, <1>4, ConstantsAssumption DEF IInv, TypeOK, Fault
<1>6. WriteOK'
  BY <1>2 DEF WriteOK
<1>7. DefinitionsStay'
  BY <1>1, <1>2, <1>4, Kinds DEF IInv, DefinitionsStay
<1>8. ReadingOK' /\ StageOK'
  BY <1>2 DEF IInv, ReadingOK, StageOK, GoesByReading, Present, Stale
<1>9. Restored'
  BY <1>2, <1>4 DEF IInv, Restored, Handled, SeenSame, Present
<1>10. ASSUME NEW x \in Entity \ (open' \cup touched)
       PROVE  file[x] = told'[x] /\ redis'[x] = told'[x]
  <2>1. CASE x = e
    BY <1>1, <1>3, <1>10, <2>1 DEF IInv, TypeOK
  <2>2. CASE x # e
    BY <1>3, <1>4, <1>10, <2>2 DEF IInv, AcknowledgedIsKept
  <2> QED
    BY <2>1, <2>2
<1>11. AcknowledgedIsKept'
  BY <1>2, <1>10 DEF AcknowledgedIsKept
<1> QED
  BY <1>5, <1>6, <1>7, <1>8, <1>9, <1>11 DEF IInv

-----------------------------------------------------------------------------
(* The steps of a reconciliation *)

\* The reconciliation begins anew.
LEMMA BeginsAnew ==
    ASSUME IInv, recon' = Reading, UNCHANGED <<registry, write, writes, history>>,
           waiting' \in 0..MaxWaiting, Fault \/ NoFault
    PROVE  IInv'
<1>1. /\ recon' \in Recon /\ recon'.at = "manifests"
      /\ recon'.left = {} /\ recon'.seen = {} /\ recon'.changed = {}
      /\ \A e \in Entity : recon'.snap[e] = None
  BY NothingTypes
<1>2. TypeOK'
  BY <1>1, ConstantsAssumption DEF IInv, TypeOK, Fault, NoFault, registry, history
<1>3. WriteOK' /\ DefinitionsStay' /\ AcknowledgedIsKept'
  BY DEF IInv, WriteOK, DefinitionsStay, AcknowledgedIsKept, registry, history
<1>4. ReadingOK' /\ StageOK' /\ Restored'
  BY <1>1, Kinds DEF ReadingOK, StageOK, Restored, Handled, SeenSame, GoesByReading
<1> QED
  BY <1>2, <1>3, <1>4 DEF IInv

LEMMA RecoverStep == ASSUME IInv, Recover PROVE IInv'
BY BeginsAnew DEF Recover, IInv, TypeOK

LEMMA ReconFailsStep == ASSUME IInv, ReconFails PROVE IInv'
BY BeginsAnew DEF ReconFails, IInv, TypeOK

LEMMA CrashStep == ASSUME IInv, Crash PROVE IInv'
<1>1. /\ recon' \in Recon /\ recon'.at = "manifests"
      /\ recon'.left = {} /\ recon'.seen = {} /\ recon'.changed = {}
      /\ \A e \in Entity : recon'.snap[e] = None
  BY NothingTypes DEF Crash
<1>2. write' \in Write /\ write'.at = "none" /\ WriteOK' /\ DefinitionsStay' /\ AcknowledgedIsKept'
  BY WriteIsGivenUp, NothingTypes DEF Crash
<1>3. TypeOK'
  BY <1>1, <1>2, ConstantsAssumption DEF IInv, TypeOK, Crash, Fault, registry, history
<1>4. ReadingOK' /\ StageOK' /\ Restored'
  BY <1>1, Kinds DEF ReadingOK, StageOK, Restored, Handled, SeenSame, GoesByReading
<1> QED
  BY <1>2, <1>3, <1>4 DEF IInv

\* What a step that only reads leaves as it was.
LEMMA ReadsOnly ==
    ASSUME IInv, recon' \in Recon, UNCHANGED <<registry, waiting, writes, write, history, faults>>
    PROVE  TypeOK' /\ WriteOK' /\ DefinitionsStay' /\ AcknowledgedIsKept'
BY DEF IInv, TypeOK, WriteOK, DefinitionsStay, AcknowledgedIsKept, registry, history

LEMMA ReadManifestsStep == ASSUME IInv, ReadManifests PROVE IInv'
<1> DEFINE snap == [e \in Entity |-> IF e \in Binding THEN None ELSE file[e]]
<1>1. recon \in Recon /\ snap \in [Entity -> Value]
  BY DEF IInv, TypeOK, Value
<1>2. /\ recon' \in Recon /\ recon'.at = "list" /\ recon'.snap = snap
      /\ recon'.left = recon.left /\ recon'.seen = recon.seen /\ recon'.changed = recon.changed
  BY <1>1 DEF ReadManifests, Recon, Phase
<1>3. recon.at = "manifests" /\ file' = file /\ touched' = touched
  BY DEF ReadManifests, registry, history
<1>4. TypeOK' /\ WriteOK' /\ DefinitionsStay' /\ AcknowledgedIsKept'
  BY <1>2, ReadsOnly DEF ReadManifests
<1>5. ReadingOK'
  BY <1>2, <1>3, Kinds DEF IInv, ReadingOK, GoesByReading
<1>6. StageOK' /\ Restored'
  BY <1>2, <1>3 DEF IInv, StageOK, Restored, Handled, SeenSame
<1> QED
  BY <1>4, <1>5, <1>6 DEF IInv

LEMMA ReadListStep == ASSUME IInv, ReadList PROVE IInv'
<1> DEFINE snap == [e \in Entity |-> IF e \in Binding THEN file[e] ELSE recon.snap[e]]
           left == {d \in Definition : snap[d] # None}
<1>1. recon \in Recon /\ snap \in [Entity -> Value] /\ left \subseteq Entity
  BY Kinds DEF IInv, TypeOK, Recon
<1>2. /\ recon' \in Recon /\ recon'.at = "definitions" /\ recon'.snap = snap
      /\ recon'.left = left /\ recon'.seen = recon.seen /\ recon'.changed = recon.changed
  BY <1>1 DEF ReadList, Recon, Phase
<1>3. recon.at = "list" /\ file' = file /\ redis' = redis /\ touched' = touched
  BY DEF ReadList, registry, history
<1>4. TypeOK' /\ WriteOK' /\ DefinitionsStay' /\ AcknowledgedIsKept'
  BY <1>2, ReadsOnly DEF ReadList
<1>5. \A e \in Entity \ recon.changed : snap[e] = file[e]
  BY <1>3 DEF IInv, ReadingOK, GoesByReading
<1>6. ReadingOK'
  BY <1>2, <1>3, <1>5, Kinds DEF IInv, ReadingOK
<1>7. recon.seen = {}
  BY <1>3 DEF IInv, StageOK
<1>8. StageOK'
  BY <1>2, <1>7 DEF StageOK, Present
<1>9. Restored'
  BY <1>2, <1>3, <1>5, <1>7, Kinds DEF IInv, DefinitionsStay, Restored, Handled, SeenSame
<1> QED
  BY <1>4, <1>6, <1>8, <1>9 DEF IInv

LEMMA LookStep == ASSUME IInv, NEW e \in Entity, Look(e) PROVE IInv'
<1>1. recon \in Recon /\ redis \in [Entity -> Value]
  BY DEF IInv, TypeOK
<1>2. /\ recon' \in Recon /\ recon'.at = recon.at /\ recon'.snap = recon.snap
      /\ recon'.left = recon.left /\ recon'.seen = {e} /\ recon'.changed = recon.changed
      /\ recon'.listed[e] = redis[e]
  BY <1>1 DEF Look, Recon
<1>3. /\ recon.at \in {"definitions", "bindings"} /\ e \in recon.left
      /\ file' = file /\ redis' = redis /\ touched' = touched
  BY DEF Look, registry, history
<1>4. TypeOK' /\ WriteOK' /\ DefinitionsStay' /\ AcknowledgedIsKept'
  BY <1>2, ReadsOnly DEF Look
<1>5. ReadingOK'
  BY <1>2, <1>3 DEF IInv, ReadingOK, GoesByReading
<1>6. StageOK'
  BY <1>2, <1>3 DEF IInv, StageOK, Present
<1>7. Restored'
  BY <1>2, <1>3 DEF IInv, ReadingOK, GoesByReading, Restored, Handled, SeenSame, Present
<1> QED
  BY <1>4, <1>5, <1>6, <1>7 DEF IInv

\* One entity is done: Redis has of it what was read of its file.
LEMMA EntityIsDone ==
    ASSUME IInv, NEW e \in recon.left, recon' = Done(e),
           recon.at \in {"definitions", "assignments", "unassign", "bindings", "unbind"},
           UNCHANGED <<file, waiting, writes, write, history, faults>>,
           \/ redis' = [redis EXCEPT ![e] = recon.snap[e]]
           \/ redis' = redis /\ SeenSame(e)
    PROVE  IInv'
<1>1. recon \in Recon /\ redis \in [Entity -> Value] /\ e \in Entity
  BY DEF IInv, TypeOK, Recon
<1>2. /\ recon' \in Recon /\ recon'.at = recon.at /\ recon'.snap = recon.snap
      /\ recon'.left = recon.left \ {e} /\ recon'.seen = recon.seen \ {e}
      /\ recon'.listed = recon.listed /\ recon'.changed = recon.changed
  BY <1>1 DEF Done, Recon
<1>3. /\ redis' \in [Entity -> Value]
      /\ \A x \in Entity : x # e => redis'[x] = redis[x]
      /\ redis'[e] = recon.snap[e] \/ redis'[e] = redis[e]
  BY <1>1 DEF Recon
<1>4. e \notin recon.changed => redis'[e] = file[e] /\ recon.snap[e] = file[e]
  BY <1>1 DEF IInv, ReadingOK, GoesByReading, Restored
<1>5. TypeOK'
  BY <1>2, <1>3 DEF IInv, TypeOK, history
<1>6. WriteOK'
  BY DEF IInv, WriteOK, history
<1>7. DefinitionsStay'
  BY <1>3, Kinds DEF IInv, DefinitionsStay, ReadingOK
<1>8. ReadingOK'
  BY <1>2 DEF IInv, ReadingOK, GoesByReading, history
<1>9. StageOK'
  BY <1>2 DEF IInv, StageOK, Present, Stale
<1>10. ASSUME NEW x \in Entity \ recon.changed, (Handled(x) \/ SeenSame(x))'
       PROVE  redis'[x] = file[x]
  <2>1. CASE x = e
    BY <1>4, <1>10, <2>1
  <2>2. x # e => Handled(x) \/ SeenSame(x)
    BY <1>2, <1>10 DEF Handled, SeenSame, Present
  <2> QED
    BY <1>3, <1>10, <2>1, <2>2 DEF IInv, Restored
<1>11. Restored'
  BY <1>2, <1>10 DEF Restored
<1>12. ASSUME NEW x \in Entity \ (open \cup touched)
       PROVE  file[x] = told[x] /\ redis'[x] = told[x]
  <2>1. file[x] = told[x] /\ redis[x] = told[x] /\ x \notin recon.changed
    BY DEF IInv, AcknowledgedIsKept, ReadingOK
  <2> QED
    BY <1>3, <1>4, <2>1
<1>13. AcknowledgedIsKept'
  BY <1>12 DEF AcknowledgedIsKept, history
<1> QED
  BY <1>5, <1>6, <1>7, <1>8, <1>9, <1>11, <1>13 DEF IInv

LEMMA ProjectStep == ASSUME IInv, NEW e \in Entity, Project(e) PROVE IInv'
<1>1. /\ e \in recon.left /\ e \in recon.seen
      /\ recon.at \in {"definitions", "assignments", "bindings"}
      /\ UNCHANGED <<file, waiting, writes, write, history, faults>>
  BY DEF Project
<1>2. CASE recon.listed[e] = recon.snap[e] /\ recon' = Done(e) /\ UNCHANGED redis
  BY <1>1, <1>2, EntityIsDone DEF SeenSame
<1>3. CASE recon' = Done(e) /\ Put(e, recon.snap[e])
  BY <1>1, <1>3, EntityIsDone DEF Put
<1>4. CASE recon' = Reading /\ UNCHANGED redis
  BY <1>1, <1>4, BeginsAnew DEF registry, NoFault, IInv, TypeOK
<1> QED
  BY <1>2, <1>3, <1>4 DEF Project

LEMMA RemoveStep == ASSUME IInv, NEW e \in Entity, Remove(e) PROVE IInv'
<1>1. /\ e \in recon.left /\ recon.at \in {"unassign", "unbind"} /\ recon.snap[e] = None
      /\ UNCHANGED <<file, waiting, writes, write, history, faults>>
  BY DEF Remove, IInv, StageOK, Stale
<1>2. CASE recon' = Done(e) /\ Put(e, None)
  BY <1>1, <1>2, EntityIsDone DEF Put
<1>3. CASE recon' = Reading /\ UNCHANGED redis
  BY <1>1, <1>3, BeginsAnew DEF registry, NoFault, IInv, TypeOK
<1> QED
  BY <1>2, <1>3 DEF Remove

LEMMA AdvanceStep == ASSUME IInv, Advance PROVE IInv'
<1>1. recon \in Recon /\ redis \in [Entity -> Value]
  BY DEF IInv, TypeOK
<1>2. /\ recon.left = {} /\ recon' = GoesOn(recon)
      /\ file' = file /\ redis' = redis /\ touched' = touched
      /\ UNCHANGED <<registry, waiting, writes, write, history, faults>>
  BY DEF Advance, registry, history
<1>3. CASE recon.at = "definitions"
  <2>1. recon' = [recon EXCEPT !.at = "assignments", !.listed = redis,
                               !.left = Present(Assignment), !.seen = Assignment]
    BY <1>2, <1>3 DEF GoesOn
  <2>2. /\ recon' \in Recon /\ recon'.at = "assignments" /\ recon'.snap = recon.snap
        /\ recon'.left = Present(Assignment) /\ recon'.seen = Assignment
        /\ recon'.listed = redis /\ recon'.changed = recon.changed
    BY <1>1, <2>1, Kinds DEF Recon, Phase, Present
  <2>3. TypeOK' /\ WriteOK' /\ DefinitionsStay' /\ AcknowledgedIsKept'
    BY <1>2, <2>2, ReadsOnly
  <2>4. ReadingOK' /\ StageOK'
    BY <1>2, <1>3, <2>2 DEF IInv, ReadingOK, GoesByReading, StageOK, Present
  <2>5. Restored'
    BY <1>2, <1>3, <2>2, Kinds DEF IInv, ReadingOK, GoesByReading, Restored, Handled, SeenSame
  <2> QED
    BY <2>3, <2>4, <2>5 DEF IInv
<1>4. CASE recon.at = "assignments"
  <2>1. recon' = [recon EXCEPT !.at = "unassign", !.left = Stale(Assignment, recon.listed)]
    BY <1>2, <1>4 DEF GoesOn
  <2>2. /\ recon' \in Recon /\ recon'.at = "unassign" /\ recon'.snap = recon.snap
        /\ recon'.left = Stale(Assignment, recon.listed) /\ recon'.seen = recon.seen
        /\ recon'.listed = recon.listed /\ recon'.changed = recon.changed
    BY <1>1, <2>1, Kinds DEF Recon, Phase, Stale
  <2>3. TypeOK' /\ WriteOK' /\ DefinitionsStay' /\ AcknowledgedIsKept'
    BY <1>2, <2>2, ReadsOnly
  <2>4. ReadingOK' /\ StageOK'
    BY <1>2, <1>4, <2>2 DEF IInv, ReadingOK, GoesByReading, StageOK, Stale
  <2>5. \A a \in Assignment \ Stale(Assignment, recon.listed) : Handled(a) \/ SeenSame(a)
    BY <1>2, <1>4 DEF IInv, StageOK, Present, Stale, Handled, SeenSame
  <2>6. Restored'
    BY <1>2, <1>4, <2>2, <2>5, Kinds DEF IInv, Restored, Handled, SeenSame
  <2> QED
    BY <2>3, <2>4, <2>6 DEF IInv
<1>5. CASE recon.at = "unassign"
  <2>1. recon' = [recon EXCEPT !.at = "bindings", !.left = Present(Binding), !.seen = {}]
    BY <1>2, <1>5 DEF GoesOn
  <2>2. /\ recon' \in Recon /\ recon'.at = "bindings" /\ recon'.snap = recon.snap
        /\ recon'.left = Present(Binding) /\ recon'.seen = {}
        /\ recon'.listed = recon.listed /\ recon'.changed = recon.changed
    BY <1>1, <2>1, Kinds DEF Recon, Phase, Present
  <2>3. TypeOK' /\ WriteOK' /\ DefinitionsStay' /\ AcknowledgedIsKept'
    BY <1>2, <2>2, ReadsOnly
  <2>4. ReadingOK' /\ StageOK'
    BY <1>2, <1>5, <2>2 DEF IInv, ReadingOK, GoesByReading, StageOK, Present
  <2>5. Restored'
    BY <1>2, <1>5, <2>2 DEF IInv, Restored, Handled, SeenSame, Present
  <2> QED
    BY <2>3, <2>4, <2>5 DEF IInv
<1>6. CASE recon.at = "bindings"
  <2>1. recon' = [recon EXCEPT !.at = "unbind", !.left = Stale(Binding, redis)]
    BY <1>2, <1>6 DEF GoesOn
  <2>2. /\ recon' \in Recon /\ recon'.at = "unbind" /\ recon'.snap = recon.snap
        /\ recon'.left = Stale(Binding, redis) /\ recon'.changed = recon.changed
    BY <1>1, <2>1, Kinds DEF Recon, Phase, Stale
  <2>3. TypeOK' /\ WriteOK' /\ DefinitionsStay' /\ AcknowledgedIsKept'
    BY <1>2, <2>2, ReadsOnly
  <2>4. ReadingOK' /\ StageOK'
    BY <1>2, <1>6, <2>2 DEF IInv, ReadingOK, GoesByReading, StageOK, Stale
  <2>5. ASSUME NEW e \in Entity \ recon.changed, e \notin Stale(Binding, redis)
        PROVE  redis[e] = file[e]
    <3>1. CASE Handled(e)
      BY <2>5, <3>1 DEF IInv, Restored
    <3>2. CASE ~Handled(e)
      <4>1. e \in Binding /\ recon.snap[e] = None /\ recon.snap[e] = file[e]
        BY <1>2, <1>6, <2>5, <3>2, Kinds DEF IInv, ReadingOK, GoesByReading, Handled, Present
      <4> QED
        BY <2>5, <4>1 DEF Stale
    <3> QED
      BY <3>1, <3>2
  <2>6. Restored'
    BY <1>2, <2>2, <2>5 DEF Restored, Handled, SeenSame
  <2> QED
    BY <2>3, <2>4, <2>6 DEF IInv
<1>7. CASE recon.at = "unbind"
  <2>1. recon' = NoRecon
    BY <1>2, <1>7 DEF GoesOn
  <2>2. /\ recon' \in Recon /\ recon'.at = "off"
        /\ recon'.left = {} /\ recon'.seen = {} /\ recon'.changed = {}
    BY <2>1, NothingTypes
  <2>3. TypeOK' /\ WriteOK' /\ DefinitionsStay' /\ AcknowledgedIsKept'
    BY <1>2, <2>2, ReadsOnly
  <2>4. ReadingOK' /\ StageOK' /\ Restored'
    BY <2>2 DEF ReadingOK, GoesByReading, StageOK, Restored, Handled, SeenSame
  <2> QED
    BY <2>3, <2>4 DEF IInv
<1> QED
  BY <1>3, <1>4, <1>5, <1>6, <1>7 DEF Advance

-----------------------------------------------------------------------------
(* Theorems *)

LEMMA StepIInv == IInv /\ [Next]_vars => IInv'
<1> SUFFICES ASSUME IInv, [Next]_vars PROVE IInv'
  OBVIOUS
<1>1. CASE Next
  BY <1>1, AdmitStep, BeginStep, WriteFileStep, WriteRedisStep, RecoverStep, CrashStep,
     ReadManifestsStep, ReadListStep, LookStep, ProjectStep, RemoveStep, AdvanceStep, ReconFailsStep
  DEF Next
<1>2. CASE UNCHANGED vars
  BY <1>2 DEF vars, registry, history, IInv, TypeOK, WriteOK, DefinitionsStay, ReadingOK, GoesByReading,
     StageOK, Present, Stale, Restored, Handled, SeenSame, AcknowledgedIsKept
<1> QED
  BY <1>1, <1>2

LEMMA SpecIInv == Spec => []IInv
BY InitIInv, StepIInv, PTL DEF Spec

\* Every variable keeps its type.
THEOREM SpecTypeOK == Spec => []TypeOK
<1>1. IInv => TypeOK
  BY DEF IInv
<1> QED
  BY <1>1, SpecIInv, PTL

\* What an acknowledged write left is in its file and in Redis, for all sets of
\* entities and any number of writes, failures, crashes and reconciliations.
THEOREM SpecAcknowledgedIsKept == Spec => []AcknowledgedIsKept
<1>1. IInv => AcknowledgedIsKept
  BY DEF IInv
<1> QED
  BY <1>1, SpecIInv, PTL

\* A reconciliation that ends has brought Redis back to the files, but for what
\* changed under it.
THEOREM SpecReconcileRestores == Spec => ReconcileRestores
<1> DEFINE Ends == recon.at # "off" /\ recon'.at = "off"
           Same == \A e \in Entity \ recon.changed : redis[e] = file[e]
<1>1. ASSUME IInv, [Next]_vars, Ends PROVE Same
  <2>1. Advance
    <3>1. /\ Reading.at # "off" /\ \A e : Done(e).at = recon.at
      BY NothingTypes DEF Done, IInv, TypeOK, Recon
    <3>2. recon' # recon
      BY <1>1
    <3>3. ~WriteFile
      BY <1>1, <3>2 DEF WriteFile, IInv, TypeOK, Recon
    <3> QED
      BY <1>1, <3>1, <3>2, <3>3 DEF Next, vars, Admit, Begin, WriteRedis, Recover, Crash, ReadManifests, ReadList,
         Look, Project, Remove, ReconFails, IInv, TypeOK, Recon
  <2>2. recon.at = "unbind" /\ recon.left = {}
    BY <1>1, <2>1 DEF Advance, GoesOn, IInv, TypeOK, Recon
  <2> QED
    BY <1>1, <2>2 DEF IInv, Restored, Handled
<1>2. IInv /\ [Next]_vars => [Ends => Same]_vars
  BY <1>1
<1> QED
  BY <1>2, SpecIInv, PTL DEF Spec, ReconcileRestores
=============================================================================
