---------------------------- MODULE ControlPlane ----------------------------
(***************************************************************************)
(* The registry of agents and capabilities: canonical manifests on disk    *)
(* and their projection in Redis.  A write goes to its file first and to   *)
(* Redis second, and writes take turns.  A reconciliation, which startup   *)
(* and every recovery run, brings Redis back to the files; it does not     *)
(* take turns with the writes that were admitted before.                   *)
(*                                                                         *)
(* Definitions (agents, capabilities, profiles) and assignments of         *)
(* capabilities have a manifest each.  The bindings of agents to a project *)
(* share one, which every write of a binding computes from the list in     *)
(* Redis.  A value is the number of the write that made it.                *)
(*                                                                         *)
(* There is one project.  What a request reads before its first write, a   *)
(* list of Redis, and the manifests of a kind are each read in one step.   *)
(***************************************************************************)
EXTENDS Naturals

CONSTANTS
    Definition,   \* agents, capabilities and profiles
    Assignment,   \* assignments of capabilities
    MaxWrites,    \* bound: writes that begin
    MaxWaiting,   \* bound: admitted requests that wait for their turn
    MaxFaults,    \* bound: commands and files that fail, recoveries and crashes
    None          \* nothing there

\* A binding's id is minted with the write that binds: the agent and its number.
Binding == Definition \X (1..MaxWrites)
Entity == Definition \cup Assignment \cup Binding
Value == 0..MaxWrites \cup {None}

ASSUME ConstantsAssumption ==
    /\ MaxWrites \in Nat /\ MaxWaiting \in Nat /\ MaxFaults \in Nat
    /\ None \notin Nat
    /\ Definition \cap Assignment = {}
    /\ (Definition \cup Assignment) \cap Binding = {}

VARIABLES
    file,     \* per entity: its value on disk
    redis,    \* per entity: its value in Redis
    waiting,  \* admitted requests that wait for their turn
    writes,   \* writes begun
    write,    \* the write whose turn it is
    recon,    \* the reconciliation
    told,     \* history: what the last acknowledged write of the entity left
    open,     \* history: entities with a write since that was not acknowledged
    touched,  \* history: entities whose file changed under a reconciliation
    faults

registry == <<file, redis>>
history == <<told, open, touched>>
vars == <<registry, waiting, writes, write, recon, history, faults>>

Fault == faults < MaxFaults /\ faults' = faults + 1
NoFault == UNCHANGED faults

NoWrite == [mode |-> "none", of |-> None, value |-> None, list |-> <<>>, at |-> "none"]
NoRecon == [at |-> "off", snap |-> [e \in Entity |-> None], left |-> {},
            seen |-> {}, listed |-> [e \in Entity |-> None], changed |-> {}]
Reading == [NoRecon EXCEPT !.at = "manifests"]

\* The daemon starts with what an earlier one left in both places.
Init ==
    /\ \E known \in SUBSET Definition :
          file = [e \in Entity |-> IF e \in known THEN 0 ELSE None]
    /\ redis = file /\ told = file
    /\ waiting = 0 /\ writes = 0 /\ write = NoWrite
    /\ recon = Reading
    /\ open = {} /\ touched = {}
    /\ faults = 0

-----------------------------------------------------------------------------
(* Writes *)

\* A request is admitted while the runtime is ready.
Admit ==
    /\ recon.at = "off" /\ waiting < MaxWaiting
    /\ waiting' = waiting + 1
    /\ UNCHANGED <<registry, writes, write, recon, history, faults>>

There(e) == redis[e] # None

BoundTo(d) == {b \in Binding : b[1] = d /\ There(b)}

\* A definition or assignment that is not there; a binding under a new id of an
\* agent that is there and has none.
MayCreate(e) ==
    /\ ~There(e)
    /\ e \in Assignment => \E d \in Definition : There(d)
    /\ e \in Binding => There(e[1]) /\ BoundTo(e[1]) = {} /\ e[2] = writes + 1

May(mode, e) ==
    CASE mode = "create" -> MayCreate(e)
      [] mode = "update" -> There(e)
      [] mode = "delete" -> There(e) /\ e \notin Definition

\* A request has its turn, and reads what it starts from.
Begin(mode, e) ==
    /\ waiting > 0 /\ write = NoWrite /\ writes < MaxWrites
    /\ May(mode, e)
    /\ waiting' = waiting - 1
    /\ writes' = writes + 1
    /\ write' = [mode |-> mode, of |-> e, at |-> "file",
                 value |-> IF mode = "delete" THEN None ELSE writes + 1,
                 list |-> IF e \in Binding THEN [b \in Binding |-> redis[b]] ELSE <<>>]
    /\ open' = open \cup {e}
    /\ UNCHANGED <<registry, recon, told, touched, faults>>

\* Mutant: a new binding replaces the list.
FilesAfterAlone(w) ==
    [e \in Entity |->
        IF e = w.of THEN w.value
        ELSE IF w.of \in Binding /\ e \in Binding
             THEN IF w.mode = "create" THEN None ELSE w.list[e]
             ELSE file[e]]

\* The files with the write's own manifest, or with the list of the bindings.
FilesAfter(w) ==
    [e \in Entity |-> IF e = w.of THEN w.value
                      ELSE IF w.of \in Binding /\ e \in Binding THEN w.list[e] ELSE file[e]]

\* The reconciliation goes by an earlier reading of the entity's file.
GoesByReading(e) ==
    \/ recon.at \in {"definitions", "assignments", "unassign", "bindings", "unbind"}
    \/ recon.at = "list" /\ e \notin Binding

\* The file is replaced, or that fails and so does the request.
WriteFile ==
    LET after == FilesAfter(write)
        changed == {e \in Entity : after[e] # file[e]}
    IN /\ write.at = "file"
       /\ \/ /\ NoFault
             /\ file' = after
             /\ write' = [write EXCEPT !.at = "redis"]
             /\ IF GoesByReading(write.of)
                THEN /\ touched' = touched \cup changed
                     /\ recon' = [recon EXCEPT !.changed = @ \cup changed]
                ELSE touched' = touched \ {write.of} /\ UNCHANGED recon
          \/ Fault /\ write' = NoWrite /\ UNCHANGED <<file, recon, touched>>
       /\ UNCHANGED <<redis, waiting, writes, told, open>>

\* control_upsert and control_delete.
Accepts(mode, e) == (mode = "create") = ~There(e)

Put(e, v) == redis' = [redis EXCEPT ![e] = v]

\* The Function is called: it does the write, or refuses, or the call fails with
\* or without an effect.  Only the first is acknowledged.
WriteRedis ==
    LET e == write.of
        accepted == Accepts(write.mode, e)
    IN /\ write.at = "redis"
       /\ \/ /\ NoFault /\ accepted
             /\ Put(e, write.value)
             /\ told' = [told EXCEPT ![e] = write.value]
             /\ open' = open \ {e}
          \/ NoFault /\ ~accepted /\ UNCHANGED <<redis, told, open>>
          \/ Fault /\ accepted /\ Put(e, write.value) /\ UNCHANGED <<told, open>>
          \/ Fault /\ UNCHANGED <<redis, told, open>>
       /\ write' = NoWrite
       /\ UNCHANGED <<file, waiting, writes, recon, touched>>

-----------------------------------------------------------------------------
(* Reconciliation *)

\* The runtime recovers from a failure; the process dies and another starts.
Recover ==
    /\ recon.at = "off" /\ Fault
    /\ recon' = Reading
    /\ UNCHANGED <<registry, waiting, writes, write, history>>

Crash ==
    /\ Fault
    /\ waiting' = 0 /\ write' = NoWrite
    /\ recon' = Reading
    /\ UNCHANGED <<registry, writes, history>>

ReadManifests ==
    /\ recon.at = "manifests"
    /\ recon' = [recon EXCEPT !.at = "list",
                     !.snap = [e \in Entity |-> IF e \in Binding THEN None ELSE file[e]]]
    /\ UNCHANGED <<registry, waiting, writes, write, history, faults>>

\* What is to be put in Redis.
Present(part) == {e \in part : recon.snap[e] # None}

\* Mutant: what differs is taken for what is gone.
StaleAsDifferent(part, list) ==
    {e \in part : recon.snap[e] # None /\ list[e] \notin {None, recon.snap[e]}}

\* What a list of Redis has that is to go.
Stale(part, list) == {e \in part : recon.snap[e] = None /\ list[e] # None}

ReadList ==
    LET snap == [e \in Entity |-> IF e \in Binding THEN file[e] ELSE recon.snap[e]]
    IN /\ recon.at = "list"
       /\ recon' = [recon EXCEPT !.at = "definitions", !.snap = snap,
                                 !.left = {d \in Definition : snap[d] # None}]
       /\ UNCHANGED <<registry, waiting, writes, write, history, faults>>

\* Definitions and bindings are looked at one by one, assignments in a list.
Look(e) ==
    /\ recon.at \in {"definitions", "bindings"} /\ e \in recon.left /\ recon.seen = {}
    /\ recon' = [recon EXCEPT !.seen = {e}, !.listed[e] = redis[e]]
    /\ UNCHANGED <<registry, waiting, writes, write, history, faults>>

Done(e) == [recon EXCEPT !.left = @ \ {e}, !.seen = @ \ {e}]

\* What Redis had already is passed over.  An entity that has come or gone since
\* it was seen ends the reconciliation.
Project(e) ==
    LET known == recon.listed[e]
    IN /\ recon.at \in {"definitions", "assignments", "bindings"}
       /\ e \in recon.left \cap recon.seen
       /\ \/ known = recon.snap[e] /\ recon' = Done(e) /\ UNCHANGED redis
          \/ /\ known # recon.snap[e] /\ (known # None) = There(e)
             /\ recon' = Done(e) /\ Put(e, recon.snap[e])
          \/ /\ known # recon.snap[e] /\ (known # None) # There(e)
             /\ recon' = Reading /\ UNCHANGED redis
       /\ UNCHANGED <<file, waiting, writes, write, history, faults>>

Remove(e) ==
    /\ recon.at \in {"unassign", "unbind"} /\ e \in recon.left
    /\ IF There(e) THEN recon' = Done(e) /\ Put(e, None)
       ELSE recon' = Reading /\ UNCHANGED redis
    /\ UNCHANGED <<file, waiting, writes, write, history, faults>>

\* One kind is through: the next, with what Redis lists of it; or the end.
GoesOn(r) ==
    CASE r.at = "definitions" -> [r EXCEPT !.at = "assignments", !.listed = redis,
                                     !.left = Present(Assignment), !.seen = Assignment]
      [] r.at = "assignments" -> [r EXCEPT !.at = "unassign", !.left = Stale(Assignment, r.listed)]
      [] r.at = "unassign" -> [r EXCEPT !.at = "bindings", !.left = Present(Binding), !.seen = {}]
      [] r.at = "bindings" -> [r EXCEPT !.at = "unbind", !.left = Stale(Binding, redis)]
      [] r.at = "unbind" -> NoRecon

Advance ==
    /\ recon.at \in {"definitions", "assignments", "unassign", "bindings", "unbind"}
    /\ recon.left = {}
    /\ recon' = GoesOn(recon)
    /\ UNCHANGED <<registry, waiting, writes, write, history, faults>>

\* A command fails: the recovery fails and is run again.
ReconFails ==
    /\ recon.at # "off" /\ Fault
    /\ recon' = Reading
    /\ UNCHANGED <<registry, waiting, writes, write, history>>

-----------------------------------------------------------------------------
Next ==
    \/ Admit
    \/ \E mode \in {"create", "update", "delete"}, e \in Entity : Begin(mode, e)
    \/ WriteFile \/ WriteRedis
    \/ Recover \/ Crash
    \/ ReadManifests \/ ReadList
    \/ \E e \in Entity : Look(e) \/ Project(e) \/ Remove(e)
    \/ Advance \/ ReconFails

Spec == Init /\ [][Next]_vars

-----------------------------------------------------------------------------
(* Properties *)

Write ==
    [mode : {"none", "create", "update", "delete"}, of : Entity \cup {None}, value : Value,
     list : [Binding -> Value] \cup {<<>>}, at : {"none", "file", "redis"}]

Phase == {"off", "manifests", "list", "definitions", "assignments", "unassign", "bindings", "unbind"}

Recon ==
    [at : Phase, snap : [Entity -> Value], left : SUBSET Entity, seen : SUBSET Entity,
     listed : [Entity -> Value], changed : SUBSET Entity]

TypeOK ==
    /\ file \in [Entity -> Value] /\ redis \in [Entity -> Value]
    /\ waiting \in 0..MaxWaiting /\ writes \in 0..MaxWrites
    /\ write \in Write
    /\ write.at # "none" => write.of \in Entity
    /\ write.at # "none" /\ write.of \in Binding => write.list \in [Binding -> Value]
    /\ recon \in Recon
    /\ told \in [Entity -> Value] /\ open \subseteq Entity /\ touched \subseteq Entity
    /\ faults \in 0..MaxFaults

\* What an acknowledged write left is in its file and in Redis, whatever other
\* writes, failures, crashes and reconciliations do: until a later write of the
\* same entity fails, or its file changed under a reconciliation.
AcknowledgedIsKept ==
    \A e \in Entity \ (open \cup touched) : file[e] = told[e] /\ redis[e] = told[e]

\* A reconciliation ends with Redis as the files are, but for what changed under
\* it: a write whose turn it is meanwhile is no exception.
ReconcileRestores ==
    [][recon.at # "off" /\ recon'.at = "off"
         => \A e \in Entity \ recon.changed : redis[e] = file[e]]_vars

\* Documented: an agent is bound to a project once.  The code does not keep
\* this: a binding whose put failed is missing from the lists of Redis, and a
\* reconciliation between a request's reading and its file brings it back.
OneBindingPerAgent ==
    \A b, c \in Binding : b # c /\ b[1] = c[1] => None \in {redis[b], redis[c]}

\* Documented: the files are what counts, and keep what was acknowledged.  The
\* code does not keep this: a reconciliation undoes in Redis what was written to
\* the files since it read them, and the next write of a binding undoes it there.
AcknowledgedStays == \A e \in Entity \ open : file[e] = told[e]

=============================================================================
