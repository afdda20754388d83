------------------------------ MODULE AskReply ------------------------------
(***************************************************************************)
(* What request and reply promise to the sessions that use them, whatever  *)
(* inboxes, bridges, retries and sweeps do underneath: a question is asked *)
(* at most once per idempotency key, gets one outcome that stands, and is  *)
(* forgotten only when no key can still lead to it.                        *)
(***************************************************************************)
CONSTANTS Question, Slot, Outcome, None

VARIABLES
    phase,    \* per question: unasked, open, decided, forgotten
    outcome,  \* per question: the outcome while it is decided
    holder    \* per slot (a source session and its key): the question it names

vars == <<phase, outcome, holder>>

Init ==
    /\ phase = [q \in Question |-> "unasked"]
    /\ outcome = [q \in Question |-> None]
    /\ holder = [k \in Slot |-> None]

Ask(q, k) ==
    /\ phase[q] = "unasked"
    /\ k # None => holder[k] = None
    /\ phase' = [phase EXCEPT ![q] = "open"]
    /\ holder' = [j \in Slot |-> IF j = k THEN q ELSE holder[j]]
    /\ UNCHANGED outcome

Decide(q, o) ==
    /\ phase[q] = "open"
    /\ phase' = [phase EXCEPT ![q] = "decided"]
    /\ outcome' = [outcome EXCEPT ![q] = o]
    /\ UNCHANGED holder

\* A key lasts as long as its question is open, and a while longer.
Release(k) ==
    /\ holder[k] # None
    /\ phase[holder[k]] = "decided"
    /\ holder' = [holder EXCEPT ![k] = None]
    /\ UNCHANGED <<phase, outcome>>

Forget(q) ==
    /\ phase[q] = "decided"
    /\ \A k \in Slot : holder[k] # q
    /\ phase' = [phase EXCEPT ![q] = "forgotten"]
    /\ outcome' = [outcome EXCEPT ![q] = None]
    /\ UNCHANGED holder

Next ==
    \/ \E q \in Question, k \in Slot \cup {None} : Ask(q, k)
    \/ \E q \in Question, o \in Outcome : Decide(q, o)
    \/ \E k \in Slot : Release(k)
    \/ \E q \in Question : Forget(q)

Spec == Init /\ [][Next]_vars

\* Every question that is asked is decided, be it by its time running out.
EveryQuestionIsDecided ==
    \A q \in Question : phase[q] = "open" ~> phase[q] # "open"

=============================================================================
