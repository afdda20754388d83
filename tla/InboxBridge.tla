----------------------------- MODULE InboxBridge -----------------------------
(***************************************************************************)
(* An unattended reader of an inbox: the native bridge polls the inbox of  *)
(* the session that its bootstrap keeps alive, and for each request starts *)
(* one headless child, which is to answer through tools of its own.  What  *)
(* the child leaves open the bridge fails.                                 *)
(*                                                                         *)
(* The bridge is one process that works alone on its session; when it dies *)
(* or stops, its manager starts another, with another session.  A child,   *)
(* and anybody else who knows the session, is a caller of Messages: it may *)
(* claim from the inbox and move any request on at any time.               *)
(*                                                                         *)
(* Each request of the bridge to the daemon is one step, that may fail, or *)
(* be served with its answer lost.                                         *)
(***************************************************************************)
EXTENDS Messages

CONSTANTS
    Own,       \* the claimer of the bridge
    Home,      \* sessions that its bootstraps may register
    MaxFaults  \* bound: requests of the bridge that fail, and bridges that die

ASSUME BridgeAssumption ==
    /\ Own \in Claimer
    /\ Home \subseteq Session
    /\ None \notin Session
    /\ MaxFaults \in Nat

VARIABLES
    home,    \* the session of the bootstrap
    left,    \* sessions that a bootstrap has left behind
    bridge,  \* the process: where it is, and with what
    runs,    \* per message: the children that were started for it
    faults   \* bounded by MaxFaults

bridgeVars == <<home, left, bridge, runs, faults>>

Stage == {"down", "poll", "claim", "items", "look", "acknowledge", "process", "spawn",
          "run", "exit", "fail", "check"}

Bridge ==
    [at: Stage,
     items: SUBSET Message,        \* requests of its claim that it has not come to
     current: Message \cup {None}, \* the one it serves
     broken: BOOLEAN,              \* its child could not be started
     stopping: BOOLEAN]

Down == [at |-> "down", items |-> {}, current |-> None, broken |-> FALSE, stopping |-> FALSE]

BridgeInit ==
    /\ Init
    /\ home = None
    /\ left = {}
    /\ bridge = Down
    /\ runs = [m \in Message |-> 0]
    /\ faults = 0

Fault == faults < MaxFaults /\ faults' = faults + 1

\* The parts of Messages that no request of the bridge changes.
Others == <<ended, claim, timing, pruning>>

Goes(stage) == bridge' = [bridge EXCEPT !.at = stage]

\* An error ends the poll: what is left of its claim stays pending.
PollFails == bridge' = [Down EXCEPT !.at = "poll", !.stopping = bridge.stopping]

\* The request is done with; a child that could not be started is an error.
Served ==
    \/ bridge.broken /\ PollFails
    \/ ~bridge.broken /\ bridge' = [bridge EXCEPT !.at = "items", !.current = None]

-----------------------------------------------------------------------------
(* The session of the bridge *)

\* The bootstrap registers a session, when the bridge starts and when the
\* session it had is gone.
Registers(s) ==
    /\ home = None
    /\ s \in Home \ (left \cup ended)
    /\ home' = s
    /\ bridge' = IF bridge.at = "down" THEN [Down EXCEPT !.at = "poll"] ELSE bridge
    /\ UNCHANGED <<store, Others, left, runs, faults>>

\* A heartbeat tells that the session has ended.
LosesSession ==
    /\ home \in ended
    /\ home' = None
    /\ left' = left \cup {home}
    /\ UNCHANGED <<store, Others, bridge, runs, faults>>

-----------------------------------------------------------------------------
(* The poll *)

PollBegins ==
    /\ bridge.at = "poll" /\ ~bridge.stopping
    /\ home # None
    /\ ClaimOpen(Own, home)
    /\ Goes("claim")
    /\ UNCHANGED <<home, left, runs, faults>>

\* The daemon serves the claim.
ClaimServed ==
    /\ bridge.at = "claim"
    /\ \/ ClaimRead(Own)
       \/ \E e \in Entry : ClaimDrop(Own, e) \/ ClaimCollect(Own, e)
       \/ \E m \in Message : ClaimQueued(Own, m)
       \/ ClaimMark(Own)
    /\ UNCHANGED bridgeVars

\* The requests among the items; the bridge has no use for responses.
ClaimAnswered ==
    /\ bridge.at = "claim"
    /\ ClaimReturn(Own)
    /\ bridge' = [bridge EXCEPT !.at = "items",
                                !.items = {m \in Message : <<m, "request">> \in claim[Own].items}]
    /\ UNCHANGED <<home, left, runs, faults>>

\* The claim failed in the daemon.
ClaimRefused ==
    /\ bridge.at = "claim"
    /\ claim[Own] = None
    /\ PollFails
    /\ UNCHANGED <<store, Others, home, left, runs, faults>>

TakesItem(m) ==
    /\ bridge.at = "items" /\ ~bridge.stopping
    /\ m \in bridge.items
    /\ bridge' = [bridge EXCEPT !.at = "look", !.items = @ \ {m}, !.current = m]
    /\ UNCHANGED <<store, Others, home, left, runs, faults>>

PollEnds ==
    /\ bridge.at = "items"
    /\ bridge.stopping \/ bridge.items = {}
    /\ PollFails
    /\ UNCHANGED <<store, Others, home, left, runs, faults>>

-----------------------------------------------------------------------------
(* One request *)

\* Mutant: what an earlier poll had begun is run again.
AfterLookReplayed(state) ==
    CASE state = "delivered" -> "acknowledge"
      [] state = "acknowledged" -> "process"
      [] state = "processing" -> "spawn"

\* Mutant: what an earlier poll had begun is passed over.
AfterLookPassed(state) ==
    CASE state = "delivered" -> "acknowledge"
      [] state = "acknowledged" -> "process"
      [] state = "processing" -> "items"

\* How a request goes on; one that an earlier poll had begun is failed, for
\* nobody knows what its child has done.
AfterLook(state) ==
    CASE state = "delivered" -> "acknowledge"
      [] state = "acknowledged" -> "process"
      [] state = "processing" -> "fail"

Looks ==
    /\ bridge.at = "look"
    /\ LET m == bridge.current
       IN  \/ ~Stored(m) /\ PollFails
           \/ In(m, Outcome) /\ Served
           \/ In(m, Unfinished \ {"queued"}) /\ Goes(AfterLook(message[m].state))
    /\ UNCHANGED <<store, Others, home, left, runs, faults>>

\* message_transition: a state that is there already is granted too, to anyone
\* and also when the responder has ended.
Granted(m, state) == In(m, {state}) \/ (Responder(m) /\ MayMove(m, state))

Moves(m, state) ==
    \/ In(m, {state}) /\ UNCHANGED store
    \/ ~In(m, {state}) /\ state \in Outcome /\ Settle(m, state)
    \/ ~In(m, {state}) /\ state \notin Outcome /\ Progress(m, state)

Transition(at, state, next) ==
    /\ bridge.at = at
    /\ \/ Granted(bridge.current, state) /\ Moves(bridge.current, state) /\ Goes(next)
       \/ ~Granted(bridge.current, state) /\ PollFails /\ UNCHANGED store
    /\ UNCHANGED <<Others, home, left, runs, faults>>

Acknowledges == Transition("acknowledge", "acknowledged", "process")
BeginsWork == Transition("process", "processing", "spawn")

\* A prompt that is too long for a command line is failed unseen.
Spawns ==
    /\ bridge.at = "spawn"
    /\ \/ Goes("fail") /\ UNCHANGED runs
       \/ Goes("run") /\ runs' = [runs EXCEPT ![bridge.current] = @ + 1]
    /\ UNCHANGED <<store, Others, home, left, faults>>

\* The child exits, or is stopped at the deadline or with the bridge, or it
\* could not be started.
ChildEnds ==
    /\ bridge.at = "run"
    /\ \/ Goes("exit")
       \/ bridge' = [bridge EXCEPT !.at = "fail", !.broken = TRUE]
    /\ UNCHANGED <<store, Others, home, left, runs, faults>>

LooksAgain ==
    /\ bridge.at = "exit"
    /\ LET m == bridge.current
       IN  \/ ~Stored(m) /\ PollFails
           \/ In(m, Outcome) /\ Served
           \/ In(m, Unfinished) /\ Goes("fail")
    /\ UNCHANGED <<store, Others, home, left, runs, faults>>

Fails ==
    /\ bridge.at = "fail"
    /\ \/ /\ Granted(bridge.current, "failed")
          /\ Moves(bridge.current, "failed")
          /\ Served
       \/ /\ ~Granted(bridge.current, "failed")
          /\ Goes("check")
          /\ UNCHANGED store
    /\ UNCHANGED <<Others, home, left, runs, faults>>

\* An error is none if the request has an outcome by now.
Checks ==
    /\ bridge.at = "check"
    /\ IF In(bridge.current, Outcome) THEN Served ELSE PollFails
    /\ UNCHANGED <<store, Others, home, left, runs, faults>>

-----------------------------------------------------------------------------
(* Failures and the end of the bridge *)

\* A request is not served, or its answer is lost: of the items too, and of the
\* status that is set after a child.
RequestFails ==
    /\ Fault
    /\ \/ bridge.at = "claim" /\ ClaimLost(Own) /\ PollFails
       \/ /\ bridge.at \in {"items", "look", "spawn", "exit", "check"}
          /\ PollFails
          /\ UNCHANGED <<store, Others>>
       \/ \E how \in {<<"acknowledge", "acknowledged">>, <<"process", "processing">>} :
            /\ bridge.at = how[1]
            /\ \/ Granted(bridge.current, how[2]) /\ Moves(bridge.current, how[2])
               \/ UNCHANGED store
            /\ PollFails
            /\ UNCHANGED Others
       \/ /\ bridge.at = "fail"
          /\ \/ Granted(bridge.current, "failed") /\ Moves(bridge.current, "failed")
             \/ UNCHANGED store
          /\ Goes("check")
          /\ UNCHANGED Others
    /\ UNCHANGED <<home, left, runs>>

\* A signal; the child, if one runs, is stopped with it.
Stops ==
    /\ bridge.at # "down" /\ ~bridge.stopping
    /\ bridge' = [bridge EXCEPT !.stopping = TRUE]
    /\ UNCHANGED <<store, Others, home, left, runs, faults>>

\* The loop is over, and the bootstrap closes its session.
Closes ==
    /\ bridge.at = "poll" /\ bridge.stopping
    /\ bridge' = Down
    /\ home' = None
    /\ left' = left \cup ({home} \ {None})
    /\ ended' = ended \cup ({home} \ {None})
    /\ UNCHANGED <<store, claim, timing, pruning, runs, faults>>

\* Its session lives on until its presence runs out, and so may its child.
Dies ==
    /\ bridge.at # "down"
    /\ Fault
    /\ bridge' = Down
    /\ home' = None
    /\ left' = left \cup ({home} \ {None})
    /\ claim' = [claim EXCEPT ![Own] = None]
    /\ UNCHANGED <<store, ended, timing, pruning, runs>>

-----------------------------------------------------------------------------
BridgeStep ==
    \/ PollBegins
    \/ ClaimServed
    \/ ClaimAnswered
    \/ ClaimRefused
    \/ \E m \in Message : TakesItem(m)
    \/ PollEnds
    \/ Looks
    \/ Acknowledges
    \/ BeginsWork
    \/ Spawns
    \/ ChildEnds
    \/ LooksAgain
    \/ Fails
    \/ Checks
    \/ Closes

\* What everybody else does.
WorldStep ==
    /\ \/ \E m \in Message : MessageStep(m)
       \/ \E c \in Claimer \ {Own} : ClaimStep(c)
       \/ \E s \in Session, k \in Key : KeyExpires(s, k)
       \/ PruneDelete
       \/ \E s \in Session : SessionEnds(s)
    /\ UNCHANGED bridgeVars

BridgeNext ==
    \/ BridgeStep
    \/ WorldStep
    \/ \E s \in Home : Registers(s)
    \/ LosesSession
    \/ RequestFails
    \/ Stops
    \/ Dies

allVars == <<vars, bridgeVars>>

\* The loop of the bridge goes on, whatever it awaits: a child ends at the
\* deadline at the latest, and an entry that is pending is idle long enough for
\* one of the polls to come.
BridgeFairness ==
    /\ WF_allVars(BridgeStep)
    /\ SF_allVars(ClaimRead(Own) /\ ClaimServed)

BridgeSpec == BridgeInit /\ [][BridgeNext]_allVars /\ BridgeFairness

-----------------------------------------------------------------------------
(* Properties *)

\* Types of the variables of the bridge.
BridgeTypeOK ==
    /\ home \in Home \cup {None}
    /\ left \subseteq Home
    /\ bridge \in Bridge
    /\ runs \in [Message -> Nat]
    /\ faults \in 0..MaxFaults

\* A request is run once at most: not again after an answer that was lost, a
\* poll that failed halfway, another claim of the same entry, or a restart.
RunsOnce == \A m \in Message : runs[m] <= 1

\* The bridge does not leave a request open that it has started a child for,
\* however many polls it takes, and without the timeout sweep: unless its
\* session is not its own any more.
RunIsClosed ==
    \A m \in Message :
        runs[m] > 0 ~> ~In(m, Unfinished) \/ message[m].target \in ended \cup left

\* Time passes, and the timeout sweep, a timer of the daemon, takes the oldest
\* deadlines in turn: each listed message's turn comes again and again.
SweepFairness ==
    \A m \in Message :
        /\ WF_allVars(DeadlinePasses(m) /\ WorldStep)
        /\ SF_allVars(TimeoutRead(m) /\ WorldStep)
        /\ WF_allVars(MessageTimeout(m) /\ WorldStep)

\* The sweep alone sees to it that every request gets an outcome, whatever the
\* bridge does, and whatever becomes of its claims.
EveryAskIsDecidedBySweep == SweepFairness => EveryAskIsDecided
=============================================================================
