----------------------------- MODULE Dashboard ------------------------------
(***************************************************************************)
(* A page of the dashboard at the end of the event stream: what it loaded  *)
(* of each resource, the events it has seen, the resources it was told to  *)
(* load again, and the batch that loads them.                              *)
(*                                                                         *)
(* A kind of event names the resource it changes.  What a resource shows   *)
(* is the length of the stream when the daemon read it: a Redis Function   *)
(* appends an event together with the change it tells of.                  *)
(***************************************************************************)
EXTENDS EventFeed

CONSTANT Page     \* the page's socket, the only client

Activity == "activity"
Resource == Kind \cup {Activity}

ASSUME PageAssumption == Client = {Page} /\ Activity \notin Kind

VARIABLES
    live,        \* the page has loaded everything once and follows the events
    shown,       \* per resource: the snapshot on the screen, None if there is none
    stale,       \* resources whose last load failed
    seen,        \* events the page knows
    invalid,     \* resources that wait for a batch
    batch,       \* per resource in the running batch: its load
    swallowed    \* history: events first seen in a list that a batch read later
                 \* than it read the resource they change

view == <<live, shown, stale, seen, invalid>>
pageVars == <<view, batch, swallowed>>
screenVars == <<feedVars, pageVars>>

NoLoad == [is |-> "none", at |-> 0]
Waits == [is |-> "waits", at |-> 0]
Failed == [is |-> "failed", at |-> 0]
Loaded(n) == [is |-> "loaded", at |-> n]

ScreenInit ==
    /\ FeedInit
    /\ live = FALSE
    /\ shown = [r \in Resource |-> None]
    /\ stale = {} /\ seen = {} /\ invalid = {}
    /\ batch = [r \in Resource |-> Waits]
    /\ swallowed = {}

InBatch == {r \in Resource : batch[r] # NoLoad}

-----------------------------------------------------------------------------
(* Loading *)

\* The requests of a batch are under way together and answered one by one.
\* The list of events cannot be read if one of them is malformed: the daemon
\* makes a dead letter of the latest such event and refuses.
Load(r) ==
    LET malformed == {e \in first..Len(stream) : stream[e] = Malformed}
        refused == r = Activity /\ malformed # {}
    IN /\ batch[r] = Waits
       /\ \/ /\ batch' = [batch EXCEPT ![r] = Failed]
             /\ UNCHANGED feedVars
          \/ /\ process = "up" /\ refused
             /\ batch' = [batch EXCEPT ![r] = Failed]
             /\ Dispose(Max(malformed))
          \/ /\ process = "up" /\ ~refused
             /\ batch' = [batch EXCEPT ![r] = Loaded(Len(stream))]
             /\ UNCHANGED feedVars
       /\ UNCHANGED <<view, swallowed>>

\* What could not be loaded stays on the screen and is stale.
StaleAfter(keys, loaded) == (stale \ loaded) \cup (keys \ loaded)

\* The batch is complete.  The first one starts the page, whatever it could not
\* load.  The events of a list become known, and invalidate nothing.
Complete ==
    LET loaded == {r \in InBatch : batch[r].is = "loaded"}
        now == [r \in Resource |-> IF r \in loaded THEN batch[r].at ELSE shown[r]]
        listed == IF Activity \in loaded THEN first..batch[Activity].at ELSE {}
    IN /\ InBatch # {} /\ \A r \in InBatch : batch[r] # Waits
       /\ live' = TRUE
       /\ shown' = now
       /\ stale' = IF live THEN StaleAfter(InBatch, loaded) ELSE {}
       /\ seen' = seen \cup listed
       /\ swallowed' = {e \in swallowed \cup (listed \ seen) :
                           /\ stream[e] \in Kind
                           /\ now[stream[e]] # None /\ now[stream[e]] < e}
       /\ batch' = [r \in Resource |-> NoLoad]
       /\ UNCHANGED <<feedVars, invalid>>

\* The timer of the invalidations: everything that waits becomes a batch.
Flush ==
    /\ invalid # {} /\ InBatch = {}
    /\ batch' = [r \in Resource |-> IF r \in invalid THEN Waits ELSE NoLoad]
    /\ invalid' = {}
    /\ UNCHANGED <<feedVars, live, shown, stale, seen, swallowed>>

-----------------------------------------------------------------------------
(* Following *)

\* The page is connected: it cannot know what it missed.
OpenPage ==
    /\ Open(Page)
    /\ invalid' = Resource
    /\ UNCHANGED <<live, shown, stale, seen, batch, swallowed>>

\* An event that is not known invalidates its resource.
Hear ==
    LET e == Head(wire[Page]) IN
    /\ Receive(Page)
    /\ seen' = seen \cup {e}
    /\ invalid' = IF e \in seen THEN invalid ELSE invalid \cup {stream[e]}
    /\ UNCHANGED <<live, shown, stale, batch, swallowed>>

\* The user asks for a retry.
Retry ==
    /\ live /\ stale # {}
    /\ invalid' = Resource
    /\ UNCHANGED <<feedVars, live, shown, stale, seen, batch, swallowed>>

PageNext ==
    \/ \E r \in Resource : Load(r)
    \/ Complete \/ Flush
    \/ live /\ Connect(Page) /\ UNCHANGED pageVars
    \/ OpenPage \/ Hear \/ Retry
    \/ Closed(Page) /\ UNCHANGED pageVars

ScreenNext == (DaemonNext /\ UNCHANGED pageVars) \/ PageNext

ScreenSpec == ScreenInit /\ [][ScreenNext]_screenVars

-----------------------------------------------------------------------------
(* Properties *)

\* The types of the screen and the batch; what the screen shows of a resource is
\* a length the stream has had, and what a list swallowed is known to the page.
ScreenTypeOK ==
    /\ FeedTypeOK
    /\ live \in BOOLEAN
    /\ shown \in [Resource -> 0..MaxEvents \cup {None}]
    /\ stale \subseteq Resource /\ seen \subseteq EventId /\ invalid \subseteq Resource
    /\ batch \in [Resource -> {NoLoad, Waits, Failed} \cup {Loaded(n) : n \in 0..MaxEvents}]
    /\ swallowed \subseteq seen

\* Everything the stream holds has arrived, and the page waits for nothing.
Quiet ==
    /\ live /\ conn[Page] = "open" /\ hub[Page].active
    /\ wire[Page] = <<>> /\ hub[Page].queue = <<>>
    /\ \A e \in 1..Len(stream) : Settled(e)
    /\ invalid = {} /\ InBatch = {}

Shows(r, e) == shown[r] # None /\ shown[r] >= e

\* Documented: the screen of a page at rest shows every change of a resource that
\* it does not mark as stale.  The code does not keep this: an event that a page
\* first meets in a list invalidates nothing.
ScreenIsCurrent ==
    Quiet => \A e \in 1..Len(stream) :
                stream[e] \in Kind \ stale => Shows(stream[e], e)

\* It does so for every event but those: whatever a full queue, a lost connection,
\* a restart, a failed load or the order of the answers took away is made up for.
ScreenCatchesUp ==
    Quiet => \A e \in 1..Len(stream) \ swallowed :
                stream[e] \in Kind \ stale => Shows(stream[e], e)

\* What is on the screen of a resource is never replaced by an older reading, and
\* stays there until there is a newer one.
ScreenNeverGoesBack ==
    [][\A r \in Resource : shown[r] # None => shown'[r] # None /\ shown'[r] >= shown[r]]_screenVars

=============================================================================
