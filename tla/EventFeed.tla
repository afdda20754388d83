------------------------------ MODULE EventFeed -----------------------------
(***************************************************************************)
(* What the runtime promises about its events, and the hub that hands them *)
(* to the sockets.  A Redis Function appends an event with the change it   *)
(* tells of.  A running daemon hands every valid event to the hub, at      *)
(* least once and in any order, and makes a dead letter of every malformed *)
(* one.  Only events that it has settled in this way leave the stream.     *)
(* An event is its number in the stream.                                   *)
(***************************************************************************)
EXTENDS Naturals, Sequences, FiniteSetsExt, SequencesExt

CONSTANTS
    Kind,        \* what a valid event is about
    Client,      \* sockets that clients open
    QueueLimit,  \* messages that wait for one socket
    MaxEvents,   \* bound: events
    MaxWire,     \* bound: messages that a client has not received yet
    None         \* no message

Malformed == "malformed"
EventId == 1..MaxEvents

ASSUME FeedAssumption ==
    /\ Malformed \notin Kind
    /\ QueueLimit \in Nat \ {0}
    /\ MaxEvents \in Nat /\ MaxWire \in Nat
    /\ None \notin Nat

VARIABLES
    stream,       \* the events ever appended
    first,        \* the oldest event that was not trimmed
    deadLetters,  \* events with a dead letter
    broadcast,    \* events that a hub has accepted
    process,      \* the daemon: off, starting or up
    hub,          \* per socket: the hub's client state
    conn,         \* per socket: the client's side
    wire          \* per socket: messages sent and not received

sockets == <<hub, conn, wire>>
feedVars == <<stream, first, deadLetters, broadcast, process, sockets>>

NoSocket == [active |-> FALSE, queue |-> <<>>, sending |-> None]

FeedInit ==
    /\ stream = <<>> /\ first = 1
    /\ deadLetters = {} /\ broadcast = {}
    /\ process = "off"
    /\ hub = [c \in Client |-> NoSocket]
    /\ conn = [c \in Client |-> "off"]
    /\ wire = [c \in Client |-> <<>>]

Event == 1..Len(stream)
Settled(e) == e \in broadcast \cup deadLetters

-----------------------------------------------------------------------------
(* The hub *)

\* The next message is sent unless one is on its way out.
Drained(s) ==
    IF s.sending = None /\ s.queue # <<>>
    THEN [s EXCEPT !.sending = Head(s.queue), !.queue = Tail(s.queue)]
    ELSE s

\* Mutant: a full queue drops the message and keeps the socket.
AcceptedOrDropped(s, e) ==
    IF s.active /\ Len(s.queue) < QueueLimit
    THEN Drained([s EXCEPT !.queue = Append(@, e)]) ELSE s

\* A socket whose queue is full is closed, every other one gets the message.
Accepted(s, e) ==
    IF ~s.active THEN s
    ELSE IF Len(s.queue) >= QueueLimit THEN NoSocket
         ELSE Drained([s EXCEPT !.queue = Append(@, e)])

HubAccept(e) ==
    /\ \A c \in Client : Len(wire[c]) < MaxWire
    /\ hub' = [c \in Client |-> Accepted(hub[c], e)]
    /\ wire' = [c \in Client |->
                  IF hub[c].active /\ hub[c].sending = None /\ hub'[c].sending = e
                  THEN Append(wire[c], e) ELSE wire[c]]
    /\ broadcast' = broadcast \cup {e}
    /\ UNCHANGED conn

\* The callback of a send: the next message goes out.
Sent(c) ==
    /\ hub[c].sending # None
    /\ hub' = [hub EXCEPT ![c] = Drained([@ EXCEPT !.sending = None])]
    /\ wire' = [wire EXCEPT ![c] =
                  IF hub'[c].sending = None THEN @ ELSE Append(@, hub'[c].sending)]
    /\ UNCHANGED <<stream, first, deadLetters, broadcast, process, conn>>

\* The hub has a new socket before its client hears of it.
Connect(c) ==
    /\ process = "up" /\ conn[c] = "off"
    /\ conn' = [conn EXCEPT ![c] = "opening"]
    /\ hub' = [hub EXCEPT ![c] = [NoSocket EXCEPT !.active = TRUE]]
    /\ UNCHANGED <<stream, first, deadLetters, broadcast, process, wire>>

Open(c) ==
    /\ conn[c] = "opening"
    /\ conn' = [conn EXCEPT ![c] = "open"]
    /\ UNCHANGED <<stream, first, deadLetters, broadcast, process, hub, wire>>

Receive(c) ==
    /\ conn[c] = "open" /\ wire[c] # <<>>
    /\ wire' = [wire EXCEPT ![c] = Tail(@)]
    /\ UNCHANGED <<stream, first, deadLetters, broadcast, process, hub, conn>>

\* The connection is lost, a send fails or takes too long, or too much is
\* buffered: the hub forgets the socket.
Break(c) ==
    /\ hub[c].active
    /\ hub' = [hub EXCEPT ![c] = NoSocket]
    /\ UNCHANGED <<stream, first, deadLetters, broadcast, process, conn, wire>>

\* The client hears that its socket is closed.  What it has not received is lost.
Closed(c) ==
    /\ conn[c] # "off" /\ ~hub[c].active
    /\ conn' = [conn EXCEPT ![c] = "off"]
    /\ wire' = [wire EXCEPT ![c] = <<>>]
    /\ UNCHANGED <<stream, first, deadLetters, broadcast, process, hub>>

-----------------------------------------------------------------------------
(* The daemon *)

Append1(k) ==
    /\ process # "off"
    /\ Len(stream) < MaxEvents
    /\ stream' = Append(stream, k)
    /\ UNCHANGED <<first, deadLetters, broadcast, process, sockets>>

Tell(e) ==
    /\ process # "off" /\ stream[e] # Malformed
    /\ HubAccept(e)
    /\ UNCHANGED <<stream, first, deadLetters, process>>

Dispose(e) ==
    /\ process # "off" /\ stream[e] = Malformed
    /\ deadLetters' = deadLetters \cup {e}
    /\ UNCHANGED <<stream, first, broadcast, process, sockets>>

Trim ==
    /\ \E n \in first..Len(stream) + 1 :
          first' = n /\ \A e \in first..n - 1 : Settled(e)
    /\ UNCHANGED <<stream, deadLetters, broadcast, process, sockets>>

\* The process starts, begins to listen, or ends and closes its sockets.
Starts ==
    /\ process = "off" /\ process' = "starting"
    /\ UNCHANGED <<stream, first, deadLetters, broadcast, sockets>>

Listens ==
    /\ process = "starting" /\ process' = "up"
    /\ UNCHANGED <<stream, first, deadLetters, broadcast, sockets>>

Ends ==
    /\ process # "off" /\ process' = "off"
    /\ hub' = [c \in Client |-> NoSocket]
    /\ UNCHANGED <<stream, first, deadLetters, broadcast, conn, wire>>

DaemonNext ==
    \/ \E k \in Kind \cup {Malformed} : Append1(k)
    \/ \E e \in Event : Tell(e) \/ Dispose(e)
    \/ Trim \/ Starts \/ Listens \/ Ends
    \/ \E c \in Client : Sent(c) \/ Break(c)

ClientNext == \E c \in Client : Connect(c) \/ Open(c) \/ Receive(c) \/ Closed(c)

FeedSpec == FeedInit /\ [][DaemonNext \/ ClientNext]_feedVars

\* The types of the stream, the hub and the sockets.  No queue is longer than the
\* limit, and only a socket that the hub knows has messages waiting.
FeedTypeOK ==
    /\ stream \in Seq(Kind \cup {Malformed}) /\ Len(stream) <= MaxEvents
    /\ first \in 1..MaxEvents + 1
    /\ deadLetters \subseteq EventId /\ broadcast \subseteq EventId
    /\ process \in {"off", "starting", "up"}
    /\ hub \in [Client -> [active : BOOLEAN, queue : Seq(EventId), sending : EventId \cup {None}]]
    /\ \A c \in Client :
          Len(hub[c].queue) <= QueueLimit /\ (hub[c].active \/ hub[c] = NoSocket)
    /\ conn \in [Client -> {"off", "opening", "open"}]
    /\ wire \in [Client -> Seq(EventId)]

=============================================================================
