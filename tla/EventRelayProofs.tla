-------------------------- MODULE EventRelayProofs --------------------------
(***************************************************************************)
(* Proofs about EventRelay, for every set of kinds of events and every     *)
(* batch, retention length and bound on events and failures.               *)
(*                                                                         *)
(* The second half is about Dashboard: a page with a socket on the stream  *)
(* that EventRelay implements.  Both stand on EventFeed and share its      *)
(* stream and its hub, whose sockets nobody opens in EventRelay.           *)
(***************************************************************************)
EXTENDS EventRelay, Dashboard, TLAPS, FiniteSetTheorems, WellFoundedInduction

\* What a worker holds were events; the one it acknowledges is settled; one that
\* is past the group's creation finds the group; and none outlives the process.
Fit(r) ==
    /\ \A i \in 1..Len(r.hand) : r.hand[i] \in Event
    /\ r.at \in {"process", "ack"} => r.hand # <<>>
    /\ r.at = "ack" => Settled(Head(r.hand))
    /\ r.at \notin {"off", "group"} => delivered # None
    /\ r.at # "off" => process # "off"

WorkersFit == \A w \in Worker : Fit(work[w])

\* Before the group exists nothing is in the stream; afterwards the group is
\* never ahead of the stream, and the trimming never ahead of the group.
GroupOK ==
    /\ delivered = None => Len(stream) = 0 /\ pending = {} /\ first = 1
    /\ delivered # None => /\ delivered <= Len(stream) /\ first <= delivered + 1
                           /\ \A e \in pending : e <= delivered

\* What the retention saw acknowledged is settled, and no more was appended since
\* than it leaves.
LookOK ==
    look # None => /\ delivered # None /\ look <= delivered
                   /\ Len(stream) - look <= MaxLength
                   /\ \A e \in 1..look : Settled(e)

IInv ==
    /\ TypeOK
    /\ WorkersFit
    /\ GroupOK
    /\ LookOK
    /\ NothingIsDropped

\* No socket is opened here.
SocketsIdle ==
    hub = [c \in Client |-> NoSocket] /\ wire = [c \in Client |-> <<>>]

-----------------------------------------------------------------------------
(* Sets of entries in order *)

\* Every set of natural numbers has a least element.
LEMMA NatMin ==
    ASSUME NEW T \in SUBSET Nat, T # {}
    PROVE  \E x \in T : \A y \in T : x <= y
<1>1. \E x \in T : \A y \in T : ~ (<<y, x>> \in OpToRel(<, Nat))
  BY NatLessThanWellFounded, WFMin, Zenon
<1>2. PICK x \in T : \A y \in T : ~ (<<y, x>> \in OpToRel(<, Nat))
  BY <1>1
<1>3. \A y \in T : ~(y < x)
  BY <1>2 DEF OpToRel
<1> QED
  BY <1>3

LEMMA MinFacts ==
    ASSUME NEW T \in SUBSET Nat, T # {}
    PROVE  Min(T) \in T /\ \A y \in T : Min(T) <= y
BY NatMin DEF Min

\* A sequence over 1..n of S that rises.
Rising(n, S) == {s \in [1..n -> S] : \A i, j \in 1..n : i < j => s[i] < s[j]}

\* Every finite set of numbers can be put in order: no least cardinality has a
\* counterexample.
LEMMA RisingExists ==
    ASSUME NEW S \in SUBSET Nat, IsFiniteSet(S)
    PROVE  Rising(Cardinality(S), S) # {}
<1> DEFINE Bad == {n \in Nat : \E T \in SUBSET Nat :
                      IsFiniteSet(T) /\ Cardinality(T) = n /\ Rising(n, T) = {}}
<1>1. ASSUME Bad # {} PROVE FALSE
  <2>1. PICK n \in Bad : \A m \in Bad : n <= m
    BY <1>1, NatMin
  <2>2. PICK T \in SUBSET Nat : IsFiniteSet(T) /\ Cardinality(T) = n /\ Rising(n, T) = {}
    BY <2>1
  <2>3. n \in Nat
    BY <2>1
  <2>4. CASE n = 0
    <3>1. [i \in 1..0 |-> 0] \in Rising(0, T)
      BY DEF Rising
    <3> QED
      BY <2>2, <2>4, <3>1
  <2>5. CASE n # 0
    <3>1. T # {}
      BY <2>2, <2>5, FS_EmptySet
    <3> DEFINE x == Min(T)
               U == T \ {x}
    <3>2. x \in T /\ \A y \in T : x <= y
      BY <3>1, MinFacts
    <3>3. IsFiniteSet(U) /\ Cardinality(U) = n - 1
      BY <2>2, <3>2, FS_RemoveElement
    <3>4. n - 1 \in Nat /\ n - 1 \notin Bad
      BY <2>1, <2>3, <2>5
    <3>5. U \in SUBSET Nat
      OBVIOUS
    <3>6. Rising(n - 1, U) # {}
      BY <3>3, <3>4, <3>5
    <3>7. PICK s \in Rising(n - 1, U) : TRUE
      BY <3>6
    <3>8. s \in [1..(n-1) -> U] /\ \A i, j \in 1..(n-1) : i < j => s[i] < s[j]
      BY <3>7 DEF Rising
    <3> DEFINE t == [i \in 1..n |-> IF i = 1 THEN x ELSE s[i - 1]]
    <3> HIDE DEF x
    <3>9. \A i \in 1..n : i # 1 => i - 1 \in 1..(n-1) /\ t[i] = s[i - 1] /\ t[i] \in U
      BY <2>3, <3>8
    <3>10. \A i \in 1..n : i = 1 => t[i] = x
      OBVIOUS
    <3>11. \A y \in U : x < y
      BY <3>2
    <3>12. t \in [1..n -> T]
      BY <3>2, <3>9
    <3>13. ASSUME NEW i \in 1..n, NEW j \in 1..n, i < j
           PROVE  t[i] < t[j]
      <4>1. j # 1 /\ t[j] = s[j - 1] /\ j - 1 \in 1..(n-1) /\ t[j] \in U
        BY <2>3, <3>9, <3>13
      <4>2. CASE i = 1
        BY <3>10, <3>11, <4>1, <4>2
      <4>3. CASE i # 1
        <5>1. t[i] = s[i - 1] /\ i - 1 \in 1..(n-1) /\ i - 1 < j - 1
          BY <2>3, <3>9, <3>13, <4>3
        <5> QED
          BY <3>8, <4>1, <5>1
      <4> QED
        BY <4>2, <4>3
    <3>14. t \in Rising(n, T)
      BY <3>12, <3>13 DEF Rising
    <3> QED
      BY <2>2, <3>14
  <2> QED
    BY <2>4, <2>5
<1>2. Cardinality(S) \in Nat
  BY FS_CardinalityType
<1> QED
  BY <1>1, <1>2

\* InOrder has every entry of the set, and nothing else.
LEMMA InOrderFacts ==
    ASSUME NEW S \in SUBSET Nat, IsFiniteSet(S)
    PROVE  /\ InOrder(S) \in Seq(S)
           /\ Len(InOrder(S)) = Cardinality(S)
           /\ Range(InOrder(S)) = S
<1> DEFINE n == Cardinality(S)
           s == InOrder(S)
<1>1. n \in Nat
  BY FS_CardinalityType
<1>2. s = CHOOSE t \in [1..n -> S] : \A i, j \in 1..n : i < j => t[i] < t[j]
  BY DEF InOrder
<1>3. \E t \in [1..n -> S] : \A i, j \in 1..n : i < j => t[i] < t[j]
  BY RisingExists DEF Rising
<1>4. s \in [1..n -> S] /\ \A i, j \in 1..n : i < j => s[i] < s[j]
  BY <1>2, <1>3
<1> HIDE DEF n, s
<1>5. ASSUME NEW i \in 1..n, NEW j \in 1..n, s[i] = s[j] PROVE i = j
  <2>1. s[i] \in S /\ s[j] \in S
    BY <1>4
  <2>2. s[i] \in Nat /\ s[j] \in Nat
    BY <2>1
  <2>3. ~(s[i] < s[j]) /\ ~(s[j] < s[i])
    BY <1>5, <2>2
  <2>4. ~(i < j) /\ ~(j < i) /\ i \in Int /\ j \in Int
    BY <1>1, <1>4, <2>3
  <2> QED
    BY <2>4
<1>6. s \in Injection(1..n, S)
  BY <1>4, <1>5 DEF Injection, IsInjective
<1>7. Cardinality(1..n) = n
  BY <1>1, FS_Interval
<1>8. s \in Surjection(1..n, S)
  BY <1>6, <1>7, FS_Injection DEF n
<1>9. s \in Seq(S) /\ Len(s) = n
  BY <1>1, <1>4
<1>10. Range(s) = S
  BY <1>4, <1>8 DEF Range, Surjection
<1> QED
  BY <1>9, <1>10 DEF n, s

-----------------------------------------------------------------------------
(* Types and what the workers rely on *)

Work == [at : Place, hand : Seq(EventId), next : 0..MaxEvents, polled : BOOLEAN, failed : BOOLEAN]

LEMMA NumbersFacts ==
    /\ MaxEvents \in Nat /\ MaxFaults \in Nat /\ MaxLength \in Nat \ {0} /\ Batch \in Nat \ {0}
    /\ None \notin Nat /\ QueueLimit \in Nat \ {0}
    /\ EventId \subseteq Nat \ {0} /\ \A e \in EventId : e <= MaxEvents
BY FeedAssumption, RelayAssumption DEF EventId

LEMMA OffFacts == Off \in Work /\ Off.at = "off" /\ Off.hand = <<>>
BY NumbersFacts DEF Off, Work, Place

LEMMA AtFacts ==
    ASSUME NEW place \in Place
    PROVE  At(place) \in Work /\ At(place).at = place /\ At(place).hand = <<>>
BY OffFacts DEF At, Off, Work

LEMMA NoSocketFacts ==
    /\ NoSocket \in [active : BOOLEAN, queue : Seq(EventId), sending : EventId \cup {None}]
    /\ Len(NoSocket.queue) <= QueueLimit /\ ~NoSocket.active
BY NumbersFacts DEF NoSocket

LEMMA TypeFacts ==
    ASSUME TypeOK
    PROVE  /\ stream \in Seq(Kind \cup {Malformed}) /\ Len(stream) \in 0..MaxEvents
           /\ Event \subseteq EventId /\ Event \subseteq Nat
           /\ first \in Nat \ {0} /\ first <= MaxEvents + 1
           /\ work \in [Worker -> Work]
           /\ delivered # None => delivered \in Nat
           /\ look # None => look \in Nat
BY NumbersFacts DEF TypeOK, FeedTypeOK, Event, EventId, Work

\* Fit, of what a worker is after a step.
FitNext(r) ==
    /\ \A i \in 1..Len(r.hand) : r.hand[i] \in Event'
    /\ r.at \in {"process", "ack"} => r.hand # <<>>
    /\ r.at = "ack" => Head(r.hand) \in broadcast' \cup deadLetters'
    /\ r.at \notin {"off", "group"} => delivered' # None
    /\ r.at # "off" => process' # "off"

LEMMA WorkersFitNext == WorkersFit' <=> \A w \in Worker : FitNext(work'[w])
BY DEF WorkersFit, Fit, FitNext, Settled

\* Events, what is settled, the group and the process do not go away.
Grows ==
    /\ Event \subseteq Event'
    /\ broadcast \subseteq broadcast' /\ deadLetters \subseteq deadLetters'
    /\ delivered # None => delivered' # None
    /\ process # "off" => process' # "off"

LEMMA StaysFit ==
    ASSUME Grows, NEW r, Fit(r)
    PROVE  FitNext(r)
BY DEF Grows, Fit, FitNext, Settled

LEMMA OffIsFit == FitNext(Off)
BY OffFacts DEF FitNext

LEMMA GroupIsFit == ASSUME process' # "off" PROVE FitNext(At("group"))
<1>1. "group" \in Place
  BY DEF Place
<1> QED
  BY <1>1, AtFacts DEF FitNext

LEMMA AtIsFit ==
    ASSUME process' # "off", delivered' # None, NEW place \in Place \ {"process", "ack"}
    PROVE  FitNext(At(place))
BY AtFacts DEF FitNext

\* A failure requests a recovery: it is at its beginning, or one runs already.
LEMMA RequestFacts ==
    ASSUME TypeOK, NEW wk \in [Worker -> Work], Request(wk)
    PROVE  /\ work' \in [Worker -> Work]
           /\ state' \in {"recovering", "ready", "degraded"} /\ requested' \in BOOLEAN
           /\ \A w \in Worker : work'[w] = wk[w] \/ work'[w] = At("group")
<1>1. At("group") \in Work
  BY AtFacts DEF Place
<1> QED
  BY <1>1 DEF Request, TypeOK, Worker

\* A loop and a recovery that fail leave the daemon running.
LEMMA FailsFacts ==
    ASSUME TypeOK, NEW w \in {"recovery", "loop"}, Fails(w)
    PROVE  /\ KeepsRunning
           /\ work' \in [Worker -> Work]
           /\ state' \in {"recovering", "ready", "degraded"} /\ requested' \in BOOLEAN
           /\ healthy' \in BOOLEAN /\ poison' = poison
           /\ \A v \in Worker : work'[v] = work[v] \/ work'[v] = Off \/ work'[v] = At("group")
<1>1. work \in [Worker -> Work] /\ Off \in Work /\ At("group") \in Work
  BY TypeFacts, OffFacts, AtFacts DEF Place
<1>2. CASE w = "recovery"
  BY <1>1, <1>2 DEF Fails, TypeOK, relay
<1>3. CASE w = "loop"
  <2> DEFINE wk == [work EXCEPT !["loop"] = Off]
  <2>1. wk \in [Worker -> Work] /\ \A v \in Worker : wk[v] = work[v] \/ wk[v] = Off
    BY <1>1
  <2>2. KeepsRunning /\ poison' = poison
    BY <1>3 DEF Fails
  <2>3. CASE healthy' = FALSE /\ Request(wk)
    BY <2>1, <2>2, <2>3, RequestFacts
  <2>4. CASE Continue(wk) /\ UNCHANGED healthy
    BY <2>1, <2>2, <2>4 DEF Continue, runtime, TypeOK
  <2> QED
    BY <1>3, <2>3, <2>4 DEF Fails
<1> QED
  BY <1>2, <1>3

\* The next place of a worker that is through with the head of its hand.
LEMMA ThroughFacts ==
    ASSUME IInv, NEW w \in Worker, work[w].at \in {"process", "ack"}, NEW failed \in BOOLEAN
    PROVE  /\ Through(w, failed) \in [Worker -> Work]
           /\ \A v \in Worker : Fit(Through(w, failed)[v])
<1> DEFINE h == work[w].hand
           rest == Tail(h)
           on == [work[w] EXCEPT !.hand = rest, !.failed = @ \/ (failed /\ ~work[w].polled)]
           next == IF rest # <<>> THEN [on EXCEPT !.at = "process"]
                   ELSE IF on.polled THEN At("claim")
                   ELSE IF on.next # 0 THEN [on EXCEPT !.at = "claim"]
                   ELSE [on EXCEPT !.at = "claimed"]
<1>1. work \in [Worker -> Work] /\ work[w] \in Work
  BY TypeFacts DEF IInv
<1>2. /\ h \in Seq(EventId) /\ h # <<>> /\ delivered # None /\ process # "off"
      /\ \A i \in 1..Len(h) : h[i] \in Event
  BY <1>1 DEF IInv, WorkersFit, Fit, Work
<1>3. /\ rest \in Seq(EventId)
      /\ \A i \in 1..Len(rest) : rest[i] \in Event
  BY <1>2
<1>4. /\ on \in Work /\ on.hand = rest
      /\ \A place \in Place : /\ [on EXCEPT !.at = place] \in Work
                              /\ [on EXCEPT !.at = place].hand = rest
                              /\ [on EXCEPT !.at = place].at = place
  BY <1>1, <1>3 DEF Work
<1>5. {"process", "claim", "claimed"} \subseteq Place
  BY DEF Place
<1> HIDE DEF on
<1>6. next \in Work /\ Fit(next)
  BY <1>2, <1>3, <1>4, <1>5, AtFacts DEF Fit
<1>7. Through(w, failed) = [work EXCEPT ![w] = next]
  BY DEF Through, on
<1> QED
  BY <1>1, <1>6, <1>7 DEF IInv, WorkersFit

-----------------------------------------------------------------------------
(* The initial state, and the two ways in which most steps go *)

LEMMA InitIInv == Init => IInv
<1> SUFFICES ASSUME Init PROVE IInv
  OBVIOUS
<1>1. FeedTypeOK
  BY NumbersFacts, NoSocketFacts DEF Init, FeedInit, FeedTypeOK
<1>2. TypeOK
  <2>1. work \in [Worker -> Work] /\ poison \in [EventId -> 0..3]
    BY OffFacts DEF Init
  <2>2. faults \in 0..MaxFaults
    BY NumbersFacts DEF Init
  <2> QED
    BY <1>1, <2>1, <2>2 DEF Init, TypeOK, Work
<1>3. WorkersFit
  BY OffFacts DEF Init, WorkersFit, Fit
<1>4. GroupOK /\ LookOK /\ NothingIsDropped
  BY DEF Init, FeedInit, GroupOK, LookOK, NothingIsDropped
<1> QED
  BY <1>2, <1>3, <1>4 DEF IInv

RunTypes ==
    /\ work \in [Worker -> Work]
    /\ state \in {"recovering", "ready", "degraded"} /\ requested \in BOOLEAN
    /\ healthy \in BOOLEAN /\ poison \in [EventId -> 0..3]
    /\ faults \in 0..MaxFaults

\* The workers move on; the stream and the group stay as they are.
LEMMA WorkersMove ==
    ASSUME IInv, KeepsRunning, RunTypes', UNCHANGED <<delivered, pending>>, idle' \subseteq idle,
           \A w \in Worker : FitNext(work'[w])
    PROVE  IInv'
<1>1. TypeOK'
  BY DEF IInv, TypeOK, FeedTypeOK, RunTypes, KeepsRunning, feedVars, sockets, Work
<1>2. WorkersFit'
  BY WorkersFitNext
<1>3. GroupOK' /\ LookOK' /\ NothingIsDropped'
  BY DEF IInv, GroupOK, LookOK, NothingIsDropped, Event, Settled, KeepsRunning, feedVars
<1> QED
  BY <1>1, <1>2, <1>3 DEF IInv

\* The process ends.
LEMMA ProcessEndsStep ==
    ASSUME IInv, ProcessEnds, UNCHANGED group, faults' \in 0..MaxFaults
    PROVE  IInv'
<1>1. FeedTypeOK'
  BY NoSocketFacts DEF IInv, TypeOK, FeedTypeOK, ProcessEnds, Ends
<1>2. TypeOK'
  <2>1. work' \in [Worker -> Work] /\ poison' \in [EventId -> 0..3]
    BY OffFacts DEF ProcessEnds
  <2> QED
    BY <1>1, <2>1 DEF IInv, TypeOK, ProcessEnds, group, Work
<1>3. WorkersFit'
  BY OffIsFit, WorkersFitNext DEF ProcessEnds
<1>4. GroupOK' /\ NothingIsDropped'
  BY DEF IInv, GroupOK, NothingIsDropped, Event, Settled, ProcessEnds, Ends, group
<1>5. LookOK'
  BY DEF LookOK, ProcessEnds
<1> QED
  BY <1>2, <1>3, <1>4, <1>5 DEF IInv

\* A worker fails over a command.
LEMMA FailsStep ==
    ASSUME IInv, NEW w \in Worker, Running(w), Fault, Fails(w), UNCHANGED group
    PROVE  IInv'
<1>1. faults' \in 0..MaxFaults
  BY NumbersFacts DEF IInv, TypeOK, Fault
<1>2. CASE w = "startup"
  BY <1>1, <1>2, ProcessEndsStep DEF Fails
<1>3. CASE w \in {"recovery", "loop"}
  <2>1. /\ KeepsRunning
        /\ work' \in [Worker -> Work]
        /\ state' \in {"recovering", "ready", "degraded"} /\ requested' \in BOOLEAN
        /\ healthy' \in BOOLEAN /\ poison' = poison
        /\ \A v \in Worker : work'[v] = work[v] \/ work'[v] = Off \/ work'[v] = At("group")
    BY <1>3, FailsFacts DEF IInv
  <2>2. RunTypes'
    BY <1>1, <2>1 DEF RunTypes, IInv, TypeOK
  <2>3. process' # "off"
    BY <2>1 DEF KeepsRunning, feedVars, Running, IInv, WorkersFit, Fit
  <2>4. Grows
    BY <2>1 DEF Grows, KeepsRunning, feedVars, Event, group
  <2>5. \A v \in Worker : FitNext(work'[v])
    BY <2>1, <2>3, <2>4, StaysFit, OffIsFit, GroupIsFit DEF IInv, WorkersFit
  <2> QED
    BY <2>1, <2>2, <2>5, WorkersMove DEF group
<1> QED
  BY <1>2, <1>3 DEF Worker

-----------------------------------------------------------------------------
(* The steps of the stream and the retention *)

LEMMA AppendEventStep ==
    ASSUME IInv, NEW k \in Kind \cup {Malformed}, AppendEvent(k)
    PROVE  IInv'
<1>1. /\ stream' = Append(stream, k) /\ Len(stream) < MaxEvents /\ delivered # None
      /\ look # None => Len(stream) - look < MaxLength
      /\ UNCHANGED <<first, deadLetters, broadcast, process, sockets, relayVars>>
  BY DEF AppendEvent, Append1
<1>2. /\ stream' \in Seq(Kind \cup {Malformed}) /\ Len(stream') = Len(stream) + 1
      /\ Len(stream) \in Nat /\ Event' = Event \cup {Len(stream) + 1} /\ Len(stream) + 1 \in EventId
  BY <1>1, TypeFacts, NumbersFacts DEF IInv, Event, EventId
<1>3. FeedTypeOK'
  BY <1>1, <1>2, NumbersFacts DEF IInv, TypeOK, FeedTypeOK, sockets
<1>4. TypeOK'
  BY <1>1, <1>3 DEF IInv, TypeOK, relayVars, group, runtime, relay
<1>5. Grows
  BY <1>1, <1>2 DEF Grows, relayVars, group
<1>6. WorkersFit'
  BY <1>1, <1>5, StaysFit, WorkersFitNext DEF IInv, WorkersFit, relayVars
<1>7. GroupOK'
  BY <1>1, <1>2, TypeFacts DEF IInv, GroupOK, relayVars, group
<1>8. LookOK'
  BY <1>1, <1>2, TypeFacts, NumbersFacts DEF IInv, LookOK, Settled, relayVars, group
<1>9. NothingIsDropped'
  <2>1. Len(stream) + 1 >= first /\ Len(stream) + 1 > delivered
    BY <1>1, <1>2, TypeFacts DEF IInv, GroupOK
  <2> QED
    BY <1>1, <1>2, <2>1 DEF IInv, NothingIsDropped, Settled, relayVars, group
<1> QED
  BY <1>4, <1>6, <1>7, <1>8, <1>9 DEF IInv

LEMMA TurnsIdleStep == ASSUME IInv, NEW e \in EventId, TurnsIdle(e) PROVE IInv'
<1>1. TypeOK'
  BY DEF IInv, TypeOK, FeedTypeOK, TurnsIdle, feedVars, sockets, runtime, relay
<1>2. WorkersFit'
  BY DEF IInv, WorkersFit, Fit, Event, Settled, TurnsIdle, feedVars
<1>3. GroupOK' /\ LookOK' /\ NothingIsDropped'
  BY DEF IInv, GroupOK, LookOK, NothingIsDropped, Event, Settled, TurnsIdle, feedVars
<1> QED
  BY <1>1, <1>2, <1>3 DEF IInv

LEMMA RetentionLookStep == ASSUME IInv, RetentionLook PROVE IInv'
<1>1. /\ pending = {} /\ delivered = Len(stream) /\ look' = Len(stream)
      /\ UNCHANGED <<feedVars, group, runtime, work, relay, faults>>
  BY DEF RetentionLook, AllAcknowledged
<1>2. /\ Len(stream) \in 0..MaxEvents /\ delivered # None /\ MaxLength \in Nat
  BY <1>1, TypeFacts, NumbersFacts DEF IInv
<1>3. TypeOK'
  BY <1>1, <1>2 DEF IInv, TypeOK, FeedTypeOK, feedVars, sockets, group, runtime, relay
<1>4. WorkersFit'
  BY <1>1 DEF IInv, WorkersFit, Fit, Event, Settled, feedVars, group
<1>5. GroupOK' /\ NothingIsDropped'
  BY <1>1 DEF IInv, GroupOK, NothingIsDropped, Event, Settled, feedVars, group
<1>6. \A e \in 1..Len(stream) : Settled(e)
  BY <1>1, <1>2 DEF IInv, NothingIsDropped, Event
<1>7. LookOK'
  BY <1>1, <1>2, <1>6 DEF LookOK, Settled, feedVars, group
<1> QED
  BY <1>3, <1>4, <1>5, <1>7 DEF IInv

\* What is trimmed is below what the look found acknowledged.
LEMMA TrimFacts ==
    ASSUME IInv, RetentionTrim
    PROVE  /\ look \in Nat /\ first' \in Nat /\ first' >= first /\ first' <= MaxEvents + 1
           /\ first' = first \/ first' <= look + 1
           /\ first' <= Len(stream) + 1
           /\ \A e \in 1..look : Settled(e)
<1>1. /\ look # None
      /\ first' \in first..MaxEvents + 1
      /\ first' = first \/ first' + MaxLength <= Len(stream) + 1
  BY DEF RetentionTrim
<1>2. /\ look \in Nat /\ first \in Nat /\ Len(stream) \in Nat /\ MaxLength \in Nat /\ MaxEvents \in Nat
      /\ Len(stream) - look <= MaxLength /\ look <= delivered /\ delivered \in Nat
      /\ first <= delivered + 1 /\ delivered <= Len(stream)
      /\ \A e \in 1..look : Settled(e)
  BY <1>1, TypeFacts, NumbersFacts DEF IInv, LookOK, GroupOK
<1>3. first' \in Nat /\ first' >= first /\ first' <= MaxEvents + 1
  BY <1>1, <1>2
<1>4. first' = first \/ first' <= look + 1
  BY <1>1, <1>2, <1>3
<1>5. first' <= Len(stream) + 1
  BY <1>2, <1>3, <1>4
<1> QED
  BY <1>2, <1>3, <1>4, <1>5

LEMMA RetentionTrimStep == ASSUME IInv, RetentionTrim PROVE IInv'
<1>1. /\ UNCHANGED <<stream, deadLetters, broadcast, process, sockets, group, runtime, work, relay, faults>>
      /\ look' = None /\ look # None
  BY DEF RetentionTrim
<1>2. /\ look \in Nat /\ first' \in Nat /\ first' >= first /\ first' <= MaxEvents + 1
      /\ first' = first \/ first' <= look + 1
      /\ \A e \in 1..look : Settled(e)
  BY TrimFacts
<1>3. first \in Nat \ {0} /\ delivered \in Nat /\ look <= delivered
  BY <1>1, TypeFacts DEF IInv, LookOK
<1>4. TypeOK'
  BY <1>1, <1>2, <1>3, NumbersFacts DEF IInv, TypeOK, FeedTypeOK, sockets, group, runtime, relay
<1>5. WorkersFit'
  BY <1>1 DEF IInv, WorkersFit, Fit, Event, Settled, group
<1>6. GroupOK'
  BY <1>1, <1>2, <1>3 DEF IInv, GroupOK, LookOK, group
<1>7. LookOK'
  BY <1>1 DEF LookOK
<1>8. ASSUME NEW e \in Event, ~Settled(e)
      PROVE  e >= first' /\ (e > delivered \/ e \in pending)
  <2>1. e \in Nat /\ e > look
    BY <1>2, <1>8 DEF Event
  <2>2. e >= first /\ (e > delivered \/ e \in pending)
    BY <1>3, <1>8, NumbersFacts DEF IInv, NothingIsDropped
  <2> QED
    BY <1>2, <2>1, <2>2
<1>9. NothingIsDropped'
  BY <1>1, <1>8 DEF NothingIsDropped, Event, Settled, group
<1> QED
  BY <1>4, <1>5, <1>6, <1>7, <1>9 DEF IInv

-----------------------------------------------------------------------------
(* The steps of the workers *)

LEMMA StartStep == ASSUME IInv, Start PROVE IInv'
<1>1. /\ process' = "starting" /\ work' = [work EXCEPT !["startup"] = At("group")]
      /\ UNCHANGED <<stream, first, deadLetters, broadcast, sockets, group, runtime, relay, look, faults>>
  BY DEF Start, Starts
<1>2. work \in [Worker -> Work] /\ At("group") \in Work
  BY TypeFacts, AtFacts DEF IInv, Place
<1>3. work' \in [Worker -> Work] /\ \A w \in Worker : work'[w] = work[w] \/ work'[w] = At("group")
  BY <1>1, <1>2
<1>4. TypeOK'
  BY <1>1, <1>3 DEF IInv, TypeOK, FeedTypeOK, sockets, group, runtime, relay, Work
<1>5. Grows
  BY <1>1 DEF Grows, Event, group
<1>6. WorkersFit'
  BY <1>1, <1>3, <1>5, StaysFit, GroupIsFit, WorkersFitNext DEF IInv, WorkersFit
<1>7. GroupOK' /\ LookOK' /\ NothingIsDropped'
  BY <1>1 DEF IInv, GroupOK, LookOK, NothingIsDropped, Event, Settled, group
<1> QED
  BY <1>4, <1>6, <1>7 DEF IInv

LEMMA CrashStep == ASSUME IInv, Crash PROVE IInv'
BY ProcessEndsStep, NumbersFacts DEF Crash, Fault, IInv, TypeOK

LEMMA EnsureGroupStep == ASSUME IInv, NEW w \in Worker, EnsureGroup(w) PROVE IInv'
<1>1. CASE Fault /\ Fails(w) /\ UNCHANGED delivered
  BY <1>1, FailsStep DEF EnsureGroup, Running, group
<1>2. CASE /\ NoFault
           /\ delivered' = GroupAfter
           /\ work' = [work EXCEPT ![w] = At("claim")]
           /\ state' = IF state = "degraded" THEN "recovering" ELSE state
           /\ KeepsRunning /\ UNCHANGED <<requested, relay>>
  <2>1. /\ stream' = stream /\ first' = first /\ broadcast' = broadcast /\ deadLetters' = deadLetters
        /\ process' = process /\ look' = look /\ pending' = pending /\ idle' = idle
        /\ process # "off"
    BY <1>2 DEF EnsureGroup, KeepsRunning, feedVars, IInv, WorkersFit, Fit
  <2>2. /\ delivered' \in 0..MaxEvents
        /\ delivered # None => delivered' = delivered
        /\ delivered = None => delivered' = Len(stream)
    BY <1>2, TypeFacts DEF GroupAfter, IInv, TypeOK
  <2>3. work \in [Worker -> Work] /\ At("claim") \in Work
    BY TypeFacts, AtFacts DEF IInv, Place
  <2>4. work' \in [Worker -> Work] /\ \A v \in Worker : work'[v] = work[v] \/ work'[v] = At("claim")
    BY <1>2, <2>3
  <2>5. TypeOK'
    BY <1>2, <2>1, <2>2, <2>4 DEF IInv, TypeOK, FeedTypeOK, KeepsRunning, feedVars, sockets, relay, NoFault, Work
  <2>6. delivered' # None
    BY <2>2, NumbersFacts
  <2>7. Grows
    BY <2>1, <2>6 DEF Grows, Event
  <2>8. FitNext(At("claim"))
    BY <2>1, <2>6, AtIsFit DEF Place
  <2>9. WorkersFit'
    BY <2>4, <2>7, <2>8, StaysFit, WorkersFitNext DEF IInv, WorkersFit
  <2>10. GroupOK' /\ LookOK'
    BY <2>1, <2>2, <2>6, TypeFacts DEF IInv, GroupOK, LookOK, Settled
  <2>11. delivered = None => Event = {}
    BY TypeFacts DEF IInv, GroupOK, Event
  <2>12. NothingIsDropped'
    BY <2>1, <2>2, <2>11 DEF IInv, NothingIsDropped, Event, Settled
  <2> QED
    BY <2>5, <2>9, <2>10, <2>12 DEF IInv
<1> QED
  BY <1>1, <1>2 DEF EnsureGroup

LEMMA ClaimStep == ASSUME IInv, NEW w \in Worker, Claim(w) PROVE IInv'
<1> DEFINE ripe == Ripe(w)
           some == {e \in ripe : Cardinality({f \in ripe : f <= e}) <= Batch}
           entries == InOrder(some)
           claimed == Range(entries)
           left == {e \in pending : \A f \in claimed : e > f}
           r == [work[w] EXCEPT !.hand = entries,
                                !.at = IF entries = <<>> THEN "claimed" ELSE "process",
                                !.next = IF Len(entries) < Batch \/ left = {} THEN 0 ELSE Min(left)]
<1>1. CASE Fault /\ Fails(w) /\ UNCHANGED idle
  BY <1>1, FailsStep DEF Claim, Running, group
<1>2. CASE /\ NoFault
           /\ idle' = idle \ claimed
           /\ Continue([work EXCEPT ![w] = r])
           /\ KeepsRunning /\ UNCHANGED relay
  <2>1. /\ work \in [Worker -> Work] /\ idle \subseteq pending /\ pending \subseteq EventId
        /\ delivered # None /\ process # "off"
    BY TypeFacts DEF IInv, TypeOK, WorkersFit, Fit, Claim
  <2>2. some \subseteq idle /\ some \in SUBSET Nat /\ \A e \in some : e <= MaxEvents
    BY <2>1, NumbersFacts DEF Ripe
  <2>3. IsFiniteSet(some)
    BY <2>2, NumbersFacts, FS_BoundedSetOfNaturals
  <2>4. entries \in Seq(some) /\ Range(entries) = some
    BY <2>2, <2>3, InOrderFacts
  <2>5. \A e \in some : e \in Event
    <3>1. some \subseteq pending
      BY <2>1, <2>2
    <3> HIDE DEF some
    <3>2. ASSUME NEW e \in pending PROVE e \in Event
      <4>1. e \in Nat \ {0} /\ e <= delivered /\ delivered <= Len(stream)
        BY <2>1, NumbersFacts DEF IInv, GroupOK
      <4>2. Len(stream) \in Nat /\ delivered \in Nat
        BY <2>1, TypeFacts DEF IInv
      <4> QED
        BY <4>1, <4>2 DEF Event
    <3> QED
      BY <3>1, <3>2
  <2>6. left # {} => Min(left) \in 0..MaxEvents
    <3>1. left \subseteq pending
      OBVIOUS
    <3> HIDE DEF claimed, left
    <3>2. left \in SUBSET Nat /\ left \subseteq EventId
      BY <2>1, <3>1, NumbersFacts
    <3>3. left # {} => Min(left) \in EventId
      BY <3>2, MinFacts
    <3>4. EventId \subseteq 0..MaxEvents
      BY NumbersFacts
    <3> QED
      BY <3>3, <3>4
  <2> HIDE DEF some, left, entries
  <2>7. entries \in Seq(EventId)
    <3>1. some \subseteq EventId
      BY <2>1, <2>2
    <3> QED
      BY <2>4, <3>1
  <2>8. "claimed" \in Place /\ "process" \in Place /\ 0 \in 0..MaxEvents
    BY NumbersFacts DEF Place
  <2>9. work[w] \in Work
    BY <2>1
  <2>10. /\ r \in Work /\ r.hand = entries
         /\ r.at = IF entries = <<>> THEN "claimed" ELSE "process"
    BY <2>6, <2>7, <2>8, <2>9 DEF Work
  <2>11. work' = [work EXCEPT ![w] = r] /\ UNCHANGED runtime
    BY <1>2 DEF Continue
  <2> HIDE DEF r
  <2>12. work' \in [Worker -> Work] /\ \A v \in Worker : work'[v] = work[v] \/ work'[v] = r
    BY <2>1, <2>10, <2>11
  <2>13. RunTypes'
    BY <1>2, <2>11, <2>12 DEF RunTypes, IInv, TypeOK, runtime, relay, NoFault
  <2>14. delivered' = delivered /\ pending' = pending /\ idle' \subseteq idle
    BY <1>2 DEF Claim
  <2>15. Grows
    BY <1>2, <2>14 DEF Grows, KeepsRunning, feedVars, Event
  <2>16. \A i \in 1..Len(entries) : entries[i] \in Event
    BY <2>4, <2>5
  <2>17. FitNext(r)
    BY <1>2, <2>1, <2>10, <2>14, <2>15, <2>16 DEF FitNext, Grows
  <2>18. \A v \in Worker : FitNext(work'[v])
    BY <2>12, <2>15, <2>17, StaysFit DEF IInv, WorkersFit
  <2> QED
    BY <1>2, <2>13, <2>14, <2>18, WorkersMove
<1> QED
  BY <1>1, <1>2 DEF Claim

\* The event is settled, and the worker acknowledges it or goes on to the next.
LEMMA SettlesStep ==
    ASSUME IInv, NEW w \in Worker, NEW wk \in [Worker -> Work],
           work' = wk, \A v \in Worker : FitNext(wk[v]),
           \/ /\ broadcast \subseteq broadcast' /\ broadcast' \subseteq EventId
              /\ deadLetters' = deadLetters
           \/ /\ deadLetters \subseteq deadLetters' /\ deadLetters' \subseteq EventId
              /\ broadcast' = broadcast,
           poison' \in [EventId -> 0..3], faults' \in 0..MaxFaults,
           UNCHANGED <<stream, first, process, sockets, group, runtime, healthy, look>>
    PROVE  IInv'
<1>1. FeedTypeOK'
  BY DEF IInv, TypeOK, FeedTypeOK, sockets
<1>2. TypeOK'
  BY <1>1 DEF IInv, TypeOK, group, runtime, Work
<1>3. WorkersFit'
  BY WorkersFitNext
<1>4. GroupOK' /\ LookOK' /\ NothingIsDropped'
  BY DEF IInv, GroupOK, LookOK, NothingIsDropped, Event, Settled, group
<1> QED
  BY <1>2, <1>3, <1>4 DEF IInv

LEMMA HeadFacts ==
    ASSUME IInv, NEW w \in Worker, work[w].at \in {"process", "ack"}
    PROVE  /\ Head(work[w].hand) \in Event /\ Head(work[w].hand) \in EventId
           /\ work[w].hand # <<>> /\ process # "off" /\ delivered # None
           /\ work[w].at = "ack" => Settled(Head(work[w].hand))
<1>1. work[w].hand \in Seq(EventId) /\ work[w].hand # <<>>
  BY TypeFacts DEF IInv, WorkersFit, Fit, Work
<1>2. 1 \in 1..Len(work[w].hand) /\ Head(work[w].hand) = work[w].hand[1]
  BY <1>1
<1> QED
  BY <1>1, <1>2, TypeFacts DEF IInv, WorkersFit, Fit

\* A hub whose sockets nobody has opened keeps an event for none of them.
LEMMA IdleAccept ==
    ASSUME SocketsIdle, NEW e, HubAccept(e)
    PROVE  UNCHANGED sockets
<1>1. \A c \in Client : hub[c] = NoSocket /\ ~hub[c].active /\ Accepted(hub[c], e) = NoSocket
  BY DEF SocketsIdle, NoSocket, Accepted
<1>2. hub' = hub /\ wire' = wire
  BY <1>1 DEF HubAccept, SocketsIdle
<1> QED
  BY <1>2 DEF HubAccept, sockets

LEMMA AcceptStep == ASSUME IInv, SocketsIdle, NEW w \in Worker, Accept(w) PROVE IInv'
<1> DEFINE e == Head(work[w].hand)
           wk == [work EXCEPT ![w].at = "ack"]
<1>1. /\ work[w].at = "process" /\ work' = wk
      /\ broadcast' = broadcast \cup {e}
      /\ UNCHANGED <<stream, first, deadLetters, process, group, runtime, relay, look, faults>>
  BY DEF Accept, Tell, HubAccept, Continue
<1>2. e \in Event /\ e \in EventId /\ work[w].hand # <<>> /\ process # "off" /\ delivered # None
  BY <1>1, HeadFacts
<1>3. work \in [Worker -> Work] /\ work[w] \in Work /\ "ack" \in Place
  BY TypeFacts DEF IInv, Place
<1>4. /\ wk \in [Worker -> Work]
      /\ wk[w].hand = work[w].hand /\ wk[w].at = "ack"
      /\ \A v \in Worker : v # w => wk[v] = work[v]
  BY <1>3 DEF Work
<1>5. Grows
  BY <1>1 DEF Grows, Event, group
<1>6. FitNext(wk[w])
  BY <1>1, <1>2, <1>4, <1>5 DEF FitNext, IInv, WorkersFit, Fit, Grows, group
<1>7. \A v \in Worker : FitNext(wk[v])
  BY <1>4, <1>5, <1>6, StaysFit DEF IInv, WorkersFit
<1>8. UNCHANGED sockets
  BY IdleAccept DEF Accept, Tell
<1>9. broadcast' \subseteq EventId /\ poison' \in [EventId -> 0..3] /\ faults' \in 0..MaxFaults
  BY <1>1, <1>2 DEF IInv, TypeOK, FeedTypeOK, relay
<1> HIDE DEF wk
<1>10. UNCHANGED <<stream, first, process, sockets, group, runtime, healthy, look>>
  BY <1>1, <1>8 DEF relay
<1> QED
  BY <1>1, <1>4, <1>7, <1>9, <1>10, SettlesStep

LEMMA HarderFacts ==
    ASSUME poison \in [EventId -> 0..3], NEW e \in EventId
    PROVE  Harder(e) \in [EventId -> 0..3]
BY DEF Harder

LEMMA DeadLetterStep == ASSUME IInv, NEW w \in Worker, DeadLetter(w) PROVE IInv'
<1> DEFINE e == Head(work[w].hand)
<1>1. /\ work[w].at = "process"
      /\ UNCHANGED <<stream, first, broadcast, process, sockets, group, healthy, look>>
  BY DEF DeadLetter
<1>2. e \in Event /\ e \in EventId /\ work[w].hand # <<>> /\ process # "off" /\ delivered # None
  BY <1>1, HeadFacts
<1>3. work \in [Worker -> Work] /\ work[w] \in Work /\ "ack" \in Place
  BY TypeFacts DEF IInv, Place
<1>5. /\ poison \in [EventId -> 0..3] /\ Harder(e) \in [EventId -> 0..3] /\ faults \in 0..MaxFaults
      /\ deadLetters \subseteq EventId
  <2>1. poison \in [EventId -> 0..3] /\ faults \in 0..MaxFaults /\ deadLetters \subseteq EventId
    BY DEF IInv, TypeOK, FeedTypeOK
  <2> QED
    BY <1>2, <2>1, HarderFacts
<1>6. UNCHANGED <<stream, first, process, sockets, group, healthy, look>>
  BY <1>1
<1>7. CASE /\ NoFault
           /\ deadLetters' = deadLetters \cup {e}
           /\ poison' = [poison EXCEPT ![e] = 0]
           /\ Continue([work EXCEPT ![w].at = "ack"])
  <2> DEFINE wk == [work EXCEPT ![w].at = "ack"]
  <2>1. /\ wk \in [Worker -> Work]
        /\ wk[w].hand = work[w].hand /\ wk[w].at = "ack"
        /\ \A v \in Worker : v # w => wk[v] = work[v]
    BY <1>3 DEF Work
  <2>2. Grows
    BY <1>1, <1>7 DEF Grows, Event, group
  <2>3. FitNext(wk[w])
    BY <1>1, <1>2, <1>7, <2>1, <2>2 DEF FitNext, IInv, WorkersFit, Fit, Grows, group
  <2>4. \A v \in Worker : FitNext(wk[v])
    BY <2>1, <2>2, <2>3, StaysFit DEF IInv, WorkersFit
  <2>5. work' = wk /\ UNCHANGED runtime
    BY <1>7 DEF Continue
  <2>6. poison' \in [EventId -> 0..3] /\ faults' \in 0..MaxFaults /\ deadLetters' \subseteq EventId
    BY <1>2, <1>5, <1>7 DEF NoFault
  <2> HIDE DEF wk
  <2> QED
    BY <1>1, <1>6, <1>7, <2>1, <2>4, <2>5, <2>6, SettlesStep
<1>8. CASE /\ Fault
           /\ deadLetters' \in {deadLetters, deadLetters \cup {e}}
           /\ poison' = Harder(e)
           /\ Continue(Through(w, TRUE))
  <2> DEFINE wk == Through(w, TRUE)
  <2>1. wk \in [Worker -> Work] /\ \A v \in Worker : Fit(wk[v])
    BY <1>1, ThroughFacts
  <2>2. Grows
    BY <1>1, <1>8 DEF Grows, Event, group
  <2> HIDE DEF wk
  <2>3. \A v \in Worker : FitNext(wk[v])
    BY <2>1, <2>2, StaysFit
  <2>4. work' = wk /\ UNCHANGED runtime
    BY <1>8 DEF Continue, wk
  <2>5. faults' \in 0..MaxFaults /\ deadLetters' \subseteq EventId /\ deadLetters \subseteq deadLetters'
    BY <1>2, <1>5, <1>8, NumbersFacts DEF Fault
  <2> QED
    BY <1>1, <1>5, <1>6, <1>8, <2>1, <2>3, <2>4, <2>5, SettlesStep
<1> QED
  BY <1>7, <1>8 DEF DeadLetter

LEMMA AcknowledgeStep == ASSUME IInv, NEW w \in Worker, Acknowledge(w) PROVE IInv'
<1> DEFINE e == Head(work[w].hand)
<1>1. /\ work[w].at = "ack" /\ KeepsRunning /\ delivered' = delivered /\ idle' = idle \cap pending'
  BY DEF Acknowledge
<1>2. e \in Event /\ e \in EventId /\ process # "off" /\ Settled(e)
  BY <1>1, HeadFacts
<1>3. pending' = pending \/ pending' = pending \ {e}
  BY DEF Acknowledge
<1>4. /\ poison \in [EventId -> 0..3] /\ Harder(e) \in [EventId -> 0..3]
      /\ faults \in 0..MaxFaults /\ healthy \in BOOLEAN
      /\ state \in {"recovering", "ready", "degraded"} /\ requested \in BOOLEAN
  BY <1>2, HarderFacts DEF IInv, TypeOK
<1>5. \A b \in BOOLEAN : /\ Through(w, b) \in [Worker -> Work]
                         /\ \A v \in Worker : Fit(Through(w, b)[v])
  BY <1>1, ThroughFacts
<1>6. /\ work' \in [Worker -> Work]
      /\ state' \in {"recovering", "ready", "degraded"} /\ requested' \in BOOLEAN
      /\ \E b \in BOOLEAN : \A v \in Worker : work'[v] = Through(w, b)[v] \/ work'[v] = At("group")
  <2>1. CASE Continue(Through(w, FALSE)) \/ Continue(Through(w, TRUE))
    BY <1>4, <1>5, <2>1 DEF Continue, runtime
  <2>2. CASE Request(Through(w, TRUE))
    BY <1>5, <2>2, RequestFacts DEF IInv
  <2> QED
    BY <2>1, <2>2 DEF Acknowledge
<1>7. poison' \in [EventId -> 0..3] /\ healthy' \in BOOLEAN /\ faults' \in 0..MaxFaults
  <2>1. (poison' = poison \/ poison' = Harder(e)) /\ (healthy' = healthy \/ healthy' = FALSE)
    BY DEF Acknowledge, relay
  <2>2. NoFault \/ Fault
    BY DEF Acknowledge
  <2>3. faults' \in 0..MaxFaults
    BY <1>4, <2>2, NumbersFacts DEF NoFault, Fault
  <2> QED
    BY <1>4, <2>1, <2>3
<1>8. Grows
  BY <1>1 DEF Grows, KeepsRunning, feedVars, Event
<1>9. FitNext(At("group"))
  BY <1>1, <1>2, GroupIsFit DEF KeepsRunning, feedVars
<1>10. \A v \in Worker : FitNext(work'[v])
  BY <1>5, <1>6, <1>8, <1>9, StaysFit
<1>11. TypeOK'
  BY <1>1, <1>3, <1>6, <1>7 DEF IInv, TypeOK, FeedTypeOK, KeepsRunning, feedVars, sockets, Work
<1>12. WorkersFit'
  BY <1>10, WorkersFitNext
<1>13. GroupOK' /\ LookOK'
  BY <1>1, <1>3 DEF IInv, GroupOK, LookOK, Settled, KeepsRunning, feedVars
<1>14. NothingIsDropped'
  BY <1>1, <1>2, <1>3 DEF IInv, NothingIsDropped, Event, Settled, KeepsRunning, feedVars
<1> QED
  BY <1>11, <1>12, <1>13, <1>14 DEF IInv

LEMMA PoisonedStep == ASSUME IInv, NEW w \in Worker, Poisoned(w) PROVE IInv'
<1>1. faults' = faults /\ UNCHANGED group /\ work[w].at = "claimed"
  BY DEF Poisoned
<1>2. CASE w = "startup"
  BY <1>1, <1>2, ProcessEndsStep DEF Poisoned, IInv, TypeOK
<1>3. CASE w # "startup"
  <2>1. healthy' = FALSE /\ poison' = poison /\ KeepsRunning
    BY <1>3 DEF Poisoned
  <2>2. work \in [Worker -> Work] /\ Off \in Work /\ At("group") \in Work
    BY TypeFacts, OffFacts, AtFacts DEF IInv, Place
  <2>3. /\ work' \in [Worker -> Work]
        /\ state' \in {"recovering", "ready", "degraded"} /\ requested' \in BOOLEAN
        /\ \A v \in Worker : work'[v] = work[v] \/ work'[v] = Off \/ work'[v] = At("group")
    <3> DEFINE wk == [work EXCEPT ![w] = Off]
    <3>1. wk \in [Worker -> Work] /\ \A v \in Worker : wk[v] = work[v] \/ wk[v] = Off
      BY <2>2
    <3>2. CASE Request(wk)
      BY <3>1, <3>2, RequestFacts DEF IInv
    <3>3. CASE work' = [work EXCEPT ![w] = At("group")] /\ state' = "degraded" /\ requested' = TRUE
      BY <2>2, <3>3
    <3> QED
      BY <1>3, <3>2, <3>3 DEF Poisoned
  <2>4. RunTypes'
    BY <1>1, <2>1, <2>3 DEF RunTypes, IInv, TypeOK
  <2>5. process' # "off"
    BY <1>1, <2>1 DEF KeepsRunning, feedVars, IInv, WorkersFit, Fit
  <2>6. Grows
    BY <1>1, <2>1 DEF Grows, KeepsRunning, feedVars, Event, group
  <2>7. \A v \in Worker : FitNext(work'[v])
    BY <2>3, <2>5, <2>6, StaysFit, OffIsFit, GroupIsFit DEF IInv, WorkersFit
  <2> QED
    BY <1>1, <2>1, <2>4, <2>7, WorkersMove DEF group
<1> QED
  BY <1>2, <1>3

LEMMA RecoveredStep == ASSUME IInv, NEW w \in Worker, Recovered(w) PROVE IInv'
<1> DEFINE place == IF w = "loop" THEN "poll" ELSE "settle"
<1>1. /\ work[w].at = "claimed" /\ healthy' = (healthy \/ ~work[w].failed)
      /\ work' = [work EXCEPT ![w] = At(place)] /\ KeepsRunning
      /\ UNCHANGED <<runtime, poison, group, faults>>
  BY DEF Recovered, Continue
<1>2. place \in Place \ {"process", "ack"}
  BY DEF Place
<1>3. work \in [Worker -> Work] /\ work[w] \in Work /\ At(place) \in Work
  BY <1>2, TypeFacts, AtFacts DEF IInv
<1>4. work' \in [Worker -> Work] /\ \A v \in Worker : work'[v] = work[v] \/ work'[v] = At(place)
  BY <1>1, <1>3
<1>5. healthy' \in BOOLEAN
  BY <1>1, <1>3 DEF IInv, TypeOK, Work
<1>6. RunTypes'
  BY <1>1, <1>4, <1>5 DEF RunTypes, IInv, TypeOK, runtime
<1>7. Grows
  BY <1>1 DEF Grows, KeepsRunning, feedVars, Event, group
<1>8. process' # "off" /\ delivered' # None
  BY <1>1 DEF KeepsRunning, feedVars, IInv, WorkersFit, Fit, group
<1>9. FitNext(At(place))
  BY <1>2, <1>8, AtIsFit
<1>10. \A v \in Worker : FitNext(work'[v])
  BY <1>4, <1>7, <1>9, StaysFit DEF IInv, WorkersFit
<1> QED
  BY <1>1, <1>6, <1>10, WorkersMove DEF group

\* The loop is started unless it runs.
LEMMA LoopOnFacts ==
    ASSUME NEW wk \in [Worker -> Work]
    PROVE  /\ LoopOn(wk) \in [Worker -> Work]
           /\ \A v \in Worker : LoopOn(wk)[v] = wk[v] \/ LoopOn(wk)[v] = At("claim")
<1>1. At("claim") \in Work
  BY AtFacts DEF Place
<1> QED
  BY <1>1 DEF LoopOn, Worker

LEMMA BeginStep == ASSUME IInv, Begin PROVE IInv'
<1>1. faults' = faults /\ UNCHANGED group /\ work["startup"].at = "claimed" /\ "startup" \in Worker
  BY DEF Begin, Worker
<1>2. CASE ProcessEnds
  BY <1>1, <1>2, ProcessEndsStep DEF IInv, TypeOK
<1>3. CASE /\ Listens
           /\ healthy' = (healthy \/ ~work["startup"].failed)
           /\ work' = LoopOn([work EXCEPT !["startup"] = Off])
           /\ state' = "ready"
           /\ UNCHANGED <<requested, poison, look>>
  <2>1. process' = "up" /\ UNCHANGED <<stream, first, deadLetters, broadcast, sockets>>
    BY <1>3 DEF Listens
  <2>2. work \in [Worker -> Work] /\ Off \in Work /\ work["startup"] \in Work
    BY <1>1, TypeFacts, OffFacts DEF IInv
  <2> DEFINE wk == [work EXCEPT !["startup"] = Off]
  <2>3. wk \in [Worker -> Work] /\ \A v \in Worker : wk[v] = work[v] \/ wk[v] = Off
    BY <2>2
  <2>4. /\ work' \in [Worker -> Work]
        /\ \A v \in Worker : work'[v] = work[v] \/ work'[v] = Off \/ work'[v] = At("claim")
    BY <1>3, <2>3, LoopOnFacts
  <2>5. healthy' \in BOOLEAN
    BY <1>3, <2>2 DEF IInv, TypeOK, Work
  <2>6. TypeOK'
    BY <1>1, <1>3, <2>1, <2>4, <2>5 DEF IInv, TypeOK, FeedTypeOK, sockets, group, Work
  <2>7. Grows
    BY <1>1, <2>1 DEF Grows, Event, group
  <2>8. FitNext(At("claim"))
    BY <1>1, <2>1, AtIsFit DEF Place, IInv, WorkersFit, Fit, group
  <2>9. WorkersFit'
    BY <2>4, <2>7, <2>8, StaysFit, OffIsFit, WorkersFitNext DEF IInv, WorkersFit
  <2>10. GroupOK' /\ LookOK' /\ NothingIsDropped'
    BY <1>1, <1>3, <2>1 DEF IInv, GroupOK, LookOK, NothingIsDropped, Event, Settled, group
  <2> QED
    BY <2>6, <2>9, <2>10 DEF IInv
<1> QED
  BY <1>2, <1>3 DEF Begin

LEMMA SettleStep == ASSUME IInv, Settle PROVE IInv'
<1>1. UNCHANGED group /\ work["recovery"].at = "settle" /\ "recovery" \in Worker
  BY DEF Settle, Worker
<1>2. CASE Fault /\ Fails("recovery")
  BY <1>1, <1>2, FailsStep DEF Running
<1>3. CASE /\ NoFault /\ KeepsRunning /\ UNCHANGED relay
           /\ state' \in {"recovering", "ready", "degraded"} /\ requested' \in BOOLEAN
           /\ \/ work' = [work EXCEPT !["recovery"] = At("group")]
              \/ work' = LoopOn([work EXCEPT !["recovery"] = Off])
              \/ work' = LoopOn([work EXCEPT !["recovery"] = At("group")])
  <2>1. work \in [Worker -> Work] /\ Off \in Work /\ At("group") \in Work
    BY TypeFacts, OffFacts, AtFacts DEF IInv, Place
  <2>2. /\ work' \in [Worker -> Work]
        /\ \A v \in Worker : work'[v] \in {work[v], Off, At("group"), At("claim")}
    <3>1. \A r \in {Off, At("group")} :
             /\ [work EXCEPT !["recovery"] = r] \in [Worker -> Work]
             /\ \A v \in Worker : [work EXCEPT !["recovery"] = r][v] \in {work[v], r}
      BY <2>1
    <3>2. CASE work' = [work EXCEPT !["recovery"] = At("group")]
      BY <3>1, <3>2
    <3>3. ASSUME NEW r \in {Off, At("group")}, work' = LoopOn([work EXCEPT !["recovery"] = r])
          PROVE  /\ work' \in [Worker -> Work]
                 /\ \A v \in Worker : work'[v] \in {work[v], Off, At("group"), At("claim")}
      BY <3>1, <3>3, LoopOnFacts
    <3> QED
      BY <1>3, <3>2, <3>3
  <2>3. RunTypes'
    BY <1>3, <2>2 DEF RunTypes, IInv, TypeOK, relay, NoFault
  <2>4. Grows
    BY <1>1, <1>3 DEF Grows, KeepsRunning, feedVars, Event, group
  <2>5. process' # "off" /\ delivered' # None
    BY <1>1, <1>3 DEF KeepsRunning, feedVars, IInv, WorkersFit, Fit, group
  <2>6. FitNext(At("claim")) /\ FitNext(At("group")) /\ FitNext(Off)
    BY <2>5, AtIsFit, GroupIsFit, OffIsFit DEF Place
  <2>7. \A v \in Worker : FitNext(work'[v])
    BY <2>2, <2>4, <2>6, StaysFit DEF IInv, WorkersFit
  <2> QED
    BY <1>1, <1>3, <2>3, <2>7, WorkersMove DEF group
<1> QED
  BY <1>2, <1>3 DEF Settle, IInv, TypeOK

LEMMA PollStep == ASSUME IInv, Poll PROVE IInv'
<1> DEFINE next == {e \in EventId : e > delivered /\ e <= delivered + Batch /\ e >= first /\ e <= Len(stream)}
           entries == InOrder(next)
           r == IF entries = <<>> THEN At("claim")
                ELSE [At("process") EXCEPT !.hand = entries, !.polled = TRUE]
<1>1. work["loop"].at = "poll" /\ idle' = idle /\ "loop" \in Worker
  BY DEF Poll, Worker
<1>2. CASE Fault /\ Fails("loop") /\ UNCHANGED <<delivered, pending>>
  BY <1>1, <1>2, FailsStep DEF Running, group
<1>3. CASE /\ NoFault
           /\ pending' = pending \cup Range(entries)
           /\ delivered' = DeliveredBy(entries)
           /\ Continue([work EXCEPT !["loop"] = r])
           /\ KeepsRunning /\ UNCHANGED relay
  <2>1. /\ work \in [Worker -> Work] /\ delivered # None /\ process # "off"
        /\ delivered \in Nat /\ delivered <= Len(stream) /\ first <= delivered + 1
        /\ first \in Nat \ {0} /\ Len(stream) \in 0..MaxEvents /\ pending \subseteq EventId
        /\ \A e \in pending : e <= delivered
    BY <1>1, TypeFacts DEF IInv, TypeOK, WorkersFit, Fit, GroupOK
  <2> DEFINE last == IF delivered + Batch <= Len(stream) THEN delivered + Batch ELSE Len(stream)
  <2>2. /\ next = (delivered + 1)..last /\ last \in Nat /\ delivered <= last /\ last <= Len(stream)
        /\ next \in SUBSET Nat /\ next \subseteq EventId /\ next \subseteq Event
    BY <2>1, NumbersFacts DEF EventId, Event
  <2> HIDE DEF last, next
  <2>3. IsFiniteSet(next) /\ Cardinality(next) = last - delivered
    <3>1. /\ IsFiniteSet((delivered + 1)..last)
          /\ Cardinality((delivered + 1)..last)
               = IF delivered + 1 > last THEN 0 ELSE last - (delivered + 1) + 1
      BY <2>1, <2>2, FS_Interval
    <3> QED
      BY <2>1, <2>2, <3>1
  <2>4. entries \in Seq(next) /\ Len(entries) = last - delivered /\ Range(entries) = next
    BY <2>2, <2>3, InOrderFacts
  <2>5. delivered' = last
    BY <1>3, <2>1, <2>2, <2>4 DEF DeliveredBy
  <2> HIDE DEF entries
  <2>6. entries \in Seq(EventId) /\ \A i \in 1..Len(entries) : entries[i] \in Event
    <3>1. next \subseteq EventId /\ next \subseteq Event
      BY <2>2
    <3> QED
      BY <2>4, <3>1
  <2>7. /\ At("claim") \in Work /\ At("process") \in Work /\ At("process").at = "process"
        /\ "claim" \in Place \ {"process", "ack"}
    BY AtFacts DEF Place
  <2>8. entries # <<>> => r \in Work /\ r.hand = entries /\ r.at = "process"
    BY <2>6, <2>7 DEF Work
  <2>9. entries = <<>> => r = At("claim")
    OBVIOUS
  <2>10. work' = [work EXCEPT !["loop"] = r] /\ UNCHANGED runtime
    BY <1>3 DEF Continue
  <2> HIDE DEF r
  <2>11. work' \in [Worker -> Work] /\ \A v \in Worker : work'[v] = work[v] \/ work'[v] = r
    BY <2>1, <2>7, <2>8, <2>9, <2>10
  <2>12. delivered' # None
    BY <2>2, <2>5, NumbersFacts
  <2>13. Grows /\ process' # "off"
    BY <1>3, <2>1, <2>12 DEF Grows, KeepsRunning, feedVars, Event
  <2>14. FitNext(r)
    <3>1. CASE entries = <<>>
      BY <2>7, <2>9, <2>12, <2>13, <3>1, AtIsFit
    <3>2. CASE entries # <<>>
      BY <2>6, <2>8, <2>12, <2>13, <3>2 DEF FitNext, Grows
    <3> QED
      BY <3>1, <3>2
  <2>15. WorkersFit'
    BY <2>11, <2>13, <2>14, StaysFit, WorkersFitNext DEF IInv, WorkersFit
  <2>16. delivered' \in 0..MaxEvents /\ pending' \subseteq EventId /\ pending \subseteq pending'
    <3>1. last \in 0..MaxEvents
      BY <2>1, <2>2, NumbersFacts
    <3> QED
      BY <1>3, <2>1, <2>2, <2>4, <2>5, <3>1
  <2>17. TypeOK'
    BY <1>1, <1>3, <2>10, <2>11, <2>16
    DEF IInv, TypeOK, FeedTypeOK, KeepsRunning, feedVars, sockets, runtime, relay, NoFault, Work
  <2>18. \A e \in next : e \in Nat /\ e > delivered /\ e <= last
    BY <2>1, <2>2
  <2>19. GroupOK'
    BY <1>3, <2>1, <2>2, <2>4, <2>5, <2>12, <2>18, NumbersFacts DEF GroupOK, KeepsRunning, feedVars, EventId
  <2>20. LookOK'
    BY <1>3, <2>1, <2>2, <2>5, <2>12, TypeFacts DEF IInv, LookOK, Settled, KeepsRunning, feedVars
  <2>21. \A e \in Event : e > delivered => e \in next \/ e > last
    BY <2>1, <2>2 DEF Event
  <2>22. NothingIsDropped'
    BY <1>3, <2>4, <2>5, <2>12, <2>1, <2>21 DEF IInv, NothingIsDropped, Settled, Event, KeepsRunning, feedVars
  <2> QED
    BY <2>15, <2>17, <2>19, <2>20, <2>22 DEF IInv
<1> QED
  BY <1>2, <1>3 DEF Poll

-----------------------------------------------------------------------------
(* Theorems *)

LEMMA StepIInv == ASSUME IInv, SocketsIdle, [Next]_vars PROVE IInv'
<1>1. CASE Next
  BY <1>1, AppendEventStep, TurnsIdleStep, RetentionLookStep, RetentionTrimStep, StartStep, CrashStep,
     EnsureGroupStep, ClaimStep, AcceptStep, DeadLetterStep, AcknowledgeStep, PoisonedStep,
     RecoveredStep, BeginStep, PollStep, SettleStep
  DEF Next, WorkerStep
<1>2. CASE UNCHANGED vars
  <2>1. TypeOK'
    BY <1>2 DEF vars, feedVars, sockets, relayVars, group, runtime, relay, IInv, TypeOK, FeedTypeOK
  <2>2. WorkersFit'
    BY <1>2 DEF vars, feedVars, relayVars, group, IInv, WorkersFit, Fit, Event, Settled
  <2>3. GroupOK' /\ LookOK' /\ NothingIsDropped'
    BY <1>2 DEF vars, feedVars, relayVars, group, IInv, GroupOK, LookOK, NothingIsDropped, Event, Settled
  <2> QED
    BY <2>1, <2>2, <2>3 DEF IInv
<1> QED
  BY <1>1, <1>2

\* What the retention trims is settled.
LEMMA TrimImplements == ASSUME IInv, RetentionTrim PROVE Trim
<1>1. /\ look \in Nat /\ first' \in Nat /\ first' >= first
      /\ first' = first \/ first' <= look + 1
      /\ first' <= Len(stream) + 1
      /\ \A e \in 1..look : Settled(e)
  BY TrimFacts
<1>2. first \in Nat \ {0} /\ Len(stream) \in Nat
  BY TypeFacts DEF IInv
<1>3. first' \in first..Len(stream) + 1
  BY <1>1, <1>2
<1> DEFINE n == first'
<1> HIDE DEF n
<1>4. /\ look \in Nat /\ n \in Nat /\ n >= first /\ first \in Nat \ {0}
      /\ n = first \/ n <= look + 1
  BY <1>1, <1>2 DEF n
<1>5. ASSUME NEW e \in first..n - 1 PROVE Settled(e)
  <2>1. e \in Int /\ first <= e /\ e <= n - 1
    BY <1>4
  <2>2. e \in 1..look
    BY <1>4, <2>1
  <2> QED
    BY <1>1, <2>2
<1> QED
  BY <1>3, <1>5 DEF Trim, RetentionTrim, n

\* A step of the relay is a step of EventFeed, or one that it does not see.
LEMMA StepImplements ==
    ASSUME IInv, [Next]_vars
    PROVE  [DaemonNext]_feedVars
<1>1. ASSUME NEW k \in Kind \cup {Malformed}, AppendEvent(k)
      PROVE  DaemonNext
  BY <1>1 DEF AppendEvent, DaemonNext
<1>2. ASSUME RetentionTrim
      PROVE  DaemonNext
  BY <1>2, TrimImplements DEF DaemonNext
<1>3. ASSUME NEW w \in Worker, Accept(w)
      PROVE  DaemonNext
  BY <1>3, HeadFacts DEF Accept, DaemonNext
<1>4. ASSUME NEW w \in Worker, DeadLetter(w)
      PROVE  DaemonNext \/ UNCHANGED feedVars
  BY <1>4, HeadFacts DEF DeadLetter, DaemonNext, Dispose, feedVars
<1>5. ASSUME ProcessEnds
      PROVE  DaemonNext
  BY <1>5 DEF ProcessEnds, DaemonNext
<1>6. ASSUME NEW w \in Worker, Fails(w)
      PROVE  DaemonNext \/ UNCHANGED feedVars
  BY <1>5, <1>6 DEF Fails, KeepsRunning, Worker
<1>7. CASE Next
  <2>1. CASE \E k \in Kind \cup {Malformed} : AppendEvent(k)
    BY <1>1, <2>1
  <2>2. CASE (\E e \in EventId : TurnsIdle(e)) \/ RetentionLook
    BY <2>2 DEF TurnsIdle, RetentionLook
  <2>3. CASE RetentionTrim
    BY <1>2, <2>3
  <2>4. CASE Start \/ Crash
    BY <1>5, <2>4 DEF Start, Crash, DaemonNext
  <2>5. ASSUME NEW w \in Worker, WorkerStep(w)
        PROVE  DaemonNext \/ UNCHANGED feedVars
    BY <1>3, <1>4, <1>5, <1>6, <2>5
    DEF WorkerStep, EnsureGroup, Claim, Acknowledge, Poisoned, Recovered, KeepsRunning
  <2>6. CASE Begin
    BY <1>5, <2>6 DEF Begin, DaemonNext
  <2>7. CASE Poll \/ Settle
    BY <1>6, <2>7 DEF Poll, Settle, KeepsRunning, Worker
  <2> QED
    BY <1>7, <2>1, <2>2, <2>3, <2>4, <2>5, <2>6, <2>7 DEF Next
<1> QED
  BY <1>7 DEF vars

\* Nobody opens a socket here.
LEMMA IdleStep == ASSUME SocketsIdle, [DaemonNext]_feedVars PROVE SocketsIdle'
<1>1. \A c \in Client : hub[c] = NoSocket /\ ~hub[c].active /\ hub[c].sending = None
  BY DEF SocketsIdle, NoSocket
<1>2. CASE UNCHANGED sockets
  BY <1>2 DEF sockets, SocketsIdle
<1>3. CASE \E e \in Event : Tell(e)
  BY <1>2, <1>3, IdleAccept DEF Tell
<1>4. CASE Ends
  BY <1>4 DEF Ends, SocketsIdle
<1>5. CASE \E c \in Client : Sent(c) \/ Break(c)
  BY <1>1, <1>5 DEF Sent, Break
<1>6. DaemonNext \/ UNCHANGED feedVars
      => \/ UNCHANGED sockets \/ Ends
         \/ \E e \in Event : Tell(e)
         \/ \E c \in Client : Sent(c) \/ Break(c)
  BY DEF DaemonNext, feedVars, Append1, Dispose, Trim, Starts, Listens
<1> QED
  BY <1>2, <1>3, <1>4, <1>5, <1>6

LEMMA SpecIInv == Spec => [](IInv /\ SocketsIdle)
<1>1. Init => IInv /\ SocketsIdle
  BY InitIInv DEF Init, FeedInit, SocketsIdle
<1>2. IInv /\ SocketsIdle /\ [Next]_vars => IInv' /\ SocketsIdle'
  BY StepIInv, StepImplements, IdleStep
<1> QED
  BY <1>1, <1>2, PTL DEF Spec

\* Every variable keeps its type.
THEOREM SpecTypeOK == Spec => []TypeOK
<1>1. IInv => TypeOK
  BY DEF IInv
<1> QED
  BY <1>1, SpecIInv, PTL

\* An event that is not settled is in the stream and will be handed out, for any
\* number of events, batch and retention, whatever fails or crashes.
THEOREM SpecNothingIsDropped == Spec => []NothingIsDropped
<1>1. IInv => NothingIsDropped
  BY DEF IInv
<1> QED
  BY <1>1, SpecIInv, PTL

\* The relay implements EventFeed: only valid events reach the hub, and only
\* settled ones leave the stream.
THEOREM SpecKeepsPromise == Spec => KeepsPromise
<1>1. Init => FeedInit
  BY DEF Init
<1>2. IInv /\ [Next]_vars => [DaemonNext \/ ClientNext]_feedVars
  BY StepImplements
<1> QED
  BY <1>1, <1>2, SpecIInv, PTL DEF Spec, KeepsPromise, FeedSpec

-----------------------------------------------------------------------------
(* Dashboard: the same stream, and a hub that has a socket *)

\* The numbers of the valid events, and of those on the way to the page.
Valid == {e \in Event : stream[e] \in Kind}
Mail == Range(hub[Page].queue) \cup Range(wire[Page])

\* Only events of the stream are settled, and trimmed.
StreamOK ==
    /\ stream \in Seq(Kind \cup {Malformed}) /\ Len(stream) <= MaxEvents
    /\ first \in 1..Len(stream) + 1
    /\ deadLetters \subseteq Event /\ broadcast \subseteq Event
    /\ process \in {"off", "starting", "up"}

SocketRecord == [active : BOOLEAN, queue : Seq(EventId), sending : EventId \cup {None}]

\* The hub keeps no message waiting while it may send one.
SocketOK(s) ==
    /\ s \in SocketRecord
    /\ Len(s.queue) <= QueueLimit
    /\ s.active \/ s = NoSocket
    /\ s.sending = None => s.queue = <<>>

\* The page's socket is the only one, and valid events are on their way to it.
SocketsOK ==
    /\ hub \in [{Page} -> SocketRecord] /\ SocketOK(hub[Page])
    /\ conn \in [{Page} -> {"off", "opening", "open"}]
    /\ wire \in [{Page} -> Seq(EventId)]
    /\ Mail \subseteq Valid

LoadState == {NoLoad, Waits, Failed}
                 \cup {Loaded(n) : n \in 0..MaxEvents}

\* A page has no connection before it has loaded everything once.  It knows, shows
\* and loads no more than there is, and shows nothing later than what it loads.
PageOK ==
    /\ live \in BOOLEAN
    /\ shown \in [Resource -> 0..MaxEvents \cup {None}]
    /\ stale \subseteq Resource /\ invalid \subseteq Resource
    /\ batch \in [Resource -> LoadState]
    /\ swallowed \subseteq seen
    /\ ~live => conn[Page] = "off"
    /\ seen \subseteq Event
    /\ \A r \in Resource :
          /\ shown[r] # None => shown[r] <= Len(stream)
          /\ batch[r].is = "loaded" =>
                batch[r].at <= Len(stream) /\ (shown[r] # None => shown[r] <= batch[r].at)
    /\ \A e \in swallowed : stream[e] \in Kind /\ shown[stream[e]] # None

\* A connected page shows every resource, or knows that it does not.
Covers ==
    live /\ conn[Page] = "open" =>
        \A r \in Resource :
            shown[r] # None \/ r \in stale \/ r \in invalid \/ batch[r].is # "none"

\* The page shows the event, marks its resource as stale, or will load it again.
Answered(r, e) ==
    \/ Shows(r, e)
    \/ r \in stale /\ (batch[r].is = "loaded" => batch[r].at >= e)
    \/ r \in invalid
    \/ batch[r].is = "waits"
    \/ batch[r].is = "loaded" /\ batch[r].at >= e
    \/ batch[r].is = "failed" /\ live

\* The page will hear of the event, or of the end of its connection.
Coming(e) == e \notin seen /\ (~Settled(e) \/ e \in Mail)
Cut == ~live \/ conn[Page] # "open" \/ ~hub[Page].active

NothingIsMissed == \A e \in Valid \ swallowed : Cut \/ Answered(stream[e], e) \/ Coming(e)

ScreenIInv == StreamOK /\ SocketsOK /\ PageOK /\ Covers /\ NothingIsMissed

-----------------------------------------------------------------------------
(* Messages of one socket *)

\* What is in a sequence, before and after its ends move.
LEMMA RangeFacts ==
    ASSUME NEW S, NEW s \in Seq(S)
    PROVE  /\ Range(s) \subseteq S
           /\ s = <<>> => Range(s) = {}
           /\ \A e \in S : /\ Append(s, e) \in Seq(S)
                           /\ Len(Append(s, e)) = Len(s) + 1
                           /\ Range(Append(s, e)) = Range(s) \cup {e}
           /\ s # <<>> => /\ Head(s) \in S /\ Tail(s) \in Seq(S)
                          /\ Len(Tail(s)) <= Len(s)
                          /\ Range(s) = {Head(s)} \cup Range(Tail(s))
<1>1. Range(s) \subseteq S /\ (s = <<>> => Range(s) = {})
  BY DEF Range
<1>2. ASSUME NEW e \in S
      PROVE  /\ Append(s, e) \in Seq(S)
             /\ Len(Append(s, e)) = Len(s) + 1
             /\ Range(Append(s, e)) = Range(s) \cup {e}
  <2> DEFINE t == Append(s, e)
  <2>1. /\ t \in Seq(S) /\ Len(t) = Len(s) + 1 /\ Len(s) \in Nat
        /\ t[Len(s) + 1] = e
        /\ \A i \in 1..Len(s) : t[i] = s[i]
    OBVIOUS
  <2> HIDE DEF t
  <2>2. DOMAIN t = 1..Len(s) + 1 /\ DOMAIN s = 1..Len(s)
    BY <2>1
  <2>3. Range(t) \subseteq Range(s) \cup {e}
    <3>1. ASSUME NEW i \in 1..Len(s) + 1 PROVE t[i] \in Range(s) \cup {e}
      BY <2>1, <2>2, <3>1 DEF Range
    <3> QED BY <2>2, <3>1 DEF Range
  <2>4. \A i \in 1..Len(s) : s[i] \in Range(t)
    BY <2>1, <2>2 DEF Range
  <2>5. e \in Range(t)
    BY <2>1, <2>2 DEF Range
  <2>6. Range(s) \cup {e} \subseteq Range(t)
    BY <2>2, <2>4, <2>5 DEF Range
  <2> QED BY <2>1, <2>3, <2>6 DEF t
<1>3. ASSUME s # <<>>
      PROVE  /\ Head(s) \in S /\ Tail(s) \in Seq(S)
             /\ Len(Tail(s)) <= Len(s)
             /\ Range(s) = {Head(s)} \cup Range(Tail(s))
  <2> DEFINE t == Tail(s)
  <2>1. /\ t \in Seq(S) /\ Len(t) = Len(s) - 1 /\ Len(s) \in Nat \ {0}
        /\ Head(s) = s[1] /\ s[1] \in S
        /\ \A i \in 1..Len(s) - 1 : t[i] = s[i + 1]
    BY <1>3
  <2> HIDE DEF t
  <2>2. DOMAIN t = 1..Len(s) - 1 /\ DOMAIN s = 1..Len(s)
    BY <2>1
  <2>3. \A i \in 1..Len(s) - 1 : t[i] \in Range(s)
    BY <2>1, <2>2 DEF Range
  <2>4. ASSUME NEW i \in 1..Len(s) PROVE s[i] \in {s[1]} \cup Range(t)
    <3>1. CASE i = 1
      BY <3>1
    <3>2. CASE i # 1
      <4>1. i - 1 \in 1..Len(s) - 1 /\ t[i - 1] = s[i]
        BY <2>1, <3>2
      <4> QED BY <2>2, <4>1 DEF Range
    <3> QED BY <3>1, <3>2
  <2>5. s[1] \in Range(s)
    BY <2>1, <2>2 DEF Range
  <2>6. Range(t) \subseteq Range(s)
    BY <2>2, <2>3 DEF Range
  <2>7. Range(s) \subseteq {s[1]} \cup Range(t)
    BY <2>2, <2>4 DEF Range
  <2> QED BY <2>1, <2>5, <2>6, <2>7 DEF t
<1> QED BY <1>1, <1>2, <1>3

-----------------------------------------------------------------------------
(* The hub and the socket of the page *)

\* What is assumed of the constants, where it is needed.
LEMMA ScreenFacts ==
    /\ Client = {Page}
    /\ None \notin Nat /\ None \notin EventId /\ QueueLimit \in Nat \ {0}
    /\ MaxEvents \in Nat /\ MaxWire \in Nat
    /\ Malformed \notin Kind
    /\ EventId \subseteq Nat
BY PageAssumption, FeedAssumption DEF EventId

LEMMA NoSocketOK == SocketOK(NoSocket)
BY FeedAssumption DEF SocketOK, SocketRecord, NoSocket

\* A socket that may send does; nothing else happens to its messages.
LEMMA DrainedFacts ==
    ASSUME NEW s \in SocketRecord, Len(s.queue) <= QueueLimit
    PROVE  LET d == Drained(s)
           IN /\ d \in SocketRecord
              /\ Len(d.queue) <= QueueLimit
              /\ d.active = s.active
              /\ d.sending = None => d.queue = <<>>
              /\ s.sending # None \/ s.queue = <<>> => d = s
              /\ s.sending = None /\ s.queue # <<>> =>
                    d.sending = Head(s.queue) /\ d.queue = Tail(s.queue) /\ d.sending # None
<1> DEFINE d == Drained(s)
<1>1. None \notin EventId /\ QueueLimit \in Nat
  BY FeedAssumption DEF EventId
<1>2. CASE s.sending = None /\ s.queue # <<>>
  <2>1. d = [s EXCEPT !.sending = Head(s.queue), !.queue = Tail(s.queue)]
    BY <1>2 DEF Drained
  <2>2. s.queue \in Seq(EventId) /\ s.sending \in EventId \cup {None}
    BY DEF SocketRecord
  <2>3. /\ Head(s.queue) \in EventId /\ Tail(s.queue) \in Seq(EventId)
        /\ Len(Tail(s.queue)) <= Len(s.queue) /\ Len(s.queue) \in Nat
        /\ Len(Tail(s.queue)) \in Nat
    BY <1>2, <2>2, RangeFacts
  <2>4. /\ d.sending = Head(s.queue) /\ d.queue = Tail(s.queue) /\ d.active = s.active
        /\ d \in SocketRecord
    BY <2>1, <2>3 DEF SocketRecord
  <2>5. Len(d.queue) <= QueueLimit
    BY <1>1, <2>3, <2>4
  <2> QED BY <1>1, <1>2, <2>3, <2>4, <2>5
<1>3. CASE ~(s.sending = None /\ s.queue # <<>>)
  BY <1>3 DEF Drained, SocketRecord
<1> QED BY <1>2, <1>3

\* A socket without messages sends the one it is given; another keeps it waiting.
LEMMA AcceptedFacts ==
    ASSUME NEW s, SocketOK(s), NEW e \in EventId
    PROVE  LET t == Accepted(s, e)
           IN /\ SocketOK(t)
              /\ t.active => s.active
              /\ ~t.active => Range(t.queue) = {}
              /\ t.active /\ s.sending = None => t.sending = e /\ t.queue = <<>> /\ s.queue = <<>>
              /\ t.active /\ s.sending # None => Range(t.queue) = Range(s.queue) \cup {e}
<1> DEFINE q == [s EXCEPT !.queue = Append(s.queue, e)]
           t == Accepted(s, e)
<1>1. /\ s \in SocketRecord /\ Len(s.queue) <= QueueLimit /\ s.queue \in Seq(EventId)
      /\ Len(s.queue) \in Nat /\ QueueLimit \in Nat
  BY FeedAssumption DEF SocketOK, SocketRecord
<1>2. CASE ~s.active \/ Len(s.queue) >= QueueLimit
  <2>1. SocketOK(t) /\ t = NoSocket
    BY <1>2, NoSocketOK DEF Accepted, SocketOK
  <2>2. ~t.active /\ t.queue = <<>>
    BY <2>1 DEF NoSocket
  <2>3. Range(<<>>) = {}
    BY DEF Range
  <2> QED BY <2>1, <2>2, <2>3
<1>3. CASE s.active /\ ~(Len(s.queue) >= QueueLimit)
  <2>1. t = Drained(q)
    BY <1>3 DEF Accepted
  <2>2. /\ Append(s.queue, e) \in Seq(EventId)
        /\ Len(Append(s.queue, e)) = Len(s.queue) + 1
        /\ Range(Append(s.queue, e)) = Range(s.queue) \cup {e}
    BY <1>1, RangeFacts
  <2>3. /\ q \in SocketRecord /\ q.queue = Append(s.queue, e)
        /\ q.sending = s.sending /\ q.active = s.active
    BY <1>1, <2>2 DEF SocketRecord
  <2> HIDE DEF q, t
  <2>4. Len(q.queue) <= QueueLimit /\ Len(q.queue) # 0
    BY <1>1, <1>3, <2>2, <2>3
  <2>9. q.queue # <<>>
    BY <2>4
  <2>5. /\ t \in SocketRecord /\ Len(t.queue) <= QueueLimit /\ t.active = q.active
        /\ t.sending = None => t.queue = <<>>
        /\ q.sending # None => t = q
        /\ q.sending = None => t.sending = Head(q.queue) /\ t.queue = Tail(q.queue)
    BY <2>1, <2>3, <2>4, <2>9, DrainedFacts
  <2>6. s.sending = None => s.queue = <<>>
    BY DEF SocketOK
  <2>7. ASSUME s.sending = None
        PROVE  t.sending = e /\ t.queue = <<>> /\ s.queue = <<>>
    <3>1. s.queue = <<>> /\ q.queue = Append(<<>>, e)
      BY <2>3, <2>6, <2>7
    <3>2. Head(q.queue) = e /\ Tail(q.queue) = <<>>
      BY <3>1
    <3> QED BY <2>3, <2>5, <2>7, <3>1, <3>2
  <2>8. SocketOK(t)
    BY <1>3, <2>3, <2>5 DEF SocketOK
  <2> QED BY <1>3, <2>2, <2>3, <2>5, <2>7, <2>8 DEF t
<1> QED BY <1>2, <1>3

-----------------------------------------------------------------------------
(* What the daemon does to the stream and to the page's socket *)

\* The stream grows; a socket that stays loses no message, and gets every event
\* that the hub accepts.
FeedStep ==
    /\ StreamOK' /\ SocketsOK'
    /\ conn' = conn
    /\ Len(stream) <= Len(stream')
    /\ \A e \in Event : stream'[e] = stream[e]
    /\ hub'[Page].active =>
          /\ hub[Page].active
          /\ Mail \subseteq Mail'
          /\ \A e \in Valid : Settled(e)' => Settled(e) \/ e \in Mail'
    /\ \A e \in Event' \ Event : ~Settled(e)'

LEMMA FeedStutters ==
    ASSUME StreamOK, SocketsOK, UNCHANGED feedVars
    PROVE  FeedStep
<1>1. /\ stream' = stream /\ first' = first /\ deadLetters' = deadLetters
      /\ broadcast' = broadcast /\ process' = process
      /\ hub' = hub /\ conn' = conn /\ wire' = wire
  BY DEF feedVars, sockets
<1>2. /\ Event' = Event /\ Valid' = Valid /\ Mail' = Mail
  BY <1>1 DEF Event, Valid, Mail
<1>3. StreamOK' /\ SocketsOK'
  BY <1>1, <1>2 DEF StreamOK, SocketsOK
<1>4. Len(stream) <= Len(stream')
  BY <1>1 DEF StreamOK
<1>5. \A e : Settled(e)' <=> Settled(e)
  BY <1>1 DEF Settled
<1> QED BY <1>1, <1>2, <1>3, <1>4, <1>5 DEF FeedStep

\* The sockets stay, whatever is appended, settled or trimmed.
LEMMA SocketsStay ==
    ASSUME SocketsOK, UNCHANGED sockets, StreamOK,
           Len(stream) <= Len(stream'), Len(stream') \in Nat,
           \A e \in Event : stream'[e] = stream[e]
    PROVE  SocketsOK' /\ conn' = conn /\ hub' = hub /\ Mail' = Mail /\ Valid \subseteq Valid'
<1>1. hub' = hub /\ conn' = conn /\ wire' = wire
  BY DEF sockets
<1>2. Mail' = Mail
  BY <1>1 DEF Mail
<1>3. Event \subseteq Event'
  BY DEF Event, StreamOK
<1>4. Valid \subseteq Valid'
  BY <1>3 DEF Valid
<1> QED BY <1>1, <1>2, <1>4 DEF SocketsOK

LEMMA Append1Step ==
    ASSUME StreamOK, SocketsOK,
           NEW k \in Kind \cup {Malformed}, Append1(k)
    PROVE  FeedStep
<1>1. /\ stream' = Append(stream, k) /\ Len(stream) < MaxEvents
      /\ first' = first /\ deadLetters' = deadLetters
      /\ broadcast' = broadcast /\ process' = process
      /\ UNCHANGED sockets
  BY DEF Append1
<1>2. /\ stream' \in Seq(Kind \cup {Malformed}) /\ Len(stream') = Len(stream) + 1
      /\ Len(stream) \in Nat /\ MaxEvents \in Nat
      /\ \A e \in 1..Len(stream) : stream'[e] = stream[e]
  BY <1>1, ScreenFacts DEF StreamOK
<1>3. Event \subseteq Event' /\ \A e \in Event : stream'[e] = stream[e]
  BY <1>2 DEF Event
<1>4. /\ Len(stream') <= MaxEvents /\ first' \in 1..Len(stream') + 1
      /\ Len(stream) <= Len(stream') /\ Len(stream') \in Nat
  BY <1>1, <1>2 DEF StreamOK
<1>5. StreamOK'
  BY <1>1, <1>2, <1>3, <1>4 DEF StreamOK
<1>6. SocketsOK' /\ conn' = conn /\ hub' = hub /\ Mail' = Mail
  BY <1>1, <1>3, <1>4, SocketsStay
<1>7. \A e : Settled(e)' => Settled(e) /\ e \in Event
  BY <1>1 DEF Settled, StreamOK
<1> QED BY <1>3, <1>4, <1>5, <1>6, <1>7 DEF FeedStep

\* Steps that leave the stream and the sockets, and settle malformed events.
LEMMA SettlesStream ==
    ASSUME StreamOK, SocketsOK, StreamOK', UNCHANGED <<stream, sockets>>,
           \A e \in Valid : Settled(e)' => Settled(e)
    PROVE  FeedStep
<1>1. Len(stream) <= Len(stream') /\ Len(stream') \in Nat /\ stream' = stream
  BY DEF StreamOK
<1>2. SocketsOK' /\ conn' = conn /\ hub' = hub /\ Mail' = Mail
  BY <1>1, SocketsStay
<1>3. Event' = Event
  BY DEF Event
<1> QED BY <1>1, <1>2, <1>3 DEF FeedStep

LEMMA DisposeStep ==
    ASSUME StreamOK, SocketsOK, NEW d \in Event, Dispose(d)
    PROVE  FeedStep
<1>1. /\ stream[d] = Malformed /\ deadLetters' = deadLetters \cup {d}
      /\ stream' = stream /\ first' = first
      /\ broadcast' = broadcast /\ process' = process
      /\ UNCHANGED sockets
  BY DEF Dispose
<1>2. Event' = Event
  BY <1>1 DEF Event
<1>3. StreamOK'
  BY <1>1, <1>2 DEF StreamOK
<1>4. d \notin Valid
  BY <1>1, ScreenFacts DEF Valid
<1>5. \A e \in Valid : Settled(e)' => Settled(e)
  BY <1>1, <1>4 DEF Settled
<1> QED BY <1>1, <1>3, <1>5, SettlesStream

LEMMA TrimStep ==
    ASSUME StreamOK, SocketsOK, Trim
    PROVE  FeedStep
<1>1. /\ first' \in first..Len(stream) + 1
      /\ stream' = stream /\ deadLetters' = deadLetters
      /\ broadcast' = broadcast /\ process' = process
      /\ UNCHANGED sockets
  BY DEF Trim
<1>2. Event' = Event
  BY <1>1 DEF Event
<1>3. first' \in 1..Len(stream') + 1
  BY <1>1 DEF StreamOK
<1>4. StreamOK'
  BY <1>1, <1>2, <1>3 DEF StreamOK
<1>5. \A e \in Valid : Settled(e)' => Settled(e)
  BY <1>1 DEF Settled
<1> QED BY <1>1, <1>4, <1>5, SettlesStream

\* The process starts, and listens.
LEMMA ProcessStep ==
    ASSUME StreamOK, SocketsOK, Starts \/ Listens
    PROVE  FeedStep
<1>1. /\ stream' = stream /\ deadLetters' = deadLetters /\ first' = first
      /\ broadcast' = broadcast /\ process' \in {"starting", "up"}
      /\ UNCHANGED sockets
  BY DEF Starts, Listens
<1>2. Event' = Event
  BY <1>1 DEF Event
<1>3. StreamOK'
  BY <1>1, <1>2 DEF StreamOK
<1>4. \A e \in Valid : Settled(e)' => Settled(e)
  BY <1>1 DEF Settled
<1> QED BY <1>1, <1>3, <1>4, SettlesStream

-----------------------------------------------------------------------------
(* Messages to the page *)

\* The hub hands on an event: it closes the page's socket, or the page will get it.
LEMMA TellStep ==
    ASSUME StreamOK, SocketsOK, NEW a \in Event, Tell(a)
    PROVE  FeedStep
<1> DEFINE s == hub[Page]
           t == Accepted(s, a)
           w == wire[Page]
           sends == s.active /\ s.sending = None /\ t.sending = a
<1>1. /\ stream[a] # Malformed /\ stream' = stream /\ first' = first
      /\ deadLetters' = deadLetters /\ process' = process
      /\ broadcast' = broadcast \cup {a} /\ conn' = conn
  BY DEF Tell, HubAccept
<1>2. /\ hub' = [c \in {Page} |-> Accepted(hub[c], a)]
      /\ wire' = [c \in {Page} |->
                    IF hub[c].active /\ hub[c].sending = None /\ hub'[c].sending = a
                    THEN Append(wire[c], a) ELSE wire[c]]
  BY ScreenFacts DEF Tell, HubAccept
<1>3. hub'[Page] = t /\ wire'[Page] = IF sends THEN Append(w, a) ELSE w
  BY <1>2
<1>4. Event' = Event /\ Valid' = Valid
  BY <1>1 DEF Event, Valid
<1>5. a \in Valid /\ a \in EventId
  BY <1>1, ScreenFacts DEF Valid, Event, EventId, StreamOK
<1>6. SocketOK(s) /\ w \in Seq(EventId) /\ Range(s.queue) \cup Range(w) \subseteq Valid
  BY DEF SocketsOK, Mail
<1> HIDE DEF s, w
<1>7. /\ SocketOK(t)
      /\ t.active => s.active
      /\ ~t.active => Range(t.queue) = {}
      /\ t.active /\ s.sending = None => t.sending = a /\ t.queue = <<>> /\ s.queue = <<>>
      /\ t.active /\ s.sending # None => Range(t.queue) = Range(s.queue) \cup {a}
  BY <1>5, <1>6, AcceptedFacts
<1>8. /\ Append(w, a) \in Seq(EventId) /\ Range(Append(w, a)) = Range(w) \cup {a}
      /\ Range(<<>>) = {}
  BY <1>5, <1>6, RangeFacts DEF Range
<1>9. t.active => sends \/ s.sending # None
  BY <1>7
<1>10. sends => Range(wire'[Page]) = Range(w) \cup {a}
  BY <1>3, <1>8
<1>11. ~sends => Range(wire'[Page]) = Range(w)
  BY <1>3
<1> HIDE DEF sends, t
<1>12. Mail' = Range(t.queue) \cup Range(wire'[Page]) /\ Mail = Range(s.queue) \cup Range(w)
  BY <1>3 DEF Mail, s, w
<1>13. ASSUME t.active PROVE Mail' = Mail \cup {a}
  <2>1. CASE s.sending = None
    <3>1. sends /\ Range(t.queue) = {} /\ Range(s.queue) = {}
      BY <1>7, <1>8, <1>9, <1>13, <2>1
    <3> QED BY <1>10, <1>12, <3>1
  <2>2. CASE s.sending # None
    <3>1. ~sends /\ Range(t.queue) = Range(s.queue) \cup {a}
      BY <1>7, <1>13, <2>2 DEF sends
    <3> QED BY <1>11, <1>12, <3>1
  <2> QED BY <2>1, <2>2
<1>14. Mail' \subseteq Valid'
  <2>1. CASE t.active
    BY <1>4, <1>5, <1>6, <1>12, <1>13, <2>1
  <2>2. CASE ~t.active
    <3>1. Range(t.queue) = {}
      BY <1>7, <2>2
    <3> QED BY <1>4, <1>5, <1>6, <1>10, <1>11, <1>12, <3>1
  <2> QED BY <2>1, <2>2
<1>15. StreamOK'
  BY <1>1, <1>4 DEF StreamOK
<1>16. hub' \in [{Page} -> SocketRecord] /\ SocketOK(hub'[Page])
  BY <1>2, <1>3, <1>7 DEF SocketOK
<1>17. wire' \in [{Page} -> Seq(EventId)]
  BY <1>2, <1>3, <1>6, <1>8
<1>18. SocketsOK'
  BY <1>1, <1>14, <1>16, <1>17 DEF SocketsOK
<1>19. Len(stream) <= Len(stream')
  BY <1>1 DEF StreamOK
<1>20. ASSUME hub'[Page].active
       PROVE  /\ hub[Page].active /\ Mail \subseteq Mail'
              /\ \A e \in Valid : Settled(e)' => Settled(e) \/ e \in Mail'
  <2>1. t.active /\ Mail' = Mail \cup {a} /\ hub[Page].active
    BY <1>3, <1>7, <1>13, <1>20 DEF s
  <2>2. \A e : Settled(e)' => Settled(e) \/ e = a
    BY <1>1 DEF Settled
  <2> QED BY <2>1, <2>2
<1> QED BY <1>1, <1>4, <1>15, <1>18, <1>19, <1>20 DEF FeedStep

\* The page's socket goes: what it had is on the wire, or lost.
LEMMA GoneStep ==
    ASSUME StreamOK, SocketsOK, StreamOK',
           UNCHANGED <<stream, deadLetters, broadcast, conn, wire>>,
           hub' = [c \in {Page} |-> NoSocket]
    PROVE  FeedStep
<1>1. hub'[Page] = NoSocket /\ ~hub'[Page].active /\ hub'[Page].queue = <<>>
  BY DEF NoSocket
<1>2. Range(<<>>) = {} /\ SocketOK(NoSocket)
  BY NoSocketOK DEF Range
<1>3. Event' = Event /\ Valid' = Valid
  BY DEF Event, Valid
<1>4. Mail' \subseteq Valid'
  BY <1>1, <1>2, <1>3 DEF Mail, SocketsOK
<1>5. SocketsOK'
  BY <1>1, <1>2, <1>4 DEF SocketsOK, SocketOK
<1>6. Len(stream) <= Len(stream')
  BY DEF StreamOK
<1> QED BY <1>1, <1>3, <1>5, <1>6 DEF FeedStep

LEMMA EndsStep == ASSUME StreamOK, SocketsOK, Ends PROVE FeedStep
<1>1. /\ UNCHANGED <<stream, first, deadLetters, broadcast, conn, wire>>
      /\ process' = "off" /\ hub' = [c \in {Page} |-> NoSocket]
  BY ScreenFacts DEF Ends
<1>2. Event' = Event
  BY <1>1 DEF Event
<1>3. StreamOK'
  BY <1>1, <1>2 DEF StreamOK
<1> QED BY <1>1, <1>3, GoneStep

LEMMA BreakStep == ASSUME StreamOK, SocketsOK, Break(Page) PROVE FeedStep
<1>1. /\ UNCHANGED <<stream, first, deadLetters, broadcast, process, conn, wire>>
      /\ hub' = [hub EXCEPT ![Page] = NoSocket]
  BY DEF Break
<1>2. hub' = [c \in {Page} |-> NoSocket]
  BY <1>1 DEF SocketsOK
<1>3. Event' = Event
  BY <1>1 DEF Event
<1>4. StreamOK'
  BY <1>1, <1>3 DEF StreamOK
<1> QED BY <1>1, <1>2, <1>4, GoneStep

\* The next message goes out.
LEMMA SentStep == ASSUME StreamOK, SocketsOK, Sent(Page) PROVE FeedStep
<1> DEFINE s == hub[Page]
           q == [s EXCEPT !.sending = None]
           t == Drained(q)
           w == wire[Page]
           v == IF t.sending = None THEN w ELSE Append(w, t.sending)
<1>1. /\ UNCHANGED <<stream, first, deadLetters, broadcast, process, conn>>
      /\ hub' = [hub EXCEPT ![Page] = t] /\ s.sending # None
      /\ wire' = [wire EXCEPT ![Page] =
                    IF hub'[Page].sending = None THEN w ELSE Append(w, hub'[Page].sending)]
  BY DEF Sent
<1>2. hub'[Page] = t
  BY <1>1 DEF SocketsOK
<1>3. wire' = [wire EXCEPT ![Page] = v] /\ wire'[Page] = v
  BY <1>1, <1>2 DEF SocketsOK
<1>4. Event' = Event /\ Valid' = Valid
  BY <1>1 DEF Event, Valid
<1>5. /\ SocketOK(s) /\ w \in Seq(EventId) /\ Range(s.queue) \cup Range(w) \subseteq Valid
      /\ hub \in [{Page} -> SocketRecord] /\ wire \in [{Page} -> Seq(EventId)]
  BY DEF SocketsOK, Mail
<1>6. Mail = Range(s.queue) \cup Range(w)
  BY DEF Mail
<1> HIDE DEF s, w
<1>7. /\ q \in SocketRecord /\ Len(q.queue) <= QueueLimit /\ q.queue = s.queue
      /\ q.sending = None /\ q.active = s.active /\ s.queue \in Seq(EventId)
  BY <1>5 DEF SocketOK, SocketRecord
<1> HIDE DEF q
<1>8. /\ t \in SocketRecord /\ Len(t.queue) <= QueueLimit /\ t.active = s.active
      /\ t.sending = None => t.queue = <<>>
      /\ s.queue = <<>> => t = q
      /\ s.queue # <<>> => t.sending = Head(s.queue) /\ t.queue = Tail(s.queue) /\ t.sending # None
  BY <1>7, DrainedFacts
<1> HIDE DEF t
<1>9. s.active
  BY <1>1, <1>5 DEF SocketOK, NoSocket
<1>10. SocketOK(t)
  BY <1>8, <1>9 DEF SocketOK
<1>11. v \in Seq(EventId) /\ Range(t.queue) \cup Range(v) = Range(s.queue) \cup Range(w)
  <2>1. CASE s.queue = <<>>
    BY <1>5, <1>7, <1>8, <2>1
  <2>2. CASE s.queue # <<>>
    <3>1. v = Append(w, Head(s.queue)) /\ t.queue = Tail(s.queue)
      BY <1>8, <2>2
    <3>2. Head(s.queue) \in EventId /\ Range(s.queue) = {Head(s.queue)} \cup Range(Tail(s.queue))
      BY <1>7, <2>2, RangeFacts
    <3> HIDE DEF v
    <3>3. v \in Seq(EventId) /\ Range(v) = Range(w) \cup {Head(s.queue)}
      BY <1>5, <3>1, <3>2, RangeFacts
    <3> QED BY <3>1, <3>2, <3>3
  <2> QED BY <2>1, <2>2
<1> HIDE DEF v
<1>12. Mail' = Mail
  BY <1>2, <1>3, <1>6, <1>11 DEF Mail
<1>13. hub' \in [{Page} -> SocketRecord] /\ wire' \in [{Page} -> Seq(EventId)]
  BY <1>1, <1>3, <1>5, <1>8, <1>11
<1>14. SocketsOK'
  BY <1>1, <1>2, <1>4, <1>10, <1>12, <1>13 DEF SocketsOK
<1>15. StreamOK'
  BY <1>1, <1>4 DEF StreamOK
<1>16. Len(stream) <= Len(stream')
  BY <1>1 DEF StreamOK
<1>17. \A e : Settled(e)' => Settled(e)
  BY <1>1 DEF Settled
<1>18. hub[Page].active
  BY <1>9 DEF s
<1> QED BY <1>1, <1>4, <1>12, <1>14, <1>15, <1>16, <1>17, <1>18 DEF FeedStep

LEMMA DaemonStep ==
    ASSUME StreamOK, SocketsOK, DaemonNext
    PROVE  FeedStep
<1>1. ASSUME NEW k \in Kind \cup {Malformed}, Append1(k) PROVE FeedStep
  BY <1>1, Append1Step
<1>2. ASSUME NEW e \in Event, Tell(e) PROVE FeedStep
  BY <1>2, TellStep
<1>3. ASSUME NEW e \in Event, Dispose(e) PROVE FeedStep
  BY <1>3, DisposeStep
<1>4. CASE Trim
  BY <1>4, TrimStep
<1>5. CASE Starts \/ Listens
  BY <1>5, ProcessStep
<1>6. CASE Ends
  BY <1>6, EndsStep
<1>7. ASSUME NEW c \in Client, Sent(c) \/ Break(c) PROVE FeedStep
  <2>1. c = Page
    BY <1>7, ScreenFacts
  <2>2. CASE Sent(Page)
    BY <2>2, SentStep
  <2>3. CASE Break(Page)
    BY <2>3, BreakStep
  <2> QED BY <1>7, <2>1, <2>2, <2>3
<1> QED BY <1>1, <1>2, <1>3, <1>4, <1>5, <1>6, <1>7 DEF DaemonNext

-----------------------------------------------------------------------------
(* Loads, and the screen while the daemon runs *)

LEMMA FeedTyped ==
    ASSUME StreamOK, SocketsOK
    PROVE  FeedTypeOK
<1>1. Client = {Page} /\ Event \subseteq EventId /\ Len(stream) + 1 <= MaxEvents + 1
      /\ Len(stream) \in Nat /\ MaxEvents \in Nat
  BY ScreenFacts DEF StreamOK, Event, EventId
<1>2. first \in 1..MaxEvents + 1
  BY <1>1 DEF StreamOK
<1> QED BY <1>1, <1>2 DEF StreamOK, SocketsOK, SocketOK, SocketRecord, FeedTypeOK

\* A load is told by its name; one that was answered has a length.
LEMMA LoadFacts ==
    /\ \A x \in LoadState : /\ x.is \in {"none", "waits", "failed", "loaded"}
                            /\ x.is = "none" <=> x = NoLoad
                            /\ x.is = "waits" <=> x = Waits
                            /\ x.is = "loaded" => x.at \in 0..MaxEvents
    /\ NoLoad \in LoadState /\ NoLoad.is = "none"
    /\ Waits \in LoadState /\ Waits.is = "waits"
    /\ Failed \in LoadState /\ Failed.is = "failed"
    /\ \A n \in 0..MaxEvents : /\ Loaded(n) \in LoadState
                               /\ Loaded(n).is = "loaded"
                               /\ Loaded(n).at = n
<1>1. NoLoad.is = "none" /\ Waits.is = "waits" /\ Failed.is = "failed"
  BY DEF NoLoad, Waits, Failed
<1>2. \A n \in 0..MaxEvents : Loaded(n).is = "loaded" /\ Loaded(n).at = n
  BY DEF Loaded
<1>3. ASSUME NEW x \in LoadState
      PROVE  /\ x.is \in {"none", "waits", "failed", "loaded"}
             /\ x.is = "none" <=> x = NoLoad
             /\ x.is = "waits" <=> x = Waits
             /\ x.is = "loaded" => x.at \in 0..MaxEvents
  <2>1. CASE x \in {NoLoad, Waits, Failed}
    BY <1>1, <2>1
  <2>2. CASE \E n \in 0..MaxEvents : x = Loaded(n)
    <3>1. x.is = "loaded" /\ x.at \in 0..MaxEvents
      BY <1>2, <2>2
    <3> QED BY <1>1, <3>1
  <2> QED BY <2>1, <2>2 DEF LoadState
<1> QED BY <1>1, <1>2, <1>3 DEF LoadState

\* A request of the batch may be answered with what there is now.
BatchGoesOn ==
    /\ batch' \in [Resource -> LoadState]
    /\ \A r \in Resource :
          \/ batch'[r] = batch[r]
          \/ /\ batch[r].is = "waits"
             /\ \/ batch'[r].is = "failed"
                \/ batch'[r].is = "loaded" /\ batch'[r].at = Len(stream)

\* Whatever the daemon does, the page will hear of it, be cut off, or load it.
LEMMA ScreenStays ==
    ASSUME ScreenIInv, FeedStep, BatchGoesOn,
           UNCHANGED <<view, swallowed>>
    PROVE  ScreenIInv'
<1>1. /\ live' = live /\ shown' = shown /\ stale' = stale /\ seen' = seen
      /\ invalid' = invalid /\ swallowed' = swallowed
  BY DEF view
<1>2. /\ StreamOK' /\ SocketsOK' /\ conn' = conn /\ Len(stream) <= Len(stream')
      /\ \A e \in Event : stream'[e] = stream[e]
      /\ Len(stream) \in Nat /\ Len(stream') \in Nat
  BY DEF FeedStep, ScreenIInv, StreamOK
<1>3. Event \subseteq Event'
  BY <1>2 DEF Event
<1>4. /\ PageOK /\ Covers /\ NothingIsMissed
      /\ Resource' = Resource /\ LoadState' = LoadState
  BY DEF ScreenIInv, Resource, LoadState, Loaded, Waits, Failed, NoLoad
<1>5. swallowed \subseteq Event
  BY <1>4 DEF PageOK
<1>6. \A r \in Resource : shown[r] # None => shown[r] \in Nat /\ shown[r] <= Len(stream)
  BY <1>4, ScreenFacts DEF PageOK
<1>7. ASSUME NEW r \in Resource
      PROVE  /\ shown[r] # None => shown[r] <= Len(stream')
             /\ batch'[r].is = "loaded" =>
                   /\ batch'[r].at <= Len(stream')
                   /\ shown[r] # None => shown[r] <= batch'[r].at
  <2>1. shown[r] # None => shown[r] <= Len(stream')
    BY <1>2, <1>6
  <2>2. CASE batch'[r] = batch[r]
    <3>1. batch[r].is = "loaded" =>
             batch[r].at \in Nat /\ batch[r].at <= Len(stream)
             /\ (shown[r] # None => shown[r] <= batch[r].at)
      BY <1>4, LoadFacts DEF PageOK
    <3> QED BY <1>2, <2>1, <2>2, <3>1
  <2>3. CASE batch'[r].is = "loaded" /\ batch'[r].at = Len(stream)
    BY <1>2, <1>6, <2>1, <2>3
  <2>4. CASE batch'[r].is = "failed"
    BY <2>1, <2>4
  <2> QED BY <2>2, <2>3, <2>4 DEF BatchGoesOn
<1>8. PageOK'
  <2>1. /\ live \in BOOLEAN /\ shown \in [Resource -> 0..MaxEvents \cup {None}]
        /\ stale \subseteq Resource /\ invalid \subseteq Resource
        /\ batch' \in [Resource -> LoadState]
        /\ swallowed \subseteq seen /\ (~live => conn[Page] = "off") /\ seen \subseteq Event
        /\ \A e \in swallowed : stream[e] \in Kind /\ shown[stream[e]] # None
    BY <1>4 DEF PageOK, BatchGoesOn
  <2>2. \A e \in swallowed : stream'[e] = stream[e]
    BY <1>2, <1>5
  <2> QED BY <1>1, <1>2, <1>3, <1>4, <1>7, <2>1, <2>2 DEF PageOK
<1>9. Covers'
  <2>1. \A r \in Resource : batch[r].is # "none" => batch'[r].is # "none"
    BY DEF BatchGoesOn
  <2> QED BY <1>1, <1>2, <1>4, <2>1 DEF Covers
<1>10. Cut => Cut'
  BY <1>1, <1>2 DEF Cut, FeedStep
<1>11. ASSUME NEW e \in Valid' \ swallowed' PROVE Cut' \/ Answered(stream[e], e)' \/ Coming(e)'
  <2>1. CASE e \notin Event
    <3>1. e \in Event' \ Event /\ e \notin seen
      BY <1>4, <1>11, <2>1 DEF Valid, PageOK
    <3>2. ~Settled(e)' /\ e \notin seen'
      BY <1>1, <3>1 DEF FeedStep
    <3> QED BY <3>2 DEF Coming
  <2>2. CASE e \in Event
    <3> PICK k : k = stream[e]
      OBVIOUS
    <3>1. k = stream'[e] /\ k = stream[e] /\ e \in Valid \ swallowed /\ k \in Resource
      BY <1>1, <1>2, <1>11, <2>2 DEF Valid, Resource
    <3>2. e \in Nat /\ e <= Len(stream)
      BY <1>2, <2>2 DEF Event
    <3>3. Cut \/ Answered(k, e) \/ Coming(e)
      BY <1>4, <3>1 DEF NothingIsMissed
    <3>4. ASSUME ~Cut, Answered(k, e) PROVE Answered(k, e)'
      <4>1. live
        BY <3>4 DEF Cut
      <4>2. CASE batch'[k] = batch[k]
        BY <1>1, <3>4, <4>2 DEF Answered, Shows
      <4>3. CASE batch'[k].is = "loaded" /\ batch'[k].at = Len(stream)
        BY <3>2, <4>3 DEF Answered
      <4>4. CASE batch'[k].is = "failed"
        BY <1>1, <4>1, <4>4 DEF Answered
      <4> QED BY <3>1, <4>2, <4>3, <4>4 DEF BatchGoesOn
    <3>5. ASSUME Coming(e), ~Cut' PROVE Coming(e)'
      <4>1. /\ Mail \subseteq Mail'
            /\ Settled(e)' => Settled(e) \/ e \in Mail'
        BY <3>1, <3>5 DEF FeedStep, Cut
      <4> QED BY <1>1, <3>5, <4>1 DEF Coming
    <3>6. Answered(k, e)' => Answered(stream[e], e)'
      BY <3>1 DEF Answered, Shows
    <3> QED BY <1>10, <3>3, <3>4, <3>5, <3>6
  <2> QED BY <2>1, <2>2
<1> QED BY <1>2, <1>8, <1>9, <1>11 DEF ScreenIInv, NothingIsMissed

\* A request is answered: the list of events is refused for a malformed one, which
\* gets a dead letter.
LEMMA NatMax ==
    ASSUME NEW n \in Nat, NEW T \in SUBSET (0..n), T # {}
    PROVE  Max(T) \in T
<1> DEFINE U == {n - x : x \in T}
<1>1. U \in SUBSET Nat /\ U # {}
  <2>1. \A x \in T : n - x \in Nat
    OBVIOUS
  <2> QED BY <2>1
<1>2. PICK y \in U : \A z \in U : y <= z
  BY <1>1, NatMin
<1>3. PICK x \in T : y = n - x
  BY <1>2
<1>4. ASSUME NEW z \in T PROVE z <= x
  <2>1. n - x <= n - z /\ x \in 0..n /\ z \in 0..n
    BY <1>2, <1>3, <1>4
  <2> QED BY <2>1
<1>5. \E m \in T : \A z \in T : m >= z
  BY <1>3, <1>4
<1> QED BY <1>5 DEF Max

LEMMA LoadStep ==
    ASSUME ScreenIInv, NEW r \in Resource, Load(r)
    PROVE  ScreenIInv'
<1> DEFINE malformed == {e \in first..Len(stream) : stream[e] = Malformed}
           refused == r = Activity /\ malformed # {}
<1>1. /\ batch[r] = Waits /\ UNCHANGED <<view, swallowed>>
      /\ \/ batch' = [batch EXCEPT ![r] = Failed] /\ UNCHANGED feedVars
         \/ /\ process = "up" /\ refused
            /\ batch' = [batch EXCEPT ![r] = Failed]
            /\ Dispose(Max(malformed))
         \/ /\ process = "up" /\ ~refused
            /\ batch' = [batch EXCEPT ![r] = Loaded(Len(stream))]
            /\ UNCHANGED feedVars
  BY DEF Load
<1>2. StreamOK /\ SocketsOK /\ batch \in [Resource -> LoadState]
      /\ Len(stream) \in Nat /\ Len(stream) \in 0..MaxEvents
  BY ScreenFacts DEF ScreenIInv, PageOK, StreamOK
<1>3. batch[r].is = "waits"
  BY <1>1, LoadFacts
<1>4. FeedStep
  <2>1. CASE UNCHANGED feedVars
    BY <1>2, <2>1, FeedStutters
  <2>2. CASE refused /\ Dispose(Max(malformed))
    <3>1. malformed \in SUBSET (0..Len(stream)) /\ malformed \subseteq Event
      BY <1>2 DEF StreamOK, Event
    <3> HIDE DEF malformed
    <3>2. Max(malformed) \in malformed
      BY <1>2, <2>2, <3>1, NatMax
    <3> QED BY <1>2, <2>2, <3>1, <3>2, DisposeStep
  <2> QED BY <1>1, <2>1, <2>2
<1>5. BatchGoesOn
  <2>1. ASSUME NEW x \in LoadState, batch' = [batch EXCEPT ![r] = x],
               x.is = "failed" \/ (x.is = "loaded" /\ x.at = Len(stream))
        PROVE  BatchGoesOn
    BY <1>2, <1>3, <2>1 DEF BatchGoesOn
  <2>2. CASE batch' = [batch EXCEPT ![r] = Failed]
    BY <2>1, <2>2, LoadFacts
  <2>3. CASE batch' = [batch EXCEPT ![r] = Loaded(Len(stream))]
    BY <1>2, <2>1, <2>3, LoadFacts
  <2> QED BY <1>1, <2>2, <2>3
<1> QED BY <1>1, <1>4, <1>5, ScreenStays

-----------------------------------------------------------------------------
(* The page *)

\* What is left of the invariant when the page moves on the same stream.
LEMMA PageMoves ==
    ASSUME ScreenIInv, FeedStep, UNCHANGED stream,
           PageOK', Covers',
           \A e \in Valid \ swallowed' : Cut' \/ Answered(stream[e], e)' \/ Coming(e)'
    PROVE  ScreenIInv'
<1>1. Valid' = Valid
  BY DEF Valid, Event
<1> QED BY <1>1 DEF ScreenIInv, FeedStep, NothingIsMissed

\* Every resource waits for a batch: nothing can have been missed.
LEMMA AllInvalid ==
    ASSUME invalid = Resource
    PROVE  Covers /\ NothingIsMissed
<1>1. \A e \in Valid : stream[e] \in Resource
  BY DEF Valid, Resource
<1> QED BY <1>1 DEF Covers, NothingIsMissed, Answered

LEMMA SameConstants == Resource' = Resource /\ LoadState' = LoadState
BY DEF Resource, LoadState, Loaded, Waits, Failed, NoLoad

\* The user asks for a retry.
LEMMA RetryStep == ASSUME ScreenIInv, Retry PROVE ScreenIInv'
<1>1. /\ UNCHANGED <<feedVars, live, shown, stale, seen, batch, swallowed>>
      /\ invalid' = Resource
  BY DEF Retry
<1>2. /\ UNCHANGED <<stream, conn>> /\ StreamOK /\ SocketsOK /\ PageOK
  BY <1>1 DEF feedVars, sockets, ScreenIInv
<1>3. FeedStep
  BY <1>1, <1>2, FeedStutters
<1>4. Event' = Event
  BY <1>2 DEF Event
<1>5. PageOK'
  BY <1>1, <1>2, <1>4, SameConstants DEF PageOK
<1>6. ASSUME NEW e \in Valid PROVE Answered(stream[e], e)'
  BY <1>1, <1>2, <1>6 DEF Answered, Valid, Resource
<1>7. Covers'
  BY <1>1, SameConstants DEF Covers
<1> QED BY <1>2, <1>3, <1>5, <1>6, <1>7, PageMoves

\* What waits becomes a batch.
LEMMA FlushStep == ASSUME ScreenIInv, Flush PROVE ScreenIInv'
<1>1. /\ UNCHANGED <<feedVars, live, shown, stale, seen, swallowed>>
      /\ invalid' = {} /\ InBatch = {}
      /\ batch' = [r \in Resource |-> IF r \in invalid THEN Waits ELSE NoLoad]
  BY DEF Flush
<1>2. /\ UNCHANGED <<stream, hub, conn, wire, broadcast, deadLetters>>
      /\ StreamOK /\ SocketsOK /\ PageOK /\ Covers /\ NothingIsMissed
  BY <1>1 DEF feedVars, sockets, ScreenIInv
<1>3. FeedStep
  BY <1>1, <1>2, FeedStutters
<1>4. Event' = Event /\ Mail' = Mail
  BY <1>2 DEF Event, Mail
<1>5. ASSUME NEW r \in Resource
      PROVE  /\ batch[r].is = "none"
             /\ batch'[r] \in LoadState /\ batch'[r].is # "loaded"
             /\ r \in invalid => batch'[r].is = "waits"
  <2>1. batch[r] = NoLoad
    BY <1>1, <1>5 DEF InBatch
  <2> QED BY <1>1, <2>1, LoadFacts
<1>6. batch' \in [Resource -> LoadState]
  BY <1>1, <1>5
<1>7. PageOK'
  BY <1>1, <1>2, <1>4, <1>5, <1>6, SameConstants DEF PageOK
<1>8. Covers'
  BY <1>1, <1>2, <1>5, SameConstants DEF Covers
<1>9. ASSUME NEW e \in Valid \ swallowed' PROVE Cut' \/ Answered(stream[e], e)' \/ Coming(e)'
  <2> PICK k : k = stream[e]
    OBVIOUS
  <2>1. k \in Resource /\ e \in Valid \ swallowed /\ stream'[e] = k
    BY <1>1, <1>2 DEF Valid, Resource
  <2>2. Cut \/ Answered(k, e) \/ Coming(e)
    BY <1>2, <2>1 DEF NothingIsMissed
  <2>3. Cut => Cut'
    BY <1>1, <1>2 DEF Cut
  <2>4. Coming(e) => Coming(e)'
    BY <1>1, <1>2, <1>4 DEF Coming, Settled
  <2>5. ASSUME Answered(k, e) PROVE Answered(k, e)'
    <3>1. Shows(k, e) \/ k \in stale \/ k \in invalid
      BY <1>5, <2>1, <2>5 DEF Answered
    <3>2. Shows(k, e) => Shows(k, e)'
      BY <1>1 DEF Shows
    <3> QED BY <1>1, <1>5, <2>1, <3>1, <3>2 DEF Answered
  <2>6. Answered(k, e)' => Answered(stream[e], e)'
    BY <2>1 DEF Answered, Shows
  <2> QED BY <2>2, <2>3, <2>4, <2>5, <2>6
<1> QED BY <1>2, <1>3, <1>7, <1>8, <1>9, PageMoves

\* The batch is complete: what it loaded is on the screen and what it could not
\* load is stale, and a list hides an event only together with an older load.
LEMMA CompleteStep == ASSUME ScreenIInv, Complete PROVE ScreenIInv'
<1> DEFINE loaded == {r \in InBatch : batch[r].is = "loaded"}
           now == [r \in Resource |-> IF r \in loaded THEN batch[r].at ELSE shown[r]]
           listed == IF Activity \in loaded
                     THEN first..batch[Activity].at ELSE {}
<1>1. /\ \A r \in InBatch : batch[r] # Waits
      /\ live' = TRUE /\ shown' = now
      /\ stale' = IF live THEN (stale \ loaded) \cup (InBatch \ loaded) ELSE {}
      /\ seen' = seen \cup listed
      /\ swallowed' = {e \in swallowed \cup (listed \ seen) :
                          stream[e] \in Kind /\ now[stream[e]] # None /\ now[stream[e]] < e}
      /\ batch' = [r \in Resource |-> NoLoad]
      /\ UNCHANGED <<feedVars, invalid>>
  BY DEF Complete, StaleAfter
<1>2. /\ UNCHANGED <<stream, hub, conn, wire, broadcast, deadLetters>>
      /\ StreamOK /\ SocketsOK /\ PageOK /\ Covers /\ NothingIsMissed
  BY <1>1 DEF feedVars, sockets, ScreenIInv
<1>3. FeedStep
  BY <1>1, <1>2, FeedStutters
<1>4. Event' = Event /\ Mail' = Mail
  BY <1>2 DEF Event, Mail
\* What a resource shows afterwards.
<1>5. ASSUME NEW r \in Resource
      PROVE  /\ batch[r].is \in {"none", "failed", "loaded"}
             /\ r \in loaded <=> batch[r].is = "loaded"
             /\ batch[r].is = "failed" => r \in InBatch \ loaded
             /\ batch[r].is = "loaded" =>
                   /\ now[r] = batch[r].at /\ now[r] \in 0..MaxEvents /\ now[r] <= Len(stream)
                   /\ now[r] # None
                   /\ shown[r] # None => shown[r] <= now[r]
             /\ batch[r].is # "loaded" => now[r] = shown[r]
  <2>1. batch[r] \in LoadState
    BY <1>2, <1>5 DEF PageOK
  <2>2. /\ batch[r].is \in {"none", "waits", "failed", "loaded"}
        /\ batch[r].is = "none" <=> batch[r] = NoLoad
        /\ batch[r].is = "waits" <=> batch[r] = Waits
        /\ batch[r].is = "loaded" => batch[r].at \in 0..MaxEvents
    BY <2>1, LoadFacts
  <2>3. r \in InBatch <=> batch[r].is # "none"
    BY <1>5, <2>2 DEF InBatch
  <2>4. batch[r].is # "waits"
    BY <1>1, <2>2, <2>3
  <2>5. r \in loaded <=> batch[r].is = "loaded"
    BY <2>3
  <2>6. now[r] = IF r \in loaded THEN batch[r].at ELSE shown[r]
    BY <1>5
  <2> HIDE DEF loaded, now
  <2>7. ASSUME batch[r].is = "loaded"
        PROVE  /\ now[r] = batch[r].at /\ now[r] \in 0..MaxEvents /\ now[r] <= Len(stream)
               /\ now[r] # None
               /\ shown[r] # None => shown[r] <= now[r]
    <3>1. /\ batch[r].at <= Len(stream)
          /\ shown[r] # None => shown[r] <= batch[r].at
      BY <1>2, <1>5, <2>7 DEF PageOK
    <3> QED BY <2>2, <2>5, <2>6, <2>7, <3>1, ScreenFacts
  <2> QED BY <2>2, <2>3, <2>4, <2>5, <2>6, <2>7
<1>6. now \in [Resource -> 0..MaxEvents \cup {None}]
  <2>1. \A r \in Resource : now[r] \in 0..MaxEvents \cup {None}
    BY <1>2, <1>5 DEF PageOK
  <2> QED BY <2>1
<1>7. \A r \in Resource : now[r] # None => now[r] <= Len(stream)
  BY <1>2, <1>5 DEF PageOK
<1>8. listed \subseteq Event
  <2>1. CASE Activity \in loaded
    <3>1. Activity \in Resource
      BY DEF Resource
    <3>2. /\ batch[Activity].at \in 0..MaxEvents
          /\ batch[Activity].at <= Len(stream)
          /\ first \in 1..Len(stream) + 1 /\ Len(stream) \in Nat /\ MaxEvents \in Nat
      BY <1>2, <1>5, <2>1, <3>1, ScreenFacts DEF StreamOK
    <3> QED BY <2>1, <3>2 DEF Event
  <2>2. CASE Activity \notin loaded
    BY <2>2
  <2> QED BY <2>1, <2>2
<1>9. \A r \in Resource :
         /\ batch'[r] = NoLoad /\ batch'[r].is = "none" /\ batch'[r] \in LoadState
  BY <1>1, LoadFacts
<1>10. /\ stale' \subseteq Resource
       /\ live => \A r \in Resource :
                     /\ r \in stale /\ batch[r].is # "loaded" => r \in stale'
                     /\ batch[r].is = "failed" => r \in stale'
  <2>1. InBatch \subseteq Resource /\ stale \subseteq Resource
    BY <1>2 DEF InBatch, PageOK
  <2>2. stale' \subseteq Resource
    BY <1>1, <2>1
  <2>3. ASSUME live, NEW r \in Resource
        PROVE  /\ r \in stale /\ batch[r].is # "loaded" => r \in stale'
               /\ batch[r].is = "failed" => r \in stale'
    <3>1. stale' = (stale \ loaded) \cup (InBatch \ loaded)
      BY <1>1, <2>3
    <3>2. /\ r \in loaded <=> batch[r].is = "loaded"
          /\ batch[r].is = "failed" => r \in InBatch \ loaded
      BY <1>5, <2>3
    <3> HIDE DEF loaded
    <3> QED BY <3>1, <3>2
  <2> QED BY <2>2, <2>3
<1> HIDE DEF loaded, now, listed
<1>11. PageOK'
  <2>1. /\ swallowed' \subseteq seen' /\ seen' \subseteq Event
        /\ \A e \in swallowed' : stream[e] \in Kind /\ now[stream[e]] # None
    BY <1>1, <1>2, <1>8 DEF PageOK
  <2>2. batch' \in [Resource -> LoadState]
    BY <1>1, <1>9
  <2>3. \A r \in Resource : batch'[r].is # "loaded"
    BY <1>9
  <2>4. invalid' \subseteq Resource /\ stale' \subseteq Resource /\ live' \in BOOLEAN
    BY <1>1, <1>2, <1>10 DEF PageOK
  <2>5. /\ shown' \in [Resource -> 0..MaxEvents \cup {None}]
        /\ \A r \in Resource : shown'[r] # None => shown'[r] <= Len(stream')
    BY <1>1, <1>2, <1>6, <1>7
  <2>6. \A e \in swallowed' : stream'[e] \in Kind /\ shown'[stream'[e]] # None
    BY <1>1, <1>2, <2>1
  <2>7. ~live' => conn'[Page] = "off"
    BY <1>1
  <2> QED BY <1>4, <2>1, <2>2, <2>3, <2>4, <2>5, <2>6, <2>7, SameConstants DEF PageOK
<1>12. Covers'
  <2>1. ASSUME conn'[Page] = "open", NEW r \in Resource
        PROVE  shown'[r] # None \/ r \in stale' \/ r \in invalid'
    <3>1. live
      BY <1>2, <2>1 DEF PageOK
    <3>2. shown[r] # None \/ r \in stale \/ r \in invalid \/ batch[r].is # "none"
      BY <1>2, <2>1, <3>1 DEF Covers
    <3> QED BY <1>1, <1>5, <1>10, <3>1, <3>2
  <2> QED BY <2>1, SameConstants DEF Covers
<1>13. ASSUME NEW e \in Valid \ swallowed' PROVE Cut' \/ Answered(stream[e], e)' \/ Coming(e)'
  <2> PICK k : k = stream[e]
    OBVIOUS
  <2>1. k \in Resource /\ k \in Kind /\ stream'[e] = k /\ k = stream[e] /\ e \in Nat
    BY <1>2 DEF Valid, Resource, Event
  <2>2. now[k] # None => now[k] \in Nat
    BY <1>6, <2>1
  <2>3. now[k] # None /\ ~(now[k] < e) => Answered(k, e)'
    BY <1>1, <2>1, <2>2 DEF Answered, Shows
  <2>4. shown[k] # None => now[k] # None /\ now[k] \in Nat /\ shown[k] \in Nat /\ shown[k] <= now[k]
    BY <1>2, <1>5, <2>1, <2>2 DEF PageOK
  <2>7. Answered(k, e)' => Answered(stream[e], e)'
    BY <2>1 DEF Answered, Shows
  <2>5. CASE e \in swallowed
    <3>1. shown[k] # None
      BY <1>2, <2>1, <2>5 DEF PageOK
    <3>2. now[k] # None /\ ~(now[k] < e)
      BY <1>1, <1>13, <2>1, <2>4, <2>5, <3>1
    <3> QED BY <2>1, <2>3, <3>2 DEF Answered, Shows
  <2>6. CASE e \notin swallowed
    <3>1. Cut \/ Answered(k, e) \/ Coming(e)
      BY <1>2, <1>13, <2>1, <2>6 DEF NothingIsMissed
    <3>2. CASE Cut
      BY <1>1, <1>2, <3>2 DEF Cut, PageOK
    <3>3. CASE ~Cut /\ Answered(k, e)
      <4>1. live
        BY <3>3 DEF Cut
      <4>2. CASE Shows(k, e) \/ (batch[k].is = "loaded" /\ batch[k].at >= e)
        <5>1. now[k] # None /\ now[k] >= e
          BY <1>5, <2>1, <2>4, <4>2 DEF Shows
        <5> QED BY <2>1, <2>2, <2>3, <5>1 DEF Answered, Shows
      <4>3. CASE (k \in stale /\ batch[k].is # "loaded") \/ batch[k].is = "failed"
        <5>1. k \in stale' /\ batch'[k].is # "loaded"
          BY <1>9, <1>10, <2>1, <4>1, <4>3
        <5>2. Answered(k, e)'
          BY <5>1 DEF Answered
        <5> QED BY <2>7, <5>2
      <4>4. CASE k \in invalid
        BY <1>1, <2>1, <4>4 DEF Answered
      <4>5. batch[k].is # "waits"
        BY <1>5, <2>1
      <4>6. \/ Shows(k, e) \/ (batch[k].is = "loaded" /\ batch[k].at >= e)
            \/ (k \in stale /\ batch[k].is # "loaded") \/ batch[k].is = "failed"
            \/ k \in invalid
        BY <3>3, <4>5 DEF Answered
      <4> QED BY <4>2, <4>3, <4>4, <4>6
    <3>4. CASE ~Cut /\ Coming(e)
      <4>1. CASE e \in listed
        <5>1. ~(now[k] # None /\ now[k] < e)
          BY <1>1, <1>13, <2>1, <3>4, <4>1 DEF Coming
        <5>2. CASE now[k] # None
          BY <2>1, <2>3, <5>1, <5>2 DEF Answered, Shows
        <5>3. CASE now[k] = None
          <6>1. k \in stale' \/ k \in invalid'
            BY <1>1, <1>2, <1>9, <1>12, <2>1, <3>4, <5>3, SameConstants DEF Covers, Cut
          <6> QED BY <1>9, <2>1, <6>1 DEF Answered
        <5> QED BY <5>2, <5>3
      <4>2. CASE e \notin listed
        BY <1>1, <1>2, <1>4, <3>4, <4>2 DEF Coming, Settled
      <4> QED BY <4>1, <4>2
    <3> QED BY <3>1, <3>2, <3>3, <3>4
  <2> QED BY <2>5, <2>6
<1> QED BY <1>2, <1>3, <1>11, <1>12, <1>13, PageMoves

-----------------------------------------------------------------------------
(* The connection of the page *)

LEMMA SameStream ==
    ASSUME StreamOK, UNCHANGED <<stream, first, deadLetters, broadcast, process>>
    PROVE  /\ StreamOK' /\ Event' = Event /\ Valid' = Valid
           /\ \A e : Settled(e)' <=> Settled(e)
<1>1. Event' = Event
  BY DEF Event
<1> QED BY <1>1 DEF StreamOK, Valid, Settled

\* The page keeps what it has while its connection comes and goes.
LEMMA PageStays ==
    ASSUME PageOK, UNCHANGED <<live, shown, stale, seen, batch, swallowed, stream>>,
           invalid' \subseteq Resource, ~live => conn'[Page] = "off"
    PROVE  PageOK'
<1>1. Event' = Event
  BY DEF Event
<1> QED BY <1>1, SameConstants DEF PageOK

LEMMA ConnectStep ==
    ASSUME ScreenIInv, live, Connect(Page), UNCHANGED pageVars
    PROVE  ScreenIInv'
<1>1. /\ conn' = [conn EXCEPT ![Page] = "opening"]
      /\ hub' = [hub EXCEPT ![Page] = [NoSocket EXCEPT !.active = TRUE]]
      /\ UNCHANGED <<stream, first, deadLetters, broadcast, process, wire>>
      /\ UNCHANGED <<live, shown, stale, seen, invalid, batch, swallowed>>
  BY DEF Connect, pageVars, view
<1>2. StreamOK /\ SocketsOK /\ PageOK
  BY DEF ScreenIInv
<1> DEFINE s == [NoSocket EXCEPT !.active = TRUE]
<1>3. SocketOK(s) /\ s \in SocketRecord /\ s.queue = <<>>
  <2>1. NoSocket \in SocketRecord /\ Len(NoSocket.queue) <= QueueLimit
    BY NoSocketOK DEF SocketOK
  <2>2. NoSocket.queue = <<>>
    BY DEF NoSocket
  <2>3. s.active = TRUE /\ s.queue = NoSocket.queue /\ s \in SocketRecord
    BY <2>1 DEF SocketRecord
  <2> HIDE DEF s
  <2> QED BY <2>1, <2>2, <2>3 DEF SocketOK
<1> HIDE DEF s
<1>4. hub'[Page] = s /\ conn'[Page] = "opening"
  BY <1>1, <1>2 DEF SocketsOK, s
<1>5. Range(<<>>) = {}
  BY DEF Range
<1>6. Mail' \subseteq Valid'
  BY <1>1, <1>2, <1>3, <1>4, <1>5, SameStream DEF Mail, SocketsOK
<1>7. hub' \in [{Page} -> SocketRecord] /\ conn' \in [{Page} -> {"off", "opening", "open"}]
  BY <1>1, <1>2, <1>3 DEF SocketsOK, s
<1>8. SocketsOK'
  BY <1>1, <1>2, <1>3, <1>4, <1>6, <1>7 DEF SocketsOK
<1>9. PageOK'
  BY <1>1, <1>2, PageStays DEF PageOK
<1>10. Covers' /\ NothingIsMissed'
  BY <1>4 DEF Covers, NothingIsMissed, Cut
<1> QED BY <1>1, <1>2, <1>8, <1>9, <1>10, SameStream DEF ScreenIInv

\* The page is connected, and loads everything again.
LEMMA OpenPageStep == ASSUME ScreenIInv, OpenPage PROVE ScreenIInv'
<1>1. /\ conn[Page] = "opening" /\ conn' = [conn EXCEPT ![Page] = "open"]
      /\ UNCHANGED <<stream, first, deadLetters, broadcast, process, hub, wire>>
      /\ invalid' = Resource
      /\ UNCHANGED <<live, shown, stale, seen, batch, swallowed>>
  BY DEF OpenPage, Open
<1>2. StreamOK /\ SocketsOK /\ PageOK
  BY DEF ScreenIInv
<1>3. live
  BY <1>1, <1>2 DEF PageOK
<1>4. Mail' = Mail
  BY <1>1 DEF Mail
<1>5. SocketsOK'
  BY <1>1, <1>2, <1>4, SameStream DEF SocketsOK
<1>6. PageOK'
  BY <1>1, <1>2, <1>3, PageStays
<1>7. \A e \in Valid : stream[e] \in Resource
  BY DEF Valid, Resource
<1>8. Valid' = Valid /\ stream' = stream /\ StreamOK'
  BY <1>1, <1>2, SameStream
<1>9. Covers'
  BY <1>1, SameConstants DEF Covers
<1>10. NothingIsMissed'
  BY <1>1, <1>7, <1>8 DEF NothingIsMissed, Answered
<1> QED BY <1>5, <1>6, <1>8, <1>9, <1>10 DEF ScreenIInv

\* A message is received: its event was known, or its resource is loaded again.
LEMMA HearStep == ASSUME ScreenIInv, Hear PROVE ScreenIInv'
<1> DEFINE w == wire[Page]
           h == Head(w)
<1>1. /\ conn[Page] = "open" /\ w # <<>>
      /\ wire' = [wire EXCEPT ![Page] = Tail(w)]
      /\ UNCHANGED <<stream, first, deadLetters, broadcast, process, hub, conn>>
      /\ seen' = seen \cup {h}
      /\ invalid' = IF h \in seen THEN invalid ELSE invalid \cup {stream[h]}
      /\ UNCHANGED <<live, shown, stale, batch, swallowed>>
  BY DEF Hear, Receive
<1>2. StreamOK /\ SocketsOK /\ PageOK /\ Covers /\ NothingIsMissed
  BY DEF ScreenIInv
<1>3. w \in Seq(EventId) /\ Range(w) \subseteq Valid
  BY <1>2 DEF SocketsOK, Mail
<1> HIDE DEF w
<1>4. Tail(w) \in Seq(EventId) /\ Range(w) = {h} \cup Range(Tail(w))
  BY <1>1, <1>3, RangeFacts
<1> HIDE DEF h
<1>5. h \in Valid
  BY <1>3, <1>4
<1>6. wire' \in [{Page} -> Seq(EventId)] /\ wire'[Page] = Tail(w)
  BY <1>1, <1>2, <1>4 DEF SocketsOK
<1>7. Mail = Mail' \cup {h}
  BY <1>1, <1>4, <1>6 DEF Mail, w
<1>8. /\ Valid' = Valid /\ stream' = stream /\ StreamOK' /\ Event' = Event
      /\ \A e : Settled(e)' <=> Settled(e)
  BY <1>1, <1>2, SameStream
<1>9. SocketsOK'
  BY <1>1, <1>2, <1>6, <1>7, <1>8 DEF SocketsOK
<1>10. h \in Event /\ stream[h] \in Resource
  BY <1>5 DEF Valid, Resource
<1>11. invalid' \subseteq Resource /\ invalid \subseteq invalid'
  BY <1>1, <1>2, <1>10 DEF PageOK
<1>12. PageOK'
  BY <1>1, <1>2, <1>8, <1>10, <1>11, SameConstants DEF PageOK
<1>13. Covers'
  BY <1>1, <1>2, <1>11, SameConstants DEF Covers
<1>14. ASSUME NEW e \in Valid \ swallowed PROVE Cut' \/ Answered(stream[e], e)' \/ Coming(e)'
  <2> PICK k : k = stream[e]
    OBVIOUS
  <2>1. stream'[e] = k
    BY <1>8
  <2>2. Cut \/ Answered(k, e) \/ Coming(e)
    BY <1>2, <1>14 DEF NothingIsMissed
  <2>3. Cut => Cut'
    BY <1>1 DEF Cut
  <2>4. Answered(k, e) => Answered(k, e)'
    <3>1. Shows(k, e) => Shows(k, e)'
      BY <1>1 DEF Shows
    <3> QED BY <1>1, <1>11, <3>1 DEF Answered
  <2>5. ASSUME Coming(e) PROVE Answered(k, e)' \/ Coming(e)'
    <3>1. CASE e = h
      <4>1. k \in invalid'
        BY <1>1, <2>5, <3>1 DEF Coming
      <4> QED BY <4>1 DEF Answered
    <3>2. CASE e # h
      BY <1>1, <1>7, <1>8, <2>5, <3>2 DEF Coming
    <3> QED BY <3>1, <3>2
  <2>6. Answered(k, e)' => Answered(stream[e], e)'
    BY <2>1 DEF Answered, Shows
  <2> QED BY <2>2, <2>3, <2>4, <2>5, <2>6
<1>15. NothingIsMissed'
  BY <1>1, <1>8, <1>14 DEF NothingIsMissed
<1> QED BY <1>8, <1>9, <1>12, <1>13, <1>15 DEF ScreenIInv

\* The page learns that its socket is closed.
LEMMA ClosedStep ==
    ASSUME ScreenIInv, Closed(Page), UNCHANGED pageVars
    PROVE  ScreenIInv'
<1>1. /\ conn' = [conn EXCEPT ![Page] = "off"] /\ wire' = [wire EXCEPT ![Page] = <<>>]
      /\ UNCHANGED <<stream, first, deadLetters, broadcast, process, hub>>
      /\ UNCHANGED <<live, shown, stale, seen, invalid, batch, swallowed>>
  BY DEF Closed, pageVars, view
<1>2. StreamOK /\ SocketsOK /\ PageOK
  BY DEF ScreenIInv
<1>3. Range(<<>>) = {} /\ <<>> \in Seq(EventId)
  BY DEF Range
<1>4. wire'[Page] = <<>> /\ conn'[Page] = "off"
  BY <1>1, <1>2 DEF SocketsOK
<1>5. Valid' = Valid /\ StreamOK'
  BY <1>1, <1>2, SameStream
<1>6. Mail' \subseteq Valid'
  BY <1>1, <1>2, <1>3, <1>4, <1>5 DEF Mail, SocketsOK
<1>7. SocketsOK'
  BY <1>1, <1>2, <1>3, <1>6 DEF SocketsOK
<1>8. PageOK'
  BY <1>1, <1>2, <1>4, PageStays DEF PageOK
<1>9. Covers' /\ NothingIsMissed'
  BY <1>4 DEF Covers, NothingIsMissed, Cut
<1> QED BY <1>5, <1>7, <1>8, <1>9 DEF ScreenIInv

-----------------------------------------------------------------------------
(* Theorems about Dashboard *)

LEMMA ScreenInitOK == ASSUME ScreenInit PROVE ScreenIInv
<1>1. /\ stream = <<>> /\ first = 1 /\ deadLetters = {} /\ broadcast = {} /\ process = "off"
      /\ hub = [c \in {Page} |-> NoSocket] /\ conn = [c \in {Page} |-> "off"]
      /\ wire = [c \in {Page} |-> <<>>]
      /\ live = FALSE /\ shown = [r \in Resource |-> None]
      /\ stale = {} /\ seen = {} /\ invalid = {} /\ swallowed = {}
      /\ batch = [r \in Resource |-> Waits]
  BY ScreenFacts DEF ScreenInit, FeedInit
<1>2. StreamOK /\ Event = {}
  BY <1>1, ScreenFacts DEF StreamOK, Event
<1>3. /\ hub[Page] = NoSocket /\ hub[Page].queue = <<>> /\ wire[Page] = <<>>
      /\ conn[Page] = "off" /\ Range(<<>>) = {} /\ <<>> \in Seq(EventId)
  BY <1>1 DEF NoSocket, Range
<1>4. Mail = {}
  BY <1>3 DEF Mail
<1>5. SocketsOK
  BY <1>1, <1>3, <1>4, NoSocketOK DEF SocketsOK, SocketOK
<1>6. \A r \in Resource : shown[r] = None /\ batch[r] \in LoadState /\ batch[r].is = "waits"
  BY <1>1, LoadFacts
<1>7. PageOK
  BY <1>1, <1>3, <1>6 DEF PageOK
<1>8. Covers /\ NothingIsMissed
  BY <1>3 DEF Covers, NothingIsMissed, Cut
<1> QED BY <1>2, <1>5, <1>7, <1>8 DEF ScreenIInv

LEMMA ScreenStep ==
    ASSUME ScreenIInv, [ScreenNext]_screenVars
    PROVE  ScreenIInv'
<1>1. StreamOK /\ SocketsOK /\ batch \in [Resource -> LoadState]
  BY DEF ScreenIInv, PageOK
<1>2. ASSUME FeedStep, UNCHANGED pageVars PROVE ScreenIInv'
  <2>1. UNCHANGED <<view, swallowed>> /\ batch' = batch
    BY <1>2 DEF pageVars
  <2>2. BatchGoesOn
    BY <1>1, <2>1 DEF BatchGoesOn
  <2> QED BY <1>2, <2>1, <2>2, ScreenStays
<1>3. CASE UNCHANGED screenVars
  <2>1. UNCHANGED feedVars /\ UNCHANGED pageVars
    BY <1>3 DEF screenVars
  <2> QED BY <1>1, <1>2, <2>1, FeedStutters
<1>4. CASE DaemonNext /\ UNCHANGED pageVars
  BY <1>1, <1>2, <1>4, DaemonStep
<1>5. ASSUME NEW r \in Resource, Load(r) PROVE ScreenIInv'
  BY <1>5, LoadStep
<1>6. CASE Complete
  BY <1>6, CompleteStep
<1>7. CASE Flush
  BY <1>7, FlushStep
<1>8. CASE live /\ Connect(Page) /\ UNCHANGED pageVars
  BY <1>8, ConnectStep
<1>9. CASE OpenPage
  BY <1>9, OpenPageStep
<1>10. CASE Hear
  BY <1>10, HearStep
<1>11. CASE Retry
  BY <1>11, RetryStep
<1>12. CASE Closed(Page) /\ UNCHANGED pageVars
  BY <1>12, ClosedStep
<1> QED BY <1>3, <1>4, <1>5, <1>6, <1>7, <1>8, <1>9, <1>10, <1>11, <1>12
        DEF ScreenNext, PageNext

LEMMA ScreenInvariance == ScreenSpec => []ScreenIInv
<1>1. ScreenInit => ScreenIInv
  BY ScreenInitOK
<1>2. ScreenIInv /\ [ScreenNext]_screenVars => ScreenIInv'
  BY ScreenStep
<1> QED BY <1>1, <1>2, PTL DEF ScreenSpec

\* The screen, the batch and the one socket keep their types.
THEOREM ScreenTypeCorrect == ScreenSpec => []ScreenTypeOK
<1>1. ScreenIInv => ScreenTypeOK
  <2>1. ASSUME ScreenIInv PROVE ScreenTypeOK
    <3>1. FeedTypeOK
      BY <2>1, FeedTyped DEF ScreenIInv
    <3>2. Event \subseteq EventId
      BY <2>1, ScreenFacts DEF ScreenIInv, StreamOK, Event, EventId
    <3> QED BY <2>1, <3>1, <3>2 DEF ScreenIInv, PageOK, LoadState, ScreenTypeOK
  <2> QED BY <2>1
<1> QED BY <1>1, ScreenInvariance, PTL

\* A page at rest shows every change of a resource that it does not mark as stale,
\* but for the events that a list hid from it.
THEOREM ScreenCatchesUpAlways ==
    ScreenSpec => []ScreenCatchesUp
<1>1. ScreenIInv => ScreenCatchesUp
  <2>1. ASSUME ScreenIInv, Quiet, NEW e \in Event \ swallowed,
               stream[e] \in Kind \ stale
        PROVE  Shows(stream[e], e)
    <3>1. e \in Valid \ swallowed /\ stream[e] \in Resource
      BY <2>1 DEF Valid, Resource
    <3>2. /\ live /\ conn[Page] = "open" /\ hub[Page].active
          /\ wire[Page] = <<>> /\ hub[Page].queue = <<>>
          /\ Settled(e) /\ invalid = {} /\ InBatch = {}
      BY <2>1 DEF Quiet, Event
    <3>3. Range(<<>>) = {}
      BY DEF Range
    <3>4. Mail = {}
      BY <3>2, <3>3 DEF Mail
    <3>5. Answered(stream[e], e)
      BY <2>1, <3>1, <3>2, <3>4 DEF ScreenIInv, NothingIsMissed, Cut, Coming
    <3>6. batch[stream[e]].is = "none"
      BY <3>1, <3>2, LoadFacts DEF InBatch
    <3> QED BY <2>1, <3>2, <3>5, <3>6 DEF Answered
  <2> QED BY <2>1 DEF ScreenCatchesUp, Event
<1> QED BY <1>1, ScreenInvariance, PTL

\* A batch that is complete has read every resource after what the screen shows.
THEOREM ScreenGoesForward ==
    ScreenSpec => ScreenNeverGoesBack
<1> DEFINE Forward == \A r \in Resource :
                          shown[r] # None => shown'[r] # None /\ shown'[r] >= shown[r]
<1>1. ScreenIInv /\ [ScreenNext]_screenVars => [Forward]_screenVars
  <2>1. ASSUME ScreenIInv, Complete PROVE Forward
    <3>1. ASSUME NEW r \in Resource, shown[r] # None
          PROVE  shown'[r] # None /\ shown'[r] >= shown[r]
      <4>1. /\ shown[r] \in Nat /\ batch[r] \in LoadState
            /\ batch[r].is = "loaded" => shown[r] <= batch[r].at /\ batch[r].at \in Nat
        BY <2>1, <3>1, LoadFacts, ScreenFacts DEF ScreenIInv, PageOK
      <4>2. \/ shown'[r] = shown[r]
            \/ batch[r].is = "loaded" /\ shown'[r] = batch[r].at
        BY <2>1, <3>1 DEF Complete
      <4> QED BY <3>1, <4>1, <4>2, ScreenFacts
    <3> QED BY <3>1
  <2>2. ASSUME ScreenIInv, UNCHANGED shown PROVE Forward
    <3>1. \A r \in Resource : shown[r] # None => shown[r] \in Nat
      BY <2>2 DEF ScreenIInv, PageOK
    <3> QED BY <2>2, <3>1
  <2>3. ScreenNext => Complete \/ UNCHANGED shown
    BY DEF ScreenNext, PageNext, pageVars, view, Load,
           Flush, OpenPage, Hear, Retry
  <2> QED BY <2>1, <2>2, <2>3
<1> QED BY <1>1, ScreenInvariance, PTL DEF ScreenSpec, ScreenNeverGoesBack

\* The page takes nothing away from what the stream and the hub promise: whatever
\* it does is a step of EventFeed, which EventRelay implements, or none.
THEOREM ScreenKeepsPromise ==
    ScreenSpec => FeedSpec
<1>1. ScreenInit => FeedInit
  BY DEF ScreenInit
<1>2. ScreenIInv /\ [ScreenNext]_screenVars
      => [DaemonNext \/ ClientNext]_feedVars
  <2> SUFFICES ASSUME ScreenIInv, [ScreenNext]_screenVars
               PROVE  \/ DaemonNext \/ ClientNext
                      \/ UNCHANGED feedVars
    OBVIOUS
  <2>1. Page \in Client
    BY ScreenFacts
  <2>2. ASSUME NEW r \in Resource, Load(r)
        PROVE  DaemonNext \/ UNCHANGED feedVars
    <3> DEFINE malformed == {e \in first..Len(stream) : stream[e] = Malformed}
    <3>1. CASE UNCHANGED feedVars
      BY <3>1
    <3>2. CASE malformed # {} /\ Dispose(Max(malformed))
      <4>1. malformed \in SUBSET (0..Len(stream)) /\ malformed \subseteq Event
            /\ Len(stream) \in Nat
        BY DEF ScreenIInv, StreamOK, Event
      <4> HIDE DEF malformed
      <4>2. Max(malformed) \in Event
        BY <3>2, <4>1, NatMax
      <4> QED BY <3>2, <4>2 DEF DaemonNext
    <3> QED BY <2>2, <3>1, <3>2 DEF Load
  <2>3. Connect(Page) \/ OpenPage \/ Hear \/ Closed(Page)
        => ClientNext
    BY <2>1 DEF OpenPage, Hear, ClientNext
  <2>4. Complete \/ Flush \/ Retry \/ UNCHANGED screenVars
        => UNCHANGED feedVars
    BY DEF Complete, Flush, Retry, screenVars
  <2> QED BY <2>2, <2>3, <2>4 DEF ScreenNext, PageNext
<1> QED BY <1>1, <1>2, ScreenInvariance, PTL DEF ScreenSpec, FeedSpec
=============================================================================
