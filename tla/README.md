# A TLA+ verification of the LUWI Runtime

LUWI Runtime coordinates AI agents that work on the same projects of one
machine. A Fastify daemon (`apps/daemon`) serves HTTP, MCP and WebSocket
clients; all its state is in Redis, where every multi-key change is one atomic
Redis Function (`packages/redis/src/function-library.ts`). Between the
Functions everything interleaves: requests of several clients, the daemon's
timers, clients that die, a daemon that restarts, keys that expire. Around
them are files, on which neither Redis nor a lock has a hold: canonical
manifests, the configuration of the agents, a browser's copy of the state. This
directory models those parts and checks and proves what must hold through them.

## Inventory

| Component | State it keeps | Operations | Hard behaviours |
|---|---|---|---|
| Work leases (`lease-service`, `lease-repository`, `lease-expiry-sweeper`) | a record per lease; per project the hash of held leases; per session the set of held ids; the sorted set of deadlines | acquire, renew, release; expire by the sweep | requests decide from a time and a record read before the Function runs; the sweep lists, reads and expires in three steps; a renewal may come after its lease has lapsed |
| Sessions and presence (`session-service`, `presence-sweeper`, `starting-session-reaper`) | session hash with a status; presence key with a time to live; sorted set of heartbeat deadlines | register, heartbeat, status, close; disconnect by the sweep; reaping of sessions that stay `starting` | heartbeat against sweep; four ways to end a session racing; presence and deadline drifting apart |
| Native session binding (`session-service`, `native-session-policy`, `native-link-retention`) | per native reference a binding with a version and its open link; a record per link; a reverse key per session | declare at registration or later, take over from an ended session, unlink when a session ends, trim old links | the decision is taken outside Redis and guarded by the version only; a session may end while it declares |
| Messages (`message-service`, `message-repository`, `message-timeout-sweeper`, `message-retention`) | projection per message; idempotency index with a time to live; sorted sets of deadlines and of finished messages | request, delivered, acknowledge, processing, respond, reject, fail; time out; prune | an answer against a timeout; a retry under the same key; pruning in two commands |
| Session inbox (`session-inbox`) | one Redis stream and consumer group per session | claim: recover idle entries, read fresh ones, validate, acknowledge | entries of a lost claim are redelivered; one refused entry fails the claim |
| Daemon ownership and readiness (`daemon-ownership`, `daemon-ownership-recovery`, `runtime-readiness`) | owner token with a time to live; readiness state; count of admitted mutations | acquire, renew, release, recover, drain | slow renewal, loss while work is admitted, recovery requested again while it runs |
| Realtime (`realtime-relay`, `event-streams`, `websocket-hub`) | consumer group over the global event stream; health and a count of failures per malformed event; a queue per socket | recover pending entries, read, broadcast, dead-letter, acknowledge, trim; accept, send, close slow clients | three workers run the same code at once; a crash or failure between effect and acknowledgement; poison events; full queues |
| Dashboard page (`main.tsx`, `realtime/*`, `api/refresh-state`) | what it loaded of each resource, which events it has seen, what is to be loaded again | load, connect, hear an event, refresh, mark as stale | events lost between two connections, answers older than events, an event met in a list first |
| Managed configuration (`config-control-service`, `config-file-engine`, `canonical-store`, `config-policy`) | plans and operations in Redis; receipts, snapshots, managed targets, lock files and the files themselves on disk | plan, approve, apply, roll back, reconcile, scan for drift | no step writes two of the records; a crash, a failing call or the user's editor comes between any two |
| Control plane (`control-plane-service`, `control-plane-repository`, `canonical-store`) | a manifest per agent, capability, profile and assignment, one list of bindings per project; their projections in Redis | create, update, assign, unassign, bind, unbind; reconcile | file first, Redis second; the list is computed from Redis and written to the file; a reconciliation does not take turns with writes under way |
| Intelligence (`intelligence-service`, `intelligence-repository`, `background-work`, observers) | facts (usage, Git, code structure), graph generations with an index, the active one, a lock, a health record | ingest, project incrementally, rebuild, activate, delete old generations | a rebuild that outlives its lock; a projection over an old reading; retention that deletes piece by piece |
| Clients' sessions (`session-bootstrap`; `sessions attach` of `cli`; `session-revival`, `session-binding` and `tools` of `mcp-server`) | a bootstrap per process: its session, what it saw of it, its one operation; the file that names the attached session; the successor of the MCP server | register, heartbeat, recover, drop, close; write the file; resolve a tool call's session; revive by `luwi_join` | an answer after the stop; the session gone while a call is under way; overlapping calls that retire and start successors |
| Native inbox bridge (`native-bridge`, `cli`) | its session, the claim it works through, the request and the child it runs | poll, claim, acknowledge, begin, run, fail, stop | an answer lost after its effect, a poll that ends halfway, a bridge that dies; another reader, or the child, moves the request meanwhile |
| Pure algorithms (`message-routing`, `capability-resolution`, `context-*`, `operational-graph`) | none | selection, resolution, estimation | none that interleave |
| HTTP surface, schemas, adapters, rendering | none or external | validation, rendering | outside this project |

How they interact: a service calls a repository, which calls one Redis Function
or a few plain commands; each Function also appends its event to the project's
and the global stream, which the relay broadcasts. `runtime.ts` starts the
timers: presence sweep, reaper, message timeouts, lease expiry, retention. A
timer skips its turn while its last one still runs, so each sweep has one
candidate in hand at a time. Sessions tie the parts together: leases ask for a
session that is not completed, messages for a live source and target, claims
and answers for a target that has not ended, native links are closed by the
paths that end a session. A failure of the relay, of a configuration operation
or of the projection of a graph requests the daemon's recovery, which looks at
its owner key, drains the pending events, reconciles the registry and the
configuration, and checks the graph's health before the runtime is ready again;
a start does the same.

What makes each component correct is stated as its properties below; the
hazards they are for are listed, line by line, in `PROJECT.json`.

## Modules

| Module | Models | Composes |
|---|---|---|
| `Leases` | leases of one project with the requests, the sweep, ending sessions, the clock and restarts of the daemon | |
| `LeasesProofs` | the proofs about `Leases` | `Leases` |
| `Sessions` | the constants that `NativeSessions` and the clients' modules share | |
| `NativeSessions` | sessions, presence and native binding with everything that ends a session or trims a link | |
| `NativeSessionsProofs` | the proofs about `NativeSessions`, and about `SessionRevival` | `NativeSessions`, `SessionRevival` |
| `AskReply` | the abstract specification of request and reply | |
| `Messages` | messages, inbox claims, timeout sweep, retention | refines `AskReply` |
| `MessagesProofs` | the proofs about `Messages`, with the refinement, and about the bridge over it | `InboxBridge`, with `Messages` |
| `DaemonOwnership` | the owner key, contending daemons, renewal, recovery, startup, shutdown and crash | |
| `DaemonOwnershipProofs` | the proofs about `DaemonOwnership` | `DaemonOwnership` |
| `EventFeed` | the abstract specification of the event stream: valid events reach the hub at least once, malformed ones become dead letters; and the hub with its sockets | |
| `EventRelay` | consumer group, relay, recovery, retention | refines `EventFeed` |
| `EventRelayProofs` | the proofs about `EventRelay` and about `Dashboard`, with the refinement by each | `EventRelay`, `Dashboard` |
| `Dashboard` | a page behind a socket of the hub | extends `EventFeed`, composing hub, socket and page |
| `ConfigPlan` | plans, operations, receipts, files and reconciliation | |
| `ConfigPlanProofs` | the proofs about `ConfigPlan` | `ConfigPlan` |
| `ControlPlane` | manifests, their projection, writes and reconciliation | |
| `ControlPlaneProofs` | the proofs about `ControlPlane` | `ControlPlane` |
| `GraphProjection` | facts, incremental projection, rebuilds, retention of generations | |
| `GraphProjectionProofs` | the proofs about `GraphProjection` | `GraphProjection` |
| `SessionBootstrap` | the bootstrap object of a client: registration, heartbeat, recovery, drop, stop | |
| `SessionRevival` | the attach process with its file, the tool calls of the MCP server and its successors | extends `SessionBootstrap`, one object per process or successor |
| `InboxBridge` | the native bridge on a session's inbox, beside every other caller | extends `Messages`, composing bridge, claims, transitions and the timeout sweep |
| `MCLeases`, `MCNativeSessions`, `MCMessages`, `MCDaemonOwnership`, `MCConfigPlan`, `MCGraphProjection`, `MCSessionRevival`, `MCInboxBridge` | constants for TLC | |

### Conventions

One Redis Function, or one plain command on a stream, is one action; its guard
is the Function's checks, its primed variables the Function's writes. A service
call is at least two actions: a read, which puts into `call` (or `expiring`,
`timing`, `pruning`, `claim`) all that the Function will be told, and the
Function, which uses nothing else. Anything may happen in between, and the
request may be lost. Refusals that change nothing are the disjunct of the same
action that leaves the store `UNCHANGED`. Ids are model values, minted once.
Events, timestamps that nobody compares, and texts are left out. In the
modules about the relay and the files, `faults` counts what goes wrong, a
crash, a failing command, an edit by the user: a command that fails may have
had its effect or not, where the code cannot tell either.

### Leases

`lease`, `held`, `sessionLeases` and `deadline` are the four Redis structures;
`call` holds a request between the service's read and its Function; `due` and
`expiring` are the sweep's loop over its candidates. `clock` is the daemon's
`Date.now()`: the service, the sweep and the time given to `lease_acquire` all
use it. A path is the sequence of its segments, so that containment, a prefix
test on strings that end in a separator in the code, is a prefix test on
sequences. `revived` is a history variable: leases that were renewed after
their expiry had passed, which the code allows until the sweep arrives.

### NativeSessions

`binding[b]` is the record of one native reference with its version and its
open link, `link[b, s]` the link record of that reference and a session,
`reverse[s]` the key that leads from a session to its binding. A declaration is
decided from the binding, its open link and that link's session
(`Decisions`, the policy of `native-session-policy.ts`) and checked again by
`NativeValidate` when the Function runs. The service reads those records one
after the other; the model takes them in one step, which loses nothing: the
write goes through only if the version has not moved, a closed link stays
closed and an ended session ended. `CompleteRead`, `SweepRead` and `ReapRead`
resolve the session's unlink in the strict way of the service
(`resolveNativeUnlink` refuses when evidence is missing) or the lenient way of
the sweeps (`resolveExpiringNativeUnlink` goes without). The statuses of a live
session other than `starting` are one, `active`: no code of this part tells
them apart. Retries after `VERSION_CONFLICT` are new requests.

### Messages

`message`, `idem`, `expiring` and `deadline` are the projection, the
idempotency index, the index keys that have a time to live, and the deadline
index. `entry` is the state of each inbox entry in its consumer group: unread,
pending, acknowledged. A claim reads entries, then takes them one at a time as
the loop of `claimSessionInbox` does (drop, collect, record delivery), in any
order, which includes the order of the stream. A refused delivery record ends
the claim, as the exception in the code does. The clock of Redis is the state
of each deadline (`ahead`, `passed`); the timeout sweep goes by the daemon's
clock, which may be ahead, and so may list any deadline.

`AskReply` says what the sessions may rely on: one question per idempotency
key, one outcome per question, an index key that is released only after the
outcome, a question forgotten only when no key leads to it. `Reply` in
`Messages` is the refinement mapping.

### DaemonOwnership

`owner` is the owner key with its token; a member of `Daemon` is a process with
a token of its own, so a restart is another daemon that starts, and `Crash` is a
process that dies with whatever it had begun. Per daemon, `state` is
`RuntimeReadiness`; `boot` is how far `createProductionRuntime` has come;
`stopping` is the draining shutdown; `lifecycle`, `owned` and `notified` are the
fields of `DaemonOwnershipLease`; `pending` and `recovery` are the coordinator
and the cycle that it runs. A command to Redis and the handling of its reply are
two steps, which may have anything between them.

- A renewal that finds the token moves the expiry and changes nothing else, so
  it is no step; `refusal` is the reply of one that did not renew, under way.
- A recovery looks at the key twice, before and after the state is restored
  (`round`). `restore` stands for the Functions, the stream group, the pending
  events and the rebuilt projections; the look at the key that loading the
  library brings is one step with it, and so it is in `StartupWork`.
- The replies of a renewal and of a recovery may come in either order. They
  share one connection, so the code has fewer behaviours than the model here.
- `Active` counts from `listening`, because readiness and the timers come
  before the port is opened.
- A recovery during startup makes the startup fail: its last transition is no
  longer allowed.
- `KeyExpires` is free for a key that nobody renews any more. A process that is
  kept from renewing until its key is gone is a lapse, and `MaxLapses` bounds
  those; `MaxFaults` bounds the commands and connections that fail.

### EventFeed and EventRelay

`stream` and `first` are the global stream and the part of it that is left,
`broadcast` and `deadLetters` what has become of its events; `hub`, `conn` and
`wire` are the hub's queue and the connection of each socket. `EventFeed` is the
promise; its `FeedSpec` knows no group and no failure. `EventRelay` is how the
daemon keeps it: `delivered`, `pending` and `idle` are the consumer group,
`work` holds the three workers that run the relay's code (the startup and a
recovery drain what is pending, the loop drains and reads), `healthy` and
`poison` its memory, `look` the length at which the retention found everything
acknowledged. `Fails` is what a failure does to each worker. A recovery is the
one of `DaemonOwnership`, reduced to the part that drains.

### Dashboard

A page behind one socket. `batch` is the load that is under way, `invalid` what
waits for the next, `seen` the ids the page knows, `shown` the length of the
stream that each resource was read at. `Complete` is the end of a batch: events
that arrive in the list of activity become known without invalidating anything,
and `swallowed` remembers those that are newer than the resource they change.
The stream behind the hub is that of `EventFeed`; what the relay does in
addition (when it broadcasts) is any order that `EventFeed` allows. `ScreenInit`,
`ScreenNext` and `ScreenSpec` are its specification.

### ConfigPlan

`files` are the managed files, by their hashes; `receipt`, `snapshot`,
`managed` and `locks` what the engine keeps on disk beside them; `plan` and
`projected` what is in Redis. `call` is a request between two of its writes:
lock, receipt, Redis, check, copies, receipt, one file after the other with a
receipt each, managed targets, Redis, receipt. `LeaveOpen` is the receipt that
leaves the outcome to a reconciliation. `recon` is the reconciliation that runs:
it reads the open receipts, looks at one (`Verdict`, the function
`reconcileOperation` of `config-policy.ts` with the reading of the plan), moves
the plan (`Decide`), and closes the receipt (`Close`). `Edit` is the user.

### ControlPlane

`file` and `redis` hold the value of every agent, capability, profile,
assignment and binding, a value being the number of the write that made it. A
write waits for its turn (`serializeWrite`), reads, writes its file and calls
its Function. For a binding the file is the project's list, which was computed
from Redis. `recon` is the reconciliation with what it read of the files
(`snap`) and of Redis (`listed`, for the entities in `seen`); an update that has
become a creation, or the other way round, is refused by the Function and ends
it. Requests are admitted only while the runtime is ready, and one that was
admitted goes on through a recovery.

### GraphProjection

`graph[g]` is what generation `g` contains of each fact, `index` the sorted set
of the generations, `active` the pointer, `lock` the lock of the rebuilds,
`health` the projection's record. `proj` is the projection that runs and
`pending` whether another follows; `work[r]` is a rebuild, `sweep` the
retention. `Replace` applies a difference that was computed from an older
reading. `missed` are the facts that the daemon gave up: dropped while it was
not ready or by a crash, stored after the activated rebuild had read, deleted
by a retention that had looked before the activation.

### SessionBootstrap and SessionRevival

`boot[c]` holds the variables of one `createSessionBootstrap`: `phase` is
`active`, `kept` is `sessionId`, `ready` is `readyObserved`, `op` and `hand` the
`operation` under way and the session it is about, `closing` the close that
`stop` awaits, `told` what `onSessionChanged` last heard. The lifecycle counter
is left out because an owner starts an object once. `sessionStatus` is the daemon's
view: an ended session and one never registered are both `gone`, which is how
the client sees them. `adrift` notes the sessions that a lost answer, a failed
close or a dead process has left to their presence.

In `SessionRevival` one object belongs to the attach process, and writes the
file that the MCP server reads; the others are successors. `toolCall[k]` is a tool
call between two of its awaits: it reads the file, resolves the session
(`Resolve`, which retires a successor of another predecessor), verifies it, and
a join that finds it ended goes through `revive`. `successor` is the one
variable of `createSessionRevival`; a join in `start` waits for the first
attempt of the object it has made, whose timer is armed only after it. An object
that is done is used again for the next successor, as a model has no garbage.
The specification is `RevivalSpec`.

### InboxBridge

`bridge` is the process: `at` says which request to the daemon comes next,
`items` is what is left of its claim, `current` the request it serves. Its claim
is a claim of `Messages`, and every transition it asks for is the Function of
`Messages`; `Granted` adds that a transition to the state that is there is
granted to whoever is the target. The child, other claims of the same inbox
(`luwi_join`, a second bridge), the timeout sweep, the retention and the end of
sessions are `WorldStep`: all that `Messages` allows. `home` is the session of
the bridge's bootstrap, `left` those it has rotated away from, `runs` counts the
children that were started for a request. A poll that is under way goes on with
the session it has begun with; as the model reads the target from the message,
a rotation in the middle of a poll needs no variable of its own.

## Runs

| Run | Question | Bounds |
|---|---|---|
| `leases` | do the indexes agree and do claims exclude each other under racing requests and the sweep? | 2 sessions, 2 ids, `src` and `src/api`, 2 requests in flight, clock up to 2 with leases of length 2 |
| `leases_limit` | does the limit hold later, and is a lapsed lease freed? | disjoint paths, limit 1, 1 restart, fair sweep |
| `native` | who keeps a native reference that two sessions want, do its records and the session's stay in step, and does a silent session end? | 2 sessions, 1 reference, 2 requests and the sweeps, 1 closed link retained, deadlines 0 and 1, fair sweep |
| `messages` | is every unfinished request recoverable, and does it all implement `AskReply`? | 2 sessions asking each other, 2 messages, 1 key, 1 claim of 2 entries that may be lost |
| `bridge` | is a request run once, is a run always closed, and does every request get an outcome whatever bridge and claims do? | 1 message, the bridge's claim and another one, each of 1 entry and each may be lost, 1 session of the bridge and its restart, 1 failure or death |
| `ownership` | is the active daemon the owner, is no loss forgotten and no key left behind, and does contention settle? | 2 daemons, 1 failure, 1 lapse |
| `relay` | is an event ever dropped, does it all implement `EventFeed`, and is every event settled in the end? | 2 events, valid or malformed, 2 per claim, 1 left by the retention, 4 failures, no sockets |
| `dashboard` | does a page at rest show what happened? | 1 resource and the activity, 2 events, queue of 1, 2 messages on the wire |
| `config` | what do crash, failure and edits at any step leave behind, and what does the reconciliation make of it? | 2 files, a plan and a rollback, 2 requests, 2 operations, 1 fault |
| `registry` | is what was acknowledged kept, and does a reconciliation restore it? | 2 agents, 1 assignment, bindings of both, 3 writes, 2 admitted ahead, 2 faults |
| `graph` | is a quiet, healthy graph complete, and is only the newest rebuild published? | 2 facts, 2 rebuilds and the generation before them, 2 kept, 1 fault |
| `revival` | does anything leave a session open, or a bootstrap running, that nobody answers for? | the attach process and 2 successors, 3 sessions, 1 join beside 1 other tool call, 1 failure or death |

Why the bounds are enough: each hazard needs two actors on one object. For
leases, two leases give both orders of nesting; a clock of 2 puts an expiry
exactly at, and a renewal after, the last tick. For native references, a holder
and a taker, one of whom has ended; one deadline step tells a current deadline
from a listed one; that a third session changes nothing is what the proofs
show, which hold for any number. A message in each direction puts a request and
a response in one inbox, which is what the failing claim needs. Two daemons are
an owner and a contender, or one before and one after a restart; one lapse takes
the key from a running daemon, and one failure meets every command there is
once, with the crash of either daemon on top. For the relay, three failures
make an event poison and the fourth meets what follows; with two events in one
claim the second is behind the first, and with one left by the retention the
first can be trimmed. A queue of one is full at the second event. Two files are
the least that can be written by half, two operations the least that disagree,
and three generations of which two are kept make the retention choose. Three
writes are a value, a later one and one of another entity, or two bindings and
the agent's; two faults are a put that failed and the recovery or crash after
it. For the bridge one request is enough, as it serves one at a time; the other
claim takes the same entry before, between or after its polls; one failure is
an answer lost at any of its requests, and a stop comes on top. For the clients,
the attached session, its successor and the next one are the three sessions, and
an object that is being stopped beside one that starts the two of the server.
One of the two calls is a join because two joins at once refute the property, as
said below.

Bounds that are not the code's are named in the modules: `MaxClock`,
`MaxRestarts`, `MaxDeadline`, `Asks`, `MaxFaults`, `MaxLapses`, `MaxEvents`,
`MaxWire`, `MaxOps`, `MaxWrites`, `MaxWaiting`. Symmetry is used over ids,
sessions and request slots where no constant tells them apart, and never with a
liveness property. Deadlock is checked in `revival`, where a
process can always be started again. It is not in the others: with the bounded
clock and the finite supply of ids every behaviour may stop when all is done.

### Properties worth a word

`IndexesAgree`, `OpenLinkAgrees`, `ReverseNamesALink`, `PresenceFollowsStatus`,
`OutcomeIsPosted` and `KeyFindsItsMessage` relate structures that different
Functions write. `TimelyRenewalsExclude`, `LiveWithinLimit` and
`TimelyHolderKeepsPath` say exactly how far the leases' promise goes: to leases
that were never renewed after they had lapsed. `LiveHolderKeepsReference` and
`LinkHistoryKept` say that no decision from an old read harms a live holder.
`UnfinishedIsRecoverable` says that a request stays in its inbox, unread or
pending, and in the deadline index until it has an outcome. `ActiveIsOwner`
says when the owner key does exclude: as long as no daemon was kept from
renewing in time, whatever else fails or restarts. `LossIsRecovered` relates
what the lease believes to what the coordinator does about it.

`NothingIsDropped` relates the stream, the group and what became of an event:
no trim, no dead group and no acknowledgement comes between an event and its
settling. `KeepsPromise` is the refinement of `EventFeed`. `EventsSettle` names
its one way out, a runtime that stays ready without a relay. `ScreenCatchesUp`
needs the hub, the socket and the page together: whatever was lost on the way
is loaded again at the next connection, but for the events a list swallowed.

The properties of `ConfigPlan` say what may be concluded from the records that
survive: a file that changed is journaled (`JournalCoversWrites`), a managed
target differs from its file only if someone edited it (`NoFalseDrift`; an
operation that failed before its snapshot and is completed by a reconciliation,
because it finds all its files absent, as `AppliedIsWritten` below, is the
exception), an
operation is held for review only for a reason (`HeldWithReason`: it stopped
between two files, its plan had failed in Redis or could not be made to fail
there, or another operation has its plan or its files), a file is replaced only over what was approved (`ReplacesOnlyApproved`), and
what is recorded as applied was written (`RecordedIsWritten`). The three state
invariants and `RecordedIsWritten` except operations that a reconciliation met
in flight; `overlapped` notes those. That a command to Redis that fails in a
reconciliation is a reason of its own (`unreached`) shows only with two faults,
one to interrupt the operation and one for the command: the run has two requests
and one fault, and `HeldWithReason` was also checked, within the same bounds
otherwise, with one request and two faults.

`AcknowledgedIsKept` bounds the damage of a put that fails and of a
reconciliation beside writes: it stays with the entity that was written, and
lasts until its next write. `ReconcileRestores` says that a reconciliation is
worth its name for all that did not change under it, whatever write has its turn
when it ends. `QuietGraphIsComplete`
says that coalescing, differences against an old reading, rebuilds and
retention lose nothing that the daemon does not give up; `ActiveKeepsFacts` and
`NewestIsPublished` that a stalled rebuild or retention does no harm to the
generation that is read, with the one exception in the property.

`RunsOnce` is the promise of a bridge whose children may do anything once: it
must hold through a claim that is repeated, a transition whose answer is lost
and a restart, each of which brings the request back in another state.
`RunIsClosed` is its counterpart: what was begun and cannot be run again is
failed by the next poll. `EveryAskIsDecidedBySweep` says that the timeout sweep
alone decides every request, however the bridge stalls. `NoSessionLeaks` looks
at all processes together: a session that is open is kept alive, being closed,
or left behind by a failure. `NoRunawaySuccessor` relates the bootstraps that run
to the one variable that would stop them.

`EndedForGood`, `OnlyHolderOrSweep`, `TerminalIsFinal`, `CollectedIsDelivered`,
`OutcomeStands` and `NoTakeover`, and the type invariants of `Leases`,
`NativeSessions`, `Messages` and `DaemonOwnership`, are proved for all constants
and not run again. `ScreenNeverGoesBack`, that a page never replaces what it
shows of a resource by an older reading, is proved too, and was checked with the
constants of `dashboard`; no run has it. The type invariants of `EventRelay`,
`ControlPlane`, `InboxBridge` (`BridgeTypeOK`), `Dashboard` (`ScreenTypeOK`) and
`SessionRevival` (`RevivalTypeOK`) are proved; they are left out of the
configurations, as the other properties fail when they do.

### Disagreements between code and documents

The modules state properties that documents claim and the code does not keep. No
run has them; TLC refutes each when it is put in place of the properties of the
run that is named, with the constants that are given.

| Property | Run | What happens | What the documents say |
|---|---|---|---|
| `LiveLeasesExclude` | `leases` | a lapsed lease that was not swept yet is renewed beside an overlapping one granted meanwhile (`function-library.ts:1396`) | `docs/decisions/0026-automatic-lease-renewal.md:111`: a renewal that races a just-expired lease loses |
| `SweepEndsOnlyLapsed` | `leases`, 1 request | the sweep ends a lease renewed since its listing (`lease-service.ts:254`) | `lease-expiry-sweeper.ts:27`: the sweeper turns a passed expiry into a released path |
| `TerminalClosesLink` | `native` | a close that found no binding completes a session that a declaration has linked since; the open link stays (`session-service.ts:192`) | `docs/decisions/0022-native-session-binding.md:95`: every path that makes a session terminal closes its link |
| `FailedClaimKeepsNoResponse` | `messages` | a claim that fails of itself takes along responses it has acknowledged (`session-inbox.ts:276`) | `docs/decisions/0006-session-inbox-request-reply.md:30`: delivery is at least once |
| `OneActiveOwner` | `ownership` | a daemon that slept through its time to live is ready beside its successor until its next renewal is refused (`daemon-ownership.ts:109`) | `docs/superpowers/specs/2026-09-07-sleep-wake-agent-lifecycle-design.md:46`: never two active owners |
| `NeverSilent` | `relay` | a loop that ends while the relay is unhealthy over a malformed event requests no recovery (`realtime-relay.ts:307`) | `docs/superpowers/specs/2026-07-28-phase-1-projects-sessions-design.md:633`: after three failures the relay makes the runtime degraded, so that the entry cannot fail invisibly forever |
| `ScreenIsCurrent` | `dashboard` | an event that a page meets first in the list of activity does not invalidate the resource it changes (`main.tsx:411`) | `docs/superpowers/specs/2026-08-05-phase-5b-native-realtime-dashboard-design.md:93`: each class of events refreshes its resources |
| `AppliedIsWritten` | `config`, `Content = {new}`, `Found = Absent`, 1 request, 2 faults | a reconciliation that is cut off overwrites an early receipt; the next one takes files that are absent for what it expects and records the plan as applied, though none was written (`config-control-service.ts:1358`) | `docs/decisions/0007-filesystem-canonical-agent-config.md:45`: contradictory operation evidence keeps the runtime degraded instead of guessing |
| `InterruptedIsRecovered` | `config` | an operation that stopped before it touched a file is held for review, when its plan has failed in Redis and its receipt was not closed (`config-control-service.ts:1353`) | `docs/superpowers/specs/2026-08-16-surface-consolidation-design.md:19`: startup recovers interrupted operations by comparing hashes |
| `AcknowledgedStays` | `registry` | a reconciliation that read the files before a write puts the older value into Redis, and the next write of a binding takes its list from there into the file (`control-plane-service.ts:1415`) | `docs/decisions/0007-filesystem-canonical-agent-config.md:17`: the filesystem is canonical |
| `OneBindingPerAgent` | `registry` | a binding whose put failed is missing from Redis, an agent is bound again, and a reconciliation between the two steps of that brings the first one back (`control-plane-service.ts:666`) | the same lines refuse an agent that is already bound |
| `ReadyWhenBound` | `revival`, no symmetry | the status is read after the beat, and a session that was reaped in between counts as bound, because any status but `starting` does; the client registers another one (`session-bootstrap.ts:225`) | `session-bootstrap.ts:25`: a reader that never bound is not recovered |
| `NoRunawaySuccessor` | `revival`, `Joiner = {j, t}`, no faults | two joins at once each start a successor; the second assignment forgets the first, whose bootstrap beats on (`session-revival.ts:123`) | `docs/decisions/0034-reader-owned-session-revival.md:48`: a successor that is superseded is closed |
| `ActiveSurvives` | `graph` | the retention deletes a generation that was activated after it had read the pointer (`intelligence-repository.ts:1710`) | `docs/decisions/0014-complete-graph-projection-inputs.md:57`: retention already protects the active generation explicitly |

## Fairness

`Leases`: weak fairness of the sweep as a whole; its timer runs as long as the
daemon is ready, and its loop awaits each step. Callers owe nothing.
`NativeSessions`: the presence sweep takes due sessions oldest first, one after
the other, and its slot is busy in between, so strong fairness of each
session's turn and weak fairness of finishing it. `InboxBridge`: weak fairness of the
bridge's own steps, a loop that awaits one request after the other and backs off
when one fails, with a child that the deadline ends; and strong fairness of the
read of a claim, because a poll finds an entry only when it has been idle long
enough, which each of them may miss. Registration, stopping and restarting owe
nothing. That time passes and the timeout sweep, built as the presence sweep is,
gets to each deadline is `SweepFairness`, a hypothesis of
`EveryAskIsDecidedBySweep` only: `RunIsClosed` rests on the bridge alone. Other
claims, answers and sessions owe nothing. `DaemonOwnership`: weak fairness of each daemon's
renewal, recovery, startup and shutdown: the timer is an interval, a command is
answered or fails, and each of the three is a loop of awaits that goes on.
Expiry, crashes, failures and the wish to shut down owe nothing. `EventRelay`:
weak fairness of the start (a daemon that is down is started again), of each
worker's step, of the beginning of a recovery, of polling and of the retry after
a failure, each a loop of awaits or a timer; and an entry that nobody touches
becomes idle, which is time passing. `Dashboard`, `ConfigPlan`, `ControlPlane`,
`GraphProjection` and `SessionRevival` are checked for safety and rest on no fairness.
`ConfigPlan` states the fairness of its loops for `OperationsSettle` (an open
operation is closed or held in the end), which was checked on a smaller
instance only: one request, one operation.

## Proofs

`LeasesProofs` proves, for all sets of sessions, lease ids, paths, durations
and request slots and all bounds, the safety properties of the runs `leases` and
`leases_limit`, with `TypeOK`, `EndedForGood` and `OnlyHolderOrSweep`.
The assumption is `ConstantsAssumption` of `Leases`: the types of the constants
and that `None` is no value of any of them; TLC evaluates it in every run.

The inductive invariant `IInv` is `TypeOK`, `IndexesAgree` and three named
parts. `IndexesAgree` is not inductive by itself: a renewal or release writes
back a whole record it read before, so it must be known that what a call or the
sweep has read names the same session and path as what is stored, and was held
when it was read. Exclusion needs to know what an acquire in flight
can no longer see: its time is not later than the clock, so an entry that it
skips as lapsed is lapsed at the clock too, and comes back to life only through
a renewal that puts it into `revived`. That the sweep spares timely holders
needs that a candidate in hand had a deadline that had passed, and that the
deadline can move only by a renewal, which is then a late one. The step lemma
has one step per action, and under it one per part the action can disturb.
`LiveWithinLimit` has an invariant of its own, `LimitOK`, because it counts: the
held leases are finite, and those that are live and always renewed in time are at
most the limit. An acquire counts at its own time, which may be earlier than the
clock; what is live at the clock was live then, so it sees no fewer than there
are. Every other step ends leases, prolongs one that was counted already, or
revives one and so takes it out of the count.

`NativeSessionsProofs` proves the safety properties of run `native`, with
`TypeOK` and `TerminalIsFinal`, for all sets of sessions, references and request slots, every
retention limit and every deadline, from `ConstantsAssumption` of
`NativeSessions`. `IInv` is what it says of the native records (`NativeOK`:
types, `OpenLinkAgrees`, `ReverseNamesALink`), of the life of a session
(`LifeOK`: types, `PresenceFollowsStatus`) and of the calls in flight
(`CallsOK`). The last is what makes it inductive: a takeover that a call is
about to write was decided for a session that had ended, and an ended session
stays ended; without it `NativeApply` could close the link of a live holder.
The proof goes by the ways a step changes the native records (same, applied,
unlinked, trimmed) and the life of a session, one lemma each; the lemma of an
action cites the two that fit.

The same module proves the safety properties of run `revival`, with
`RevivalTypeOK`, for all sets of sessions, clients and tool calls and every
number of failures, from `BootstrapAssumption` and `RevivalAssumption`.
`NoSessionLeaks` is a part of `ObjectsOK`, which says of each object what may go
together (`ObjectOK`: one that is on closes nothing, one that is off keeps
nothing, it registers only when it has no session and beats only for the one
it has) and of each open session that it is adrift or is named by
an object (`Named`): as the one it keeps, the one it closes, or the one it is
registering or discarding. A step that takes a name away, an answer after the
stop, a beat that finds the session ended, a close, a death, must end the session
or set it adrift, and each has a lemma. `CallsTyped` says which session, successor
and client a tool call has in hand at each of its places.

`OneJoinTendsSuccessor` proves `NoRunawaySuccessor` under `OneJoiner`, that no
two callers join. `Tended` says that an object of the server that is on is the
successor's or awaited by a join; `JoinsOK`, that a join between its look and its
start finds no successor, is why the assignment at the end of a start forgets
nobody. With two joins both fail, as the table above says: the hypothesis is the
bound of the property and not of the proof. Nothing is supposed of the other tool
calls, the failures, or the death of the server.

`MessagesProofs` proves the safety properties of run `messages`, with `TypeOK`,
`CollectedIsDelivered` and `OutcomeStands`, for all sets of sessions, messages, keys and claims, every
limit and every set `Asks`, and that `Messages` implements `AskReply`. `IInv` is
`StoreOK` (the types and the three invariants about the store, with the fact
that an unasked message has no response entry), `ClaimsOK` (what a claim holds
was in an inbox, what it collected was delivered) and `SweepsOK` (what the
retention is about to delete has its outcome, and no key names it: the retention
reads and deletes in two commands, and this is why nothing that
matters comes between them). A step changes the store in one of seven ways; the lemma of each shows
that `StoreOK` stays, what claims and retention rely on, that outcomes stand,
and which step of `AskReply` it is. `KeyFindsItsMessage` carries the
refinement: it says that a key that expires leads to a decided message, which is
the guard of `Release`, and that the key of a new request names nothing.

The same module proves `RunsOnce` of `InboxBridge`, with `BridgeTypeOK`, and that
a system with a bridge still implements `AskReply`. Each step of the bridge, but
its death, is a step of `Messages` by a client or leaves its variables alone
(`BridgeIsAClient`), and its death only drops a claim; so `IInv` of `Messages`
holds in it too, and is a part of `BridgeIInv`. `RunsOK` says where a run stands:
a request that has run has `Begun`, that is, its state is processing or later;
no request has run twice; and on the way to a child the request in hand has run
not at all, and at the start of the child has begun. `BegunStays` shows
that nobody's transition goes back behind the beginning, so that no later look
at the request lets the bridge start again.

`DaemonOwnershipProofs` proves the safety properties of run `ownership` and
`NoTakeover`, for every set of daemons and all bounds, from `ConstantsAssumption` of
`DaemonOwnership`. `ActiveIsOwner` is not inductive: `OwnerKept` says of every
daemon within its lifecycle, and not only of one that is ready, that the key is
its own until one lapses, and `BootOK` says which progress of startup and
shutdown goes with the lifecycle, so that an active daemon is within it and only
one out of it deletes its key. `LossIsRecovered` needs `LossNoted`, that within
the lifecycle a loss is noted exactly while it lasts: a loss that is new is then
always reported, and a coordinator that is told of it runs or will run again.
`NoOrphanedKey` needs `ClaimsOK`: a recovery claims only for a daemon that has
acquired once, and takes a claim back only when its lifecycle is over.
`RestoreIsFirst` (only the first round restores) is what keeps the type of
`round`. The coordinator's steps have a lemma each that states what they change
(their facts); each part of the invariant has a lemma for a step, which cites
those.

`EventRelayProofs` proves `TypeOK`, `NothingIsDropped` and the refinement
`KeepsPromise`, for every number of events, size of a claim, retention,
number of failures and set of sockets, none of which is opened (`SocketsIdle`),
from the assumptions of `EventFeed` and `EventRelay` on their constants. What
makes `NothingIsDropped` inductive is `GroupOK` (the group is never ahead of the
stream and the trimming never ahead of the group), `LookOK` (what the retention
saw acknowledged is settled, and no more was appended since its look than its
trim leaves) and `WorkersFit` (what a worker is about to acknowledge is settled;
none outlives its process). `KeepsPromise` follows step by step: only a worker
with a well-formed event in hand broadcasts, only one with a malformed or
repeatedly failed one writes a dead letter, and what is trimmed was settled. A
claim returns entries in order: `InOrder` is defined by that, and the lemma
`RisingExists` shows, by a least counterexample, that every finite set of entries
has such a sequence.

The same module proves of `Dashboard`: `ScreenTypeOK`, `ScreenCatchesUp` of run
`dashboard`, `ScreenNeverGoesBack`, and that `ScreenSpec` implements `FeedSpec`,
for all kinds of events, every length of the stream and every limit of the
queue and the wire. `ScreenCatchesUp` speaks of a page at rest only; its
invariant, `NothingIsMissed`, must hold while anything is under way: for every valid
event that no list swallowed, the page shows it, has marked its resource as
stale, or will load it again (`Answered`), or the event is still to be settled or on its
way to the page (`Coming`), or the connection is lost or about to be (`Cut`).
At rest only the first two are left. The cut is mended by `OpenPage`, which
invalidates everything; that needs `Covers`, that a connected page shows each
resource or knows that it does not. `SocketsOK` has the
reason why no message is lost without a cut: a socket keeps none waiting while
it may send, and one that overflows is closed. What the daemon does is summed up
in `FeedStep`: the stream only grows, a socket that stays loses no message, and
what becomes settled is in its mail. `PageOK` has the reason of
`ScreenNeverGoesBack`: a load that was answered is never older than the screen.

`ControlPlaneProofs` proves `TypeOK`, `AcknowledgedIsKept` and
`ReconcileRestores`, for all sets of agents, assignments and bindings and all
bounds. `Restored` is the invariant of a reconciliation in progress: whatever it
is through with, or has seen to be the same, is in Redis as in its file, unless
it changed since it was read. It rests on `ReadingOK` (what was read is still so
where nothing changed), `StageOK` (what a stage has left) and `DefinitionsStay`
(no file of a definition disappears while Redis has it, so that no stage has to
delete one). `WriteOK` says of the write that has its turn what its file
and its list of bindings hold; that its list has what was acknowledged is why the
write of one binding keeps the others.

`ConfigPlanProofs` proves all six properties of run `config`, `TypeOK`,
`JournalCoversWrites`, `NoFalseDrift`, `HeldWithReason`,
`ReplacesOnlyApproved` and `RecordedIsWritten`, for all sets of files, contents,
plans and requests and all bounds, from `ConfigAssumption`: a plan that is
proposed has at least one file, as `packages/protocol/src/intelligence.ts:853`
demands. `IInv` has sixteen parts, in four groups. The records fit together
(`PlansFit`, `ReceiptsFit`, `CallsFit`): an operation has one plan for good, what
it wrote is among its targets and was copied before, and a call between
two files has left exactly what it has not written. Calls are kept apart: two
calls in flight have disjoint targets (`Apart`), so that no other call changes
what one has checked (`StillApproved`) or written (`WritesStand`); and an early
receipt always has a call, or a startup that has still to decide about it
(`Quiet`, `NoOrphan`), so that nobody else takes its files in between. A
reconciliation that met no call reads receipts that nobody changes under it
(`Separate`), and so its verdict is still true when it acts on it, several
steps later (`LookStands`). `Marked` ties the receipt of a call to its place, and
`ManagedHolds` is `NoFalseDrift` with its reason: a file that is not as its
target says was changed by an operation that is open. `JournalCoversWrites` needs
`LookStands`, that a reconciliation fails only what changed nothing;
`RecordedIsWritten` needs it for the reconciliation and `WritesStand` for the
request. `Steady` collects what no step takes back, and most parts are shown from
it and from one lemma on what each kind of step changes.

`HeldWithReason` needs a second invariant on top of `IInv`, `Whys`: to be held
without a reason a receipt, a plan and the files would have to contradict each
other, and they do not. Unless another operation outran it, what an operation
found and wrote is in place (`Standing`), which is so when it begins because what
its plan was made over is in place or was overwritten by another operation
(`PlanStanding`), and which stays so because what begins while it runs is about
other files (`LaterElsewhere`). So its files are all as they were found, or all
as wanted, if it wrote none or all of them. Its receipt agrees with that
(`ReceiptsTell`), an applied plan has an operation that is recorded
(`AppliedIsRecorded`), and a recorded operation with an early receipt changed a
file (`RecordedChanged`); `CallsTell` says the same of an operation under way.
From these the lemma `VerdictFinds` goes through the cases of
`reconcileOperation`, and `LookTells` carries what it finds to the step that
closes the receipt. `Reason` only grows, which is why it looks at all operations
that have begun.

`GraphProjectionProofs` proves all four properties of run `graph`, `TypeOK`,
`QuietGraphIsComplete`, `ActiveKeepsFacts` and `NewestIsPublished`, for all sets
of facts and rebuilds, every number of generations that retention keeps and
every bound on the faults, from `GraphAssumption`. `NoneLost` is
`QuietGraphIsComplete` in every state and not only in a quiet one: a fact that
readers do not see is given up, or something is under way that brings it or
tells of it (`OnItsWay`). It needs `Projecting`: what a projection read of its
generation is a part of what it gathered, so that its difference only adds, and
so a difference from an old reading takes nothing away. That needs
`Generations`: the active generation, and the one a projection writes to, are
published, and no rebuild writes to such a one; and the lock is held by the last
that took it, which is `NewestIsPublished`. `Rebuilds` says that a rebuild that
is to activate has in its generation all it read, except what retention has cut
from it since, and `Sweeping` that retention never deletes the generation that
was active when it looked.

Only checked by TLC: the liveness properties (`LapsedIsFreed`,
`SilentSessionEnds`, `OwnershipIsSettled`, `EventsSettle`, `RunIsClosed`,
`EveryAskIsDecidedBySweep`),
because fairness and `ENABLED` are out of the prover's reach. Every safety
property of every run is proved, `NoRunawaySuccessor` for one join at a time.

## Plan

In the order of importance; done is what the tables above list.

1. `Leases`, its runs and proofs. Done.
2. `NativeSessions`, its runs and proofs. Done.
3. `AskReply`, `Messages`, their runs, proofs and the refinement theorem. Done.
   Next the trimming of idle inboxes.
4. `DaemonOwnership`, its runs and proofs. Done. Next the mutations that a
   shutdown waits for, and the loading of the Function library step by step.
5. `EventFeed`, `EventRelay` and `Dashboard`, with the refinements and their
   proofs. Done.
6. `ConfigPlan`, its run and proofs. Done.
7. `ControlPlane` and `GraphProjection`, their runs and proofs. Done.
8. `SessionBootstrap`, `SessionRevival` and `InboxBridge`, their runs and proofs.
   Done. Next the renewal of leases by a client, message routing and lease paths
   as operators against reference definitions, and the lifecycle of the daemon's
   process in the command line.

## Not modelled

The components marked `not_modelled` in `PROJECT.json`, each with its reason:
adapters of host tools, observers and rendering have no protocol state of their
own; the pure algorithms and the daemon's process under the command line are in
the plan. Within the modelled parts:

- Messages and sessions: events and their order, the trimming of idle inboxes,
  invalid inbox envelopes, the contents of messages, metadata and reasons, and
  the replies of calls that change nothing.
- Ownership: the count of admitted mutations, and the steps in which a daemon
  loads the Function library.
- Relay: sockets (they are in `Dashboard`), the streams of the projects and of
  the dead letters, which are trimmed without a condition, and an append of more
  events than the retention leaves between its look and its trim.
- Dashboard: the scopes of a selected project, of messages, leases and
  configuration, which are loaded by other rules; kinds of events that touch
  several resources; the limit of 512 known ids.
- Configuration: the expiry of plans, two reconciliations at once, the scan for
  drift and the retention of snapshots; receipts whose writing fails without a
  crash; more than one daemon.
- Registry: the scan that observes capabilities and imports, several projects,
  the limit of a list to 1000 entries. What a request reads before its first
  write, a list and the manifests of a kind are each read in one step.
- Clients: the renewal of leases, the polling of titles, backoff, and what a tool
  call does with its session once it is verified, except for the join.
- Bridge: the session status around a child, native references, and the bridge
  for DeepSeek, whose handler is built alike.
- Graph: what a record contributes to nodes and edges, nodes of messages, the
  retention of usage, Git observations and proposals, how long a client waits
  for the lock; the index and the pointer are read in one step.

## Running

    tlc -workers 2 -config MCLeases.cfg MCLeases
    tlc -workers 2 -config MCControlPlane.cfg ControlPlane
    tlapm LeasesProofs.tla
