# A model of the remote REPL

`nestjs-web-repl` lets a browser evaluate JavaScript inside a running Node.js service. A *channel*
is a REPL session shared by everybody who watches it; a fleet of instances share the channels over a
pub/sub transport, and one of them, the *owner*, holds the session of a channel and runs its
commands. This directory holds TLA+ modules of that system, the TLC runs that check them on small
instances, and theorems that TLAPS proves for instances of every size.

Paths below are relative to `src/`; `engine` is `packages/core/src/engine/remote-repl-engine.ts`,
`session` is `packages/core/src/session/repl-session.ts`.

## The system

| Component | State | Operations | Talks to |
|---|---|---|---|
| Engine (`engine`) | per instance: `ownership`, `ownerSeenAt`, `channels` (a `ChannelState` per channel: `nextId`, buffer, session, `currentCommandId`, `execQueue`, `pending`, `subscriberCount`, `ttlTimer`), sinks | `start`, `stop`, `dispatch`, `openStream`, `events`; `onCmd`, `onOut`, `onSys`; heartbeat and TTL timers; `maybeEvict` | transport (publish, subscribe), sessions, streams |
| REPL session (`session`) | promise queue, `resolveCurrent`, watchdog, node:repl's buffered command, `closed` | `start`, `eval`, `close`; `handleOutput`, `checkForStuckIncompleteInput`, the watchdog | node:repl, the engine's `onOutput` |
| Replay buffer (`ring-buffer.ts`) | the last N events | `push`, `since`, `clear`, `isEmpty` | engine |
| HTTP handlers, SSE frames (`http/`) | `lastRealId` per connection | `stream`, `post`, landing and assets | engine, framework packages |
| Transports (`in-memory`, `redis/`) | handlers per topic; for Redis the client, the subscriber and the connection under way | `publish`, `subscribe`, `close` | engine, Redis |
| Express router, Nest controller and service | one loop per SSE response | write frames, end the response, `return()` on close | handlers |
| Browser UI, Monaco assets, `nestjs-web-repl` shim, scripts | none | pages, files, re-exports, tooling | |

A command goes: HTTP `post` → `dispatch` publishes it on the *cmd* topic → every instance's `onCmd`
decides alone whether it is the owner, may claim the channel, or ignores it → the owner chains
*echo, eval, done* onto the channel's `execQueue` and publishes each event on the *out* topic →
every instance's `onOut` numbers on, buffers and hands the event to its streams → each stream's loop
writes SSE frames → the browser. Ownership travels on the *sys* topic as `claim` (also the
heartbeat) and `release` (after an idle TTL).

What is hard, and what has to be true:

* **Ownership.** Every instance keeps its own record of the owner, and claims, releases, heartbeats
  and commands of different origins interleave. The instances must end up agreeing, no command may
  fall between them, a live owner must keep its channel, and a dead one must lose it.
* **Atomicity.** `onCmd` and `executeCommand` await publications, the factory and the evaluation,
  and streams close, releases arrive and other commands begin meanwhile. No `ChannelState` may be
  evicted from under a command that awaits, no REPL server may leak, and the unit *echo, eval, done*
  must not interleave with another one of its channel.
* **Clean-up.** Whichever of a stream, a command, a session and the history goes last must evict the
  channel's state.
* **Evaluation.** A submitted text may be incomplete, never end, or consist of several statements,
  each of which writes the prompt the session waits for. Every call must resolve, once.
* **Streams.** An event that arrives while a stream is being opened, read or closed is delivered
  once and in order, and a client that reconnects gets what is still kept and nothing twice. Nothing
  of an abandoned stream may stay.
* **Time.** The lease must outlast a late heartbeat, and end soon after a crash.
* **Shutdown.** `stop()` is called while commands, timers and streams are under way; they go on
  after it, on a state that is no longer mapped. No evaluation may hang, no session stay open.
* **Connections.** A transport subscribes while it connects, and is closed, often twice, while it
  does either. A handler must hear each message once, and nothing after the close.

`PROJECT.json` lists every component, every hazard at its line, and each definition with the lines
it translates.

## The modules

### `RemoteReplEngine`: the engine, in a fleet

Channels never share state, so one channel is modelled, and each `Map` keyed by channel becomes a
value per instance. An action is one synchronous stretch of JavaScript, from one `await` to the
next; an instance's awaits are the `phase` of each command there:

| Action | Code |
|---|---|
| `Dispatch` | `dispatch()` |
| `OnCmdIgnored`, `OnCmdOwner`, `OnCmdClaim` | `onCmd()` up to its first await, one per branch |
| `Claimed` | `onCmd()` after the claim was published: chains the command onto `execQueue` |
| `BeginExecute` | `executeCommand()`: `ensureSession()`, `currentCommandId`, publication of the echo |
| `FailExecute` | the context factory throws: the link's `catch` publishes an error |
| `StartEval`, `EvalSettles` | `await session.eval()`, publication of `done` |
| `Settle` | the link's `finally`: `pending--`, `maybeEvict()` |
| `WriteOutput` | the `onOutput` callback, from a session that evaluates or writes in the background |
| `OnOut`, `OnSysClaim`, `OnSysRelease` | `onOut()`, `onSys()` |
| `Heartbeat`, `TtlFires`, `StrayTtlFires`, `LeaseLapses` | the timers, and the clock `onCmd()` reads |
| `OpenStream`, `CloseStream` | `openStream()` and `onUnsubscribe()`, as far as eviction is concerned |
| `Boot`, `Crash` | each await of `start()`; the death of the process, and a restart under the same `instanceId` |
| `Transmit` | the transport: a total order of messages, first in first out, from which deliveries may be lost |

`maybeEvict()` is part of the action of every handler that calls it (`MaybeEvict`). The evicted
state's TTL timer stays armed, as in the code (`strayTimers`). Event contents are reduced to id,
type and command; the buffer to how many events it holds; `ownerSeenAt` to *none, fresh, stale*,
where going stale is a step that may happen at any time. A session is named by the command that made
the engine create it.

### `OwnerLease`: the timing of the lease

In `RemoteReplEngine` a lease lapses whenever the environment wishes. `OwnerLease` says when clocks
allow it: one tenure of an owner, seen by one peer, in discrete time held as ages. The constructor's
clamp (`OwnerLeaseTtl`), the heartbeat that skips channels without a session (`Renews`), the
delivery of claims and the peer's test (`Expired`, which takes a missing record for an expired one)
are from the code. An owner whose context factory failed keeps the channel and may get its session
with a later command (`SessionComesLate`), which claims nothing; a peer that evicts the channel
forgets when it heard of the owner, but not who it is (`PeerEvicts`). `excused` is the time since
either, which the lease does not provide for. Whether the peer's buffer is empty is not modelled: it
evicts whenever it likes, more often than in the code. A tenure is followed to its takeover; a
release ends it as well, and what comes then is a new one. What the code leaves to the environment
is in the constants: a delivery takes at most `MaxDelay`, a timer is at most `MaxLag` late, a
session the factory does not refuse exists `MaxSetup` after the claim; `SlackAssumption` says they
fit in one heartbeat interval, which is the slack the constructor's comment claims to provide.

### `ReplSession`: one session over node:repl

The promise chain of `eval()` (`Eval`, `RunLine`, `SkipLine`), and the four ways an evaluation ends:
the prompt (`PromptWritten`), the check for incomplete input (`CheckPasses`, `CheckRecovers`), the
watchdog (`WatchdogFires`) and `close()` (`Close`). `Settle` is `settle()`: it resolves whichever
call is in flight, which need not be the one the prompt was written for. node:repl is external and
modelled as the session takes it to work: a text is a sequence of statements that are over at once
(`sync`), later or never (`await`), or incomplete (`open`, only last); one prompt is written per
statement that is over; what is incomplete is kept and swallows the beginning of the next text. That
a prompt may arrive in pieces is left to `OutputFilter`. Whether the session finds node:repl's
buffer (`bufferFound`) is chosen when it starts: without it, the check recovers from nothing.

### `OutputFilter`: the prompt in the output

`handleOutput()` on texts: `Drained` is its loop, `HeldBack` what may still become a prompt,
`Handled` a whole sequence of chunks. `Uncut` is the reference, which sees the output as one text,
and `Seen` that text: the chunks, without those that are exactly the continuation prompt. The
alphabet, the sentinel and the length of an output (`Outputs`) are constants. The prompt TLC is
given has three characters, the first two alike, so that text can look like its beginning in more
than one way, as with the `<<` of the real one.

### `SerialQueue`, `EngineQueue`: what the promise chains promise

`SerialQueue` is an abstract executor: workers that each run their jobs one at a time, in the order
of submission, none twice; a mortal one may die. It is implemented three times. `EngineQueue` maps
an instance's `execQueue` to it (`Queue`): the head of the chain runs once `executeCommand()` has
begun, a command is finished when its link has settled, a crash is a death. `EngineStop` does so for
each state on its own (`Queues`), and there nobody dies. `ReplSession` maps the queue of `eval()`
calls to it (`Chain`): the call that `settle()` would resolve runs, and a call that finds the
session closed is passed over.

### `EngineStop`: shutting down in the middle of something

`RemoteReplEngine` has one state per instance, which eviction resets. That is right only as long as
nobody holds on to an evicted state, and `stop()` makes that the normal case. Here the
`ChannelState`s are objects, the map (`channel`) points to one or to none, and a command (`at`), a
stream (`on`), a timer and a session's output callback keep the one they began with. The actions are
those of `RemoteReplEngine` for one instance, on objects; to them come `Stop`, the synchronous part
of `stop()`, and `TransportCloses`. `NothingOrphaned` is the justification of the other module's
simplification: until `stop()`, what anybody captured is what the map holds. After it, a state that
is no longer mapped may still run commands while a new one takes those that come before the
transport has closed. Two commands of a channel may then run at once, but never two of one state
(`SerialPerState`).

### `RedisTransport`, `PubSub`: the transport of a cluster

`PubSub` is the contract of PROTOCOL.md 1.1 as one instance sees it: a handler hears messages of its
topic in the order of publication, each at most once. `RedisTransport` is the base class over either
client library (`library`, chosen at the start): every call of `subscribe()` and `close()` runs from
one `await` to the next, and the library connects, fails to, confirms, refuses and quits in between.
A connection is named by the `subscribe()` call that made it. `Contract` maps the one to the other.
A handler's own faults, which `dispatch()` catches, and the prefix are left out.

| Action | Code |
|---|---|
| `Subscribe` | `subscribe()` and `ensureSubscriber()` up to the first await |
| `Connected`, `ConnectFails` | node-redis' `connect()` settles; the memoized promise keeps either outcome |
| `Proceed` | `ensureSubscribed()` of node-redis goes on to the library's `subscribe()` |
| `Confirm`, `Refuse`, `Return` | the library's answer, and the continuation that records the topic |
| `Publish`, `Dispatch` | `doPublish()` by any instance, and `dispatch()` of what comes in |
| `Close`, `CloseReturns`, `CloseThrows` | `close()`: `teardown()` detaches, `quit()` settles, the maps are cleared or not |

### `ChannelStream`, `EventLog`: from the channel to the browser

The engine's `onOut()`, `openStream()` and `events()`, the replay buffer, pings, release and
`stop()` for all streams of a channel at one instance; the handler's frames and their ids; the loop
that writes a response, the same in the Express router and the Nest controller; and a client that
loses its connection and reconnects with `Last-Event-ID`. `Settle`, `SinkNext`, `SinkComplete`,
`Finish`, `Pulled` are the closures of `events()`: a queue, at most one waiting `next()`, and a
flag. `written`, `since` and `missed` (the last event that was gone when the client connected) in
the record of a connection are history, read by the properties only.

`EventLog` is what all this promises to the client: a log that keeps its last entries, and a reader
that comes and goes, reads each entry once and in order, and leaves out only what was not kept any
more when it came. `Log` maps the module to it: the entries are the events handled, the reader is
there while the client is connected, and its position is the client's cursor. What is in a queue, in
a loop's hand, on a wire or lost with a connection is not in the log at all.

Event ids are not restarted here: they are when an owner's state is evicted or a new owner takes
over, and PROTOCOL.md 4.4 then calls a cursor best-effort.

### Proof and instance modules

`RemoteReplEngine_proofs`, `OwnerLease_proofs`, `ReplSession_proofs`, `OutputFilter_proofs`,
`RedisTransport_proofs`, `EngineStop_proofs` and `ChannelStream_proofs` extend the modules they are
about. `Fleet_proofs` extends the first, whose invariant it uses, and is about what the instances of
`RemoteReplEngine` have in common.
`MCRemoteReplEngine` makes the environment's budget a function of `.cfg` constants and names the
symmetry; `MCReplSession` enumerates the texts and instantiates `OutputFilter`; `MCRedisTransport`
gives the handlers their topics. Operators like `EvictableWithSession` or `TimersKept`, each before
the definition it varies, are wrong versions of it that `PROJECT.json` lists as mutants: with the
wrong version the run must report the property.

## The runs

| Run | Bounds | Shows |
|---|---|---|
| `engine_ownership` | 2 instances, 2 commands, 1 TTL firing, 1 factory failure, 2 waiting deliveries, nothing lost | `OwnershipAgreed`, `EveryCommandAccepted`, `PendingCountsInFlight`, `SessionsAccountedFor`, `SerialExecution`, `IdsContinue` |
| `engine_faults` | 2 instances, one of them booting late, 1 command, one of every fault, a stream at each | `TypeOK`, `NoIdleChannelState`, `OutputBelongsToItsSession` |
| `engine_liveness` | 2 instances, 2 commands, 1 factory failure | `DispatchedCommandSettles`, `AcceptedCommandSettles`; refines `SerialQueue` (`ExecutesSerially`, which the proof extends to crashes and releases) |
| `engine_stop` | 2 commands, 1 stream, 1 TTL firing, 1 output chunk, 1 factory failure, 4 states alive at once | `NothingOrphaned`, `PendingPerState`, `StopClosesSessions`, `StopEndsEvaluations`; refines `SerialQueue` (`SerialPerState`) |
| `owner_lease` | interval 6, requested lease 3 (below the clamp), delays that use up the slack | `LiveOwnerStaleOnlyBriefly`, `AbandonedBecomesClaimable`, the inductive `Inv` |
| `repl_session` | 3 calls of 1 or 2 statements; every output of up to 6 characters of an alphabet of 3, cut in every way | `WatchdogGuardsCurrent`, `ClosedKeepsNobodyWaiting`, `EvalsAreIsolated`, `EvalResolves`, `OutputIsNotCut`; refines `SerialQueue` (`EvaluatesSerially`) |
| `channel_stream` | 2 connections, 3 events through a buffer of 2, 1 ping, 1 release | `StreamFollowsChannel`, `DeliveredInOrder`, `NothingSkipped`, `SubscribersCounted`, `AbandonedStreamDetaches`, `EventsArrive`; refines `EventLog` (`ReadsTheLog`) |
| `redis_transport` | both libraries, 3 handlers of 2 topics, 2 messages, 2 `close()` calls | `QuitOnce`, `UpIsReachable`, `NothingMissed`, `QuietAfterClose`, `SubscribeSettles`; refines `PubSub` (`KeepsContract`) |
| `engine_race`, `engine_order`, `engine_preemption`, `repl_session_leftover` | smaller instances of the same | the disagreements below |

Why the bounds are enough. An engine handler reads its own instance and one message, so two
instances with two commands already contain every pair of handlers racing: two claims, a claim
against a command, a release against an evaluation; two commands are what it takes for one to wait
behind, overtake or inherit the session of another. Heartbeats and lapsed leases are not among them:
`engine_ownership` has none, `engine_faults` only one command, and that the properties hold through
takeovers of a lapsed lease is shown by the proofs, which bound neither. The run with every
fault at once has one command to stay small; crashes and losses do not occur in the ownership runs
because agreement is not promised under them. In a session the third call can meet what the first
left behind through the second; in a stream a second connection meets what the first left, a buffer
of two is smaller than the three events, and an event arrives before, while and after the connection
is changed. A transport has two handlers on one topic, which meet in `subscribed`, and a third on
another, which meets them in the connection; a second `close()` meets the first at every distance.
Two commands with `stop()` between any two of their steps leave at most one state each behind, with
one more for the stream and one that is mapped anew: four objects are enough. A prompt of three
characters fits twice into six, next to each other or overlapping with what looks like a third. The
unbounded counters (messages waiting, faults, events, pings, calls) are bounded by constants in
guards: `MaxInbox`, `Budget`, `MaxSubscribers`, `MaxCalls`, `MaxEvents`, `MaxPings`, `MaxReleases`.
Event ids (`nextId`) need no bound of their own: there are finitely many emissions.

`CHECK_DEADLOCK FALSE`: once the commands, calls, events and budgets are used up and everything is
handled there is nothing left to do, and the program, too, then waits for input. `owner_lease` never
stops and is checked for deadlock.

### Fairness

* `RemoteReplEngine`: weak fairness of `Transmit`, of an instance's handlers and of every
  continuation. JavaScript drains its microtasks and the connection's messages; the transport
  delivers; the watchdog bounds every evaluation (`session` 241-251), and a context factory is
  assumed to return or throw. Nothing is assumed of timers, faults, clients or starts.
* `ReplSession`: weak fairness of the promise chain and of an armed watchdog. Not of evaluations,
  which may never end, nor of the check for incomplete input.
* `EngineStop`: weak fairness of the handlers and of every continuation, but of an evaluation's end
  only once its session was closed: `StopEndsEvaluations` is to show that `close()` alone is enough.
* `RedisTransport`: the library answers, one way or the other, and promises resolve; nothing is
  assumed of messages and `close()`.
* `ChannelStream`: weak fairness of a connection's server side (its loop's next step, or the `close`
  event of a response whose client is gone) and of the client's receiving. Not of its connecting or
  breaking off, nor of events, pings and `stop()`.

### Where the code departs from its documents

* `engine_race`: *"The single instance that holds the session of a channel and executes its
  commands"* (GLOSSARY.md). Two origins that race for a new channel each record themselves first;
  each then also executes the other's command, which runs twice. PROTOCOL.md admits only that both
  execute their own.
* `engine_order`: *"Commands on one channel run one after another, in post order"* (SKILL.md). The
  command that claims the channel is queued only after its claim was published; one that follows
  closely is queued at once, and runs first.
* `engine_preemption`: *"a live, heartbeating owner is never preempted"* (PROTOCOL.md 5.4). Eviction
  keeps the owner's name and forgets when it was seen, and a missing time reads as an expired lease:
  an instance whose last stream closed takes the channel with its next command, until a heartbeat.
  `LiveOwnerStaleOnlyBriefly` says for how long.
* `repl_session_leftover`: the check for incomplete input looks at node:repl's buffer only while a
  call is in flight. A text whose first statement has settled the call leaves its incomplete rest to
  the next call, which is thrown away as incomplete input although it is not.

Five more were met, as behaviours of the modules; no run is kept for them:

* *"every instance [...] clears the channel's replay buffer"* at a release (PROTOCOL.md 5.5). Only
  the instance with the session does (`OnSysRelease`); the others replay the old history.
* *"Delivery is at-most-once"* (PROTOCOL.md 1.1). Two calls of `subscribe()` for one topic that
  overlap on node-redis both find it unsubscribed and register a listener each, and every message is
  dispatched twice. The engine never makes such calls, and `CallersTakeTurns` leaves them out.
* *"A clean shutdown closes an instance's sessions but does not publish `release`"* (PROTOCOL.md
  5.5). A command that is between its awaits when `stop()` is called goes on: it arms a TTL timer,
  opens a session if there is none, and nothing closes either. Over Redis, whose publishing client
  stays the application's, the timer's release then reaches the fleet. `StopClosesSessions` speaks
  of the moment of `stop()`.
* *"Ids are unique and monotonic within one owner's tenure"* (PROTOCOL.md 4.4). If the context
  factory fails and nobody watches, the state is evicted before its error event is back, and the
  next event takes the same id. `IdsContinue` speaks of executions without a failure.

* *"this never fires for a healthy owner -- only for one that has stopped heartbeating"*
  (`engine` 326-331, of the expired lease). An owner whose context factory failed sends no
  heartbeats; when a later command gets it a session, nothing is published until the next
  heartbeat, and a peer whose record has lapsed meanwhile preempts an owner with a live session,
  however fast everything is. `LiveOwnerStaleOnlyBriefly` is what remains true.

Two more that no document speaks of: a `close()` while node-redis connects leaves a connection that
comes up later and that nobody quits, and a failed `connect()` stays memoized, so that no later
`subscribe()` can succeed.

`EvalsAreIsolated` and `OwnershipAgreed` are conditional for the same reason: after a timeout, or
with several statements in a text, a late prompt settles the next call; and an instance that starts
late, restarts, or loses a claim has another opinion on the owner until the next heartbeat.

## What is proved

`tlapm` checks the proof modules; every constant is arbitrary within the named assumptions.

`OwnerLease_proofs` assumes `OptionsAssumption`, `DelaysAssumption` and `SlackAssumption`. Its
inductive invariant `Inv` adds to the types: the peer was told of the tenure, or will be
(`Announced`); the peer's record of a running owner, or else the excuse for its age, is as recent as
the claim in flight or the owner's clock explains (`RecordYoung`, `Recent`); and the peer hears of
an abandoned channel only what was sent before (`NothingSentSince`). `LiveOwnerStaleOnlyBriefly` and
`AbandonedBecomesClaimable` follow. The clamp is used where two intervals have to be at least
`MaxSetup + HeartbeatInterval + MaxLag + MaxDelay`. That a live owner is never preempted does not
follow, and is not true.

`RemoteReplEngine_proofs` assumes `InstanceAssumption` (`None` is no instance), `CommandAssumption`
(finitely many commands, for the cardinality in `PendingCountsInFlight`) and `BoundsAssumption`. It
proves type correctness, `PendingCountsInFlight`, `SerialExecution`, `SessionsAccountedFor`,
`NoIdleChannelState` and `OutputBelongsToItsSession` for every fleet, any number of commands and
every budget of crashes, losses and firings. None of them is inductive alone. `IInv` strengthens
them in four layers, each of which leans on the one before:

1. `CommandsOnce`: a command message exists at most once per instance and only before the command
   was accepted there. So an accepted command was idle, and `pending` is incremented for a new one.
2. `ExecutorOK`: the commands on `execQueue` are distinct and are those that were queued and have
   not settled; only its head has begun; `pending` is the number of commands in flight, hence
   positive whenever a link settles. The types rest on this: `Settle` decrements `pending` and
   shortens the queue.
3. `MapsSound`: an instance without the channel in its map holds a fresh state; what the map holds
   is not collectable, which rests on `pending` being exact; and the one open REPL server is the
   session of the channel.
4. `OutputsSound`: the current command runs in the channel's session, and a command has no session
   before it begins and never another one after, so the tag of a published chunk stays right.

Each layer has one lemma per handler, with a step per conjunct that the handler can disturb.

The module also shows `Spec => ExecutesSerially` from the same `IInv`. `ExecutorOK` already
says that the chain holds the queued commands once and that only its head has begun, so a step of an
instance is `Submit`, `Start`, `Finish` or `Die` of its worker in `SerialQueue`, or leaves it as it
is (`Works`): one lemma for the handlers, one for the continuations, one for the environment. A step
leaves the workers of all other instances as they are, which makes it one step of the fleet's queues
(`WorkIsQueueStep`).

`ReplSession_proofs` assumes `CallAssumption` (`None` is no call and no outcome) and
`TextAssumption` (a text is not empty and only its last statement is incomplete), and nothing of
what node:repl makes of a text. Its `IInv` adds to the types:

1. `Numbered`: the calls made so far are `1..k`, so the next one is new to the queue.
2. `Placed`: a call waits once, or is in flight, or has settled. A settled call is never in flight
   again, which is why a late prompt cannot resolve a promise twice.
3. `Guarded`: the only armed timer is that of the call in flight, and a closed session has none.
4. `Isolated`: while texts are orderly, what is unfinished or buffered belongs to the call in
   flight, and is its one statement. `EvalsAreIsolated` alone is not inductive: it says nothing of a
   call in flight.

`WatchdogGuardsCurrent`, `ClosedKeepsNobodyWaiting` and `EvalsAreIsolated` follow, and every step is
a step of the one worker of `SerialQueue` or leaves it as it is (`EvaluatesSerially`).

`Fleet_proofs` is about whole fleets, and needs an invariant of another kind: what an instance
believes in says little, what it will believe in once it has handled the messages on their way to it
is what the instances have in common. `OwnershipAgreed`, `EveryCommandAccepted` and `IdsContinue`
are conditional (see above), and so is this part of the invariant: an `Undisturbed` fleet booted as
a whole and lost no message and no process. No step makes a fleet undisturbed again, since budgets
only fall (`Whole`, `StillUndisturbed`), so each step of the proof may assume the condition of both
of its states.

1. `Agreement`: there is one `v` that the last claim or release in every inbox makes the owner of
   that instance, or its record is `v` already. The exception is an instance that has recorded
   itself and whose own claim has not left its outbox: it may differ, until that claim gives
   everybody a new `v`.
2. `Acceptance`: a command that nobody has accepted is in an outbox, or was broadcast while the
   fleet agreed on some `v` (`Awaited`): whoever has handled it already was neither `v` nor an
   origin that may claim, and whoever has not will then believe in `v` or in itself. If nobody had
   it left to handle, `v` would have had to refuse its own command; with no owner, its origin would
   have had to.
3. `Numbering`: while one instance has executed everything (`SoleExecutor`), the events in an inbox
   followed by those in that outbox count on from the receiver's `nextId` to the sender's. An
   eviction, which restarts the count, finds it at zero. A buffer of no events would allow evictions
   between events, hence `ReplayBufferSize > 0`.

`RedisTransport_proofs` assumes `HandlerAssumption` and `MessagesAssumption`, and nothing of the
number of handlers, topics or `close()` calls. `IInv` adds to the types `CallsOK` (a call in flight
has its connection; a handler is registered or silenced, never both), `QuitsOK` (what was quit is
not up), `FieldOK` (the field is up, or ioredis is bringing it up, and nothing else is up) and
`ConnectingOK` (node-redis brings up one connection at a time, for the call that made it, which
still waits). The last is the heart: after a `close()` forgets the memoized connection the call that
made it is still in flight, and so no new call makes another (`CallersTakeTurns`). `QuitOnce`,
`UpIsReachable` and `QuietAfterClose` follow.

`FeedInv` adds what the messages need. `UsesOK`: a topic is heard, or about to be, on one connection
only. `OnceOK`: with one listener, since node-redis adds one only for a call that takes its turn.
`OrderedOK`, `NewerOK`: what waits on a connection is in order and newer than anything its handlers
heard, so a `Dispatch` delivers in order and once; a `close()` and the next connection cannot bring
an old message back. `ServedOK`: until a `close()` every subscribed topic is heard on a connection
that is up, so that `Publish` reaches it, and `NothingMissed` is inductive together with that.
`KeepsContract` follows step by step: `Publish` and `Dispatch` are steps of `PubSub`, the others
leave its variables as they are.

`EngineStop_proofs` assumes `ObjectAssumption` and `StopAssumption`. A `ChannelState` that
JavaScript would allocate is here any object that nothing refers to, and `ObjectAssumption` (more
objects than commands and streams together) is what makes one exist at every moment (`FreshExists`);
it stands for a heap that is not full. The invariant of the states is stated of a map entry and of
the objects, `StatesOK(entry, objects)`, because `getChannel()` may change both before the rest of
the handler runs: it holds of `(channel, state)` in every state and of what a handler finds
(`Mapped`, `Looked`). Its parts: a command stands in the queue of the state it captured until it
settles there, at the head once it runs (`QueuesOK`); `pending` of each object is the number of
commands that hold it (`CountsOK`); sessions and timers are made for commands (`MadeOK`); until
`stop()` everything in flight holds the map's entry, whose session is the only open one (`MapOK`).
With them `CommandsOK` and `BusOK`: a command is handled once. `NothingOrphaned`, `PendingPerState`
and `StopClosesSessions` follow, and type correctness, which here says that no link which ends after
`stop()`, on a state that is no longer mapped, decrements below zero.

`SerialPerState` needs the converse of `QueuesOK` besides: a chain holds only commands that were
queued on its state and have not settled, each once (`ChainsOK`). So the object that `getChannel()`
takes for a new state has an empty chain (`LookedChains`), and who stays behind a settled head still
waits. A step chains a link (`SubmitMoves`), begins or ends the head of one chain (`StartMoves`,
`FinishMoves`), or leaves the chains and what has begun (`KeptMoves`); the handlers and
continuations are instances of these.

`ChannelStream_proofs` assumes `StreamAssumption` (finitely many connections, and `None` is neither
one nor an event id) and `BoundsAssumption`. Its `IInv` follows an event on its way:

1. `BufferOK`: the buffer holds the last events, consecutively; until a release it is full or holds
   all.
2. `SinksOK`: attached are the streams opened and not yet closed, none is done, and the count is
   their number.
3. `StreamsOK`: what a stream wrote, has in hand and has queued increases in that order (`OrderOK`),
   and a waiting `next()` finds the queue empty. `CoverOK`: those events are an interval that ends
   with the last one. Both hold of a stream however far its loop is, which is why nothing is
   duplicated or lost between replay and live.
4. `WireOK`: the frames on the wire stand between the client's cursor and the stream's `lastRealId`,
   events strictly increasing, and what was written was received or is on the wire. `GotOK`: what
   the client has is up to its cursor.
5. `KeptOK` and `SkipOK` hand what was received on from one connection to the next: what is beyond
   the events that were gone when the client connected (`missed`), and not beyond its cursor, was
   received, so a replay from there leaves nothing out. Neither is conditional on there having been
   no release, since what a release took counts as gone. `BeyondOK`: what was gone stays gone, and
   until a release is no more than the buffer had no place for.

`StreamFollowsChannel`, `DeliveredInOrder`, `NothingSkipped` and `SubscribersCounted` follow, for
every size of the buffer and any number of reconnections. So does `ReadsTheLog`, step by step. The
step that takes an argument is the receiving of a frame: for an event, what the client has is an
interval up to its cursor and nothing may be missing between that (or `missed`) and the frame, so it
is the next entry of the log; for a ping, which carries the id of the last event before it, the
cursor is there already (`FramesOK`), and the reader stutters.

`OutputFilter_proofs` assumes `SentinelAssumption`: the sentinel is a text that is not empty, and no
beginning of it is also its end, as for any text that begins with `<<`, ends with `>>` and has
neither inside (`session` 55). Two sentinels can then not overlap (`Apart`). `CutsNeverShow` is
about every sequence of chunks of any length.

1. The induction goes by the least counterexample (`Least`, from the well-foundedness of the natural
   numbers in the library). The same lemma shows that a recursive definition whose value at `x`
   depends on values at lower ranks only has a solution (`RecursionExists`). So `Drained`, the fold
   of `Handled`, the concatenation in `Uncut` and `Outputs` satisfy their equations (`DrainedIs`,
   `HandledIs`, `Flattened`).
2. The invariant of the chunks speaks of all that may yet come (`Same`, `Keeps`): for every text
   `x`, what was forwarded, followed by what the buffer with `x` behind it says, is what the text
   seen so far says with `x` behind it.
3. A round of the loop keeps that (`RoundSame`): what precedes the first sentinel says itself
   (`Skip`), the sentinel says one settlement (`Hit`), and neither depends on what comes after it.
   So does the flush (`FlushSame`): a sentinel that a later chunk completes begins within the
   longest suffix that a sentinel may begin with (`NothingBeforeHeldBack`).
4. With nothing more to come, what waits is too short to be a sentinel and says itself
   (`UncutWaiting`).

The outputs TLC enumerates are such sequences (`OutputsAreNotCut`), and `ReplSession_proofs` states
the result of the property that the run checks.

Only model-checked: every liveness property (TLAPS cannot reason about fairness and ENABLED), and
the disagreements, which are refuted and have no proof.

## What is not modelled

* A connection to Redis that is interrupted and comes back: what the medium loses is the `loss` of
  `RemoteReplEngine`, which takes from a transport that it keeps one order, or loses. Redis and the
  client libraries are external.
* The event ids of several tenures (a restart at 1 after an eviction), beyond `OnOut` and `Emit`.
* `stop()` in a fleet: `EngineStop` is one instance. To its peers a stopped instance is a crashed
  one, apart from the late release above.
* Landing pages, assets, body validation, the UI, the shim and scripts: pure functions or wiring.

## Plan

1. Done: `RemoteReplEngine` and `OwnerLease`, `ReplSession` with `OutputFilter`, `ChannelStream`
   with `EventLog`, `RedisTransport` with `PubSub`, `EngineStop`, `SerialQueue` with its three
   implementations; and proofs of every safety property a run checks and of the five refinements.
2. `Agreement` without `Undisturbed`: after a loss the next heartbeat of the only owner
   re-establishes it.
