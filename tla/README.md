# A TLA+ model of linux-monitor-dashboard

linux-monitor-dashboard watches Linux hosts. An **agent** on every host
collects metrics and security events and sends them over TCP to one
**server**, which stores them in PostgreSQL, derives alerts, correlates, and
pushes what is new to the **dashboard** in the browser. These modules model the
parts of it where threads, callbacks, connections and queries interleave.
Paths below are relative to `packages/` of the repository.

Contents: 1. the system; 2. the modules; 3. the runs; 4. the proofs;
5. what is assumed and left out; 6. plan.

## 1. The system

### Agent

| Part | State | Operations | Talks to |
|---|---|---|---|
| TCP client, `agent/src/transport/tcp-client.ts` | `socket`, `isConnected`, `isStopping`, `pendingFrames` (at most 200), heartbeat and reconnect timers | start, send, the callbacks of the socket, both timers, stop | server's receiver, over TCP |
| Collections, `agent/src/ipc/worker-manager.ts`, `semaphore.ts`, `workers/` | a semaphore, listeners and 5 s timers of requests, what each worker thread is doing | collectMetrics, collectSecurityEvents, stop; the workers' message handlers | worker threads by messages; TCP client |
| Shared metrics, `agent/src/ipc/shared-metrics.ts`, `mutex.ts` | two SharedArrayBuffers: values and a lock | write (metric workers), read (main thread, for a dump) | shared memory |
| Runtime and signals, `agent/src/runtime`, `signals`, `index.ts` | two intervals, configuration, `shuttingDown` | start, stop, SIGHUP reload, SIGUSR1 collect, SIGUSR2 dump | all of the above |
| Collectors, `agent/src/collectors` | previous CPU and network counters | collect | `/proc`, commands |
| Security monitors, `agent/src/security` | file offsets, seen journal lines, file hashes | collect | log files, journal |

### Shared

The wire protocol (`shared/src/protocol`): frames with a length and a type;
`decodeFrames` keeps the unfinished rest of a chunk. Types and schemas are
declarations.

### Server

| Part | State | Operations | Talks to |
|---|---|---|---|
| Receiver, `server/src/receiver` | per socket: `activeAgentId`, decoder rest; `ConnectionManager`: a map of agents | 'data' and 'close' of a socket, as async handlers | services, engine, hub; agents |
| Agents, metrics, events services, `server/src/modules` | tables `agents`, `metrics`, `security_events` | upsertHandshake, touchHeartbeat, markOffline, saveMetric, saveEvent | PostgreSQL pool |
| Alerts service, `server/src/modules/alerts` | tables `alerts`, `alert_rules` | createUniqueAlert behind three callers; resolveAlert, updateRule | PostgreSQL pool |
| Correlation, `server/src/correlation` | per worker: windows of recent events or values | processMetric, processEvent, candidates | worker threads; alerts service; hub |
| WebSocket hub, `server/src/websocket` | set of clients | addClient, removeClient, broadcast | browsers |
| Dashboard summary, REST API | none | reads; two writes by the operator | tables |
| Set-up, `server/src/db` | schema, seeded rules | ensureDatabase, seedDatabase | PostgreSQL |

### Dashboard

`useWebSocket` reconnects after 2 s; `LiveUpdatesBridge` turns each message
into invalidated queries and a toast. The pages render.

### What is hard, and what makes each part correct

* **TCP client.** Socket callbacks, timers, `send` and `stop` come in any
  order, and a connection can fail at any point. Frames must keep their order
  across connections, never appear twice, never pass an older queued frame or
  the handshake; overflow may lose only the oldest queued frame; the client
  must always have something that will reconnect it, and nothing after `stop`.
* **Collections.** Answers can come after their timeout; a worker can throw and
  is not started again. A collection must be sent whole or not at all, never
  with another collection's answer; the semaphore must come back exactly once.
* **Shared metrics.** Three threads access memory directly and a worker can be
  terminated inside the lock. A dump must be whole; the main thread must not
  hang.
* **Receiver.** The handlers of one socket interleave with each other and with
  'close', and queries of a pool execute in any order. A rejection that nothing
  catches ends the process. Nothing may be announced that is not stored; the two
  registries of agents must agree with reality once all is settled.
* **Alerts.** Look-up and insert are separate queries. Duplicates, alerts of a
  disabled rule, lost or unfounded broadcasts are possible failures.
* **Log monitors.** Offsets against rotation, partial lines, restart, and
  collections that overlap.
* **File integrity.** A hash is remembered by collections that overlap and whose
  answer may come too late: what the server is told must lead to what is on disk.
* **Runtime and signals.** SIGHUP, SIGUSR1 and a second SIGTERM arrive while
  `stop` awaits. At most one interval of a kind may run; a shutdown must end.
* **Correlation.** A line passes a chain of tests, then windows, resets and values
  of any age decide. A candidate must be raised exactly when the rule says so.
* **Framing.** Chunk boundaries anywhere, in the length field too, and a rest of
  bytes that must not outlive its connection.
* **Set-up.** Four queries without a transaction, cut by a crash, run by two
  servers at once, on a database that already has duplicate rules: each rule must
  end up there once, with the operator's setting, and every server must come up.
* **Hub, bridge and pages.** Messages are lost while a browser reconnects, come
  while a query is under way, or are about a page that is not shown. A page must
  not show old data without a reason; a message must not be handled twice.
* **Summary.** Reads that are not a snapshot.

`PROJECT.json` lists these as hazards, each at its line.

## 2. The modules

| Module | Models | EXTENDS / INSTANCE |
|---|---|---|
| `TelemetryLink` | abstract: a numbered stream delivered in order, at most once | |
| `TcpClient` | the agent's TCP client | INSTANCE `TelemetryLink` |
| `TcpClient_proofs` | theorems about `TcpClient` | EXTENDS `TcpClient` |
| `TcpServer`, `MCTcpServer` | receiver, ConnectionManager, agents table | |
| `TcpServer_proofs` | theorems about `TcpServer` | EXTENDS `TcpServer` |
| `AlertsService` | alerts, rules, the engine's broadcasts | |
| `AlertsService_proofs` | theorems about `AlertsService`, `RuleSeed` and `Correlation` | EXTENDS these three |
| `WorkerManager` | collections, semaphore, worker threads | |
| `SharedMetrics`, `MCSharedMetrics` | lock and shared buffers | |
| `LogMonitor`, `MCLogMonitor` | the two log monitors | |
| `SharedMetrics_proofs` | theorems about `SharedMetrics` | EXTENDS `SharedMetrics` |
| `WorkerManager_proofs` | theorems about `WorkerManager` | EXTENDS `WorkerManager` |
| `Framing`, `MCFraming` | encoder, decoder and the rest a caller keeps, at the level of bytes | |
| `Framing_proofs` | theorems about `Framing` | EXTENDS `Framing` |
| `Correlation`, `MCCorrelation` | kinds of log lines, the engine's ports, the three workers | |
| `FileIntegrity` | one tracked file, its monitor, and the request that carries its events | |
| `AgentRuntime` | intervals, signals and shutdown, composed with those collections | EXTENDS `FileIntegrity` |
| `SecurityMonitors_proofs` | theorems about `LogMonitor` and `AgentRuntime` with `FileIntegrity` | EXTENDS `LogMonitor`, `AgentRuntime` |
| `RuleSeed` | a server's start on the table of rules | |
| `MCAlerting` | `AlertsService` and `RuleSeed` in one run, one after the other | EXTENDS both |
| `MCMessages` | `Framing` and `Correlation` in one run, one or the other | EXTENDS `MCFraming`, `MCCorrelation` |
| `LiveUpdates` | hub, browser's socket, invalidated queries, pages | |
| `LiveUpdates_proofs` | theorems about `LiveUpdates` | EXTENDS `LiveUpdates` |

In every module an action is what runs without giving up the processor: from one
callback of Node's event loop up to its next `await`, one query executed by the
database, or, in `SharedMetrics`, one access to shared memory. Operators
under the comment *Mutant* are variants of a definition with a plausible
mistake. No specification uses them; they show that a property would notice the
mistake. Two of the modules with proofs are about several components, which they
extend side by side; these components therefore have a specification with a name of
its own (`LogSpec`, `CorrelationSpec`, `SetupSpec`; `Spec` is `AgentRuntime`'s and
`AlertsService`'s).

**TcpClient.** `socket`, `isConnected`, `pendingFrames`, the two timers and
`stopped` are the fields of the class. `written[c]` is everything given to the
c-th socket's `write`, `delivered[c]` how much of it the server has read,
`closePending` a destroyed socket whose 'close' is still to come. `Start`,
`Telemetry`, `Heartbeat`, `OnConnect`, `SocketFails`, `OnClose`,
`ReconnectTimerFires` and `Stop` are the methods and callbacks;
`HandshakeAndFlush` is `sendHandshake` with `flushPendingFrames`, and `Enqueue`
drops the oldest frame of a full queue. A frame is its production number. What
the server has read over all connections implements `TelemetryLink`
(`ImplementsLink`).

**TcpServer.** A `task` is a 'data' handler that has not returned: the frames of
its chunk still to be handled, the query it awaits, and whether that has
executed. `OnData` runs up to the first await; `QueryExecutes` is the database;
`CheckAlerts` and `FinishFrame` resume the handler. `OnClose` marks the agent
offline in memory at once and in the table by `MarkOfflineExecutes`. Saving
telemetry of an agent without a row breaks the foreign key; the handler rejects
and `Crash` ends the process, `Restart` does so for any other reason. Metrics
and security events take the same steps and are both *telemetry*.

**AlertsService.** A call of `createUniqueAlert` goes through `ReadRule`,
`FindOpen`, `Insert`, then `HandleAnswer` of its caller. `ResolveAlert` and
`UpdateRule` are the operator's. `Restart` loses the calls under way. A key is
(rule, agent, message), what the code looks for.

**WorkerManager.** `Collect` is an interval or SIGUSR1. `Request` adds a
listener and a timer for each worker asked; `WorkerTakes` and `WorkerAnswers`
are the ends of a handler that may overlap with itself; `AnswerArrives` is
`handleMessage` with everything that follows in the same turn of the event loop
(Promise.all, release, send); `TimesOut` is the timer. `WorkerFails` is an
exception in a handler, `Terminated` the end through `stop`.

**SharedMetrics.** `CompareExchange`, `Wait`, `WaitTimesOut` are the loop of
`acquire`; `WriteField` and `ReadField` one access each; `Store` and `Notify`
are `release`. A value is the time at which it was collected, which is enough to
tell a mixed dump from a whole one. `Terminate` may strike anywhere.

**LogMonitor.** `LogWrites` and `LogRotates` are the log daemon and logrotate;
`Collect` is a call of `collect`, `FileRead` the moment at which the file is read,
`ProcessFile` everything after that await, `JournalRead` and `ProcessJournal` the
same for the journal. A line is two units long, so that a read can end in the
middle of one. `latest`, `upset`, `torn` and `passed` are histories that
describe what happened to the file and in which order reads were processed,
without reference to what the monitor made of it.

**Framing.** Both ends of a connection at the level of bytes: `Encode` is
`encodeFrame`, and `OnData`, `DecodeNext`, `Return` are the start, one turn of the
loop and the end of `decodeFrames`, with `combined`, `offset` and `remainder` as in
the code. `OnData(n)` hands over any number of the bytes on their way. The two
callers (server and agent) keep the rest in the same way and forget it with the
connection (`Break`). A payload is its serialised bytes; JSON is not modelled.

**Correlation.** `EventType` is `parseLines` of the two monitors as the chain of
tests it is; a line is the set of patterns it matches and the address it names.
`ProcessEvent` and `ProcessMetric` are the engine's, with a queue for each port;
`BruteForce`, `Anomaly`, `CrossServer` are the workers' message handlers.
A worker's array is a set here: `failures[k]` has the times of an address with the
number of the message (so that two failures of one moment count twice, as in the
code), `eventWindow[type]` who and when, of which the code only asks how many agents there
are. `taken` is what each worker took, when, and whether it raised a candidate:
the properties say, from that history alone, which messages had to raise one:
exactly which for failed logins with an address and for events across servers; for
anomalies, that the last values must both be high, and that recent ones suffice.
What becomes of a candidate is `AlertsService`.

**FileIntegrity and AgentRuntime.** `Ask`, `ReadFile`, `Handle`, `Answer` and
`GiveUp` are a security collection from the request to its answer or its timer, cut
at its awaits; a version number stands for the hash. `AgentRuntime` has the
process around it: `Start`, `IntervalFires`, `ForceCollect` (SIGUSR1), `Reload`
(SIGHUP, with `readEnv` on a valid, an invalid or an unreadable file), `DumpState`
(SIGUSR2), `Shutdown` (SIGTERM, SIGINT), `CutInsideLock`, `WorkersStopped`,
`ClientStopped`. An interval is a record that lives until it is cleared; `timer` holds
the handles of the two fields. Of the shared metrics only `orphaned` is kept: whether
`terminate` caught a metric worker inside the lock, so that a dump blocks the main
thread for good.

**RuleSeed.** `CreateTables`, `Deduplicate`, `CreateIndex` and `Seed` are the four
queries of a start, `setupStep[s]` the one that server `s` comes to; `RunSeed` is
`npm run db:seed`, `OperatorUpdates` the operator, `Crash` and `RestartServer` the end
of a process and its next start, at any point. The table may be new, or come from a version without the unique index.

**LiveUpdates.** `log` is the sequence of the server's writes, and of the alerts it
broadcasts again without a write ("alert again"); a query's answer is current up to the
place in it where its read came (`ServerReads`). `Touches` says which queries a write
changes, `Announces` which message follows it,
`Invalidates` what the bridge does with that. `Invalidate` is react-query's
`invalidateQueries`, `Navigate` a change of page, `Put` and `PutSucceeds` a
mutation. `Connect`, `Accept`, `OnMessage`, `OnClose`, `Reconnect` are the callbacks
of `useWebSocket`; `Render` is its effect run anew, because the bridge passes a new
callback at every render.

## 3. The runs

| Run | Checks | Bounds | Shows |
|---|---|---|---|
| `tcp_client` | 5 invariants, `StopIsFinal`, `EveryFrameLeaves`, `ImplementsLink` | queue of 2, 3 connections, 5 frames | order, overflow, reconnection, stop, refinement |
| `tcp_server` | 5 invariants, `EveryFrameAcked` | 2 connections of one agent with 3 and 2 frames; or 2 and 1 and another agent's with 2; chunks of 2, one restart | interleaved handlers of overlapping connections; one agent's crash takes down the other's handlers |
| `alerting` | 3 invariants, `CorrelationsAreBroadcast`; `UniqueWhenServing`, `SettingsSurvive`, `ServesInTheEnd` | 3 calls, 2 keys, one switch of a rule; 2 servers, 2 rules, 3 old rows, a crash, a seed, an update | duplicates, disabled rules, stale answers, broadcasts; set-up together, cut anywhere |
| `worker_manager` | 3 invariants, `EveryCallEnds` | 2 collections of any kind, one exception, stop at any time | late answers, timeouts, dead workers |
| `log_monitor` | 2 invariants | 3 collections, 3 lines (6 units), one rotation, one restart | when a line is reported twice or never |
| `shared_metrics` | 2 invariants, `DumpReturns` | 2 writers with 2 fields, 4 accesses | exclusion, whole dumps, no hang |
| `messages` | `DecodedIsWhole`; 3 invariants | 3 frames of two types and two payloads, one lost connection; 2 agents, one address, threshold 2, window 2, 4 messages, ports of 1 | chunks cut at every byte; when a candidate is raised |
| `correlation_same_ip` | `FailuresFromSameIP`, **violated** | those of the workers | failures that name no address raise a candidate |
| `correlation_together` | `SpikedTogether`, **violated** | the same; workers take every value at once | an anomaly of values a window apart |
| `correlation_root` | `RootSessionIsEscalation`, **violated** | the same | a root session arrives as a login |
| `agent_runtime` | 2 invariants, `ShutdownExits` | 3 collections, 2 edits of the file, one SIGHUP | what the events add up to; intervals; the end of the process, whatever signals come |
| `live_updates` | 2 invariants, `Reconnects` | 3 kinds of writes, 2 pages, 2 queries, 2 writes, one loss, one render, 2 visits | why a page may be out of date; the browser's socket |

A type invariant is kept only where a proof needs it (`TcpClient.TypeOK`,
`SharedMetrics.TypeOK`, `Typed` of the other `_proofs` modules) and is proved
there.

*Are the bounds enough?* Each is the smallest at which the case in question
occurs, and usually one more. A queue of 2 overflows with the third frame, and
5 frames fill it, overflow it and still leave some to send; 3 connections allow
a failure before, during and after a flush. Two connections of an agent are an
old one and its replacement. The third frame of a connection is one that
follows another in a later chunk than the handshake. The properties of
collections relate a collection to one earlier one. Three lines let a line be
before, across and behind an offset; the journal's window of 50 lines is never
full. A dump and three writes let
both writers run before, during and after it. A frame of `messages` is six or nine
bytes, one payload looks like a header, and the cut can come at every byte. Four
messages at a threshold of 2 give a candidate, its reset, and one more; the code
treats 5 and 2 alike, as it counts with `>=`. Three collections are one whose
answer comes late and two that overlap. Three old rows of two rules have a duplicate with
two different settings. Two writes let one come before and one after a
query's read. The three kinds of writes are one whose message
reaches one of the two queries it changes, one that is announced and changes nothing, and
one of the page's own. Symmetry is used in `log_monitor` and `messages` only, runs
without liveness.

Two runs check two components each, which share no variable. In `messages` one moves
only while the other is in an initial state; in `alerting` the calls come in one of the
states in which the servers serve, and the servers start while there is no call. The
states of the two add up, and nothing of either is left out. In `tcp_server` the bound on
frames (`InBound`) restricts what agents send and no step of the server.

What the runs say beyond "it holds":

* *At most once.* A frame written to a socket is forgotten; ACKs are only logged.
  `ImplementsLink` is therefore an at-most-once link: what the network had not
  delivered when a connection broke is lost.
* *A server that ends.* `FailsOnlyBehindHandshake` states the only way telemetry
  can reject: its connection's handshake is still being written while a second
  chunk is handled. Then the process ends, for all agents.
* *Offline and online.* `GoneIsOffline` and `HeardIsOnline` say exactly when the
  two registries are right. The exceptions in them are real: a 'close' that
  overtakes its own socket's handlers, or a restart, leaves an agent online
  that is gone; the late 'close' of a replaced connection marks a connected agent
  offline until its next heartbeat. If the query of that 'close' is executed only
  after this heartbeat's, the agent is online in memory and offline in the table until
  the heartbeat after it (`overtaken`).
* *Unique alerts.* `createUniqueAlert` is unique for calls that do not overlap:
  `DuplicatesNeedOverlap`. The alert a caller gets may be resolved before the caller
  uses it, but an alert resolved before the call is never the answer
  (`ConditionHasAlert`): a condition that comes back gets a new alert.
* *A dead worker.* One metric worker that threw fails every later collection as
  a whole; `EveryCallEnds` shows that they still end and free the semaphore.
* *The log.* `RepeatNeedsReason` and `LossNeedsReason` list every way in which a
  line of the log is reported twice or not at all: a restart, a line read
  half-written, a rotation whose new file outgrew the old one or whose old file
  was not read to its end, and overlapping collections that are processed in
  another order than they read.  In the last case the older, shorter content
  looks like a rotation.  Nothing else makes the monitor lose or repeat a line of the
  file; the journal, asked whenever the file gave no event, reports lines of its own.
  This is about the monitor: an answer that comes after the request's 5 s timer
  is dropped by `WorkerManager` with the events of all monitors in it.
* *Framing.* No way of cutting the stream changes what is decoded, and no frame
  waits for bytes of the next one.
* *Correlation.* The windows use the time at which the *worker* takes the message,
  not that of the event, and are lost with a restart. In three places the code does
  not do what the repository says of it; each has a run that ends in a
  counterexample and a finding in `PROJECT.json`, and the properties that hold leave
  these cases open. A failed login that names no address counts for its *agent*, where
  `server/src/db/seed.ts:16` says "Five failed SSH logins from same IP"
  (`FailuresFromSameIP`). An anomaly joins the last CPU and the last memory value
  however far apart they were measured, where the alert itself says that they
  "spiked together" (`SpikedTogether`): `updatedAt` is written and never read. A
  session opened for root is listed among the escalations and yet arrives as a login,
  because `session opened` is tested first (`RootSessionIsEscalation`).
  Candidates for rules that are not seeded (`cross-server-correlation`,
  `process-anomaly-threshold`, `critical-security-event`) cannot be switched off.
* *Changes of a file.* `BeliefNeedsReason` names all the ways in which the server's
  picture of a file can differ from the file: an answer after the 5 s timer, or
  during the shutdown, takes its change with it for good; two overlapping collections
  may be handled or answered in another order than they read.
* *SIGHUP.* A reload with an invalid configuration ends the process. During
  `stop` it arms the intervals again; the process ends all the same.
* *Set-up.* Deduplication keeps the oldest row of a name, with that row's setting:
  a setting made on a younger duplicate goes with it. Another server or the seed
  script may insert between deduplication and index; the index then fails, the
  process ends, and the next start repairs it (`ServesInTheEnd`).
* *What a page shows.* `StaleNeedsReason` lists the reasons: nobody tells this query
  of such a write (agents that go offline, alerts resolved or rules switched by another
  browser, alerts of a threshold or a critical event, everything in the detail page),
  the message found no open socket, or it came during the query's first request.
  Nothing is requested anew after a reconnection.
* *The summary.* `offlineAgents` is a difference of two counts read one after the
  other and can be negative until the next request.
  Its two trends order minutes by their label of hours and minutes: the heartbeats are
  the first six labels of half an hour, not the last, and around midnight the
  labels do not follow the time. No property is stated of it.
* *A dump in shutdown.* `DumpReturns` needs its exception: a worker terminated
  while it writes leaves the lock taken, and a later dump never returns. The dump
  runs on the main thread, so SIGUSR2 between that moment and the exit leaves a
  process that only SIGKILL ends: the one exception of `ShutdownExits`.
* *Toasts.* A browser handles each message once (`HeardOnce`), but an alert has as many
  messages, and toasts, as there are candidates that find it open: the engine
  broadcasts whatever `createCorrelationAlert` returns.

### Fairness

* `TcpClient`: callbacks that are due run (start, 'connect', 'close', the reconnect
  timer). Sockets may fail at every stage, but the last of the bounded number
  of connections does not: liveness is about a network that works in the end.
* `TcpServer`: queries are executed, handlers resume, a rejection ends the process.
  Agents owe nothing.
* `AlertsService`: a call under way goes on. The operator and restarts owe nothing.
* `WorkerManager`: the main thread handles messages and timers. *No* fairness for
  workers: the timers alone must end a collection.
* `AgentRuntime`: `terminate` and the socket's end are done at some time
  (`WorkersStopped`, `ClientStopped`). Collections, signals and files owe nothing.
* `RuleSeed`: each server goes on to its next query and is started again when it ends,
  as `restart: unless-stopped` does. Crashes, seeds and updates are bounded.
* `LiveUpdates`: 'open', 'close' and the reconnect timer come. Losses are bounded.
  Nothing is owed by the queries: `StaleNeedsReason` is about states in which all of
  them have been answered.
* `SharedMetrics`: each thread inside read or write is scheduled. The number of
  accesses is bounded, as a worker writes once in a collection interval; a
  thread that finds the lock taken for ever by endless traffic is not a case of
  this program.

All of these are weak fairness: none of the actions needs to be taken against
being switched off again and again.

## 4. The proofs

All theorems hold for every value of the constants that satisfies the assumptions named
in the modules, and TLAPS checks every step.

**`TcpClient_proofs`.** `Typing`, `Ordering` (`NeverOvertakes`), `HandshakeLeads`
(`HandshakeFirst`), `QueueKeepsNewest` (`PendingIsNewest`), `NeverStalls`
(`OneLifeline`, `ConnectedIsFlushed`), `StopHolds` (`StopIsFinal`), `Refinement`
(`ImplementsLink`) and `FramesAreAccounted` (`EveryFrameAccounted`). The order of frames
is not inductive as it stands: a frame written directly is in order only because the
queue is then empty (`ConnectedIsFlushed`), a flush only because the queue is an
interval of production numbers that ends with the newest (`PendingIsNewest`) on a socket
that has carried nothing yet (`FreshInv`), and both only because sockets, 'close' events
and timers exclude one another (`SocketInv`, `OneLifeline`). `IInv` is the conjunction
of these; its control part is shown to be inductive first; the queue and the wire follow
by one lemma for each of the three things that touch them: a direct write, an enqueue
and a flush. The refinement maps `Telemetry` and `Heartbeat` to an offer, a delivery of
the network to `Open` or `Deliver`, and all other steps to stuttering. The account of
frames, `Accounted`, is shown on top of `IInv`: the frames written and those dropped are
disjoint, and together they are all that were produced before the queue, which holds the
rest. A flush that stopped half-way, or a full queue that lost any but its oldest frame,
would break it.

**`TcpServer_proofs`.** `AnnouncedTelemetryIsSaved` (`AnnouncedIsSaved`),
`HeartbeatsAreKnown` (`NeverUnknown`), `FailuresAwaitHandshake`
(`FailsOnlyBehindHandshake`), `GoneAgentsAreOffline` (`GoneIsOffline`) and
`HeardAgentsAreOnline` (`HeardIsOnline`), from one inductive invariant over the handlers
that are suspended at a query. `SavedFirst`: a handler past its insert has its frame in
the table. `Known`, `RowComing`, `HandshakeKept`: a connection on which anything was
read belongs to an agent known in memory, whose row exists or is on its way in a handler
of the same connection, and the socket keeps its agent's id once the upsert is behind
it, which is what makes 'close' mark the right agent. `OnlineHasSource`: whoever is online
has a connection in use, one cut by a restart or one whose 'close' came ahead of its
handlers, or the query that marks it offline is on its way. `ConfirmedOnline`: the same
in the other direction, up to the queries of a replaced connection that were executed
late. `Typed`, `TasksFit`, `TasksLive`, `Fresh` and `OwnId` tie the
handlers to their sockets. Before the proof TLC found the invariant to hold on both
instances of the runs.

**`AlertsService_proofs`.** `OpenAlertsBounded` (`DuplicatesNeedOverlap`),
`DisabledRulesAreQuiet` (`DisabledRuleIsQuiet`) and `AnswersAreCurrent`
(`ConditionHasAlert`). The number of open alerts alone is not inductive:
two calls that have found none will both insert. `InsertsCounted` therefore counts the
open alerts of a key together with the calls about to insert one; a call that begins
adds to neither, and one that finds no open alert knows the first number to be 0 and the
second to be at most the calls under way (`OverlapCounted`). For the second theorem, a
call beyond its first query was seen with its rule on (`PassedSeen`), and so is every
call under way while the rule is on (`EnabledSeen`). For the third, an answer was an
open alert when it was found or inserted, and `resolvedSince` records for every call in
progress what is resolved from then on (`Answered`); a call without an answer met its
rule off, which `DisabledSeen` says of every call that could.

*The rules* (`RuleSeed`, in the same module). `OnceWhenServing` (`UniqueWhenServing`)
and `Survival` (`SettingsSurvive`). That each rule is there once is not inductive: it
needs that the index, once created, keeps names unique (`IndexHolds`), that an INSERT of
a start comes only behind the index (`SeedAfterIndex`; the seed script does not, and may
insert duplicates, but only while there is no index, hence while nobody serves), and
that no later deduplication takes the last row of a name (`SeededWhenServing`). The last
rests on `Oldest`: a set of rows with one of a name has an oldest one of that name, by
the well-foundedness of the natural numbers. Assumed is only that the set of seeded
names is finite.

*The correlation workers* (`Correlation`, in the same module). `BruteForceTheorem`
(`BruteForceExact`), `AnomalyTheorem` (`AnomalyOfLastValues`) and `CrossServerTheorem`
(`CrossServerExact`). The properties compare what a worker raised with its whole
history, of which it remembers only a part. So the invariant `EngineInv` says what that
part is. An entry is *live* if no candidate has been raised for its key, agent or type
since. `failures[k]` and `eventWindow[type]` hold only live entries, and all of those
that the window still reaches (`KeepsFailures`, `KeepsWindow`); an older one may stay
until the next message of its key or type drops it. `state[a]` is high for a resource
exactly if its last live value is (`KeepsState`). Two facts make this inductive: an
entry that has left the window never comes back, as the clock does not run backwards,
and a decision once taken stays right, because what it counts lies before it
(`ExactStays`). `FailuresFailed`, `StateAfter` and `WindowEvent` are the three handlers
on any memory that keeps this promise; `FailedGrows`, `AgentGrows` and `TypeGrows` say
what a new entry leaves live: nothing if it raised a candidate, else what was and
itself. `SpreadMeansAnother` turns the code's "two agents in the window" into "one other
than this message's". The invariant knows exactly what each worker raises, also where
the properties leave it open. Assumed are the
kinds of the constants and `Window > 0` (5 minutes in the code): the code counts the
message it has just taken, the property what is younger than the window. TLC had found
`EngineInv` to hold on the instance of the run before it was proved.

**`Framing_proofs`.** `FrameRoundTrip`: `decodeSingleFrame` undoes `encodeFrame` for
every type that fits a byte and every payload whose length fits the field, by arithmetic
on the four bytes of the length (`LengthRoundTrip`) and the layout of the frame
(`EncodeLayout`). `StreamIsWhole` (`DecodedIsWhole`) follows for any chunks, frames and
lost connections. Its invariant says where each frame lies in the stream (`Layout`),
that the first ones are decoded (`InOrder`), and that the bytes the decoder works on, or
the caller keeps, are exactly those that have arrived beyond the frames decoded
(`Buffered`). The heart is `NextFrame`: once four bytes are left, they are the length of
the next frame, so that the loop takes its bytes and no others, and ends only when some
of them are missing.

**`LiveUpdates_proofs`.** `MessagesAreHeardOnce` (`HeardOnce`) and `StalenessHasAReason`
(`StaleNeedsReason`). The first needs that there is only ever one socket or one timer
that will make the next (`OneSocket`), through renders that clean up and losses that
reconnect: two open sockets would hear a message twice. The second needs that a write
the page was told of is known to each of its queries (`Informed`): its data has the
write, its request will, or is yet to be read by the server, or its page is not shown
and will request it - with the one exception that `early` records, an invalidation that
meets a first request, or one of a page that is not shown.

**`SharedMetrics_proofs`.** `Typing`, `Exclusion` (`LockHasOneHolder`) and `Wholeness`
(`DumpIsWhole`). Whole dumps need an invariant over a write in progress: fields it has
passed carry its value, those left are the previous collection's, other workers' are
whole, and the time is the latest unless some writer has yet to stamp it. A worker
terminated inside the lock is why the invariant speaks of `Holds` (inside, or killed
there): nobody reads after that.

**`SecurityMonitors_proofs`.** `RepeatTheorem` (`RepeatNeedsReason`), `LossTheorem`
(`LossNeedsReason`), `IntervalsTheorem` (`IntervalsAccounted`) and `BeliefTheorem`
(`BeliefNeedsReason`).

*The log* (`LogMonitor`). The invariant `IInv` is about what was read: every content
that is still to be processed is a stretch of the log that begins with a line and ends,
for a file rotated away, before the next begins (`Files`). As long as reads are
processed in their order and no new file outgrew the old one, the offset is the length
of the newest content (`OffsetOfLatest`), so the delta is exactly what lies behind it: a
line is in two deltas only if one of them cut it (`TornKnown`, `FileOnce`), and in the
journal's events once for each life of the monitor (`JournalOnce`). `PastAccounted` is
the other half: a line behind the offset, or rotated away, was reported, was cut, or
lies in what was passed over. It must speak of rotated lines too, because a restart
forgets what the newest content was.

*The intervals* (`AgentRuntime`). That one interval of each kind runs is not inductive:
a reload clears the handles in the fields, not the intervals. `Intervals` adds that the
fields hold just the handles of those that run.

*The file* (`FileIntegrity` inside `AgentRuntime`). `FileInv` relates the monitor's hash
to the events: the hash is that of the collection handled last among those that could
read the file (`HashIsLast`), and the last change reported leads to its content, or
there was none and it is still the content first seen (`Traced`); an event leads to what
its own collection has read (`HandledKnown`). What the server was told then differs only
by answers that are on their way, were lost or were overtaken.

**`WorkerManager_proofs`.** `Balance` (`SemaphoreBalanced`), `Freshness`
(`SentIsWholeAndFresh`) and `Overlap` (`OverlapNeedsTimeout`). The semaphore is balanced
because at most one collection of metrics waits (`Balanced`), hence no later one begins
while an earlier one does (`OneWaits`); what is sent is fresh because an answer is only
taken by its own call (`OwnAnswers`). Overlap needs both, and that a request is in one
place at a time - on its way, with the worker, or answered (`OnePlace`): a call whose
request a worker still handles has not been sent, and does not wait if a later one
began, so it failed.

**Only model-checked:** all liveness (`EveryFrameLeaves`, `EveryFrameAcked`,
`CorrelationsAreBroadcast`, `EveryCallEnds`, `DumpReturns`, `ShutdownExits`,
`ServesInTheEnd`, `Reconnects`): that a step is possible (ENABLED) and that it will be
taken are beyond the prover. Every invariant and every action property of the runs that
pass, and the refinement of `TelemetryLink`, is a theorem; the three runs that end in a
counterexample have no theorem.

## 5. Assumptions and omissions

* The network delivers a prefix of what was written to a connection, at any
  later time, also after the client has closed it. That frames survive chunks cut
  anywhere is `Framing`; the other modules take whole frames.
* A query that the server had sent when its process ended is not executed.
  Constraints of the tables other than the foreign key to `agents` cannot fail
  in these paths.
* An alert's rule, agent and message are one value, its key. A threshold may be
  exceeded, or a candidate be found, at any time.
* `LogMonitor` has one file. The code tries `auth.log` and then `secure` (`syslog` and
  then `messages`), each with an offset of its own, and takes the first that can be
  read: the model is of a host that has one of the two, as distributions do, and not of
  one where the first becomes unreadable and the second takes over. A log
  file is read at one moment. Two identical lines of the journal, which
  the monitor takes for one, are one line here.
* In `SharedMetrics` the order of the fields within an access is left open.
* Two seeded names differ, and PostgreSQL executes each query of the set-up as one
  step. Two `CREATE ... IF NOT EXISTS` at the same moment are not in conflict.
* A browser calls `onmessage` only for an open socket. A write and its broadcast are
  two steps, and a query's answer is as old as its first read.
* In `FileIntegrity` a content stands for its hash, and one file for all of them.
* Not modelled: rendering, filters and the live feed of the pages, logging, TLS, parsing of
  `/proc` and of single environment variables, the collectors' arithmetic, JSON,
  schemas, read-only queries. `PROJECT.json` has the reason for each component.

## 6. Plan

Done: the agent's connection, framing, the receiver, alerts, correlation,
collections, shared memory, log files, file integrity, runtime and signals, set-up,
live updates; of all of these, every safety property as a theorem. What could follow:

1. `LogMonitor` under `WorkerManager`'s timers, as `FileIntegrity` already is: a late
   answer takes lines with it.
2. The reads of the summary, query by query.
3. Collectors: counters between two samples, as pure functions.
