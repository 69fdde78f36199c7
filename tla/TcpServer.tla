---- MODULE TcpServer ----
(***************************************************************************)
(* The server's receiver: packages/server/src/receiver/tcp-server.ts, with *)
(* ConnectionManager (in memory) and AgentsService (the agents table).     *)
(*                                                                         *)
(* 'data' handlers are async.  Each chunk starts a task that handles its   *)
(* frames one after another and gives up the event loop at every await;    *)
(* the tasks of one socket interleave with each other and with 'close'.    *)
(* The queries of different tasks go through a connection pool, so the     *)
(* database executes them in any order.  A query that fails rejects the    *)
(* handler, nothing catches it, and Node ends the process; the container   *)
(* restarts it with an empty ConnectionManager and the same database.      *)
(*                                                                         *)
(* Metrics and security events take the same steps (save, alerts, engine,  *)
(* broadcast, ack) and are both "telemetry" here.                          *)
(***************************************************************************)
EXTENDS Naturals, Sequences

CONSTANTS
  Agents,
  Sockets,      \* connections accepted over time (bound)
  Owner,        \* Owner[s]: the agent at the other end of s
  MaxFrames,    \* frames sent on a connection (bound)
  MaxChunk,     \* frames completed by one chunk (bound)
  MaxRestarts,  \* restarts that no rejection caused (bound)
  NoAgent

ASSUME OwnerAssumption == Owner \in [Sockets -> Agents]
ASSUME BoundAssumption ==
  /\ MaxFrames \in Nat
  /\ MaxChunk \in Nat \ {0}
  /\ MaxRestarts \in Nat
ASSUME NoAgentAssumption == NoAgent \notin Agents

VARIABLES
  agents,          \* ConnectionManager: agentId -> status, "unknown" if unmapped
  rows,            \* agents table: agentId -> status, "absent" if no row
  conn,            \* state of each socket; "cut" by a restart
  activeAgentId,   \* the per-socket variable of handleConnection
  read,            \* frames of each socket decoded so far
  tasks,           \* 'data' handlers that have not returned
  offlineQueries,  \* sockets whose 'close' handler awaits markOffline
  saved,           \* telemetry frames inserted in the database
  broadcast,       \* telemetry frames sent to the dashboards
  acked,           \* frames acknowledged to the agent
  restarts,
  raced,           \* history: sockets closed while a task of theirs ran
  strangers,       \* history: heartbeats acknowledged "Unknown agent"
  confirmed,       \* history: agents heard from since a socket of theirs closed
  overtaken        \* history: of these, the ones a late markOffline query came after

historyVars == <<raced, strangers, confirmed, overtaken>>
outputVars == <<saved, broadcast, acked>>
vars == <<agents, rows, conn, activeAgentId, read, tasks, offlineQueries,
          outputVars, restarts, historyVars>>

(* A connection carries the handshake, then heartbeats and telemetry. *)
Kinds(n) == IF n = 1 THEN {"handshake"} ELSE {"heartbeat", "telemetry"}
Frame == [n : 1..MaxFrames, kind : {"handshake", "heartbeat", "telemetry"}]

(* The first query of a frame's branch in the 'data' handler. *)
FirstQuery(kind) ==
  CASE kind = "handshake" -> "upsert"
    [] kind = "heartbeat" -> "touch"
    [] kind = "telemetry" -> "save"

NewTask(s, frames) ==
  [sock |-> s, frames |-> frames, query |-> FirstQuery(Head(frames).kind), outcome |-> "pending"]

TasksOf(s) == {t \in tasks : t.sock = s}

Init ==
  /\ agents = [a \in Agents |-> "unknown"]
  /\ rows = [a \in Agents |-> "absent"]
  /\ conn = [s \in Sockets |-> "idle"]
  /\ activeAgentId = [s \in Sockets |-> NoAgent]
  /\ read = [s \in Sockets |-> 0]
  /\ tasks = {}
  /\ offlineQueries = {}
  /\ saved = {}
  /\ broadcast = {}
  /\ acked = {}
  /\ restarts = 0
  /\ raced = {}
  /\ strangers = {}
  /\ confirmed = {}
  /\ overtaken = {}

----
(* handleConnection: a new socket, with its own activeAgentId. *)
Accept(s) ==
  /\ conn[s] = "idle"
  /\ conn' = [conn EXCEPT ![s] = "open"]
  /\ UNCHANGED <<agents, rows, activeAgentId, read, tasks, offlineQueries,
                 outputVars, restarts, historyVars>>

(* The chunks the next 'data' event of s may complete. *)
Chunks(s) ==
  {c \in UNION {[1..k -> Frame] : k \in 1..MaxChunk} :
     \A i \in DOMAIN c : c[i].n = read[s] + i /\ c[i].kind \in Kinds(c[i].n)}

\* Mutant: the handshake is kept in the database only.
RegisterInDatabaseOnly(a) == UNCHANGED agents

\* Mutant: a heartbeat refreshes lastHeartbeat but not the status.
MarkHeartbeatTimeOnly(a) == UNCHANGED agents

(* ConnectionManager.registerHandshake, markHeartbeat and markOffline. *)
RegisterHandshake(a) == agents' = [agents EXCEPT ![a] = "online"]

MarkHeartbeat(a) ==
  agents' = IF agents[a] = "unknown" THEN agents ELSE [agents EXCEPT ![a] = "online"]

MarkOffline(a) ==
  agents' = IF agents[a] = "unknown" THEN agents ELSE [agents EXCEPT ![a] = "offline"]

(* What a frame's branch does before its first await. *)
BeginFrame(s, f) ==
  LET a == Owner[s]
  IN  /\ CASE f.kind = "handshake" -> RegisterHandshake(a)
           [] f.kind = "heartbeat" -> MarkHeartbeat(a)
           [] f.kind = "telemetry" -> UNCHANGED agents
      /\ strangers' = IF f.kind = "heartbeat" /\ agents[a] = "unknown"
                      THEN strangers \union {<<s, f>>} ELSE strangers
      /\ IF f.kind = "telemetry"
         THEN UNCHANGED <<confirmed, overtaken>>
         ELSE confirmed' = confirmed \union {a} /\ overtaken' = overtaken \ {a}

(* 'data': decode the chunk and start handling it. *)
OnData(s) ==
  /\ conn[s] = "open"
  /\ \E c \in Chunks(s) :
       /\ read' = [read EXCEPT ![s] = @ + Len(c)]
       /\ tasks' = tasks \union {NewTask(s, c)}
       /\ BeginFrame(s, Head(c))
  /\ UNCHANGED <<rows, conn, activeAgentId, offlineQueries, outputVars, restarts, raced>>

(* metrics and security_events have a foreign key to agents: saving fails while
   the agent has no row. *)
Fails(t) == t.query = "save" /\ rows[Owner[t.sock]] = "absent"

(* saveMetric and saveEvent *)
Save(t) ==
  saved' = IF t.query = "save" /\ ~Fails(t) THEN saved \union {<<t.sock, Head(t.frames)>>} ELSE saved

\* Mutants: a failed insert is caught and the handler goes on; the handshake
\* updates the agent's row and does not insert one.
QueryExecutesCaught(t) ==
  /\ t.outcome = "pending"
  /\ LET a == Owner[t.sock]
     IN  /\ tasks' = (tasks \ {t}) \union {[t EXCEPT !.outcome = "done"]}
         /\ rows' = IF t.query = "upsert" \/ (t.query = "touch" /\ rows[a] # "absent")
                    THEN [rows EXCEPT ![a] = "online"] ELSE rows
         /\ Save(t)
  /\ UNCHANGED <<agents, conn, activeAgentId, read, offlineQueries, broadcast, acked,
                 restarts, historyVars>>

QueryExecutesUpdate(t) ==
  /\ t.outcome = "pending"
  /\ LET a == Owner[t.sock]
     IN  /\ tasks' = (tasks \ {t}) \union {[t EXCEPT !.outcome = IF Fails(t) THEN "failed" ELSE "done"]}
         /\ rows' = IF t.query \in {"upsert", "touch"} /\ rows[a] # "absent"
                    THEN [rows EXCEPT ![a] = "online"] ELSE rows
         /\ Save(t)
  /\ UNCHANGED <<agents, conn, activeAgentId, read, offlineQueries, broadcast, acked,
                 restarts, historyVars>>

(* The database executes a task's query. *)
QueryExecutes(t) ==
  /\ t.outcome = "pending"
  /\ LET a == Owner[t.sock]
     IN  /\ tasks' = (tasks \ {t}) \union {[t EXCEPT !.outcome = IF Fails(t) THEN "failed" ELSE "done"]}
         /\ rows' = IF t.query = "upsert" \/ (t.query = "touch" /\ rows[a] # "absent")
                    THEN [rows EXCEPT ![a] = "online"] ELSE rows
         /\ Save(t)
  /\ UNCHANGED <<agents, conn, activeAgentId, read, offlineQueries, broadcast, acked,
                 restarts, historyVars>>

(* The handler resumes after saving: it goes on to the alerts. *)
CheckAlerts(t) ==
  /\ t.outcome = "done"
  /\ t.query = "save"
  /\ tasks' = (tasks \ {t}) \union {[t EXCEPT !.query = "alerts", !.outcome = "pending"]}
  /\ UNCHANGED <<agents, rows, conn, activeAgentId, read, offlineQueries,
                 outputVars, restarts, historyVars>>

\* Mutant: a frame ends the handler.
ContinueReturns(t) ==
  /\ tasks' = tasks \ {t}
  /\ UNCHANGED <<agents, strangers, confirmed, overtaken>>

(* The loop over the frames of a chunk, after the first of them. *)
Continue(t) ==
  LET rest == Tail(t.frames)
  IN  IF rest = <<>>
      THEN tasks' = tasks \ {t} /\ UNCHANGED <<agents, strangers, confirmed, overtaken>>
      ELSE tasks' = (tasks \ {t}) \union {NewTask(t.sock, rest)} /\ BeginFrame(t.sock, Head(rest))

(* The handler resumes after the last await of a frame, finishes the frame,
   and runs up to the first await of the next one. *)
FinishFrame(t) ==
  /\ t.outcome = "done"
  /\ t.query # "save"
  /\ LET s == t.sock
         f == Head(t.frames)
     IN  /\ activeAgentId' = IF f.kind = "handshake"
                             THEN [activeAgentId EXCEPT ![s] = Owner[s]] ELSE activeAgentId
         /\ broadcast' = IF f.kind = "telemetry" THEN broadcast \union {<<s, f>>} ELSE broadcast
         /\ acked' = acked \union {<<s, f>>}
         /\ Continue(t)
  /\ UNCHANGED <<rows, conn, read, offlineQueries, saved, restarts, raced>>

\* Mutant: 'close' updates the ConnectionManager only.
OnCloseInMemory(s) ==
  /\ conn[s] = "open"
  /\ conn' = [conn EXCEPT ![s] = "closed"]
  /\ IF activeAgentId[s] # NoAgent
     THEN /\ MarkOffline(activeAgentId[s])
          /\ confirmed' = confirmed \ {activeAgentId[s]}
          /\ overtaken' = overtaken \ {activeAgentId[s]}
     ELSE UNCHANGED <<agents, confirmed, overtaken>>
  /\ raced' = IF TasksOf(s) # {} THEN raced \union {s} ELSE raced
  /\ UNCHANGED <<rows, activeAgentId, read, tasks, offlineQueries, outputVars, restarts, strangers>>

(* 'close': only an agent whose handshake finished is marked offline. *)
OnClose(s) ==
  /\ conn[s] = "open"
  /\ conn' = [conn EXCEPT ![s] = "closed"]
  /\ IF activeAgentId[s] # NoAgent
     THEN /\ MarkOffline(activeAgentId[s])
          /\ offlineQueries' = offlineQueries \union {s}
          /\ confirmed' = confirmed \ {activeAgentId[s]}
          /\ overtaken' = overtaken \ {activeAgentId[s]}
     ELSE UNCHANGED <<agents, offlineQueries, confirmed, overtaken>>
  /\ raced' = IF TasksOf(s) # {} THEN raced \union {s} ELSE raced
  /\ UNCHANGED <<rows, activeAgentId, read, tasks, outputVars, restarts, strangers>>

(* The database executes markOffline. *)
MarkOfflineExecutes(s) ==
  /\ s \in offlineQueries
  /\ offlineQueries' = offlineQueries \ {s}
  /\ rows' = [rows EXCEPT ![Owner[s]] = IF @ = "absent" THEN @ ELSE "offline"]
  /\ overtaken' = IF Owner[s] \in confirmed THEN overtaken \union {Owner[s]} ELSE overtaken
  /\ UNCHANGED <<agents, conn, activeAgentId, read, tasks, outputVars, restarts,
                 raced, strangers, confirmed>>

(* The process ends and starts again: the database is all that is left. *)
Reboot ==
  /\ agents' = [a \in Agents |-> "unknown"]
  /\ conn' = [s \in Sockets |->
                IF conn[s] = "open" \/ TasksOf(s) # {} \/ s \in offlineQueries
                THEN "cut" ELSE conn[s]]
  /\ activeAgentId' = [s \in Sockets |-> NoAgent]
  /\ tasks' = {}
  /\ offlineQueries' = {}
  /\ confirmed' = {}
  /\ overtaken' = {}
  /\ UNCHANGED <<rows, read, outputVars, raced, strangers>>

(* An unhandled rejection ends the process. *)
Crash ==
  /\ \E t \in tasks : t.outcome = "failed"
  /\ Reboot
  /\ UNCHANGED restarts

Restart ==
  /\ restarts < MaxRestarts
  /\ restarts' = restarts + 1
  /\ Reboot

Next ==
  \/ \E s \in Sockets : Accept(s) \/ OnData(s) \/ OnClose(s) \/ MarkOfflineExecutes(s)
  \/ \E t \in tasks : QueryExecutes(t) \/ CheckAlerts(t) \/ FinishFrame(t)
  \/ Crash
  \/ Restart

Spec == Init /\ [][Next]_vars

(* The event loop and the database keep serving the tasks under way, and a
   rejection does end the process.  Agents and restarts owe nothing. *)
ServerWorks ==
  \/ \E t \in tasks : QueryExecutes(t) \/ CheckAlerts(t) \/ FinishFrame(t)
  \/ Crash

FairSpec == Spec /\ WF_vars(ServerWorks)

----
(* Telemetry the dashboards or the agent were told of is in the database,
   whatever was restarted since. *)
AnnouncedIsSaved ==
  /\ broadcast \subseteq saved
  /\ \A m \in acked : m[2].kind = "telemetry" => m \in broadcast

(* The receiver never answers "Unknown agent": a connection's handshake is
   registered before any later chunk is looked at, even though its row is
   written later, and a restart cuts every connection. *)
NeverUnknown == strangers = {}

(* Telemetry can fail for want of the agent's row, and so end the process,
   only while the handshake of its own connection is still being written. *)
FailsOnlyBehindHandshake ==
  \A t \in tasks : t.query = "save" /\ rows[Owner[t.sock]] = "absent" =>
    \E u \in TasksOf(t.sock) : u.query = "upsert" /\ u.outcome = "pending"

OfflinePending(a) == \E s \in offlineQueries : Owner[s] = a

Settled(a) ==
  /\ \A t \in tasks : Owner[t.sock] # a
  /\ ~OfflinePending(a)

(* Once all is settled, an agent without an open connection is offline, in
   memory and in the database, unless a restart or a 'close' that came before
   the handlers of its socket had finished took one of its connections. *)
GoneIsOffline ==
  \A a \in Agents :
    /\ Settled(a)
    /\ \A s \in Sockets : Owner[s] = a => conn[s] \in {"idle", "closed"} /\ s \notin raced
    => rows[a] # "online" /\ agents[a] # "online"

(* Once all is settled, an agent heard from since the last 'close' that marked
   it offline is online in memory, and in the database too, unless the query of
   such a 'close', of a connection that was replaced, was executed after the
   last handshake or heartbeat came in: then the row says "offline" until the
   next one. *)
HeardIsOnline ==
  \A a \in Agents :
    Settled(a) /\ a \in confirmed =>
      agents[a] = "online" /\ (rows[a] = "online" \/ a \in overtaken)

(* Every frame read is acknowledged, unless the process went down: what was
   acknowledged or cut stays so, so that each time there is nothing left over,
   nothing read before is ever missing. *)
EveryFrameAcked ==
  []<>(\A s \in Sockets : \A n \in 1..read[s] :
         conn[s] = "cut" \/ \E m \in acked : m[1] = s /\ m[2].n = n)
====
