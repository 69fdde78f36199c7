---- MODULE Correlation ----
(***************************************************************************)
(* From a line of a log to a correlation alert: parseLines of the agent's  *)
(* two log monitors, the engine's ports and the three correlation workers  *)
(* (server/src/correlation).                                               *)
(*                                                                         *)
(* The engine posts each event to two workers and each metric to a third.  *)
(* Every port is a queue, and a worker looks at the clock when it takes a  *)
(* message, not at the time the message is about.  How a line reaches the  *)
(* engine is LogMonitor, TcpClient and TcpServer; what becomes of a         *)
(* candidate is AlertsService.                                             *)
(***************************************************************************)
EXTENDS Integers, Sequences, FiniteSets

CONSTANTS
  Agents,
  Addresses,     \* addresses that logins come from
  NoAddress,     \* a line that names no address
  Lines,         \* lines of logs
  Metrics,       \* metrics, with whether usagePercent is above 85
  Threshold,     \* failed logins that make a candidate (5 in the code)
  Window,        \* length of the windows (5 minutes in the code)
  MaxTime,       \* (bound)
  MaxMessages,   \* (bound)
  MaxQueued      \* messages waiting in a port (bound)

(* What parseLines looks for: "failed" is "failed password", "authentication
   failure" or "invalid user", "accepted" is "accepted password" or "accepted
   publickey", "sudo" is "sudo:" or "COMMAND=", "trouble" is any word of
   syslog.monitor.ts. *)
Patterns == {"failed", "accepted", "session opened", "session opened for user root",
             "sudo", "disconnected from", "trouble"}

ASSUME LinesAssumption ==
  /\ Lines \subseteq [log : {"auth", "syslog"}, matches : SUBSET Patterns,
                      from : Addresses \union {NoAddress}]
  /\ \A l \in Lines : "session opened for user root" \in l.matches
                        => "session opened" \in l.matches
ASSUME MetricsAssumption ==
  Metrics \subseteq [metricType : {"cpu", "memory", "disk"}, high : BOOLEAN]
ASSUME NumberAssumption ==
  /\ Threshold \in Nat /\ Window \in Nat \ {0}
  /\ MaxTime \in Nat /\ MaxMessages \in Nat /\ MaxQueued \in Nat
ASSUME AddressesAssumption == NoAddress \notin Addresses /\ Addresses \intersect Agents = {}

VARIABLES
  now,
  posted,       \* messages posted so far
  ports,        \* the engine's queue to each worker
  failures,     \* brute-force worker: times of failed logins by key; equal times
                \* are told apart by the number of the message
  state,        \* anomaly worker: which of cpu and memory are above 85
  eventWindow,  \* cross-server worker: recent events by type, as a set: only who
                \* and when is ever asked of them
  taken         \* history: what each worker took, when, and whether it
                \* posted a candidate to the engine

correlationVars == <<now, posted, ports, failures, state, eventWindow, taken>>

Workers == {"bruteForce", "anomaly", "crossServer"}
Windowed == {"auth.login_failed", "auth.login_succeeded", "auth.ssh_disconnected",
             "system.service_failed"}

Matches(l, patterns) == l.matches \intersect patterns # {}

(* parseLines of the syslog monitor *)
SyslogType(l) == IF Matches(l, {"trouble"}) THEN {"system.service_failed"} ELSE {}

(* parseLines: the first test that matches names the event, if any does. *)
EventType(l) ==
  IF l.log = "syslog" THEN SyslogType(l)
  ELSE IF Matches(l, {"failed"}) THEN {"auth.login_failed"}
  ELSE IF Matches(l, {"accepted", "session opened"}) THEN {"auth.login_succeeded"}
  ELSE IF Matches(l, {"sudo", "session opened for user root"}) THEN {"auth.privilege_escalation"}
  ELSE IF Matches(l, {"disconnected from"}) THEN {"auth.ssh_disconnected"}
  ELSE {}

Event(a, l, type) == [agentId |-> a, eventType |-> type, line |-> l]

CorrelationInit ==
  /\ now = 0
  /\ posted = 0
  /\ ports = [w \in Workers |-> <<>>]
  /\ failures = [k \in Addresses \union Agents |-> {}]
  /\ state = [a \in Agents |-> {}]
  /\ eventWindow = [type \in Windowed |-> {}]
  /\ taken = [w \in Workers |-> <<>>]

Tick == now < MaxTime /\ now' = now + 1 /\ UNCHANGED <<posted, ports, failures, state, eventWindow, taken>>

CanPost(ws) ==
  posted < MaxMessages /\ \A w \in ws : Len(ports[w]) < MaxQueued

(* A monitor reports a line and processEvent posts the event. *)
ProcessEvent(a, l) ==
  /\ CanPost({"bruteForce", "crossServer"})
  /\ \E type \in EventType(l) :
       ports' = [w \in Workers |-> IF w = "anomaly" THEN ports[w]
                                   ELSE Append(ports[w], Event(a, l, type))]
  /\ posted' = posted + 1
  /\ UNCHANGED <<now, failures, state, eventWindow, taken>>

ProcessMetric(a, m) ==
  /\ CanPost({"anomaly"})
  /\ ports' = [ports EXCEPT !["anomaly"] =
                 Append(@, [agentId |-> a, metricType |-> m.metricType, high |-> m.high])]
  /\ posted' = posted + 1
  /\ UNCHANGED <<now, failures, state, eventWindow, taken>>

(* The handler of worker w's port has run for its first message. *)
Took(w, raised) ==
  /\ ports' = [ports EXCEPT ![w] = Tail(@)]
  /\ taken' = [taken EXCEPT ![w] = Append(@, [msg |-> Head(ports[w]), at |-> now, raised |-> raised])]
  /\ UNCHANGED <<now, posted>>

----
(* brute-force.worker.ts *)
Key(m) == IF m.line.from = NoAddress THEN m.agentId ELSE m.line.from

\* Mutant: the end of the window belongs to it.
RecentFailuresInclusive(k) == {f \in failures[k] : now - f.at <= Window}

RecentFailures(k) == {f \in failures[k] : now - f.at < Window}

BruteForce ==
  /\ ports["bruteForce"] # <<>>
  /\ LET m == Head(ports["bruteForce"])
         recent == RecentFailures(Key(m))
                     \union {[nr |-> Len(taken["bruteForce"]) + 1, at |-> now]}
         raise == Cardinality(recent) >= Threshold
     IN IF m.eventType # "auth.login_failed"
        THEN Took("bruteForce", FALSE) /\ UNCHANGED failures
        ELSE /\ Took("bruteForce", raise)
             /\ failures' = [failures EXCEPT ![Key(m)] = IF raise THEN {} ELSE recent]
  /\ UNCHANGED <<state, eventWindow>>

----
(* anomaly.worker.ts.  A value that is missing counts as 0, like one that is
   not above 85. *)
\* Mutant: a value that has gone down is not taken over.
AfterMetricMax(m) ==
  IF m.metricType \in {"cpu", "memory"} /\ m.high THEN state[m.agentId] \union {m.metricType}
  ELSE state[m.agentId]

AfterMetric(m) ==
  IF m.metricType \notin {"cpu", "memory"} THEN state[m.agentId]
  ELSE IF m.high THEN state[m.agentId] \union {m.metricType}
  ELSE state[m.agentId] \ {m.metricType}

Anomaly ==
  /\ ports["anomaly"] # <<>>
  /\ LET m == Head(ports["anomaly"])
         raise == AfterMetric(m) = {"cpu", "memory"}
     IN /\ Took("anomaly", raise)
        /\ state' = [state EXCEPT ![m.agentId] = IF raise THEN {} ELSE AfterMetric(m)]
  /\ UNCHANGED <<failures, eventWindow>>

----
(* cross-server.worker.ts *)
RecentEvents(type) == {e \in eventWindow[type] : now - e.occurredAt < Window}

AffectedAgents(recent) == {e.agentId : e \in recent}

\* Mutant: the events are counted, not their agents.
IsSpreadOfEvents(recent) == Cardinality(recent) >= 2

IsSpread(recent) == Cardinality(AffectedAgents(recent)) >= 2

CrossServer ==
  /\ ports["crossServer"] # <<>>
  /\ LET m == Head(ports["crossServer"])
         recent == RecentEvents(m.eventType) \union {[agentId |-> m.agentId, occurredAt |-> now]}
         raise == IsSpread(recent)
     IN IF m.eventType = "auth.privilege_escalation"
        THEN Took("crossServer", TRUE) /\ UNCHANGED eventWindow
        ELSE /\ Took("crossServer", raise)
             /\ eventWindow' = [eventWindow EXCEPT ![m.eventType] = IF raise THEN {} ELSE recent]
  /\ UNCHANGED <<failures, state>>

CorrelationNext ==
  \/ Tick
  \/ \E a \in Agents, l \in Lines : ProcessEvent(a, l)
  \/ \E a \in Agents, m \in Metrics : ProcessMetric(a, m)
  \/ BruteForce
  \/ Anomaly
  \/ CrossServer

CorrelationSpec == CorrelationInit /\ [][CorrelationNext]_correlationVars

----
(* The entries of worker w's history up to the i-th that are like it and that
   no candidate raised before it has used up. *)
Unspent(w, i, Like(_, _)) ==
  LET h == taken[w]
  IN {j \in 1..i : /\ Like(h[j], h[i])
                   /\ \A k \in j..(i - 1) : ~(h[k].raised /\ Like(h[k], h[i]))}

InWindow(w, i, js) == {j \in js : taken[w][i].at - taken[w][j].at < Window}

(* Of failed logins that name their address, a candidate for brute force is
   raised by exactly those that are, within the window and without those of an
   earlier candidate, the Threshold-th of their address. *)
BruteForceExact ==
  \A i \in DOMAIN taken["bruteForce"] :
    LET e == taken["bruteForce"][i]
        Like(x, y) ==
          x.msg.eventType = "auth.login_failed" /\ x.msg.line.from = y.msg.line.from
    IN e.msg.line.from # NoAddress =>
         (e.raised <=>
            /\ e.msg.eventType = "auth.login_failed"
            /\ Cardinality(InWindow("bruteForce", i, Unspent("bruteForce", i, Like))) >= Threshold)

(* A resource anomaly is raised only when the last CPU value and the last memory
   value of one agent since its last anomaly are both high, and always when both
   were taken within the window: a value that has gone down again never counts,
   and one that is still up is never forgotten. *)
AnomalyOfLastValues ==
  \A i \in DOMAIN taken["anomaly"] :
    LET h == taken["anomaly"]
        Like(x, y) == x.msg.agentId = y.msg.agentId
        Of(type) == {j \in Unspent("anomaly", i, Like) : h[j].msg.metricType = type}
        HighLast(type) == {j \in Of(type) : h[j].msg.high /\ \A k \in Of(type) : k <= j}
        Prompt(type) == InWindow("anomaly", i, HighLast(type))
    IN /\ h[i].raised => HighLast("cpu") # {} /\ HighLast("memory") # {}
       /\ Prompt("cpu") # {} /\ Prompt("memory") # {} => h[i].raised

(* An escalation raises a candidate at once.  Any other event does exactly when a
   second agent has an event of the same type within the window, not counting
   events of an earlier candidate; repeated events of one agent never do. *)
CrossServerExact ==
  \A i \in DOMAIN taken["crossServer"] :
    LET e == taken["crossServer"][i]
        Like(x, y) == x.msg.eventType = y.msg.eventType
        Seen == InWindow("crossServer", i, Unspent("crossServer", i, Like))
    IN e.raised <=>
         \/ e.msg.eventType = "auth.privilege_escalation"
         \/ \E j \in Seen : taken["crossServer"][j].msg.agentId # e.msg.agentId

----
(* What the repository's texts say of the candidates, and the code does not do:
   each is checked by a run that finds it violated. *)

(* "Five failed SSH logins from same IP" (seed.ts:16): behind every candidate for
   brute force there are Threshold failed logins from one address within the
   window. *)
FailuresFromSameIP ==
  \A i \in DOMAIN taken["bruteForce"] :
    taken["bruteForce"][i].raised =>
      \E ip \in Addresses :
        Cardinality({j \in InWindow("bruteForce", i, 1..i) :
                       /\ taken["bruteForce"][j].msg.eventType = "auth.login_failed"
                       /\ taken["bruteForce"][j].msg.line.from = ip}) >= Threshold

(* "CPU and memory spiked together on ..." (anomaly.worker.ts:45): behind every
   resource anomaly there are a high CPU value and a high memory value of its
   agent that were taken less than a window apart. *)
SpikedTogether ==
  \A i \in DOMAIN taken["anomaly"] :
    LET h == taken["anomaly"]
        High(type) == {j \in 1..i : /\ h[j].msg.agentId = h[i].msg.agentId
                                    /\ h[j].msg.metricType = type /\ h[j].msg.high}
    IN h[i].raised =>
         \E j \in High("cpu"), k \in High("memory") :
           h[j].at - h[k].at < Window /\ h[k].at - h[j].at < Window

(* "session opened for user root" is one of the patterns of a privilege
   escalation (auth-log.monitor.ts:131): a line of auth.log that has it, and is
   no failed login, arrives as an escalation. *)
RootSessionIsEscalation ==
  \A i \in DOMAIN taken["crossServer"] :
    LET m == taken["crossServer"][i].msg
    IN /\ m.line.log = "auth"
       /\ "session opened for user root" \in m.line.matches /\ "failed" \notin m.line.matches
       => m.eventType = "auth.privilege_escalation"
====
