---- MODULE LiveUpdates ----
(***************************************************************************)
(* What a dashboard shows and how it learns that this has changed: the     *)
(* server's WebSocketHub (server/src/websocket), the browser's             *)
(* useWebSocket and LiveUpdatesBridge, and the queries of the pages        *)
(* (dashboard/src), kept by react-query.                                   *)
(*                                                                         *)
(* The server's writes are a log; a query's answer is current up to the    *)
(* place in the log where its first read came.  Some writes are announced  *)
(* to the sockets that are open at the time, and so is an open alert that  *)
(* is found again, which stands in the log as a write that changes no      *)
(* answer.  The effect of useWebSocket runs anew at every render of the    *)
(* bridge, as its callback is a new one: the old socket is closed and      *)
(* another one opened.                                                     *)
(***************************************************************************)
EXTENDS Integers, Sequences, FiniteSets

CONSTANTS
  Kinds,        \* the kinds of writes that happen
  Pages,        \* the pages that are visited
  Keys,         \* the queries that are followed
  MaxWrites,    \* (bound)
  MaxLosses,    \* connections lost (bound)
  MaxRenders,   \* renders of the bridge, by a change of language (bound)
  MaxVisits,    \* changes of the page (bound)
  MaxSockets    \* (bound: one, and one for each loss and each render)

AllKeys == {"dashboard-summary", "agents", "events", "alerts", "alert-rules", "agent",
            "event-agent-options"}
OwnKinds == {"resolved here", "rule here"}
AllKinds == {"metric", "metric over threshold", "event", "critical event",
             "correlation alert", "alert again", "agent", "resolved elsewhere"} \union OwnKinds

(* The queries of each page; "agent" stands for the six of AgentDetail, which
   are never invalidated. *)
KeysOf(p) ==
  CASE p = "Overview" -> {"dashboard-summary"}
    [] p = "AgentsPage" -> {"agents"}
    [] p = "AgentDetail" -> {"agent"}
    [] p = "EventsPage" -> {"events", "event-agent-options"}
    [] p = "AlertsPage" -> {"alerts", "alert-rules"}

ASSUME KindsAssumption == Kinds \subseteq AllKinds /\ Keys \subseteq AllKeys
ASSUME PagesAssumption ==
  Pages \subseteq {"Overview", "AgentsPage", "AgentDetail", "EventsPage", "AlertsPage"}
ASSUME BoundAssumption == {MaxWrites, MaxLosses, MaxRenders, MaxVisits, MaxSockets} \subseteq Nat

Sockets == 1..MaxSockets

VARIABLES
  log,          \* writes of the server
  unannounced,  \* writes whose broadcast is still to come
  state,        \* each socket of this browser
  madeBy,       \* the run of the effect that made each socket
  channel,      \* messages on their way to each socket
  effect,       \* runs of the effect so far; closedByApp is set in all but the last
  reconnect,    \* runs of the effect whose reconnectTimer is set
  heard,        \* history: the writes whose message the bridge has handled
  page,
  cached,       \* how current each query's data is
  fetch,        \* the request of each query
  invalid,      \* queries that are invalidated
  replies,      \* PUTs of this page that are not answered yet
  early,        \* history: <<write, query>> whose message began no new request
  losses, visits

socketVars == <<state, madeBy, channel, effect, reconnect, losses>>
queryVars == <<cached, fetch, invalid, early>>
vars == <<log, unannounced, socketVars, heard, page, queryVars, replies, visits>>

NoData == -1
Idle == -2
Started == -1

----
(* The queries that a write changes the answer of. *)
Touches(k) ==
  CASE k = "metric" -> {"dashboard-summary", "agent"}
    [] k = "metric over threshold" -> {"dashboard-summary", "agent", "alerts"}
    [] k = "event" -> {"dashboard-summary", "agent", "events"}
    [] k = "critical event" -> {"dashboard-summary", "agent", "events", "alerts"}
    [] k = "agent" -> {"dashboard-summary", "agent", "agents", "event-agent-options"}
    [] k \in {"correlation alert", "resolved here", "resolved elsewhere"}
         -> {"dashboard-summary", "alerts"}
    [] k = "alert again" -> {}
    [] k = "rule here" -> {"alert-rules"}

(* The type of the message that is broadcast after it, if one is.  The engine
   broadcasts what createCorrelationAlert returns, be it new or an open alert of an
   earlier candidate. *)
Announces(k) ==
  CASE k \in {"metric", "metric over threshold"} -> {"metric"}
    [] k \in {"event", "critical event"} -> {"event"}
    [] k \in {"correlation alert", "alert again"} -> {"alert"}
    [] OTHER -> {}

(* The queries that LiveUpdatesBridge invalidates when it hears of a write, and
   the page when its own PUT succeeds. *)
Invalidates(k) ==
  CASE Announces(k) = {"metric"} -> {"dashboard-summary", "agents"}
    [] Announces(k) = {"event"} -> {"events", "dashboard-summary"}
    [] Announces(k) = {"alert"} -> {"alerts", "dashboard-summary"}
    [] k = "resolved here" -> {"alerts", "dashboard-summary"}
    [] k = "rule here" -> {"alert-rules"}
    [] OTHER -> {}

Mounted == KeysOf(page) \intersect Keys

Init ==
  /\ log = <<>>
  /\ unannounced = {}
  /\ state = [s \in Sockets |-> IF s = 1 THEN "connecting" ELSE "none"]
  /\ madeBy = [s \in Sockets |-> IF s = 1 THEN 1 ELSE 0]
  /\ channel = [s \in Sockets |-> <<>>]
  /\ effect = 1
  /\ reconnect = {}
  /\ heard = <<>>
  /\ page \in Pages
  /\ cached = [k \in Keys |-> NoData]
  /\ fetch = [k \in Keys |-> IF k \in Mounted THEN Started ELSE Idle]
  /\ invalid = {}
  /\ replies = {}
  /\ early = {}
  /\ losses = 0 /\ visits = 0

----
(* The receiver, a correlation worker or another dashboard writes; the
   broadcast comes later. *)
Write(k) ==
  /\ Len(log) < MaxWrites
  /\ log' = Append(log, k)
  /\ unannounced' = IF Announces(k) = {} THEN unannounced ELSE unannounced \union {Len(log')}
  /\ UNCHANGED <<socketVars, heard, page, queryVars, replies, visits>>

(* WebSocketHub.broadcast: clients whose readyState is not OPEN are skipped. *)
Broadcast(i) ==
  /\ i \in unannounced
  /\ unannounced' = unannounced \ {i}
  /\ channel' = [s \in Sockets |-> IF state[s] = "open" THEN Append(channel[s], i) ELSE channel[s]]
  /\ UNCHANGED <<log, state, madeBy, effect, reconnect, losses, heard, page, queryVars, replies, visits>>

----
\* Mutant: a request that is under way is joined.
InvalidateJoins(i, keys) ==
  LET requested == {k \in keys \intersect Mounted : fetch[k] = Idle}
  IN /\ fetch' = [k \in Keys |-> IF k \in requested THEN Started ELSE fetch[k]]
     /\ invalid' = invalid \union {k \in keys \intersect Keys : cached[k] # NoData \/ fetch[k] # Idle}
     /\ early' = early \union {<<i, k>> : k \in {k \in keys \intersect Keys : fetch[k] # Idle /\ cached[k] = NoData}}
     /\ UNCHANGED cached

(* queryClient.invalidateQueries after write i: a mounted query is requested
   again, and an answer to an earlier request no longer counts - unless it has
   no data yet, when the first request goes on. *)
Invalidate(i, keys) ==
  LET requested == {k \in keys \intersect Mounted : fetch[k] = Idle \/ cached[k] # NoData}
      known == {k \in keys \intersect Keys : cached[k] # NoData \/ fetch[k] # Idle}
  IN /\ fetch' = [k \in Keys |-> IF k \in requested THEN Started ELSE fetch[k]]
     /\ invalid' = invalid \union known
     /\ early' = early \union {<<i, k>> : k \in {k \in known \ requested : fetch[k] # Idle}}
     /\ UNCHANGED cached

(* The server reads for a request: getSummary's first query, or the one query
   of the other routes.  Later queries of getSummary see as much or more. *)
ServerReads(k) ==
  /\ fetch[k] = Started
  /\ fetch' = [fetch EXCEPT ![k] = Len(log)]
  /\ UNCHANGED <<log, unannounced, socketVars, heard, page, cached, invalid, early, replies, visits>>

Response(k) ==
  /\ fetch[k] >= 0
  /\ fetch' = [fetch EXCEPT ![k] = Idle]
  /\ cached' = [cached EXCEPT ![k] = fetch[k]]
  /\ invalid' = invalid \ {k}
  /\ UNCHANGED <<log, unannounced, socketVars, heard, page, early, replies, visits>>

(* Another page: its queries are requested where they have no data, are
   invalidated or are older than staleTime. *)
Navigate(p) ==
  /\ visits < MaxVisits
  /\ visits' = visits + 1
  /\ page' = p
  /\ p # page
  /\ \E old \in SUBSET (KeysOf(p) \intersect Keys) :
       fetch' = [k \in Keys |->
                   IF /\ k \in KeysOf(p) /\ fetch[k] = Idle
                      /\ cached[k] = NoData \/ k \in invalid \union old
                   THEN Started ELSE fetch[k]]
  /\ UNCHANGED <<log, unannounced, socketVars, heard, cached, invalid, early, replies>>

(* resolveMutation and ruleMutation of AlertsPage. *)
Put(k) ==
  /\ page = "AlertsPage"
  /\ Len(log) < MaxWrites
  /\ log' = Append(log, k)
  /\ replies' = replies \union {Len(log')}
  /\ UNCHANGED <<unannounced, socketVars, heard, page, queryVars, visits>>

PutSucceeds(i) ==
  /\ i \in replies
  /\ replies' = replies \ {i}
  /\ Invalidate(i, Invalidates(log[i]))
  /\ UNCHANGED <<log, unannounced, socketVars, heard, page, visits>>

----
Unused == {s \in Sockets : state[s] = "none"}
NextSocket == CHOOSE s \in Unused : \A r \in Unused : s <= r

(* connect of run e of the effect, when the other sockets are as in now. *)
Connect(e, now) ==
  /\ Unused # {}
  /\ state' = [now EXCEPT ![NextSocket] = "connecting"]
  /\ madeBy' = [madeBy EXCEPT ![NextSocket] = e]

Accept(s) ==
  /\ state[s] = "connecting"
  /\ state' = [state EXCEPT ![s] = "open"]
  /\ UNCHANGED <<log, unannounced, madeBy, channel, effect, reconnect, losses, heard, page, queryVars, replies, visits>>

(* onmessage, which the browser calls only while the socket is open. *)
OnMessage(s) ==
  /\ state[s] = "open"
  /\ channel[s] # <<>>
  /\ channel' = [channel EXCEPT ![s] = Tail(@)]
  /\ heard' = Append(heard, Head(channel[s]))
  /\ Invalidate(Head(channel[s]), Invalidates(log[Head(channel[s])]))
  /\ UNCHANGED <<log, unannounced, state, madeBy, effect, reconnect, losses, page, replies, visits>>

(* The server ends, or the network loses the connection. *)
ConnectionLost(s) ==
  /\ losses < MaxLosses
  /\ losses' = losses + 1
  /\ state[s] \in {"connecting", "open"}
  /\ state' = [state EXCEPT ![s] = "closing"]
  /\ channel' = [channel EXCEPT ![s] = <<>>]
  /\ UNCHANGED <<log, unannounced, madeBy, effect, reconnect, heard, page, queryVars, replies, visits>>

\* Mutants: onclose does not look at closedByApp; it sets no timer.
ToReconnectAlways(s) == {madeBy[s]}
ToReconnectNever(s) == {}

(* The run of the effect whose reconnectTimer onclose of s sets. *)
ToReconnect(s) == {e \in {madeBy[s]} : e = effect}

OnClose(s) ==
  /\ state[s] = "closing"
  /\ state' = [state EXCEPT ![s] = "closed"]
  /\ reconnect' = reconnect \union ToReconnect(s)
  /\ UNCHANGED <<log, unannounced, madeBy, channel, effect, losses, heard, page, queryVars, replies, visits>>

Reconnect(e) ==
  /\ e \in reconnect
  /\ reconnect' = reconnect \ {e}
  /\ Connect(e, state)
  /\ UNCHANGED <<log, unannounced, channel, effect, losses, heard, page, queryVars, replies, visits>>

(* The bridge renders: the effect is cleaned up and runs again. *)
Render ==
  /\ effect <= MaxRenders
  /\ effect' = effect + 1
  /\ reconnect' = reconnect \ {effect}
  /\ Connect(effect', [s \in Sockets |-> IF madeBy[s] = effect /\ state[s] \in {"connecting", "open"}
                                         THEN "closing" ELSE state[s]])
  /\ channel' = [s \in Sockets |-> <<>>]
  /\ UNCHANGED <<log, unannounced, losses, heard, page, queryVars, replies, visits>>

SocketStep ==
  \/ \E s \in Sockets : Accept(s) \/ OnClose(s)
  \/ \E e \in reconnect : Reconnect(e)

Next ==
  \/ \E k \in Kinds \ OwnKinds : Write(k)
  \/ \E k \in Kinds \intersect OwnKinds : Put(k)
  \/ \E i \in unannounced : Broadcast(i)
  \/ \E i \in replies : PutSucceeds(i)
  \/ \E k \in Keys : ServerReads(k) \/ Response(k)
  \/ \E p \in Pages : Navigate(p)
  \/ SocketStep
  \/ \E s \in Sockets : OnMessage(s) \/ ConnectionLost(s)
  \/ Render

Spec == Init /\ [][Next]_vars

(* Timers and close events come, and the server is up between losses. *)
FairSpec == Spec /\ WF_vars(SocketStep)

----
Quiet ==
  /\ unannounced = {} /\ replies = {}
  /\ \A s \in Sockets : state[s] = "open" => channel[s] = <<>>
  /\ \A k \in Mounted : fetch[k] = Idle

Heard(i) == \E j \in DOMAIN heard : heard[j] = i

(* When nothing is on its way, what a page shows lacks a write only if nobody
   announces it to this query, its message came through no open socket, or it
   came during the query's first request or while another page was
   shown and a request of this one was under way. *)
StaleNeedsReason ==
  Quiet => \A k \in Mounted : \A i \in (cached[k] + 1)..Len(log) :
    k \in Touches(log[i]) =>
      \/ k \notin Invalidates(log[i])
      \/ log[i] \notin OwnKinds /\ ~Heard(i)
      \/ <<i, k>> \in early

(* The bridge handles each message at most once, however sockets are closed,
   lost and opened again: there is one toast for a broadcast.  An alert has as
   many as it has candidates that find it open. *)
HeardOnce == \A i, j \in DOMAIN heard : heard[i] = heard[j] => i = j

(* The dashboard is connected for good in the end, through losses, renders and
   a timer that one of them cancels. *)
Reconnects == <>[](\E s \in Sockets : state[s] = "open" /\ madeBy[s] = effect)
====
