---- MODULE TcpClient ----
(***************************************************************************)
(* The agent's transport: packages/agent/src/transport/tcp-client.ts.      *)
(*                                                                         *)
(* One TcpClient keeps one socket to the server.  JavaScript callbacks run *)
(* one at a time, so each socket event, timer and caller is one action;    *)
(* between a socket's destruction and its 'close' event other callbacks    *)
(* run.  A frame is its production number; the handshake is Handshake.     *)
(* The network delivers to the server some prefix of what was written to   *)
(* each connection, at any later time: what it never delivers is lost.     *)
(***************************************************************************)
EXTENDS Naturals, Sequences

CONSTANTS
  Cap,         \* pendingFrames' limit, 200 in the code
  MaxConns,    \* connections the client makes; the last one does not fail (bound)
  MaxFrames    \* frames the agent produces (bound)

ASSUME CapAssumption == Cap \in Nat \ {0}
ASSUME MaxConnsAssumption == MaxConns \in Nat \ {0}
ASSUME MaxFramesAssumption == MaxFrames \in Nat

VARIABLES
  socket,          \* this.socket: absent, or the state of the socket it holds
  closePending,    \* a destroyed socket has yet to emit 'close'
  isConnected,
  reconnectTimer,  \* armed?
  heartbeatTimer,  \* armed?
  stopped,
  pendingFrames,
  conn,            \* number of sockets created: the connection of this.socket
  produced,        \* frames handed to send so far
  written,         \* written[c]: everything given to socket c's write
  delivered,       \* delivered[c]: length of the prefix the server has read
  dropped          \* history: frames shifted out of a full pendingFrames

queueVars == <<pendingFrames, produced, written, dropped>>
timerVars == <<reconnectTimer, heartbeatTimer>>
vars == <<socket, closePending, isConnected, timerVars, stopped, conn, delivered, queueVars>>

Conns == 1..MaxConns
Handshake == 0
Frames == 1..MaxFrames

Init ==
  /\ socket = "none"
  /\ closePending = FALSE
  /\ isConnected = FALSE
  /\ reconnectTimer = FALSE
  /\ heartbeatTimer = FALSE
  /\ stopped = FALSE
  /\ pendingFrames = <<>>
  /\ conn = 0
  /\ produced = 0
  /\ written = [c \in Conns |-> <<>>]
  /\ delivered = [c \in Conns |-> 0]
  /\ dropped = {}

----
(* connect(): a new socket, unless the client was stopped. *)
Connect ==
  IF stopped
  THEN UNCHANGED <<socket, conn>>
  ELSE socket' = "connecting" /\ conn' = conn + 1

(* start(), called once by the runtime. *)
Start ==
  /\ conn = 0
  /\ Connect
  /\ UNCHANGED <<closePending, isConnected, timerVars, stopped, delivered, queueVars>>

\* Mutant: a socket that is still connecting counts as writable.
CanWriteConnecting == socket \in {"connecting", "open"}

CanWrite == socket = "open" /\ isConnected

(* send(): write when connected, otherwise queue and drop the oldest. *)
Write(f) ==
  /\ CanWrite
  /\ written' = [written EXCEPT ![conn] = Append(@, f)]
  /\ UNCHANGED <<pendingFrames, dropped>>

\* Mutant: a full queue refuses the new frame.
EnqueueRefuses(f) ==
  /\ ~CanWrite
  /\ IF Len(pendingFrames) >= Cap
     THEN dropped' = dropped \union {f} /\ UNCHANGED pendingFrames
     ELSE pendingFrames' = Append(pendingFrames, f) /\ UNCHANGED dropped
  /\ UNCHANGED written

Enqueue(f) ==
  /\ ~CanWrite
  /\ IF Len(pendingFrames) >= Cap
     THEN /\ pendingFrames' = Append(Tail(pendingFrames), f)
          /\ dropped' = dropped \union {Head(pendingFrames)}
     ELSE /\ pendingFrames' = Append(pendingFrames, f)
          /\ UNCHANGED dropped
  /\ UNCHANGED written

Send ==
  /\ produced < MaxFrames
  /\ produced' = produced + 1
  /\ Write(produced + 1) \/ Enqueue(produced + 1)
  /\ UNCHANGED <<socket, closePending, isConnected, timerVars, stopped, conn, delivered>>

(* sendMetric and sendSecurityEvent, from the runtime's timers and workers;
   a collection in flight may still call them after stop(). *)
Telemetry ==
  /\ conn > 0
  /\ Send

(* The interval set by startHeartbeat. *)
Heartbeat ==
  /\ heartbeatTimer
  /\ Send

\* Mutants: the queue is sent before the handshake; it is kept after the
\* flush; it is not flushed.
FlushFirst ==
  /\ written' = [written EXCEPT ![conn] = @ \o pendingFrames \o <<Handshake>>]
  /\ pendingFrames' = <<>>

FlushKeeps ==
  /\ written' = [written EXCEPT ![conn] = @ \o <<Handshake>> \o pendingFrames]
  /\ UNCHANGED pendingFrames

FlushNothing ==
  /\ written' = [written EXCEPT ![conn] = @ \o <<Handshake>>]
  /\ UNCHANGED pendingFrames

(* sendHandshake(), then flushPendingFrames(), in one turn. *)
HandshakeAndFlush ==
  /\ written' = [written EXCEPT ![conn] = @ \o <<Handshake>> \o pendingFrames]
  /\ pendingFrames' = <<>>

(* 'connect': sendHandshake, flushPendingFrames, startHeartbeat. *)
OnConnect ==
  /\ socket = "connecting"
  /\ socket' = "open"
  /\ isConnected' = TRUE
  /\ HandshakeAndFlush
  /\ heartbeatTimer' = TRUE
  /\ UNCHANGED <<closePending, reconnectTimer, stopped, conn, delivered, produced, dropped>>

\* Mutant: the 'error' handler schedules the reconnection too.
SocketFailsSchedules ==
  /\ socket \in {"connecting", "open"}
  /\ conn < MaxConns
  /\ socket' = "destroyed"
  /\ closePending' = TRUE
  /\ reconnectTimer' = TRUE
  /\ UNCHANGED <<isConnected, heartbeatTimer, stopped, conn, delivered, queueVars>>

(* The connection is refused, reset or ended: Node destroys the socket now
   and emits 'close' in a later turn of the event loop. *)
SocketFails ==
  /\ socket \in {"connecting", "open"}
  /\ conn < MaxConns
  /\ socket' = "destroyed"
  /\ closePending' = TRUE
  /\ UNCHANGED <<isConnected, timerVars, stopped, conn, delivered, queueVars>>

(* scheduleReconnect(), called from 'close' only. *)
ScheduleReconnect ==
  reconnectTimer' = IF stopped THEN reconnectTimer ELSE TRUE

\* Mutant: 'close' also empties the queue.
OnCloseEmptiesQueue ==
  /\ closePending
  /\ closePending' = FALSE
  /\ isConnected' = FALSE
  /\ heartbeatTimer' = FALSE
  /\ pendingFrames' = <<>>
  /\ ScheduleReconnect
  /\ UNCHANGED <<socket, stopped, conn, delivered, produced, written, dropped>>

OnClose ==
  /\ closePending
  /\ closePending' = FALSE
  /\ isConnected' = FALSE
  /\ heartbeatTimer' = FALSE
  /\ ScheduleReconnect
  /\ UNCHANGED <<socket, stopped, conn, delivered, queueVars>>

ReconnectTimerFires ==
  /\ reconnectTimer
  /\ reconnectTimer' = FALSE
  /\ Connect
  /\ UNCHANGED <<closePending, isConnected, heartbeatTimer, stopped, delivered, queueVars>>

\* Mutant: only an established connection is torn down.
StopIfConnected ==
  /\ ~stopped
  /\ conn > 0
  /\ stopped' = TRUE
  /\ reconnectTimer' = FALSE
  /\ heartbeatTimer' = FALSE
  /\ closePending' = IF socket = "open" THEN TRUE ELSE closePending
  /\ socket' = IF isConnected THEN "none" ELSE socket
  /\ isConnected' = FALSE
  /\ UNCHANGED <<conn, delivered, queueVars>>

(* stop(): a live socket is destroyed, its 'close' still to come. *)
Stop ==
  /\ ~stopped
  /\ conn > 0
  /\ stopped' = TRUE
  /\ reconnectTimer' = FALSE
  /\ heartbeatTimer' = FALSE
  /\ closePending' = IF socket \in {"connecting", "open"} THEN TRUE ELSE closePending
  /\ socket' = "none"
  /\ isConnected' = FALSE
  /\ UNCHANGED <<conn, delivered, queueVars>>

(* The server reads the next frame of connection c. *)
NetworkDelivers(c) ==
  /\ delivered[c] < Len(written[c])
  /\ delivered' = [delivered EXCEPT ![c] = @ + 1]
  /\ UNCHANGED <<socket, closePending, isConnected, timerVars, stopped, conn, queueVars>>

Next ==
  \/ Start
  \/ Telemetry
  \/ Heartbeat
  \/ OnConnect
  \/ SocketFails
  \/ OnClose
  \/ ReconnectTimerFires
  \/ Stop
  \/ \E c \in Conns : NetworkDelivers(c)

Spec == Init /\ [][Next]_vars

(* Callbacks whose time has come run, and an attempt that does not fail
   connects.  Nothing forces a socket to fail, telemetry to be produced, a
   frame to be delivered or the agent to be stopped. *)
Fairness ==
  /\ WF_vars(Start)
  /\ WF_vars(OnConnect)
  /\ WF_vars(OnClose)
  /\ WF_vars(ReconnectTimerFires)

FairSpec == Spec /\ Fairness

----
WrittenFrames == {f \in Frames : \E c \in Conns : \E i \in 1..Len(written[c]) : written[c][i] = f}

TypeOK ==
  /\ socket \in {"none", "connecting", "open", "destroyed"}
  /\ closePending \in BOOLEAN
  /\ isConnected \in BOOLEAN
  /\ reconnectTimer \in BOOLEAN
  /\ heartbeatTimer \in BOOLEAN
  /\ stopped \in BOOLEAN
  /\ pendingFrames \in Seq(Frames)
  /\ Len(pendingFrames) <= Cap
  /\ conn \in 0..MaxConns
  /\ produced \in 0..MaxFrames
  /\ written \in [Conns -> Seq(Frames \union {Handshake})]
  /\ delivered \in [Conns -> Nat]
  /\ dropped \in SUBSET Frames

(* The queue holds the newest frames, without a gap: when it overflows it
   loses its oldest frame and never the one just produced (send). *)
PendingIsNewest ==
  \A i \in 1..Len(pendingFrames) :
    pendingFrames[i] = produced - Len(pendingFrames) + i

(* A frame is never written after a newer one, on its connection or on an
   earlier one, nor twice; and no frame overtakes a queued one.  The direct
   path of send and the flush of 'connect' must agree on this. *)
NeverOvertakes ==
  \A c, d \in Conns : \A i \in 1..Len(written[c]) :
    /\ written[c][i] <= produced - Len(pendingFrames)
    /\ \A j \in 1..Len(written[d]) :
         (c < d \/ (c = d /\ i < j)) /\ written[d][j] # Handshake
           => written[c][i] < written[d][j]

(* The first frame of every connection, and only it, is the handshake: the
   server learns who the agent is before anything queued reaches it. *)
HandshakeFirst ==
  \A c \in Conns : \A i \in 1..Len(written[c]) :
    written[c][i] = Handshake <=> i = 1

(* A frame the client accepted has been written, is queued, or was dropped
   from a full queue: no path of send, flush, 'close' or stop loses one, and the
   queue keeps its limit. *)
EveryFrameAccounted ==
  /\ 1..produced = WrittenFrames \union dropped
                     \union {pendingFrames[i] : i \in 1..Len(pendingFrames)}
  /\ WrittenFrames \intersect dropped = {}
  /\ Len(pendingFrames) <= Cap

(* Exactly one thing keeps a started client going: a live socket, a 'close'
   to come, or the reconnect timer.  With none it would stay offline for ever,
   with two it would hold two sockets.  A stopped client has no timer. *)
OneLifeline ==
  /\ conn > 0 /\ ~stopped =>
       LET live == socket \in {"connecting", "open"}
       IN  /\ live \/ closePending \/ reconnectTimer
           /\ ~(live /\ closePending)
           /\ ~(live /\ reconnectTimer)
           /\ ~(closePending /\ reconnectTimer)
  /\ stopped => socket = "none" /\ ~reconnectTimer /\ ~heartbeatTimer

(* Heartbeats are scheduled exactly while the client believes itself
   connected, and a client that can write directly has flushed its queue. *)
ConnectedIsFlushed ==
  /\ heartbeatTimer = isConnected
  /\ socket = "open" => isConnected
  /\ CanWrite => pendingFrames = <<>>

(* After stop() no callback still under way creates a socket or writes. *)
StopIsFinal == [][stopped => UNCHANGED <<conn, written>>]_vars

(* No frame stays queued for ever: it is written or dropped. *)
EveryFrameLeaves ==
  \A f \in Frames :
    produced >= f ~> (f \in WrittenFrames \union dropped \/ stopped)

(* What the server reads is an at-most-once, ordered, handshake-first link. *)
Inbox == [c \in Conns |-> SubSeq(written[c], 1, delivered[c])]

Link == INSTANCE TelemetryLink WITH offered <- produced, inbox <- Inbox

ImplementsLink == Link!Spec
====
