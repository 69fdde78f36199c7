---- MODULE TcpServer_proofs ----
(***************************************************************************)
(* Handlers of the receiver that interleave with each other, with 'close'  *)
(* and with restarts: what is announced is saved, agents are known, the    *)
(* rows that telemetry needs are on their way, and the statuses in memory  *)
(* and in the database settle, for any number of agents, connections,      *)
(* frames, chunks and restarts.                                            *)
(***************************************************************************)
EXTENDS TcpServer, TLAPS

Queries == {"upsert", "touch", "save", "alerts"}
Task == [sock : Sockets, frames : Seq(Frame), query : Queries, outcome : {"pending", "done", "failed"}]

Typed ==
  /\ agents \in [Agents -> {"unknown", "online", "offline"}]
  /\ rows \in [Agents -> {"absent", "online", "offline"}]
  /\ conn \in [Sockets -> {"idle", "open", "closed", "cut"}]
  /\ activeAgentId \in [Sockets -> Agents \union {NoAgent}]
  /\ read \in [Sockets -> Nat]
  /\ tasks \subseteq Task
  /\ offlineQueries \subseteq Sockets

(* A task has a frame to handle, runs a query of its branch, and is past the
   handshake after its first frame. *)
Fits(query, kind) == query = FirstQuery(kind) \/ (query = "alerts" /\ kind = "telemetry")
PastHandshake(frames) == \A i \in 2..Len(frames) : frames[i].kind # "handshake"
TasksFit ==
  \A t \in tasks :
    t.frames # <<>> /\ PastHandshake(t.frames) /\ Fits(t.query, t.frames[1].kind)

(* A task runs while its socket is open, or is one that 'close' raced with. *)
TasksLive ==
  \A t \in tasks :
    /\ read[t.sock] > 0
    /\ conn[t.sock] = "open" \/ (conn[t.sock] = "closed" /\ t.sock \in raced)
Fresh == \A s \in Sockets : conn[s] = "idle" => read[s] = 0
OwnId == \A s \in Sockets : activeAgentId[s] \in {NoAgent, Owner[s]}

(* A connection in use: its handshake was read since the process started. *)
InUse(s) == read[s] > 0 /\ (conn[s] = "open" \/ TasksOf(s) # {})
Known == \A s \in Sockets : InUse(s) => agents[Owner[s]] # "unknown"
Upserts(t) == t.query = "upsert" /\ t.outcome = "pending"
RowComing ==
  \A s \in Sockets :
    InUse(s) /\ rows[Owner[s]] = "absent" => \E u \in tasks : u.sock = s /\ Upserts(u)
HandshakeKept ==
  \A s \in Sockets :
    conn[s] = "open" /\ read[s] > 0 =>
      activeAgentId[s] = Owner[s] \/ \E u \in tasks : u.sock = s /\ u.query = "upsert"

SavedFirst ==
  \A t \in tasks :
    t.query = "alerts" \/ (t.query = "save" /\ t.outcome = "done") =>
      <<t.sock, t.frames[1]>> \in saved

(* What keeps an agent online: a connection in use, or one that will not be
   marked offline. *)
Source(a) ==
  \E s \in Sockets :
    /\ Owner[s] = a
    /\ (conn[s] = "open" /\ read[s] > 0) \/ conn[s] = "cut" \/ s \in raced
OnlineHasSource ==
  \A a \in Agents :
    /\ agents[a] = "online" => Source(a)
    /\ rows[a] = "online" => Source(a) \/ OfflinePending(a)

(* The query that will set the row of a confirmed agent is on its way, unless a
   late markOffline came after it was heard. *)
Sets(t) == t.query \in {"upsert", "touch"} /\ t.outcome = "pending"
ConfirmedOnline ==
  \A a \in Agents : a \in confirmed =>
    /\ agents[a] = "online"
    /\ \/ rows[a] = "online" \/ a \in overtaken
       \/ \E t \in tasks : Owner[t.sock] = a /\ Sets(t)

IInv ==
  /\ Typed /\ TasksFit /\ TasksLive /\ Fresh /\ OwnId
  /\ Known /\ RowComing /\ HandshakeKept
  /\ SavedFirst /\ AnnouncedIsSaved /\ NeverUnknown
  /\ OnlineHasSource /\ ConfirmedOnline

----
LEMMA InitIInv == Init => IInv
<1> SUFFICES ASSUME Init PROVE IInv
  OBVIOUS
<1>1. Typed
  BY DEF Init, Typed
<1>2. TasksFit /\ TasksLive /\ Fresh /\ OwnId
  BY DEF Init, TasksFit, TasksLive, Fresh, OwnId
<1>3. Known /\ RowComing /\ HandshakeKept
  BY DEF Init, Known, RowComing, HandshakeKept, InUse
<1>4. SavedFirst /\ AnnouncedIsSaved /\ NeverUnknown
  BY DEF Init, SavedFirst, AnnouncedIsSaved, NeverUnknown
<1>5. OnlineHasSource /\ ConfirmedOnline
  BY DEF Init, OnlineHasSource, ConfirmedOnline
<1> QED
  BY <1>1, <1>2, <1>3, <1>4, <1>5 DEF IInv

----
(* The frames of a chunk: the handshake comes first on a connection, and never
   again. *)
LEMMA ChunkFits ==
  ASSUME Typed, NEW s \in Sockets, NEW c \in Chunks(s)
  PROVE  /\ c \in Seq(Frame) /\ c # <<>> /\ Len(c) \in Nat /\ Len(c) > 0
         /\ PastHandshake(c)
         /\ c[1].kind = "handshake" <=> read[s] = 0
<1>1. PICK k \in 1..MaxChunk : c \in [1..k -> Frame]
  BY DEF Chunks
<1>2. \A i \in DOMAIN c : c[i].n = read[s] + i /\ c[i].kind \in Kinds(c[i].n)
  BY DEF Chunks
<1>3. k \in Nat /\ k > 0
  BY BoundAssumption
<1>4. c \in Seq(Frame) /\ Len(c) = k /\ c # <<>> /\ DOMAIN c = 1..k
  BY <1>1, <1>3
<1>5. read[s] \in Nat
  BY DEF Typed
<1>6. \A i \in 1..k : read[s] + i = 1 <=> c[i].kind = "handshake"
  <2> TAKE i \in 1..k
  <2>1. c[i].kind \in Kinds(read[s] + i)
    BY <1>2, <1>4
  <2> QED
    BY <2>1 DEF Kinds
<1>7. \A i \in 2..k : i \in 1..k /\ read[s] + i # 1
  BY <1>3, <1>5
<1>8. PastHandshake(c)
  BY <1>4, <1>6, <1>7 DEF PastHandshake
<1>9. 1 \in 1..k /\ (read[s] + 1 = 1 <=> read[s] = 0)
  BY <1>3, <1>5
<1> QED
  BY <1>3, <1>4, <1>6, <1>8, <1>9

(* The frames left of a task have no handshake. *)
LEMMA RestFits ==
  ASSUME NEW fs \in Seq(Frame), fs # <<>>, PastHandshake(fs), Tail(fs) # <<>>
  PROVE  /\ Tail(fs) \in Seq(Frame)
         /\ PastHandshake(Tail(fs))
         /\ Tail(fs)[1].kind # "handshake"
<1>1. /\ Tail(fs) \in Seq(Frame)
      /\ Len(fs) \in Nat
      /\ Len(Tail(fs)) = Len(fs) - 1
      /\ Len(Tail(fs)) > 0
      /\ \A i \in 1..(Len(fs) - 1) : Tail(fs)[i] = fs[i + 1]
  OBVIOUS
<1>2. \A i \in 1..(Len(fs) - 1) : i + 1 \in 2..Len(fs)
  BY <1>1
<1>3. \A i \in 1..(Len(fs) - 1) : Tail(fs)[i].kind # "handshake"
  BY <1>1, <1>2 DEF PastHandshake
<1>4. \A i \in 2..Len(Tail(fs)) : i \in 1..(Len(fs) - 1)
  BY <1>1
<1>5. 1 \in 1..(Len(fs) - 1)
  BY <1>1
<1> QED
  BY <1>1, <1>3, <1>4, <1>5 DEF PastHandshake

(* A task that begins. *)
LEMMA NewTaskFits ==
  ASSUME NEW s \in Sockets, NEW fs \in Seq(Frame), fs # <<>>
  PROVE  /\ NewTask(s, fs) \in Task
         /\ NewTask(s, fs).sock = s
         /\ NewTask(s, fs).frames = fs
         /\ NewTask(s, fs).query = FirstQuery(fs[1].kind)
         /\ NewTask(s, fs).outcome = "pending"
         /\ Head(fs) = fs[1]
         /\ fs[1] \in Frame
<1>1. Head(fs) = fs[1] /\ fs[1] \in Frame
  OBVIOUS
<1>2. FirstQuery(fs[1].kind) \in Queries
  BY <1>1 DEF Frame, FirstQuery, Queries
<1> QED
  BY <1>1, <1>2 DEF NewTask, Task

(* A frame begins: its agent is known, and confirmed if the frame sets its row. *)
LEMMA BeginFrameDoes ==
  ASSUME Typed, NeverUnknown,
         NEW s \in Sockets, NEW f \in Frame,
         f.kind = "handshake" \/ agents[Owner[s]] # "unknown",
         BeginFrame(s, f)
  PROVE  /\ agents' \in [Agents -> {"unknown", "online", "offline"}]
         /\ strangers' = {}
         /\ agents'[Owner[s]] # "unknown"
         /\ \A a \in Agents : agents'[a] = agents[a] \/ (a = Owner[s] /\ agents'[a] = "online")
         /\ \A a \in Agents : a \in confirmed' =>
              \/ a \in confirmed /\ (a \in overtaken => a \in overtaken')
              \/ a = Owner[s] /\ f.kind # "telemetry" /\ agents'[a] = "online"
<1> DEFINE b == Owner[s]
<1>1. b \in Agents
  BY OwnerAssumption
<1>2. f.kind \in {"handshake", "heartbeat", "telemetry"}
  BY DEF Frame
<1>3. f.kind = "handshake" => agents' = [agents EXCEPT ![b] = "online"]
  BY DEF BeginFrame, RegisterHandshake
<1>4. f.kind = "heartbeat" => agents' = [agents EXCEPT ![b] = "online"]
  BY DEF BeginFrame, MarkHeartbeat
<1>5. f.kind = "telemetry" => agents' = agents
  BY DEF BeginFrame
<1>6. strangers' = {}
  BY <1>2 DEF BeginFrame, NeverUnknown
<1>7. IF f.kind = "telemetry"
      THEN confirmed' = confirmed /\ overtaken' = overtaken
      ELSE confirmed' = confirmed \union {b} /\ overtaken' = overtaken \ {b}
  BY DEF BeginFrame
<1> HIDE DEF b
<1>8. CASE f.kind = "telemetry"
  BY <1>1, <1>5, <1>6, <1>7, <1>8 DEF Typed, b
<1>9. CASE f.kind # "telemetry"
  <2>1. agents' = [agents EXCEPT ![b] = "online"]
    BY <1>2, <1>3, <1>4, <1>9
  <2>2. /\ agents' \in [Agents -> {"unknown", "online", "offline"}]
        /\ agents'[b] = "online"
        /\ \A a \in Agents : a # b => agents'[a] = agents[a]
    BY <1>1, <2>1 DEF Typed
  <2> QED
    BY <1>6, <1>7, <1>9, <2>2 DEF b
<1> QED
  BY <1>8, <1>9

----
LEMMA AcceptKeeps ==
  ASSUME IInv, NEW s \in Sockets, Accept(s)
  PROVE  IInv'
<1>1. /\ conn[s] = "idle"
      /\ conn' = [conn EXCEPT ![s] = "open"]
      /\ UNCHANGED <<agents, rows, activeAgentId, read, tasks, offlineQueries,
                     saved, broadcast, acked, raced, strangers, confirmed, overtaken>>
  BY DEF Accept, outputVars, historyVars
<1>2. /\ conn' \in [Sockets -> {"idle", "open", "closed", "cut"}]
      /\ conn'[s] = "open"
      /\ \A r \in Sockets : r # s => conn'[r] = conn[r]
      /\ read[s] = 0
  BY <1>1 DEF IInv, Typed, Fresh
<1>3. Typed'
  BY <1>1, <1>2 DEF IInv, Typed
<1>4. TasksFit' /\ OwnId' /\ SavedFirst' /\ AnnouncedIsSaved' /\ NeverUnknown'
  BY <1>1 DEF IInv, TasksFit, OwnId, SavedFirst, AnnouncedIsSaved, NeverUnknown
<1>5. \A t \in tasks : t.sock \in Sockets
  BY DEF IInv, Typed, Task
<1>6. TasksLive'
  <2>1. \A t \in tasks : t.sock # s
    BY <1>1 DEF IInv, TasksLive
  <2> QED
    BY <1>1, <1>2, <1>5, <2>1 DEF IInv, TasksLive
<1>7. Fresh'
  BY <1>1, <1>2 DEF IInv, Fresh
<1>8. \A r \in Sockets : InUse(r)' => InUse(r)
  BY <1>1, <1>2 DEF InUse, TasksOf
<1>9. Known' /\ RowComing'
  <2>1. Known'
    BY <1>1, <1>8 DEF IInv, Known
  <2>2. RowComing'
    BY <1>1, <1>8 DEF IInv, RowComing, Upserts
  <2> QED
    BY <2>1, <2>2
<1>10. HandshakeKept'
  BY <1>1, <1>2 DEF IInv, HandshakeKept
<1>11. OnlineHasSource'
  <2>1. \A a \in Agents : Source(a) => Source(a)'
    BY <1>1, <1>2 DEF Source
  <2> QED
    BY <1>1, <2>1 DEF IInv, OnlineHasSource, OfflinePending
<1>12. ConfirmedOnline'
  BY <1>1 DEF IInv, ConfirmedOnline, Sets
<1> QED
  BY <1>3, <1>4, <1>6, <1>7, <1>9, <1>10, <1>11, <1>12 DEF IInv

(* A chunk begins a task: the connection is in use, and its handshake is either
   in the chunk or was read before. *)
LEMMA OnDataKeeps ==
  ASSUME IInv, NEW s \in Sockets, OnData(s)
  PROVE  IInv'
<1>1. PICK c \in Chunks(s) :
        /\ read' = [read EXCEPT ![s] = @ + Len(c)]
        /\ tasks' = tasks \union {NewTask(s, c)}
        /\ BeginFrame(s, Head(c))
  BY DEF OnData
<1> DEFINE n == NewTask(s, c)
<1>2. /\ conn[s] = "open"
      /\ UNCHANGED <<rows, conn, activeAgentId, offlineQueries, saved, broadcast, acked, raced>>
  BY DEF OnData, outputVars
<1>3. /\ c \in Seq(Frame) /\ c # <<>> /\ Len(c) \in Nat /\ Len(c) > 0
      /\ PastHandshake(c)
      /\ c[1].kind = "handshake" <=> read[s] = 0
  BY ChunkFits DEF IInv
<1>4. /\ n \in Task /\ n.sock = s /\ n.frames = c
      /\ n.query = FirstQuery(c[1].kind) /\ n.outcome = "pending"
      /\ Head(c) = c[1] /\ c[1] \in Frame
  BY <1>3, NewTaskFits
<1>5. read[s] > 0 => agents[Owner[s]] # "unknown"
  BY <1>2 DEF IInv, Known, InUse
<1>6. c[1].kind = "handshake" \/ agents[Owner[s]] # "unknown"
  BY <1>3, <1>5 DEF IInv, Typed
<1>7. /\ agents' \in [Agents -> {"unknown", "online", "offline"}]
      /\ strangers' = {}
      /\ agents'[Owner[s]] # "unknown"
      /\ \A a \in Agents : agents'[a] = agents[a] \/ (a = Owner[s] /\ agents'[a] = "online")
      /\ \A a \in Agents : a \in confirmed' =>
           \/ a \in confirmed /\ (a \in overtaken => a \in overtaken')
           \/ a = Owner[s] /\ c[1].kind # "telemetry" /\ agents'[a] = "online"
  BY <1>1, <1>4, <1>6, BeginFrameDoes DEF IInv
<1> HIDE DEF n
<1>8. tasks' = tasks \union {n}
  BY <1>1 DEF n
<1>9. /\ read' \in [Sockets -> Nat]
      /\ read'[s] > 0
      /\ \A r \in Sockets : r # s => read'[r] = read[r]
      /\ \A r \in Sockets : read[r] > 0 => read'[r] > 0
  BY <1>1, <1>3 DEF IInv, Typed
<1>10. Typed'
  BY <1>2, <1>4, <1>7, <1>8, <1>9 DEF IInv, Typed
<1>11. TasksFit'
  BY <1>3, <1>4, <1>8 DEF IInv, TasksFit, Fits
<1>12. \A t \in tasks : t.sock \in Sockets
  BY DEF IInv, Typed, Task
<1>13. TasksLive'
  BY <1>2, <1>4, <1>8, <1>9, <1>12 DEF IInv, TasksLive
<1>14. Fresh' /\ OwnId' /\ NeverUnknown' /\ AnnouncedIsSaved'
  BY <1>2, <1>7, <1>9 DEF IInv, Fresh, OwnId, NeverUnknown, AnnouncedIsSaved
<1>15. \A r \in Sockets : r # s /\ InUse(r)' => InUse(r)
  BY <1>2, <1>4, <1>8, <1>9 DEF InUse, TasksOf
<1>16. Known'
  <2> SUFFICES ASSUME NEW r \in Sockets, InUse(r)' PROVE agents'[Owner[r]] # "unknown"
    BY DEF Known
  <2>1. Owner[r] \in Agents
    BY OwnerAssumption
  <2>2. CASE r = s
    BY <1>7, <2>2
  <2>3. CASE r # s
    <3>1. agents[Owner[r]] # "unknown"
      BY <1>15, <2>3 DEF IInv, Known
    <3> QED
      BY <1>7, <2>1, <3>1
  <2> QED
    BY <2>2, <2>3
<1>17. c[1].kind = "handshake" => n.query = "upsert"
  BY <1>4 DEF FirstQuery
<1>18. RowComing'
  <2> SUFFICES ASSUME NEW r \in Sockets, InUse(r)', rows[Owner[r]] = "absent"
               PROVE  \E u \in tasks' : u.sock = r /\ Upserts(u)
    BY <1>2 DEF RowComing, Upserts
  <2>1. CASE r = s /\ read[s] = 0
    BY <1>3, <1>4, <1>8, <1>17, <2>1 DEF Upserts
  <2>2. CASE r # s \/ read[s] # 0
    <3>1. InUse(r)
      BY <1>2, <1>15, <2>2 DEF IInv, Typed, InUse
    <3> QED
      BY <1>8, <3>1 DEF IInv, RowComing
  <2> QED
    BY <2>1, <2>2
<1>19. HandshakeKept'
  <2> SUFFICES ASSUME NEW r \in Sockets, conn[r] = "open", read'[r] > 0
               PROVE  activeAgentId[r] = Owner[r] \/ \E u \in tasks' : u.sock = r /\ u.query = "upsert"
    BY <1>2 DEF HandshakeKept
  <2>1. CASE r = s /\ read[s] = 0
    BY <1>3, <1>4, <1>8, <1>17, <2>1
  <2>2. CASE r # s \/ read[s] # 0
    <3>1. read[r] > 0
      BY <1>9, <2>2 DEF IInv, Typed
    <3> QED
      BY <1>8, <3>1 DEF IInv, HandshakeKept
  <2> QED
    BY <2>1, <2>2
<1>20. SavedFirst'
  <2>1. n.query # "alerts" /\ n.outcome # "done"
    BY <1>4 DEF FirstQuery, Frame
  <2> QED
    BY <1>2, <1>8, <2>1 DEF IInv, SavedFirst
<1>21. OnlineHasSource'
  <2>1. \A a \in Agents : Source(a) => Source(a)'
    BY <1>2, <1>9 DEF Source
  <2>2. Source(Owner[s])'
    BY <1>2, <1>9 DEF Source
  <2>3. \A a \in Agents : OfflinePending(a)' = OfflinePending(a)
    BY <1>2 DEF OfflinePending
  <2>4. \A a \in Agents : agents'[a] = "online" => Source(a)'
    BY <1>7, <2>1, <2>2 DEF IInv, OnlineHasSource
  <2>5. \A a \in Agents : rows'[a] = "online" => Source(a)' \/ OfflinePending(a)'
    BY <1>2, <2>1, <2>3 DEF IInv, OnlineHasSource
  <2> QED
    BY <2>4, <2>5 DEF OnlineHasSource
<1>22. ConfirmedOnline'
  <2> SUFFICES ASSUME NEW a \in Agents, a \in confirmed'
               PROVE  /\ agents'[a] = "online"
                      /\ \/ rows[a] = "online" \/ a \in overtaken'
                         \/ \E t \in tasks' : Owner[t.sock] = a /\ Sets(t)
    BY <1>2 DEF ConfirmedOnline, Sets
  <2>1. CASE a \in confirmed /\ (a \in overtaken => a \in overtaken')
    <3>1. /\ agents[a] = "online"
          /\ \/ rows[a] = "online" \/ a \in overtaken
             \/ \E t \in tasks : Owner[t.sock] = a /\ Sets(t)
      BY <2>1 DEF IInv, ConfirmedOnline
    <3> QED
      BY <1>7, <1>8, <2>1, <3>1
  <2>2. CASE ~(a \in confirmed /\ (a \in overtaken => a \in overtaken'))
    <3>1. a = Owner[s] /\ c[1].kind # "telemetry" /\ agents'[a] = "online"
      BY <1>7, <2>2
    <3>2. Sets(n)
      BY <1>4, <3>1 DEF Sets, FirstQuery, Frame
    <3> QED
      BY <1>4, <1>8, <3>1, <3>2
  <2> QED
    BY <2>1, <2>2
<1> QED
  BY <1>10, <1>11, <1>13, <1>14, <1>16, <1>18, <1>19, <1>20, <1>21, <1>22 DEF IInv

(* The database executes the query of a task. *)
LEMMA QueryExecutesKeeps ==
  ASSUME IInv, NEW t \in tasks, QueryExecutes(t)
  PROVE  IInv'
<1> DEFINE s == t.sock
           b == Owner[t.sock]
           u == [t EXCEPT !.outcome = IF Fails(t) THEN "failed" ELSE "done"]
<1>1. /\ t.outcome = "pending"
      /\ tasks' = (tasks \ {t}) \union {u}
      /\ rows' = IF t.query = "upsert" \/ (t.query = "touch" /\ rows[b] # "absent")
                 THEN [rows EXCEPT ![b] = "online"] ELSE rows
      /\ saved' = IF t.query = "save" /\ ~Fails(t) THEN saved \union {<<s, Head(t.frames)>>} ELSE saved
      /\ UNCHANGED <<agents, conn, activeAgentId, read, offlineQueries, broadcast, acked,
                     raced, strangers, confirmed, overtaken>>
  BY DEF QueryExecutes, Save, historyVars
<1>2. t \in Task /\ s \in Sockets /\ b \in Agents
  BY OwnerAssumption DEF IInv, Typed, Task
<1>3. /\ u \in Task /\ u.sock = s /\ u.frames = t.frames /\ u.query = t.query
      /\ u.outcome = IF Fails(t) THEN "failed" ELSE "done"
  BY <1>2 DEF Task
<1>4. t.frames # <<>> /\ t.frames \in Seq(Frame) /\ Head(t.frames) = t.frames[1]
  BY <1>2 DEF IInv, TasksFit, Task
<1> HIDE DEF u, s, b
<1>5. /\ rows' \in [Agents -> {"absent", "online", "offline"}]
      /\ \A a \in Agents : rows'[a] = rows[a] \/ (a = b /\ rows'[a] = "online")
      /\ t.query = "upsert" => rows'[b] = "online"
      /\ t.query = "touch" => rows[b] = "absent" \/ rows'[b] = "online"
  BY <1>1, <1>2 DEF IInv, Typed
<1>6. saved \subseteq saved'
  BY <1>1
<1>7. Typed'
  BY <1>1, <1>3, <1>5 DEF IInv, Typed
<1>8. TasksFit'
  BY <1>1, <1>3 DEF IInv, TasksFit
<1>9. TasksLive'
  BY <1>1, <1>3 DEF IInv, TasksLive, s
<1>10. Fresh' /\ OwnId' /\ NeverUnknown'
  BY <1>1 DEF IInv, Fresh, OwnId, NeverUnknown
<1>11. AnnouncedIsSaved'
  BY <1>1, <1>6 DEF IInv, AnnouncedIsSaved
<1>12. \A r \in Sockets : InUse(r)' => InUse(r)
  BY <1>1, <1>3 DEF InUse, TasksOf, s
<1>13. Known'
  BY <1>1, <1>12 DEF IInv, Known
<1>14. RowComing'
  <2> SUFFICES ASSUME NEW r \in Sockets, InUse(r)', rows'[Owner[r]] = "absent"
               PROVE  \E v \in tasks' : v.sock = r /\ Upserts(v)
    BY DEF RowComing, Upserts
  <2>1. rows[Owner[r]] = "absent"
    BY <1>5, OwnerAssumption
  <2>2. PICK v \in tasks : v.sock = r /\ Upserts(v)
    BY <1>12, <2>1 DEF IInv, RowComing
  <2>3. v # t
    BY <1>5, <2>2 DEF Upserts, b
  <2> QED
    BY <1>1, <2>2, <2>3
<1>15. HandshakeKept'
  <2> SUFFICES ASSUME NEW r \in Sockets, conn[r] = "open", read[r] > 0
               PROVE  activeAgentId[r] = Owner[r] \/ \E v \in tasks' : v.sock = r /\ v.query = "upsert"
    BY <1>1 DEF HandshakeKept
  <2>1. activeAgentId[r] = Owner[r] \/ \E v \in tasks : v.sock = r /\ v.query = "upsert"
    BY DEF IInv, HandshakeKept
  <2> QED
    BY <1>1, <1>3, <2>1 DEF s
<1>16. SavedFirst'
  <2> SUFFICES ASSUME NEW v \in tasks',
                      v.query = "alerts" \/ (v.query = "save" /\ v.outcome = "done")
               PROVE  <<v.sock, v.frames[1]>> \in saved'
    BY DEF SavedFirst
  <2>1. CASE v \in tasks
    BY <1>6, <2>1 DEF IInv, SavedFirst
  <2>2. CASE v = u /\ t.query = "alerts"
    <3>1. <<t.sock, t.frames[1]>> \in saved
      BY <2>2 DEF IInv, SavedFirst
    <3> QED
      BY <1>3, <1>6, <2>2, <3>1 DEF s
  <2>3. CASE v = u /\ t.query # "alerts"
    <3>1. t.query = "save" /\ ~Fails(t)
      BY <1>3, <2>3
    <3> QED
      BY <1>1, <1>3, <1>4, <2>3, <3>1
  <2> QED
    BY <1>1, <2>1, <2>2, <2>3
<1>17. OnlineHasSource'
  <2>1. \A a \in Agents : Source(a)' = Source(a) /\ OfflinePending(a)' = OfflinePending(a)
    BY <1>1 DEF Source, OfflinePending
  <2>2. Source(b)
    <3>1. read[s] > 0 /\ (conn[s] = "open" \/ s \in raced)
      BY DEF IInv, TasksLive, s
    <3> QED
      BY <1>2, <3>1 DEF Source, b, s
  <2> QED
    BY <1>1, <1>5, <2>1, <2>2 DEF IInv, OnlineHasSource
<1>18. ConfirmedOnline'
  <2> SUFFICES ASSUME NEW a \in Agents, a \in confirmed
               PROVE  \/ rows'[a] = "online" \/ a \in overtaken
                      \/ \E v \in tasks' : Owner[v.sock] = a /\ Sets(v)
    BY <1>1 DEF IInv, ConfirmedOnline, Sets
  <2>1. rows[a] = "online" \/ a \in overtaken \/ \E v \in tasks : Owner[v.sock] = a /\ Sets(v)
    BY DEF IInv, ConfirmedOnline
  <2>2. CASE rows[a] = "online"
    BY <1>5, <2>2
  <2>3. ASSUME NEW v \in tasks, Owner[v.sock] = a, Sets(v), v # t
        PROVE  v \in tasks'
    BY <1>1, <2>3
  <2>4. CASE b = a /\ Sets(t) /\ rows'[b] # "online"
    <3>1. rows[b] = "absent" /\ t.query = "touch"
      BY <1>5, <2>4 DEF Sets
    <3>2. InUse(s)
      BY DEF IInv, TasksLive, InUse, TasksOf, s
    <3>3. PICK v \in tasks : v.sock = s /\ Upserts(v)
      BY <1>2, <3>1, <3>2 DEF IInv, RowComing, b, s
    <3>4. v # t /\ Sets(v) /\ Owner[v.sock] = a
      BY <2>4, <3>1, <3>3 DEF Upserts, Sets, b, s
    <3> QED
      BY <2>3, <3>4
  <2> QED
    BY <2>1, <2>2, <2>3, <2>4 DEF b
<1> QED
  BY <1>7, <1>8, <1>9, <1>10, <1>11, <1>13, <1>14, <1>15, <1>16, <1>17, <1>18 DEF IInv

LEMMA CheckAlertsKeeps ==
  ASSUME IInv, NEW t \in tasks, CheckAlerts(t)
  PROVE  IInv'
<1> DEFINE s == t.sock
           u == [t EXCEPT !.query = "alerts", !.outcome = "pending"]
<1>1. /\ t.outcome = "done" /\ t.query = "save"
      /\ tasks' = (tasks \ {t}) \union {u}
      /\ UNCHANGED <<agents, rows, conn, activeAgentId, read, offlineQueries, saved, broadcast,
                     acked, raced, strangers, confirmed, overtaken>>
  BY DEF CheckAlerts, outputVars, historyVars
<1>2. t \in Task /\ s \in Sockets
  BY DEF IInv, Typed, Task
<1>3. /\ u \in Task /\ u.sock = s /\ u.frames = t.frames
      /\ u.query = "alerts" /\ u.outcome = "pending"
  BY <1>2 DEF Task, Queries
<1> HIDE DEF u, s
<1>4. Typed'
  BY <1>1, <1>3 DEF IInv, Typed
<1>5. TasksFit'
  <2>1. t.frames[1].kind = "telemetry"
    <3>1. t.frames[1] \in Frame
      BY <1>2 DEF IInv, TasksFit, Task
    <3>2. Fits("save", t.frames[1].kind)
      BY <1>1 DEF IInv, TasksFit
    <3> QED
      BY <3>1, <3>2 DEF Fits, FirstQuery, Frame
  <2> QED
    BY <1>1, <1>3, <2>1 DEF IInv, TasksFit, Fits
<1>6. TasksLive'
  BY <1>1, <1>3 DEF IInv, TasksLive, s
<1>7. Fresh' /\ OwnId' /\ NeverUnknown' /\ AnnouncedIsSaved'
  BY <1>1 DEF IInv, Fresh, OwnId, NeverUnknown, AnnouncedIsSaved
<1>8. \A r \in Sockets : InUse(r)' => InUse(r)
  BY <1>1, <1>3 DEF InUse, TasksOf, s
<1>9. Known'
  BY <1>1, <1>8 DEF IInv, Known
<1>10. RowComing'
  <2> SUFFICES ASSUME NEW r \in Sockets, InUse(r)', rows[Owner[r]] = "absent"
               PROVE  \E v \in tasks' : v.sock = r /\ Upserts(v)
    BY <1>1 DEF RowComing, Upserts
  <2>1. PICK v \in tasks : v.sock = r /\ Upserts(v)
    BY <1>8 DEF IInv, RowComing
  <2> QED
    BY <1>1, <2>1 DEF Upserts
<1>11. HandshakeKept'
  BY <1>1 DEF IInv, HandshakeKept
<1>12. SavedFirst'
  <2>1. <<t.sock, t.frames[1]>> \in saved
    BY <1>1 DEF IInv, SavedFirst
  <2> QED
    BY <1>1, <1>3, <2>1 DEF IInv, SavedFirst, s
<1>13. OnlineHasSource'
  BY <1>1 DEF IInv, OnlineHasSource, Source, OfflinePending
<1>14. ConfirmedOnline'
  <2>1. \A v \in tasks : Sets(v) => v \in tasks'
    BY <1>1 DEF Sets
  <2>2. \A v : Sets(v)' = Sets(v)
    BY DEF Sets
  <2> QED
    BY <1>1, <2>1, <2>2 DEF IInv, ConfirmedOnline
<1> QED
  BY <1>4, <1>5, <1>6, <1>7, <1>9, <1>10, <1>11, <1>12, <1>13, <1>14 DEF IInv

(* A handler that goes on to the next frame of its chunk. *)
LEMMA FinishFrameKeeps ==
  ASSUME IInv, NEW t \in tasks, FinishFrame(t)
  PROVE  IInv'
<1> DEFINE s == t.sock
           f == Head(t.frames)
           fs == Tail(t.frames)
           n == NewTask(s, fs)
<1>1. /\ t.outcome = "done" /\ t.query # "save"
      /\ activeAgentId' = IF f.kind = "handshake"
                          THEN [activeAgentId EXCEPT ![s] = Owner[s]] ELSE activeAgentId
      /\ broadcast' = IF f.kind = "telemetry" THEN broadcast \union {<<s, f>>} ELSE broadcast
      /\ acked' = acked \union {<<s, f>>}
      /\ Continue(t)
      /\ UNCHANGED <<rows, conn, read, offlineQueries, saved, raced>>
  BY DEF FinishFrame
<1>2. t \in Task /\ s \in Sockets /\ Owner[s] \in Agents /\ t.frames \in Seq(Frame)
  BY OwnerAssumption DEF IInv, Typed, Task
<1>3. t.frames # <<>> /\ f = t.frames[1] /\ f \in Frame
      /\ PastHandshake(t.frames) /\ Fits(t.query, f.kind)
  BY <1>2 DEF IInv, TasksFit
<1>4. read[s] > 0 /\ (conn[s] = "open" \/ (conn[s] = "closed" /\ s \in raced))
  BY DEF IInv, TasksLive
<1>5. InUse(s) /\ agents[Owner[s]] # "unknown"
  BY <1>2, <1>4 DEF IInv, InUse, TasksOf, Known
(* What the step does to tasks, agents and confirmed. *)
<1>6. /\ tasks' = tasks \ {t} \/ (tasks' = (tasks \ {t}) \union {n} /\ fs # <<>>)
      /\ agents' \in [Agents -> {"unknown", "online", "offline"}]
      /\ strangers' = {}
      /\ \A a \in Agents : agents'[a] = agents[a] \/ (a = Owner[s] /\ agents'[a] = "online")
      /\ \A a \in Agents : a \in confirmed' =>
           \/ a \in confirmed /\ (a \in overtaken => a \in overtaken')
           \/ /\ a = Owner[s] /\ n \in tasks' /\ fs # <<>> /\ fs[1].kind # "telemetry"
              /\ agents'[a] = "online"
  <2>1. CASE fs = <<>>
    BY <1>1, <2>1 DEF Continue, IInv, Typed, NeverUnknown
  <2>2. CASE fs # <<>>
    <3>1. tasks' = (tasks \ {t}) \union {n} /\ BeginFrame(s, Head(fs))
      BY <1>1, <2>2 DEF Continue
    <3>2. Head(fs) = fs[1] /\ fs[1] \in Frame
      BY <1>2, <1>3, <2>2, RestFits, NewTaskFits
    <3> QED
      BY <1>2, <1>5, <2>2, <3>1, <3>2, BeginFrameDoes DEF IInv
  <2> QED
    BY <2>1, <2>2
<1>7. fs # <<>> =>
        /\ n \in Task /\ n.sock = s /\ n.frames = fs
        /\ n.query = FirstQuery(fs[1].kind) /\ n.outcome = "pending"
        /\ fs[1] \in Frame /\ fs[1].kind # "handshake"
        /\ PastHandshake(fs)
  <2> SUFFICES ASSUME fs # <<>>
               PROVE  /\ n \in Task /\ n.sock = s /\ n.frames = fs
                      /\ n.query = FirstQuery(fs[1].kind) /\ n.outcome = "pending"
                      /\ fs[1] \in Frame /\ fs[1].kind # "handshake"
                      /\ PastHandshake(fs)
    OBVIOUS
  <2>1. fs \in Seq(Frame) /\ PastHandshake(fs) /\ fs[1].kind # "handshake"
    BY <1>2, <1>3, RestFits
  <2> HIDE DEF fs, s
  <2> QED
    BY <1>2, <2>1, NewTaskFits
<1> HIDE DEF n, fs, f, s
<1>8. \A v \in tasks' : v \in tasks \/ (v = n /\ fs # <<>>)
  BY <1>6
<1>9. \A v \in tasks : v.outcome # "done" => v \in tasks'
  BY <1>1, <1>6
<1>10. /\ activeAgentId' \in [Sockets -> Agents \union {NoAgent}]
       /\ \A r \in Sockets : activeAgentId'[r] = activeAgentId[r] \/ (r = s /\ activeAgentId'[r] = Owner[r])
       /\ f.kind = "handshake" => activeAgentId'[s] = Owner[s]
  BY <1>1, <1>2 DEF IInv, Typed
<1>11. Typed'
  BY <1>1, <1>6, <1>7, <1>8, <1>10 DEF IInv, Typed
<1>12. TasksFit'
  BY <1>7, <1>8 DEF IInv, TasksFit, Fits
<1>13. TasksLive'
  BY <1>1, <1>4, <1>7, <1>8 DEF IInv, TasksLive
<1>14. Fresh' /\ OwnId' /\ NeverUnknown'
  BY <1>1, <1>6, <1>10 DEF IInv, Fresh, OwnId, NeverUnknown
<1>15. \A r \in Sockets : InUse(r)' => InUse(r)
  BY <1>1, <1>5, <1>7, <1>8 DEF InUse, TasksOf
<1>16. Known'
  <2> SUFFICES ASSUME NEW r \in Sockets, InUse(r)' PROVE agents'[Owner[r]] # "unknown"
    BY DEF Known
  <2>1. agents[Owner[r]] # "unknown" /\ Owner[r] \in Agents
    BY <1>15, OwnerAssumption DEF IInv, Known
  <2> QED
    BY <1>6, <2>1
<1>17. RowComing'
  <2> SUFFICES ASSUME NEW r \in Sockets, InUse(r)', rows[Owner[r]] = "absent"
               PROVE  \E v \in tasks' : v.sock = r /\ Upserts(v)
    BY <1>1 DEF RowComing, Upserts
  <2>1. PICK v \in tasks : v.sock = r /\ Upserts(v)
    BY <1>15 DEF IInv, RowComing
  <2> QED
    BY <1>9, <2>1 DEF Upserts
<1>18. HandshakeKept'
  <2> SUFFICES ASSUME NEW r \in Sockets, conn[r] = "open", read[r] > 0
               PROVE  activeAgentId'[r] = Owner[r] \/ \E v \in tasks' : v.sock = r /\ v.query = "upsert"
    BY <1>1 DEF HandshakeKept
  <2>1. CASE activeAgentId[r] = Owner[r]
    BY <1>10, <2>1
  <2>2. CASE \E v \in tasks : v.sock = r /\ v.query = "upsert"
    <3>1. PICK v \in tasks : v.sock = r /\ v.query = "upsert"
      BY <2>2
    <3>2. CASE v = t
      <4>1. f.kind = "handshake"
        BY <1>3, <3>1, <3>2 DEF Fits, FirstQuery, Frame
      <4> QED
        BY <1>10, <3>1, <3>2, <4>1 DEF s
    <3>3. CASE v # t
      BY <1>6, <3>1, <3>3
    <3> QED
      BY <3>2, <3>3
  <2> QED
    BY <2>1, <2>2 DEF IInv, HandshakeKept
<1>19. SavedFirst'
  <2>1. fs # <<>> => n.query # "alerts" /\ n.outcome # "done"
    BY <1>7 DEF FirstQuery, Frame
  <2> QED
    BY <1>1, <1>8, <2>1 DEF IInv, SavedFirst
<1>20. AnnouncedIsSaved'
  <2>1. f.kind = "telemetry" => <<s, f>> \in saved
    <3> SUFFICES ASSUME f.kind = "telemetry" PROVE <<s, f>> \in saved
      OBVIOUS
    <3>1. t.query = "alerts"
      BY <1>1, <1>3 DEF Fits, FirstQuery
    <3> QED
      BY <1>3, <3>1 DEF IInv, SavedFirst, s
  <2>2. broadcast' \subseteq saved'
    BY <1>1, <2>1 DEF IInv, AnnouncedIsSaved
  <2>3. \A m \in acked' : m[2].kind = "telemetry" => m \in broadcast'
    BY <1>1 DEF IInv, AnnouncedIsSaved
  <2> QED
    BY <2>2, <2>3 DEF AnnouncedIsSaved
<1>21. OnlineHasSource'
  <2>1. \A a \in Agents : Source(a)' = Source(a) /\ OfflinePending(a)' = OfflinePending(a)
    BY <1>1 DEF Source, OfflinePending
  <2>2. Source(Owner[s])
    BY <1>2, <1>4 DEF Source
  <2> QED
    BY <1>1, <1>6, <2>1, <2>2 DEF IInv, OnlineHasSource
<1>22. ConfirmedOnline'
  <2> SUFFICES ASSUME NEW a \in Agents, a \in confirmed'
               PROVE  /\ agents'[a] = "online"
                      /\ \/ rows[a] = "online" \/ a \in overtaken'
                         \/ \E v \in tasks' : Owner[v.sock] = a /\ Sets(v)
    BY <1>1 DEF ConfirmedOnline, Sets
  <2>1. CASE a \in confirmed /\ (a \in overtaken => a \in overtaken')
    <3>1. /\ agents[a] = "online"
          /\ \/ rows[a] = "online" \/ a \in overtaken
             \/ \E v \in tasks : Owner[v.sock] = a /\ Sets(v)
      BY <2>1 DEF IInv, ConfirmedOnline
    <3> QED
      BY <1>6, <1>9, <2>1, <3>1 DEF Sets
  <2>2. CASE ~(a \in confirmed /\ (a \in overtaken => a \in overtaken'))
    <3>1. /\ a = Owner[s] /\ n \in tasks' /\ fs # <<>> /\ fs[1].kind # "telemetry"
          /\ agents'[a] = "online"
      BY <1>6, <2>2
    <3>2. Sets(n)
      BY <1>7, <3>1 DEF Sets, FirstQuery, Frame
    <3> QED
      BY <1>7, <3>1, <3>2
  <2> QED
    BY <2>1, <2>2
<1> QED
  BY <1>11, <1>12, <1>13, <1>14, <1>16, <1>17, <1>18, <1>19, <1>20, <1>21, <1>22 DEF IInv

(* 'close' marks an agent offline unless its handshake is still being handled:
   then the socket is one that was raced with. *)
LEMMA OnCloseKeeps ==
  ASSUME IInv, NEW s \in Sockets, OnClose(s)
  PROVE  IInv'
<1> DEFINE b == Owner[s]
<1>1. /\ conn[s] = "open"
      /\ conn' = [conn EXCEPT ![s] = "closed"]
      /\ IF activeAgentId[s] # NoAgent
         THEN /\ MarkOffline(activeAgentId[s])
              /\ offlineQueries' = offlineQueries \union {s}
              /\ confirmed' = confirmed \ {activeAgentId[s]}
              /\ overtaken' = overtaken \ {activeAgentId[s]}
         ELSE UNCHANGED <<agents, offlineQueries, confirmed, overtaken>>
      /\ raced' = IF TasksOf(s) # {} THEN raced \union {s} ELSE raced
      /\ UNCHANGED <<rows, activeAgentId, read, tasks, saved, broadcast, acked, strangers>>
  BY DEF OnClose, outputVars
<1>2. b \in Agents /\ b # NoAgent /\ activeAgentId[s] \in {NoAgent, b}
  BY OwnerAssumption, NoAgentAssumption DEF IInv, OwnId
<1>3. /\ conn' \in [Sockets -> {"idle", "open", "closed", "cut"}]
      /\ conn'[s] = "closed"
      /\ \A r \in Sockets : r # s => conn'[r] = conn[r]
  BY <1>1 DEF IInv, Typed
<1>4. /\ agents' \in [Agents -> {"unknown", "online", "offline"}]
      /\ \A a \in Agents : a # b => agents'[a] = agents[a]
      /\ agents'[b] = agents[b] \/ (agents[b] # "unknown" /\ agents'[b] = "offline")
      /\ activeAgentId[s] = b => agents'[b] # "online"
      /\ activeAgentId[s] = NoAgent => agents' = agents
  BY <1>1, <1>2 DEF IInv, Typed, MarkOffline
<1>5. /\ activeAgentId[s] = b =>
           /\ offlineQueries' = offlineQueries \union {s}
           /\ confirmed' = confirmed \ {b} /\ overtaken' = overtaken \ {b}
      /\ activeAgentId[s] = NoAgent =>
           offlineQueries' = offlineQueries /\ confirmed' = confirmed /\ overtaken' = overtaken
  BY <1>1, <1>2
<1> HIDE DEF b
<1>6. Typed'
  BY <1>1, <1>2, <1>3, <1>4, <1>5 DEF IInv, Typed
<1>7. TasksFit' /\ OwnId' /\ SavedFirst' /\ AnnouncedIsSaved' /\ NeverUnknown'
  BY <1>1 DEF IInv, TasksFit, OwnId, SavedFirst, AnnouncedIsSaved, NeverUnknown
<1>8. TasksLive'
  <2> SUFFICES ASSUME NEW t \in tasks
               PROVE  /\ read[t.sock] > 0
                      /\ conn'[t.sock] = "open" \/ (conn'[t.sock] = "closed" /\ t.sock \in raced')
    BY <1>1 DEF TasksLive
  <2>1. /\ t.sock \in Sockets /\ read[t.sock] > 0
        /\ conn[t.sock] = "open" \/ (conn[t.sock] = "closed" /\ t.sock \in raced)
    BY DEF IInv, Typed, Task, TasksLive
  <2>2. CASE t.sock = s
    <3>1. TasksOf(s) # {}
      BY <2>2 DEF TasksOf
    <3> QED
      BY <1>1, <1>3, <2>1, <2>2, <3>1
  <2>3. CASE t.sock # s
    BY <1>1, <1>3, <2>1, <2>3
  <2> QED
    BY <2>2, <2>3
<1>9. Fresh'
  BY <1>1, <1>3 DEF IInv, Fresh
<1>10. \A r \in Sockets : InUse(r)' => InUse(r)
  BY <1>1, <1>3 DEF InUse, TasksOf
<1>11. Known'
  <2> SUFFICES ASSUME NEW r \in Sockets, InUse(r)' PROVE agents'[Owner[r]] # "unknown"
    BY DEF Known
  <2>1. agents[Owner[r]] # "unknown" /\ Owner[r] \in Agents
    BY <1>10, OwnerAssumption DEF IInv, Known
  <2> QED
    BY <1>4, <2>1
<1>12. RowComing'
  BY <1>1, <1>10 DEF IInv, RowComing, Upserts
<1>13. HandshakeKept'
  BY <1>1, <1>3 DEF IInv, HandshakeKept
(* The closing connection is a source no longer, unless it was raced with or
   had read nothing. *)
<1>14. \A a \in Agents : Source(a) =>
         Source(a)' \/ (a = b /\ activeAgentId[s] = b)
  <2> SUFFICES ASSUME NEW a \in Agents, Source(a), ~(a = b /\ activeAgentId[s] = b)
               PROVE  Source(a)'
    OBVIOUS
  <2>1. PICK r \in Sockets :
          /\ Owner[r] = a
          /\ (conn[r] = "open" /\ read[r] > 0) \/ conn[r] = "cut" \/ r \in raced
    BY DEF Source
  <2>2. CASE r # s \/ r \in raced
    BY <1>1, <1>3, <2>1, <2>2 DEF Source
  <2>3. CASE r = s /\ r \notin raced
    <3>1. a = b /\ read[s] > 0 /\ activeAgentId[s] # b
      BY <1>1, <2>1, <2>3 DEF b
    <3>2. TasksOf(s) # {}
      BY <1>1, <3>1 DEF IInv, HandshakeKept, TasksOf, b
    <3> QED
      BY <1>1, <2>1, <2>3, <3>2 DEF Source
  <2> QED
    BY <2>2, <2>3
<1>15. OnlineHasSource'
  <2> SUFFICES ASSUME NEW a \in Agents
               PROVE  /\ agents'[a] = "online" => Source(a)'
                      /\ rows[a] = "online" => Source(a)' \/ OfflinePending(a)'
    BY <1>1 DEF OnlineHasSource
  <2>1. OfflinePending(a) => OfflinePending(a)'
    BY <1>2, <1>5 DEF OfflinePending
  <2>2. CASE a = b /\ activeAgentId[s] = b
    <3>1. s \in offlineQueries' /\ Owner[s] = a
      BY <1>5, <2>2 DEF b
    <3> QED
      BY <1>4, <2>2, <3>1 DEF OfflinePending
  <2>3. CASE ~(a = b /\ activeAgentId[s] = b)
    <3>1. agents'[a] = agents[a]
      BY <1>2, <1>4, <2>3
    <3> QED
      BY <1>14, <2>1, <2>3, <3>1 DEF IInv, OnlineHasSource
  <2> QED
    BY <2>2, <2>3
<1>16. ConfirmedOnline'
  <2> SUFFICES ASSUME NEW a \in Agents, a \in confirmed'
               PROVE  /\ agents'[a] = "online"
                      /\ \/ rows[a] = "online" \/ a \in overtaken'
                         \/ \E t \in tasks : Owner[t.sock] = a /\ Sets(t)
    BY <1>1 DEF ConfirmedOnline, Sets
  <2>1. a \in confirmed /\ ~(a = b /\ activeAgentId[s] = b) /\ (a \in overtaken => a \in overtaken')
    BY <1>2, <1>5
  <2>2. /\ agents[a] = "online"
        /\ \/ rows[a] = "online" \/ a \in overtaken
           \/ \E t \in tasks : Owner[t.sock] = a /\ Sets(t)
    BY <2>1 DEF IInv, ConfirmedOnline
  <2>3. agents'[a] = "online"
    BY <1>2, <1>4, <2>1, <2>2
  <2> QED
    BY <2>1, <2>2, <2>3
<1> QED
  BY <1>6, <1>7, <1>8, <1>9, <1>11, <1>12, <1>13, <1>15, <1>16 DEF IInv

LEMMA MarkOfflineExecutesKeeps ==
  ASSUME IInv, NEW s \in Sockets, MarkOfflineExecutes(s)
  PROVE  IInv'
<1> DEFINE b == Owner[s]
<1>1. /\ s \in offlineQueries
      /\ offlineQueries' = offlineQueries \ {s}
      /\ rows' = [rows EXCEPT ![b] = IF @ = "absent" THEN @ ELSE "offline"]
      /\ UNCHANGED <<agents, conn, activeAgentId, read, tasks, saved, broadcast, acked,
                     raced, strangers, confirmed>>
      /\ overtaken' = IF b \in confirmed THEN overtaken \union {b} ELSE overtaken
  BY DEF MarkOfflineExecutes, outputVars, historyVars
<1>2. b \in Agents /\ OfflinePending(b)
  BY <1>1, OwnerAssumption DEF OfflinePending
<1> HIDE DEF b
<1>3. /\ rows' \in [Agents -> {"absent", "online", "offline"}]
      /\ rows'[b] # "online"
      /\ \A a \in Agents : a # b => rows'[a] = rows[a]
      /\ \A a \in Agents : rows'[a] = "absent" => rows[a] = "absent"
  BY <1>1, <1>2 DEF IInv, Typed
<1>4. Typed'
  BY <1>1, <1>3 DEF IInv, Typed
<1>5. TasksFit' /\ TasksLive' /\ Fresh' /\ OwnId'
  BY <1>1 DEF IInv, TasksFit, TasksLive, Fresh, OwnId
<1>6. SavedFirst' /\ AnnouncedIsSaved' /\ NeverUnknown' /\ HandshakeKept'
  BY <1>1 DEF IInv, SavedFirst, AnnouncedIsSaved, NeverUnknown, HandshakeKept
<1>7. \A r \in Sockets : InUse(r)' = InUse(r) /\ Owner[r] \in Agents
  BY <1>1, OwnerAssumption DEF InUse, TasksOf
<1>8. Known'
  BY <1>1, <1>7 DEF IInv, Known
<1>9. RowComing'
  BY <1>1, <1>3, <1>7 DEF IInv, RowComing, Upserts
<1>10. OnlineHasSource'
  <2>1. \A a \in Agents : Source(a)' = Source(a)
    BY <1>1 DEF Source
  <2>2. \A a \in Agents : a # b /\ OfflinePending(a) => OfflinePending(a)'
    BY <1>1 DEF OfflinePending, b
  <2>3. \A a \in Agents : agents'[a] = "online" => Source(a)'
    BY <1>1, <2>1 DEF IInv, OnlineHasSource
  <2>4. \A a \in Agents : rows'[a] = "online" => Source(a)' \/ OfflinePending(a)'
    BY <1>3, <2>1, <2>2 DEF IInv, OnlineHasSource
  <2> QED
    BY <2>3, <2>4 DEF OnlineHasSource
<1>11. ConfirmedOnline'
  <2> SUFFICES ASSUME NEW a \in Agents, a \in confirmed
               PROVE  /\ agents[a] = "online"
                      /\ \/ rows'[a] = "online" \/ a \in overtaken'
                         \/ \E t \in tasks : Owner[t.sock] = a /\ Sets(t)
    BY <1>1 DEF ConfirmedOnline, Sets
  <2>1. /\ agents[a] = "online"
        /\ \/ rows[a] = "online" \/ a \in overtaken
           \/ \E t \in tasks : Owner[t.sock] = a /\ Sets(t)
    BY DEF IInv, ConfirmedOnline
  <2>2. CASE a = b
    BY <1>1, <2>1, <2>2
  <2>3. CASE a # b
    BY <1>1, <1>3, <2>1, <2>3
  <2> QED
    BY <2>2, <2>3
<1> QED
  BY <1>4, <1>5, <1>6, <1>8, <1>9, <1>10, <1>11 DEF IInv

(* A restart forgets all that was in memory, and cuts what it was about. *)
LEMMA RebootKeeps ==
  ASSUME IInv, Reboot
  PROVE  IInv'
<1>1. /\ agents' = [a \in Agents |-> "unknown"]
      /\ conn' = [s \in Sockets |->
                    IF conn[s] = "open" \/ TasksOf(s) # {} \/ s \in offlineQueries
                    THEN "cut" ELSE conn[s]]
      /\ activeAgentId' = [s \in Sockets |-> NoAgent]
      /\ tasks' = {}
      /\ offlineQueries' = {}
      /\ confirmed' = {}
      /\ overtaken' = {}
      /\ UNCHANGED <<rows, read, saved, broadcast, acked, raced, strangers>>
  BY DEF Reboot, outputVars
<1>2. /\ conn' \in [Sockets -> {"idle", "open", "closed", "cut"}]
      /\ \A s \in Sockets : conn'[s] # "open"
      /\ \A s \in Sockets : conn'[s] = "cut" \/ conn'[s] = conn[s]
      /\ \A s \in Sockets : conn[s] = "open" \/ s \in offlineQueries => conn'[s] = "cut"
  BY <1>1 DEF IInv, Typed
<1>3. Typed'
  BY <1>1, <1>2 DEF IInv, Typed
<1>4. TasksFit' /\ TasksLive' /\ OwnId' /\ SavedFirst' /\ ConfirmedOnline'
  BY <1>1 DEF TasksFit, TasksLive, OwnId, SavedFirst, ConfirmedOnline
<1>5. Fresh' /\ AnnouncedIsSaved' /\ NeverUnknown'
  BY <1>1, <1>2 DEF IInv, Fresh, AnnouncedIsSaved, NeverUnknown
<1>6. Known' /\ RowComing' /\ HandshakeKept'
  <2>1. \A s \in Sockets : ~InUse(s)'
    BY <1>1, <1>2 DEF InUse, TasksOf
  <2> QED
    BY <1>2, <2>1 DEF Known, RowComing, HandshakeKept
<1>7. OnlineHasSource'
  <2>1. \A a \in Agents : Source(a) \/ OfflinePending(a) => Source(a)'
    <3> SUFFICES ASSUME NEW a \in Agents, Source(a) \/ OfflinePending(a)
                 PROVE  Source(a)'
      OBVIOUS
    <3>1. CASE Source(a)
      BY <1>1, <1>2, <3>1 DEF Source
    <3>2. CASE OfflinePending(a)
      <4>1. PICK s \in offlineQueries : Owner[s] = a
        BY <3>2 DEF OfflinePending
      <4>2. s \in Sockets
        BY DEF IInv, Typed
      <4> QED
        BY <1>2, <4>1, <4>2 DEF Source
    <3> QED
      BY <3>1, <3>2
  <2> QED
    BY <1>1, <2>1 DEF IInv, OnlineHasSource
<1> QED
  BY <1>3, <1>4, <1>5, <1>6, <1>7 DEF IInv

LEMMA StutterKeeps == IInv /\ UNCHANGED vars => IInv'
<1> SUFFICES ASSUME IInv, UNCHANGED vars PROVE IInv'
  OBVIOUS
<1> USE DEF vars, outputVars, historyVars
<1>1. Typed' /\ TasksFit' /\ TasksLive' /\ Fresh' /\ OwnId'
  BY DEF IInv, Typed, TasksFit, TasksLive, Fresh, OwnId
<1>2. Known' /\ HandshakeKept'
  BY DEF IInv, Known, HandshakeKept, InUse, TasksOf
<1>3. RowComing'
  BY DEF IInv, RowComing, Upserts, InUse, TasksOf
<1>4. SavedFirst' /\ AnnouncedIsSaved' /\ NeverUnknown'
  BY DEF IInv, SavedFirst, AnnouncedIsSaved, NeverUnknown
<1>5. OnlineHasSource'
  BY DEF IInv, OnlineHasSource, Source, OfflinePending
<1>6. ConfirmedOnline'
  BY DEF IInv, ConfirmedOnline, Sets
<1> QED
  BY <1>1, <1>2, <1>3, <1>4, <1>5, <1>6 DEF IInv

LEMMA Invariance == Spec => []IInv
<1>1. IInv /\ [Next]_vars => IInv'
  BY AcceptKeeps, OnDataKeeps, QueryExecutesKeeps, CheckAlertsKeeps, FinishFrameKeeps,
     OnCloseKeeps, MarkOfflineExecutesKeeps, RebootKeeps, StutterKeeps
  DEF Next, Crash, Restart
<1> QED
  BY InitIInv, <1>1, PTL DEF Spec

----
(* Telemetry that the dashboards or the agent were told of is in the database,
   whatever 'data' handlers, failures and restarts did in between. *)
THEOREM AnnouncedTelemetryIsSaved == Spec => []AnnouncedIsSaved
<1>1. IInv => AnnouncedIsSaved
  BY DEF IInv
<1> QED
  BY Invariance, <1>1, PTL

(* handleConnection never answers a heartbeat with "Unknown agent": a handshake
   is registered before a later chunk of its connection is looked at. *)
THEOREM HeartbeatsAreKnown == Spec => []NeverUnknown
<1>1. IInv => NeverUnknown
  BY DEF IInv
<1> QED
  BY Invariance, <1>1, PTL

(* Saving fails for want of the agent's row only while the upsert of the same
   connection's handshake is still to be executed. *)
THEOREM FailuresAwaitHandshake == Spec => []FailsOnlyBehindHandshake
<1>1. IInv => FailsOnlyBehindHandshake
  <2> SUFFICES ASSUME IInv, NEW t \in tasks, rows[Owner[t.sock]] = "absent"
               PROVE  \E u \in TasksOf(t.sock) : u.query = "upsert" /\ u.outcome = "pending"
    BY DEF FailsOnlyBehindHandshake
  <2>1. t.sock \in Sockets /\ InUse(t.sock)
    BY DEF IInv, Typed, Task, TasksLive, InUse, TasksOf
  <2> QED
    BY <2>1 DEF IInv, RowComing, Upserts, TasksOf
<1> QED
  BY Invariance, <1>1, PTL

(* An agent whose connections have all closed is offline once its queries are
   executed, in ConnectionManager and in the agents table, unless 'close' or a
   restart came between a connection and its handlers. *)
THEOREM GoneAgentsAreOffline == Spec => []GoneIsOffline
<1>1. IInv => GoneIsOffline
  <2> SUFFICES ASSUME IInv, NEW a \in Agents, Settled(a),
                      \A s \in Sockets : Owner[s] = a => conn[s] \in {"idle", "closed"} /\ s \notin raced
               PROVE  rows[a] # "online" /\ agents[a] # "online"
    BY DEF GoneIsOffline
  <2>1. ~Source(a) /\ ~OfflinePending(a)
    BY DEF Source, Settled
  <2> QED
    BY <2>1 DEF IInv, OnlineHasSource
<1> QED
  BY Invariance, <1>1, PTL

(* An agent heard from since the last 'close' that marked it offline is online
   once its queries are executed: in ConnectionManager always, and in the agents
   table unless the markOffline query of a connection that was replaced was
   executed after the agent was last heard. *)
THEOREM HeardAgentsAreOnline == Spec => []HeardIsOnline
<1>1. IInv => HeardIsOnline
  BY DEF IInv, HeardIsOnline, ConfirmedOnline, Settled
<1> QED
  BY Invariance, <1>1, PTL
====
