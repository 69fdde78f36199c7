---- MODULE LiveUpdates_proofs ----
(***************************************************************************)
(* The dashboard hears of a write at most once and shows stale data only   *)
(* for a reason, for any writes, pages, queries, losses and renders.       *)
(***************************************************************************)
EXTENDS LiveUpdates, SequenceTheorems, WellFoundedInduction, TLAPS

Typed ==
  /\ log \in Seq(Kinds)
  /\ unannounced \subseteq 1..Len(log)
  /\ replies \subseteq 1..Len(log)
  /\ state \in [Sockets -> {"none", "connecting", "open", "closing", "closed"}]
  /\ madeBy \in [Sockets -> Nat]
  /\ channel \in [Sockets -> Seq(Nat)]
  /\ effect \in Nat
  /\ heard \in Seq(Nat)
  /\ cached \in [Keys -> Nat \union {NoData}]
  /\ fetch \in [Keys -> Nat \union {Idle, Started}]

(* A socket of the last run of the effect that has not been closed. *)
Pending(s) == madeBy[s] = effect /\ state[s] \in {"connecting", "open", "closing"}

(* There is one socket or one timer: a run of the effect makes its next socket
   when the one before is closed, and the cleanup closes that of the last run. *)
OneSocket ==
  /\ \A s \in Sockets : madeBy[s] <= effect
  /\ \A s \in Sockets : state[s] \in {"connecting", "open"} => madeBy[s] = effect
  /\ \A s, r \in Sockets : Pending(s) /\ Pending(r) => s = r
  /\ reconnect \subseteq {effect}
  /\ effect \in reconnect => \A s \in Sockets : ~Pending(s)

(* A message is to be broadcast, on its way or heard, and only one of these. *)
OpenCarries == \A s \in Sockets : channel[s] # <<>> => state[s] = "open"
CarriedOnce ==
  \A s \in Sockets :
    /\ \A j \in 1..Len(channel[s]) : channel[s][j] \in (1..Len(log)) \ unannounced
    /\ \A j, l \in 1..Len(channel[s]) : channel[s][j] = channel[s][l] => j = l
HeardApart ==
  /\ \A l \in 1..Len(heard) : heard[l] \in (1..Len(log)) \ unannounced
  /\ \A s \in Sockets : \A j \in 1..Len(channel[s]) : \A l \in 1..Len(heard) :
       channel[s][j] # heard[l]

Messages == OpenCarries /\ CarriedOnce /\ HeardApart /\ HeardOnce

(* The page has been told of a write, by a message or by the answer to its own. *)
Told(i) == IF log[i] \in OwnKinds THEN i \notin replies ELSE Heard(i)

(* A query that was to be invalidated for a write has it, will have it with the
   answer to its request, or is requested when its page is shown. *)
Informed(i, k) ==
  \/ <<i, k>> \in early
  \/ fetch[k] = Started
  \/ fetch[k] >= i
  \/ fetch[k] = Idle /\ cached[k] >= i
  \/ fetch[k] = Idle /\ k \notin Mounted /\ (k \in invalid \/ cached[k] = NoData)

ShownIsRequested == \A k \in Mounted : fetch[k] # Idle \/ cached[k] # NoData

ToldIsInformed ==
  \A k \in Keys : \A i \in 1..Len(log) :
    Told(i) /\ k \in Invalidates(log[i]) => Informed(i, k)

IInv == Typed /\ OneSocket /\ Messages /\ ShownIsRequested /\ ToldIsInformed

----
LEMMA InitIInv == Init => IInv
<1> SUFFICES ASSUME Init PROVE IInv
  OBVIOUS
<1>1. Typed
  <2>1. <<>> \in Seq(Kinds) /\ <<>> \in Seq(Nat) /\ Len(<<>>) = 0
    BY EmptySeq
  <2>2. state \in [Sockets -> {"none", "connecting", "open", "closing", "closed"}]
    BY DEF Init
  <2>3. madeBy \in [Sockets -> Nat] /\ channel \in [Sockets -> Seq(Nat)]
    BY <2>1 DEF Init
  <2>4. cached \in [Keys -> Nat \union {NoData}] /\ fetch \in [Keys -> Nat \union {Idle, Started}]
    BY DEF Init
  <2> QED
    BY <2>1, <2>2, <2>3, <2>4 DEF Init, Typed
<1>2. OneSocket
  BY DEF Init, OneSocket, Pending, Sockets
<1>3. Messages
  <2>1. Len(heard) = 0 /\ DOMAIN heard = {} /\ \A s \in Sockets : channel[s] = <<>> /\ Len(channel[s]) = 0
    BY DEF Init
  <2> QED
    BY <2>1 DEF Messages, OpenCarries, CarriedOnce, HeardApart, HeardOnce
<1>4. ShownIsRequested
  <2>1. \A k \in Mounted : k \in Keys /\ fetch[k] = Started
    BY DEF Init, Mounted
  <2> QED
    BY <2>1 DEF ShownIsRequested, Started, Idle
<1>5. ToldIsInformed
  <2>1. Len(log) = 0
    BY DEF Init
  <2> QED
    BY <2>1 DEF ToldIsInformed
<1> QED
  BY <1>1, <1>2, <1>3, <1>4, <1>5 DEF IInv

LEMMA Lengths ==
  ASSUME Typed
  PROVE  /\ Len(log) \in Nat /\ Len(heard) \in Nat
         /\ DOMAIN heard = 1..Len(heard)
         /\ \A s \in Sockets : Len(channel[s]) \in Nat
         /\ \A l \in 1..Len(heard) : heard[l] \in Nat
<1>1. \A s \in Sockets : channel[s] \in Seq(Nat)
  BY DEF Typed
<1> QED
  BY <1>1, LenProperties, ElementOfSeq DEF Typed

(* A socket is made of one that was not used. *)
LEMMA NextIsUnused ==
  ASSUME Unused # {}
  PROVE  NextSocket \in Sockets /\ state[NextSocket] = "none"
<1>1. Unused \subseteq Nat
  BY DEF Unused, Sockets
<1>2. PICK s \in Unused : \A r \in Unused : ~(<<r, s>> \in OpToRel(<, Nat))
  BY <1>1, NatLessThanWellFounded, WFMin
<1>3. \A r \in Unused : ~(r < s)
  BY <1>1, <1>2 DEF OpToRel
<1>4. \A r \in Unused : s <= r
  BY <1>1, <1>3
<1>5. NextSocket \in Unused
  BY <1>4 DEF NextSocket
<1> QED
  BY <1>5 DEF Unused

(* The log grows by one write, which no message is about yet. *)
LEMMA LogGrows ==
  ASSUME Typed, NEW k \in Kinds, log' = Append(log, k)
  PROVE  /\ log' \in Seq(Kinds)
         /\ Len(log') = Len(log) + 1 /\ Len(log) \in Nat
         /\ \A i \in 1..Len(log) : log'[i] = log[i]
         /\ log'[Len(log) + 1] = k
         /\ \A i \in 1..Len(log') : i \in 1..Len(log) \/ i = Len(log) + 1
<1>1. log \in Seq(Kinds) /\ Len(log) \in Nat
  BY Lengths DEF Typed
<1>2. log' \in Seq(Kinds) /\ Len(log') = Len(log) + 1
  BY <1>1, AppendProperties
<1>3. (\A i \in 1..Len(log) : log'[i] = log[i]) /\ log'[Len(log) + 1] = k
  BY <1>1, AppendProperties
<1> QED
  BY <1>1, <1>2, <1>3

LEMMA AppendsOne ==
  ASSUME NEW q \in Seq(Nat), NEW x \in Nat, NEW r, r = Append(q, x)
  PROVE  /\ r \in Seq(Nat) /\ Len(r) = Len(q) + 1 /\ Len(q) \in Nat
         /\ \A j \in 1..Len(q) : r[j] = q[j]
         /\ \A j \in 1..Len(r) : j \in 1..Len(q) \/ (j = Len(q) + 1 /\ r[j] = x)
<1>1. r \in Seq(Nat) /\ Len(r) = Len(q) + 1 /\ Len(q) \in Nat /\ r[Len(q) + 1] = x
  BY AppendProperties
<1>2. \A j \in 1..Len(q) : r[j] = q[j]
  BY AppendProperties
<1> QED
  BY <1>1, <1>2

LEMMA TakesOne ==
  ASSUME NEW q \in Seq(Nat), q # <<>>
  PROVE  /\ Tail(q) \in Seq(Nat) /\ Len(q) \in Nat /\ Len(q) >= 1
         /\ Len(Tail(q)) = Len(q) - 1
         /\ Head(q) = q[1] /\ q[1] \in Nat
         /\ \A j \in 1..Len(Tail(q)) : j + 1 \in 1..Len(q) /\ Tail(q)[j] = q[j + 1]
<1>1. Len(q) \in Nat /\ Len(q) >= 1
  BY EmptySeq
<1>2. Head(q) = q[1] /\ Head(q) \in Nat /\ Tail(q) \in Seq(Nat) /\ Len(Tail(q)) = Len(q) - 1
  BY <1>1, HeadTailProperties
<1>3. \A j \in 1..Len(Tail(q)) : Tail(q)[j] = q[j + 1]
  BY HeadTailProperties
<1> QED
  BY <1>1, <1>2, <1>3

----
(* What Invalidate does to the types of the queries. *)
LEMMA InvalidateTyped ==
  ASSUME Typed, NEW i, NEW keys, Invalidate(i, keys)
  PROVE  fetch' \in [Keys -> Nat \union {Idle, Started}] /\ cached' = cached
<1> DEFINE requested == {k \in keys \intersect Mounted : fetch[k] = Idle \/ cached[k] # NoData}
<1>1. /\ fetch' = [k \in Keys |-> IF k \in requested THEN Started ELSE fetch[k]]
      /\ cached' = cached
  BY DEF Invalidate
<1> HIDE DEF requested
<1>2. \A k \in Keys : fetch[k] \in Nat \union {Idle, Started}
  BY DEF Typed
<1> QED
  BY <1>1, <1>2

LEMMA TypedKept ==
  ASSUME IInv, [Next]_vars
  PROVE  Typed'
<1>1. Typed
  BY DEF IInv
<1>2. ASSUME NEW k \in Kinds \ OwnKinds, Write(k) PROVE Typed'
  <2>1. log' = Append(log, k) /\ unannounced' \subseteq unannounced \union {Len(log')}
    BY <1>2 DEF Write
  <2>2. log' \in Seq(Kinds) /\ Len(log') = Len(log) + 1 /\ Len(log) \in Nat
    BY <1>1, <2>1, LogGrows
  <2>3. unannounced' \subseteq 1..Len(log') /\ replies \subseteq 1..Len(log')
    <3>1. Len(log') \in 1..Len(log') /\ 1..Len(log) \subseteq 1..Len(log')
      BY <2>2
    <3>2. unannounced \subseteq 1..Len(log) /\ replies \subseteq 1..Len(log)
      BY <1>1 DEF Typed
    <3> QED
      BY <2>1, <3>1, <3>2
  <2>4. UNCHANGED <<replies, state, madeBy, channel, effect, heard, cached, fetch>>
    BY <1>2 DEF Write, socketVars, queryVars
  <2> QED
    BY <1>1, <2>2, <2>3, <2>4 DEF Typed
<1>3. ASSUME NEW k \in Kinds \intersect OwnKinds, Put(k) PROVE Typed'
  <2>1. log' = Append(log, k) /\ replies' = replies \union {Len(log')}
    BY <1>3 DEF Put
  <2>2. log' \in Seq(Kinds) /\ Len(log') = Len(log) + 1 /\ Len(log) \in Nat
    BY <1>1, <2>1, LogGrows
  <2>3. unannounced \subseteq 1..Len(log') /\ replies' \subseteq 1..Len(log')
    <3>1. Len(log') \in 1..Len(log') /\ 1..Len(log) \subseteq 1..Len(log')
      BY <2>2
    <3>2. unannounced \subseteq 1..Len(log) /\ replies \subseteq 1..Len(log)
      BY <1>1 DEF Typed
    <3> QED
      BY <2>1, <3>1, <3>2
  <2>4. UNCHANGED <<unannounced, state, madeBy, channel, effect, heard, cached, fetch>>
    BY <1>3 DEF Put, socketVars, queryVars
  <2> QED
    BY <1>1, <2>2, <2>3, <2>4 DEF Typed
<1>4. ASSUME NEW i \in unannounced, Broadcast(i) PROVE Typed'
  <2>1. i \in Nat
    BY <1>1, Lengths DEF Typed
  <2>2. \A s \in Sockets : Append(channel[s], i) \in Seq(Nat) /\ channel[s] \in Seq(Nat)
    BY <1>1, <2>1, AppendProperties DEF Typed
  <2>3. channel' \in [Sockets -> Seq(Nat)]
    BY <1>4, <2>2 DEF Broadcast
  <2>4. /\ unannounced' \subseteq unannounced
        /\ UNCHANGED <<log, replies, state, madeBy, effect, heard, cached, fetch>>
    BY <1>4 DEF Broadcast, queryVars
  <2> QED
    BY <1>1, <2>3, <2>4 DEF Typed
<1>5. ASSUME NEW i \in replies, PutSucceeds(i) PROVE Typed'
  <2>1. fetch' \in [Keys -> Nat \union {Idle, Started}] /\ cached' = cached
    BY <1>1, <1>5, InvalidateTyped DEF PutSucceeds
  <2>2. /\ replies' \subseteq replies
        /\ UNCHANGED <<log, unannounced, state, madeBy, channel, effect, heard>>
    BY <1>5 DEF PutSucceeds, socketVars
  <2> QED
    BY <1>1, <2>1, <2>2 DEF Typed
<1>6. ASSUME NEW k \in Keys, ServerReads(k) PROVE Typed'
  <2>1. Len(log) \in Nat
    BY <1>1, Lengths
  <2>2. fetch' = [fetch EXCEPT ![k] = Len(log)]
    BY <1>6 DEF ServerReads
  <2>3. fetch' \in [Keys -> Nat \union {Idle, Started}]
    BY <1>1, <2>1, <2>2 DEF Typed
  <2>4. UNCHANGED <<log, unannounced, replies, state, madeBy, channel, effect, heard, cached>>
    BY <1>6 DEF ServerReads, socketVars
  <2> QED
    BY <1>1, <2>3, <2>4 DEF Typed
<1>7. ASSUME NEW k \in Keys, Response(k) PROVE Typed'
  <2>1. fetch[k] \in Nat
    BY <1>1, <1>7 DEF Typed, Response, Idle, Started
  <2>2. fetch' = [fetch EXCEPT ![k] = Idle] /\ cached' = [cached EXCEPT ![k] = fetch[k]]
    BY <1>7 DEF Response
  <2>3. /\ fetch' \in [Keys -> Nat \union {Idle, Started}]
        /\ cached' \in [Keys -> Nat \union {NoData}]
    BY <1>1, <2>1, <2>2 DEF Typed
  <2>4. UNCHANGED <<log, unannounced, replies, state, madeBy, channel, effect, heard>>
    BY <1>7 DEF Response, socketVars
  <2> QED
    BY <1>1, <2>3, <2>4 DEF Typed
<1>8. ASSUME NEW p \in Pages, Navigate(p) PROVE Typed'
  <2>1. PICK old \in SUBSET (KeysOf(p) \intersect Keys) :
          fetch' = [k \in Keys |->
                      IF /\ k \in KeysOf(p) /\ fetch[k] = Idle
                         /\ cached[k] = NoData \/ k \in invalid \union old
                      THEN Started ELSE fetch[k]]
    BY <1>8 DEF Navigate
  <2>2. \A k \in Keys : fetch[k] \in Nat \union {Idle, Started}
    BY <1>1 DEF Typed
  <2>3. fetch' \in [Keys -> Nat \union {Idle, Started}]
    BY <2>1, <2>2
  <2>4. UNCHANGED <<log, unannounced, replies, state, madeBy, channel, effect, heard, cached>>
    BY <1>8 DEF Navigate, socketVars
  <2> QED
    BY <1>1, <2>3, <2>4 DEF Typed
<1>9. ASSUME NEW s \in Sockets, Accept(s) \/ OnClose(s) PROVE Typed'
  <2>1. state' \in [Sockets -> {"none", "connecting", "open", "closing", "closed"}]
    BY <1>1, <1>9 DEF Accept, OnClose, Typed
  <2>2. UNCHANGED <<log, unannounced, replies, madeBy, channel, effect, heard, cached, fetch>>
    BY <1>9 DEF Accept, OnClose, queryVars
  <2> QED
    BY <1>1, <2>1, <2>2 DEF Typed
<1>10. ASSUME NEW e \in reconnect, Reconnect(e) PROVE Typed'
  <2>1. e \in Nat
    BY DEF IInv, Typed, OneSocket
  <2>2. state' \in [Sockets -> {"none", "connecting", "open", "closing", "closed"}]
    BY <1>1, <1>10 DEF Reconnect, Connect, Typed
  <2>3. madeBy' \in [Sockets -> Nat]
    BY <1>1, <1>10, <2>1 DEF Reconnect, Connect, Typed
  <2>4. UNCHANGED <<log, unannounced, replies, channel, effect, heard, cached, fetch>>
    BY <1>10 DEF Reconnect, queryVars
  <2> QED
    BY <1>1, <2>2, <2>3, <2>4 DEF Typed
<1>11. ASSUME NEW s \in Sockets, OnMessage(s) PROVE Typed'
  <2>1. channel[s] \in Seq(Nat) /\ channel[s] # <<>>
    BY <1>1, <1>11 DEF OnMessage, Typed
  <2>2. Tail(channel[s]) \in Seq(Nat) /\ Head(channel[s]) \in Nat
    BY <2>1, TakesOne
  <2>3. channel' = [channel EXCEPT ![s] = Tail(channel[s])] /\ heard' = Append(heard, Head(channel[s]))
    BY <1>11 DEF OnMessage
  <2>4. channel' \in [Sockets -> Seq(Nat)]
    BY <1>1, <2>2, <2>3 DEF Typed
  <2>5. heard' \in Seq(Nat)
    BY <1>1, <2>2, <2>3, AppendsOne DEF Typed
  <2>6. fetch' \in [Keys -> Nat \union {Idle, Started}] /\ cached' = cached
    BY <1>1, <1>11, InvalidateTyped DEF OnMessage
  <2>7. UNCHANGED <<log, unannounced, replies, state, madeBy, effect>>
    BY <1>11 DEF OnMessage
  <2> QED
    BY <1>1, <2>4, <2>5, <2>6, <2>7 DEF Typed
<1>12. ASSUME NEW s \in Sockets, ConnectionLost(s) PROVE Typed'
  <2>1. <<>> \in Seq(Nat)
    BY EmptySeq
  <2>2. state' \in [Sockets -> {"none", "connecting", "open", "closing", "closed"}]
    BY <1>1, <1>12 DEF ConnectionLost, Typed
  <2>3. channel' \in [Sockets -> Seq(Nat)]
    BY <1>1, <1>12, <2>1 DEF ConnectionLost, Typed
  <2>4. UNCHANGED <<log, unannounced, replies, madeBy, effect, heard, cached, fetch>>
    BY <1>12 DEF ConnectionLost, queryVars
  <2> QED
    BY <1>1, <2>2, <2>3, <2>4 DEF Typed
<1>13. ASSUME Render PROVE Typed'
  <2>1. <<>> \in Seq(Nat) /\ effect + 1 \in Nat
    BY <1>1, EmptySeq DEF Typed
  <2>2. /\ effect' = effect + 1
        /\ state' = [[s \in Sockets |-> IF madeBy[s] = effect /\ state[s] \in {"connecting", "open"}
                                        THEN "closing" ELSE state[s]]
                       EXCEPT ![NextSocket] = "connecting"]
        /\ madeBy' = [madeBy EXCEPT ![NextSocket] = effect']
        /\ channel' = [s \in Sockets |-> <<>>]
    BY <1>13 DEF Render, Connect
  <2>3. \A s \in Sockets : state[s] \in {"none", "connecting", "open", "closing", "closed"}
    BY <1>1 DEF Typed
  <2>4. state' \in [Sockets -> {"none", "connecting", "open", "closing", "closed"}]
    BY <2>2, <2>3
  <2>5. madeBy' \in [Sockets -> Nat] /\ channel' \in [Sockets -> Seq(Nat)] /\ effect' \in Nat
    BY <1>1, <2>1, <2>2 DEF Typed
  <2>6. UNCHANGED <<log, unannounced, replies, heard, cached, fetch>>
    BY <1>13 DEF Render, queryVars
  <2> QED
    BY <1>1, <2>4, <2>5, <2>6 DEF Typed
<1>14. CASE UNCHANGED vars
  BY <1>1, <1>14 DEF vars, socketVars, queryVars, Typed
<1> QED
  BY <1>2, <1>3, <1>4, <1>5, <1>6, <1>7, <1>8, <1>9, <1>10, <1>11, <1>12, <1>13, <1>14
     DEF Next, SocketStep

----
(* What the other actions leave alone. *)
LEMMA SocketsUntouched ==
  ASSUME OneSocket, UNCHANGED <<state, madeBy, effect, reconnect>>
  PROVE  OneSocket'
<1>1. \A s \in Sockets : Pending(s)' <=> Pending(s)
  BY DEF Pending
<1> QED
  BY <1>1 DEF OneSocket

LEMMA OneSocketKept ==
  ASSUME IInv, [Next]_vars
  PROVE  OneSocket'
<1>1. /\ \A s \in Sockets : madeBy[s] <= effect /\ madeBy[s] \in Nat
      /\ \A s \in Sockets : state[s] \in {"connecting", "open"} => madeBy[s] = effect
      /\ \A s, r \in Sockets : Pending(s) /\ Pending(r) => s = r
      /\ reconnect \subseteq {effect}
      /\ effect \in reconnect => \A s \in Sockets : ~Pending(s)
      /\ effect \in Nat
      /\ state \in [Sockets -> {"none", "connecting", "open", "closing", "closed"}]
      /\ madeBy \in [Sockets -> Nat]
  BY DEF IInv, Typed, OneSocket
<1>2. CASE UNCHANGED <<state, madeBy, effect, reconnect>>
  BY <1>2, SocketsUntouched DEF IInv
<1>3. ASSUME NEW s \in Sockets, Accept(s) PROVE OneSocket'
  <2>1. /\ state[s] = "connecting" /\ state' = [state EXCEPT ![s] = "open"]
        /\ UNCHANGED <<madeBy, effect, reconnect>>
    BY <1>3 DEF Accept
  <2>2. \A r \in Sockets : state'[r] = IF r = s THEN "open" ELSE state[r]
    BY <1>1, <2>1
  <2>3. \A r \in Sockets : Pending(r)' <=> Pending(r)
    BY <2>1, <2>2 DEF Pending
  <2> QED
    BY <1>1, <2>1, <2>2, <2>3 DEF OneSocket
<1>4. ASSUME NEW s \in Sockets, ConnectionLost(s) PROVE OneSocket'
  <2>1. /\ state[s] \in {"connecting", "open"} /\ state' = [state EXCEPT ![s] = "closing"]
        /\ UNCHANGED <<madeBy, effect, reconnect>>
    BY <1>4 DEF ConnectionLost
  <2>2. \A r \in Sockets : state'[r] = IF r = s THEN "closing" ELSE state[r]
    BY <1>1, <2>1
  <2>3. \A r \in Sockets : Pending(r)' <=> Pending(r)
    BY <2>1, <2>2 DEF Pending
  <2> QED
    BY <1>1, <2>1, <2>2, <2>3 DEF OneSocket
<1>5. ASSUME NEW s \in Sockets, OnClose(s) PROVE OneSocket'
  <2>1. /\ state[s] = "closing" /\ state' = [state EXCEPT ![s] = "closed"]
        /\ reconnect' = reconnect \union ToReconnect(s)
        /\ UNCHANGED <<madeBy, effect>>
    BY <1>5 DEF OnClose
  <2>2. \A r \in Sockets : state'[r] = IF r = s THEN "closed" ELSE state[r]
    BY <1>1, <2>1
  <2>3. \A r \in Sockets : Pending(r)' <=> Pending(r) /\ r # s
    BY <2>1, <2>2 DEF Pending
  <2>4. /\ ToReconnect(s) \subseteq {effect}
        /\ ToReconnect(s) # {} => Pending(s)
    BY <2>1 DEF ToReconnect, Pending
  <2>5. reconnect' \subseteq {effect}
    BY <1>1, <2>1, <2>4
  <2>6. effect \in reconnect' => \A r \in Sockets : ~Pending(r)'
    <3> SUFFICES ASSUME effect \in reconnect', NEW r \in Sockets, Pending(r)' PROVE FALSE
      OBVIOUS
    <3>1. Pending(r) /\ r # s
      BY <2>3
    <3>2. effect \notin reconnect
      BY <1>1, <3>1
    <3>3. Pending(s)
      BY <2>1, <2>4, <3>2
    <3> QED
      BY <1>1, <3>1, <3>3
  <2> QED
    BY <1>1, <2>1, <2>2, <2>3, <2>5, <2>6 DEF OneSocket
<1>6. ASSUME NEW e \in reconnect, Reconnect(e) PROVE OneSocket'
  <2>1. e = effect /\ \A r \in Sockets : ~Pending(r)
    BY <1>1
  <2>2. PICK k \in Sockets : k = NextSocket /\ state[k] = "none"
    BY <1>6, NextIsUnused DEF Reconnect, Connect
  <2>3. /\ state' = [state EXCEPT ![k] = "connecting"]
        /\ madeBy' = [madeBy EXCEPT ![k] = effect]
        /\ effect' = effect
        /\ reconnect' = reconnect \ {effect}
    BY <1>6, <2>1, <2>2 DEF Reconnect, Connect
  <2>4. \A r \in Sockets : /\ state'[r] = IF r = k THEN "connecting" ELSE state[r]
                           /\ madeBy'[r] = IF r = k THEN effect ELSE madeBy[r]
    BY <1>1, <2>3
  <2>5. \A r \in Sockets : Pending(r)' => r = k
    BY <2>1, <2>3, <2>4 DEF Pending
  <2>6. reconnect' = {}
    BY <1>1, <2>3
  <2>7. \A r \in Sockets : madeBy'[r] <= effect'
    BY <1>1, <2>3, <2>4
  <2>8. \A r \in Sockets : state'[r] \in {"connecting", "open"} => madeBy'[r] = effect'
    BY <1>1, <2>3, <2>4
  <2> QED
    BY <2>5, <2>6, <2>7, <2>8 DEF OneSocket
<1>7. ASSUME Render PROVE OneSocket'
  <2>1. PICK k \in Sockets : k = NextSocket /\ state[k] = "none"
    BY <1>7, NextIsUnused DEF Render, Connect
  <2> DEFINE closed == [s \in Sockets |-> IF madeBy[s] = effect /\ state[s] \in {"connecting", "open"}
                                          THEN "closing" ELSE state[s]]
  <2>2. /\ effect' = effect + 1
        /\ reconnect' = reconnect \ {effect}
        /\ state' = [closed EXCEPT ![k] = "connecting"]
        /\ madeBy' = [madeBy EXCEPT ![k] = effect']
    BY <1>7, <2>1 DEF Render, Connect
  <2>3. \A r \in Sockets : closed[r] \notin {"connecting", "open"}
    BY <1>1
  <2>4. closed = [r \in Sockets |-> closed[r]]
    OBVIOUS
  <2> HIDE DEF closed
  <2>5. \A r \in Sockets : /\ state'[r] = IF r = k THEN "connecting" ELSE closed[r]
                           /\ madeBy'[r] = IF r = k THEN effect + 1 ELSE madeBy[r]
    BY <1>1, <2>2, <2>4
  <2>6. \A r \in Sockets : Pending(r)' => r = k
    <3>1. \A r \in Sockets : madeBy[r] # effect + 1
      BY <1>1
    <3> QED
      BY <2>2, <2>5, <3>1 DEF Pending
  <2>7. reconnect' = {}
    BY <1>1, <2>2
  <2>8. \A r \in Sockets : madeBy'[r] <= effect'
    BY <1>1, <2>2, <2>5
  <2>9. \A r \in Sockets : state'[r] \in {"connecting", "open"} => madeBy'[r] = effect'
    BY <2>2, <2>3, <2>5
  <2> QED
    BY <2>6, <2>7, <2>8, <2>9 DEF OneSocket
<1>8. CASE \/ \E k \in Kinds \ OwnKinds : Write(k)
           \/ \E k \in Kinds \intersect OwnKinds : Put(k)
           \/ \E i \in unannounced : Broadcast(i)
           \/ \E i \in replies : PutSucceeds(i)
           \/ \E k \in Keys : ServerReads(k) \/ Response(k)
           \/ \E p \in Pages : Navigate(p)
           \/ \E s \in Sockets : OnMessage(s)
           \/ UNCHANGED vars
  <2>1. UNCHANGED <<state, madeBy, effect, reconnect>>
    BY <1>8 DEF Write, Put, Broadcast, PutSucceeds, ServerReads, Response, Navigate, OnMessage,
                vars, socketVars
  <2> QED
    BY <1>2, <2>1
<1> QED
  BY <1>3, <1>4, <1>5, <1>6, <1>7, <1>8 DEF Next, SocketStep

----
LEMMA MessagesUntouched ==
  ASSUME IInv, UNCHANGED <<state, channel, heard>>,
         1..Len(log) \subseteq 1..Len(log'),
         unannounced' \intersect (1..Len(log)) \subseteq unannounced
  PROVE  Messages'
<1>1. OpenCarries /\ CarriedOnce /\ HeardApart /\ HeardOnce
  BY DEF IInv, Messages
<1>2. \A i \in (1..Len(log)) \ unannounced : i \in (1..Len(log')) \ unannounced'
  OBVIOUS
<1>3. OpenCarries'
  BY <1>1 DEF OpenCarries
<1>4. CarriedOnce'
  BY <1>1, <1>2 DEF CarriedOnce
<1>5. HeardApart'
  BY <1>1, <1>2 DEF HeardApart
<1>6. HeardOnce'
  BY <1>1 DEF HeardOnce
<1> QED
  BY <1>3, <1>4, <1>5, <1>6 DEF Messages

(* Sockets whose state changes carry nothing. *)
LEMMA MessagesWithSockets ==
  ASSUME IInv, UNCHANGED <<log, unannounced, heard>>,
         \A s \in Sockets : \/ channel'[s] = <<>>
                            \/ channel'[s] = channel[s] /\ (state[s] = "open" => state'[s] = "open")
  PROVE  Messages'
<1>1. OpenCarries /\ CarriedOnce /\ HeardApart /\ HeardOnce
  BY DEF IInv, Messages
<1>2. Len(<<>>) = 0 /\ 1..0 = {}
  OBVIOUS
<1>3. \A s \in Sockets : channel'[s] = channel[s] \/ 1..Len(channel'[s]) = {}
  BY <1>2
<1>4. OpenCarries'
  BY <1>1 DEF OpenCarries
<1>5. CarriedOnce'
  <2> SUFFICES ASSUME NEW s \in Sockets
               PROVE  /\ \A j \in 1..Len(channel'[s]) : channel'[s][j] \in (1..Len(log')) \ unannounced'
                      /\ \A j, l \in 1..Len(channel'[s]) : channel'[s][j] = channel'[s][l] => j = l
    BY DEF CarriedOnce
  <2>1. CASE channel'[s] = channel[s]
    BY <1>1, <2>1 DEF CarriedOnce
  <2>2. CASE 1..Len(channel'[s]) = {}
    BY <2>2
  <2> QED
    BY <1>3, <2>1, <2>2
<1>6. HeardApart'
  <2>1. \A s \in Sockets : \A j \in 1..Len(channel'[s]) : \A l \in 1..Len(heard) :
          channel'[s][j] # heard[l]
    <3> TAKE s \in Sockets
    <3>1. CASE channel'[s] = channel[s]
      BY <1>1, <3>1 DEF HeardApart
    <3>2. CASE 1..Len(channel'[s]) = {}
      BY <3>2
    <3> QED
      BY <1>3, <3>1, <3>2
  <2> QED
    BY <1>1, <2>1 DEF HeardApart
<1>7. HeardOnce'
  BY <1>1 DEF HeardOnce
<1> QED
  BY <1>4, <1>5, <1>6, <1>7 DEF Messages

LEMMA BroadcastOnce ==
  ASSUME IInv, NEW i \in unannounced, Broadcast(i)
  PROVE  Messages'
<1>1. OpenCarries /\ CarriedOnce /\ HeardApart /\ HeardOnce
  BY DEF IInv, Messages
<1>2. /\ i \in 1..Len(log) /\ i \in Nat
      /\ \A s \in Sockets : channel[s] \in Seq(Nat)
  BY Lengths DEF IInv, Typed
<1>3. /\ unannounced' = unannounced \ {i}
      /\ channel' = [s \in Sockets |-> IF state[s] = "open" THEN Append(channel[s], i) ELSE channel[s]]
      /\ UNCHANGED <<log, state, heard>>
  BY DEF Broadcast
<1>4. \A s \in Sockets : Append(channel[s], i) # <<>>
  <2> TAKE s \in Sockets
  <2>1. Len(Append(channel[s], i)) = Len(channel[s]) + 1 /\ Len(channel[s]) \in Nat
    BY <1>2, AppendsOne
  <2> QED
    BY <2>1
<1>5. \A s \in Sockets :
        /\ state[s] # "open" => channel'[s] = channel[s]
        /\ state[s] = "open" => channel'[s] = Append(channel[s], i)
  BY <1>3
<1>6. OpenCarries'
  BY <1>1, <1>3, <1>5 DEF OpenCarries
<1>7. \A s \in Sockets : \A j \in 1..Len(channel'[s]) :
        \/ j \in 1..Len(channel[s]) /\ channel'[s][j] = channel[s][j]
        \/ j = Len(channel[s]) + 1 /\ channel'[s][j] = i
  <2> TAKE s \in Sockets
  <2>1. CASE state[s] # "open"
    BY <1>5, <2>1
  <2>2. CASE state[s] = "open"
    BY <1>2, <1>5, <2>2, AppendsOne
  <2> QED
    BY <2>1, <2>2
<1>8. \A x \in (1..Len(log)) \ unannounced : x # i /\ x \in (1..Len(log')) \ unannounced'
  BY <1>3
<1>9. i \in (1..Len(log')) \ unannounced'
  BY <1>2, <1>3
<1>10. CarriedOnce'
  <2> SUFFICES ASSUME NEW s \in Sockets
               PROVE  /\ \A j \in 1..Len(channel'[s]) : channel'[s][j] \in (1..Len(log')) \ unannounced'
                      /\ \A j, l \in 1..Len(channel'[s]) : channel'[s][j] = channel'[s][l] => j = l
    BY DEF CarriedOnce
  <2>1. /\ \A j \in 1..Len(channel[s]) : channel[s][j] \in (1..Len(log)) \ unannounced
        /\ \A j, l \in 1..Len(channel[s]) : channel[s][j] = channel[s][l] => j = l
    BY <1>1 DEF CarriedOnce
  <2>2. ASSUME NEW j \in 1..Len(channel'[s])
        PROVE  channel'[s][j] \in (1..Len(log')) \ unannounced'
    BY <1>7, <1>8, <1>9, <2>1
  <2>3. ASSUME NEW j \in 1..Len(channel'[s]), NEW l \in 1..Len(channel'[s]),
               channel'[s][j] = channel'[s][l]
        PROVE  j = l
    <3>1. \/ j \in 1..Len(channel[s]) /\ channel'[s][j] = channel[s][j]
          \/ j = Len(channel[s]) + 1 /\ channel'[s][j] = i
      BY <1>7
    <3>2. \/ l \in 1..Len(channel[s]) /\ channel'[s][l] = channel[s][l]
          \/ l = Len(channel[s]) + 1 /\ channel'[s][l] = i
      BY <1>7
    <3>3. \A m \in 1..Len(channel[s]) : channel[s][m] # i
      BY <1>8, <2>1
    <3> QED
      BY <2>1, <2>3, <3>1, <3>2, <3>3
  <2> QED
    BY <2>2, <2>3
<1>11. HeardApart'
  <2>1. \A l \in 1..Len(heard) : heard[l] \in (1..Len(log)) \ unannounced
    BY <1>1 DEF HeardApart
  <2>2. \A s \in Sockets : \A j \in 1..Len(channel[s]) : \A l \in 1..Len(heard) :
          channel[s][j] # heard[l]
    BY <1>1 DEF HeardApart
  <2>3. \A s \in Sockets : \A j \in 1..Len(channel'[s]) : \A l \in 1..Len(heard) :
          channel'[s][j] # heard[l]
    BY <1>7, <1>8, <2>1, <2>2
  <2>4. \A l \in 1..Len(heard) : heard[l] \in (1..Len(log')) \ unannounced'
    BY <1>8, <2>1
  <2> QED
    BY <1>3, <2>3, <2>4 DEF HeardApart
<1>12. HeardOnce'
  BY <1>1, <1>3 DEF HeardOnce
<1> QED
  BY <1>6, <1>10, <1>11, <1>12 DEF Messages

(* The message comes through the one open socket, so it is on its way through
   no other. *)
LEMMA OnMessageOnce ==
  ASSUME IInv, NEW s \in Sockets, OnMessage(s)
  PROVE  Messages'
<1> DEFINE q == channel[s]
           n == Len(heard)
<1>1. OpenCarries /\ CarriedOnce /\ HeardApart /\ HeardOnce
  BY DEF IInv, Messages
<1>2. /\ q \in Seq(Nat) /\ q # <<>> /\ state[s] = "open"
      /\ channel' = [channel EXCEPT ![s] = Tail(q)]
      /\ heard' = Append(heard, Head(q))
      /\ UNCHANGED <<log, unannounced, state>>
  BY DEF IInv, Typed, OnMessage
<1>3. \A r \in Sockets : r # s => channel[r] = <<>>
  <2> SUFFICES ASSUME NEW r \in Sockets, r # s, channel[r] # <<>> PROVE FALSE
    OBVIOUS
  <2>1. state[r] = "open"
    BY <1>1 DEF OpenCarries
  <2>2. Pending(r) /\ Pending(s)
    BY <1>2, <2>1 DEF IInv, OneSocket, Pending
  <2> QED
    BY <2>2 DEF IInv, OneSocket
<1>4. /\ Len(q) \in Nat /\ Len(q) >= 1 /\ Len(Tail(q)) = Len(q) - 1
      /\ Head(q) = q[1] /\ q[1] \in Nat
      /\ \A j \in 1..Len(Tail(q)) : j + 1 \in 1..Len(q) /\ Tail(q)[j] = q[j + 1]
  BY <1>2, TakesOne
<1>5. \A r \in Sockets : channel'[r] = IF r = s THEN Tail(q) ELSE channel[r]
  BY <1>2 DEF IInv, Typed
<1>6. \A r \in Sockets : \A j \in 1..Len(channel'[r]) :
        r = s /\ channel'[r] = Tail(q) /\ j \in 1..Len(Tail(q))
  <2>1. Len(<<>>) = 0 /\ 1..0 = {}
    OBVIOUS
  <2> QED
    BY <1>3, <1>5, <2>1
<1>7. /\ n \in Nat
      /\ Len(heard') = n + 1
      /\ DOMAIN heard' = 1..(n + 1)
      /\ \A l \in 1..n : heard'[l] = heard[l]
      /\ \A l \in 1..(n + 1) : l \in 1..n \/ (l = n + 1 /\ heard'[l] = q[1])
  <2>1. heard \in Seq(Nat)
    BY DEF IInv, Typed
  <2>2. /\ heard' \in Seq(Nat) /\ Len(heard') = n + 1 /\ n \in Nat
        /\ \A l \in 1..n : heard'[l] = heard[l]
        /\ \A l \in 1..Len(heard') : l \in 1..n \/ (l = n + 1 /\ heard'[l] = q[1])
    BY <1>2, <1>4, <2>1, AppendsOne
  <2>3. DOMAIN heard' = 1..Len(heard')
    BY <2>2, LenProperties
  <2> QED
    BY <2>2, <2>3
<1>8. 1 \in 1..Len(q)
  BY <1>4
<1>9. /\ \A j \in 1..Len(q) : q[j] \in (1..Len(log)) \ unannounced
      /\ \A j, l \in 1..Len(q) : q[j] = q[l] => j = l
      /\ \A l \in 1..n : heard[l] \in (1..Len(log)) \ unannounced
      /\ \A j \in 1..Len(q) : \A l \in 1..n : q[j] # heard[l]
      /\ \A j, l \in 1..n : heard[j] = heard[l] => j = l
  BY <1>1, Lengths DEF IInv, CarriedOnce, HeardApart, HeardOnce
<1> HIDE DEF q, n
<1>10. OpenCarries'
  BY <1>1, <1>2, <1>5 DEF OpenCarries
<1>11. \A j \in 1..Len(Tail(q)) : /\ j + 1 \in 1..Len(q) /\ j + 1 # 1 /\ j \in Nat
                                  /\ Tail(q)[j] = q[j + 1]
  BY <1>4
<1>12. CarriedOnce'
  <2> SUFFICES ASSUME NEW r \in Sockets
               PROVE  /\ \A j \in 1..Len(channel'[r]) : channel'[r][j] \in (1..Len(log')) \ unannounced'
                      /\ \A j, l \in 1..Len(channel'[r]) : channel'[r][j] = channel'[r][l] => j = l
    BY DEF CarriedOnce
  <2>1. \A j \in 1..Len(channel'[r]) : channel'[r][j] \in (1..Len(log')) \ unannounced'
    <3> TAKE j \in 1..Len(channel'[r])
    <3>1. channel'[r][j] = q[j + 1] /\ j + 1 \in 1..Len(q)
      BY <1>6, <1>11
    <3> QED
      BY <1>2, <1>9, <3>1
  <2>2. ASSUME NEW j \in 1..Len(channel'[r]), NEW l \in 1..Len(channel'[r]),
               channel'[r][j] = channel'[r][l]
        PROVE  j = l
    <3>1. q[j + 1] = q[l + 1] /\ j + 1 \in 1..Len(q) /\ l + 1 \in 1..Len(q) /\ j \in Nat /\ l \in Nat
      BY <1>6, <1>11, <2>2
    <3>2. j + 1 = l + 1
      BY <1>9, <3>1
    <3> QED
      BY <3>1, <3>2
  <2> QED
    BY <2>1, <2>2
<1>13. HeardApart'
  <2>1. \A l \in 1..(n + 1) : heard'[l] \in (1..Len(log')) \ unannounced'
    BY <1>2, <1>7, <1>8, <1>9
  <2>2. \A r \in Sockets : \A j \in 1..Len(channel'[r]) : \A l \in 1..(n + 1) :
          channel'[r][j] # heard'[l]
    <3> TAKE r \in Sockets
    <3> TAKE j \in 1..Len(channel'[r])
    <3> TAKE l \in 1..(n + 1)
    <3>1. channel'[r][j] = q[j + 1] /\ j + 1 \in 1..Len(q) /\ j + 1 # 1
      BY <1>6, <1>11
    <3>2. q[j + 1] # q[1]
      BY <1>8, <1>9, <3>1
    <3> QED
      BY <1>7, <1>9, <3>1, <3>2
  <2> QED
    BY <1>7, <2>1, <2>2 DEF HeardApart
<1>14. HeardOnce'
  <2> SUFFICES ASSUME NEW j \in 1..(n + 1), NEW l \in 1..(n + 1), heard'[j] = heard'[l] PROVE j = l
    BY <1>7 DEF HeardOnce
  <2> QED
    BY <1>7, <1>8, <1>9
<1> QED
  BY <1>10, <1>12, <1>13, <1>14 DEF Messages

LEMMA MessagesKept ==
  ASSUME IInv, [Next]_vars
  PROVE  Messages'
<1>1. ASSUME NEW k \in Kinds \ OwnKinds, Write(k) PROVE Messages'
  <2>1. /\ log' = Append(log, k) /\ unannounced' \subseteq unannounced \union {Len(log')}
        /\ UNCHANGED <<state, channel, heard>>
    BY <1>1 DEF Write, socketVars
  <2>2. Len(log') = Len(log) + 1 /\ Len(log) \in Nat
    BY <2>1, LogGrows DEF IInv
  <2>3. 1..Len(log) \subseteq 1..Len(log') /\ Len(log') \notin 1..Len(log)
    BY <2>2
  <2> QED
    BY <2>1, <2>3, MessagesUntouched
<1>2. ASSUME NEW k \in Kinds \intersect OwnKinds, Put(k) PROVE Messages'
  <2>1. /\ log' = Append(log, k) /\ unannounced' = unannounced
        /\ UNCHANGED <<state, channel, heard>>
    BY <1>2 DEF Put, socketVars
  <2>2. Len(log') = Len(log) + 1 /\ Len(log) \in Nat
    BY <2>1, LogGrows DEF IInv
  <2>3. 1..Len(log) \subseteq 1..Len(log')
    BY <2>2
  <2> QED
    BY <2>1, <2>3, MessagesUntouched
<1>3. CASE \E i \in unannounced : Broadcast(i)
  BY <1>3, BroadcastOnce
<1>4. CASE \E s \in Sockets : OnMessage(s)
  BY <1>4, OnMessageOnce
<1>5. CASE \/ \E i \in replies : PutSucceeds(i)
           \/ \E k \in Keys : ServerReads(k) \/ Response(k)
           \/ \E p \in Pages : Navigate(p)
           \/ UNCHANGED vars
  <2>1. UNCHANGED <<log, unannounced, state, channel, heard>>
    BY <1>5 DEF PutSucceeds, ServerReads, Response, Navigate, vars, socketVars
  <2> QED
    BY <2>1, MessagesUntouched
<1>6. ASSUME NEW s \in Sockets, Accept(s) \/ OnClose(s) \/ ConnectionLost(s) PROVE Messages'
  <2>1. /\ UNCHANGED <<log, unannounced, heard>>
        /\ \A r \in Sockets : r # s => channel'[r] = channel[r] /\ state'[r] = state[r]
    BY <1>6 DEF Accept, OnClose, ConnectionLost, IInv, Typed
  <2>2. \/ channel'[s] = <<>>
        \/ channel'[s] = channel[s] /\ (state[s] = "open" => state'[s] = "open")
    BY <1>6 DEF Accept, OnClose, ConnectionLost, IInv, Typed
  <2> QED
    BY <2>1, <2>2, MessagesWithSockets
<1>7. ASSUME NEW e \in reconnect, Reconnect(e) PROVE Messages'
  <2>1. PICK k \in Sockets : k = NextSocket /\ state[k] = "none"
    BY <1>7, NextIsUnused DEF Reconnect, Connect
  <2>2. /\ state' = [state EXCEPT ![k] = "connecting"]
        /\ UNCHANGED <<log, unannounced, heard, channel>>
    BY <1>7, <2>1 DEF Reconnect, Connect
  <2>3. \A s \in Sockets : state[s] = "open" => state'[s] = "open"
    BY <2>1, <2>2 DEF IInv, Typed
  <2> QED
    BY <2>2, <2>3, MessagesWithSockets
<1>8. ASSUME Render PROVE Messages'
  <2>1. /\ channel' = [s \in Sockets |-> <<>>]
        /\ UNCHANGED <<log, unannounced, heard>>
    BY <1>8 DEF Render
  <2> QED
    BY <2>1, MessagesWithSockets
<1> QED
  BY <1>1, <1>2, <1>3, <1>4, <1>5, <1>6, <1>7, <1>8 DEF Next, SocketStep

----
(* After write j, the queries it invalidates will have it, and none forgets an
   earlier one. *)
LEMMA InvalidateInforms ==
  ASSUME IInv, NEW j \in Nat, NEW keys, Invalidate(j, keys), page' = page
  PROVE  /\ \A k \in Keys : k \in keys => Informed(j, k)'
         /\ \A k \in Keys : \A i \in Nat : Informed(i, k) => Informed(i, k)'
         /\ ShownIsRequested'
<1> DEFINE requested == {k \in keys \intersect Mounted : fetch[k] = Idle \/ cached[k] # NoData}
           known == {k \in keys \intersect Keys : cached[k] # NoData \/ fetch[k] # Idle}
<1>1. /\ fetch' = [k \in Keys |-> IF k \in requested THEN Started ELSE fetch[k]]
      /\ invalid' = invalid \union known
      /\ early' = early \union {<<j, k>> : k \in {k \in known \ requested : fetch[k] # Idle}}
      /\ cached' = cached
      /\ Mounted' = Mounted
  BY DEF Invalidate, Mounted
<1>2. \A k \in Keys : fetch'[k] = IF k \in requested THEN Started ELSE fetch[k]
  BY <1>1
<1>3. ASSUME NEW k \in Keys, k \in keys PROVE Informed(j, k)'
  <2>1. CASE k \in requested
    BY <1>2, <2>1 DEF Informed
  <2>2. CASE k \notin requested /\ fetch[k] # Idle
    <3>1. k \in known
      BY <1>3, <2>2
    <3>2. <<j, k>> \in early'
      BY <1>1, <2>2, <3>1
    <3> QED
      BY <3>2 DEF Informed
  <2>3. CASE k \notin requested /\ fetch[k] = Idle
    <3>1. k \notin Mounted
      BY <1>3, <2>3
    <3>2. k \in invalid' \/ cached'[k] = NoData
      BY <1>1, <1>3
    <3>3. fetch'[k] = Idle
      BY <1>2, <2>3
    <3> QED
      BY <1>1, <3>1, <3>2, <3>3 DEF Informed
  <2> QED
    BY <2>1, <2>2, <2>3
<1> HIDE DEF requested, known
<1>4. ASSUME NEW k \in Keys, NEW i \in Nat, Informed(i, k) PROVE Informed(i, k)'
  <2>1. CASE k \in requested
    BY <1>2, <2>1 DEF Informed
  <2>2. CASE k \notin requested
    <3>1. /\ fetch'[k] = fetch[k] /\ cached'[k] = cached[k]
          /\ k \in invalid => k \in invalid'
          /\ <<i, k>> \in early => <<i, k>> \in early'
      BY <1>1, <1>2, <2>2
    <3> QED
      BY <1>1, <1>4, <3>1 DEF Informed
  <2> QED
    BY <2>1, <2>2
<1>5. ShownIsRequested'
  <2>1. \A k \in Mounted : k \in Keys
    BY DEF Mounted
  <2>2. Started # Idle
    BY DEF Started, Idle
  <2> QED
    BY <1>1, <1>2, <2>1, <2>2 DEF IInv, ShownIsRequested
<1> QED
  BY <1>3, <1>4, <1>5

(* Where the queries, the page, the messages heard and the answers to the
   page's own writes stay as they are. *)
LEMMA QueriesUntouched ==
  ASSUME IInv, UNCHANGED <<log, replies, heard, page, queryVars>>
  PROVE  ShownIsRequested' /\ ToldIsInformed'
<1>1. UNCHANGED <<fetch, cached, invalid, early, Mounted>>
  BY DEF queryVars, Mounted
<1>2. \A i \in Nat : Told(i)' <=> Told(i)
  BY DEF Told, Heard
<1>3. \A i \in Nat : \A k \in Keys : Informed(i, k)' <=> Informed(i, k)
  BY <1>1 DEF Informed
<1>4. ToldIsInformed /\ ShownIsRequested /\ Len(log) \in Nat
  BY Lengths DEF IInv
<1>5. ShownIsRequested'
  BY <1>1, <1>4 DEF ShownIsRequested
<1>6. ToldIsInformed'
  <2> SUFFICES ASSUME NEW k \in Keys, NEW i \in 1..Len(log), Told(i)', k \in Invalidates(log[i])
               PROVE  Informed(i, k)'
    BY DEF ToldIsInformed
  <2>1. i \in Nat /\ Told(i)
    BY <1>2, <1>4
  <2>2. Informed(i, k)
    BY <1>4, <2>1 DEF ToldIsInformed
  <2> QED
    BY <1>3, <2>1, <2>2
<1> QED
  BY <1>5, <1>6

(* A new write has not been told to the page. *)
LEMMA NewIsUntold ==
  ASSUME IInv, NEW w \in Kinds, log' = Append(log, w),
         heard' = heard, page' = page, UNCHANGED queryVars,
         IF w \in OwnKinds THEN replies' = replies \union {Len(log')} ELSE replies' = replies
  PROVE  ShownIsRequested' /\ ToldIsInformed'
<1>1. UNCHANGED <<fetch, cached, invalid, early, Mounted>>
  BY DEF queryVars, Mounted
<1>2. /\ Len(log') = Len(log) + 1 /\ Len(log) \in Nat
      /\ \A i \in 1..Len(log) : log'[i] = log[i]
      /\ log'[Len(log) + 1] = w
      /\ \A i \in 1..Len(log') : i \in 1..Len(log) \/ i = Len(log) + 1
  BY LogGrows DEF IInv
<1>3. ShownIsRequested'
  BY <1>1 DEF IInv, ShownIsRequested
<1>4. \A l \in DOMAIN heard : heard[l] \in 1..Len(log)
  BY Lengths DEF IInv, Messages, HeardApart
<1>5. ToldIsInformed'
  <2> SUFFICES ASSUME NEW k \in Keys, NEW i \in 1..Len(log'), Told(i)', k \in Invalidates(log'[i])
               PROVE  Informed(i, k)'
    BY DEF ToldIsInformed
  <2>1. CASE i \in 1..Len(log)
    <3>1. Len(log') # i
      BY <1>2, <2>1
    <3>2. Told(i)
      BY <1>2, <2>1, <3>1 DEF Told, Heard
    <3>3. Informed(i, k)
      BY <1>2, <2>1, <3>2 DEF IInv, ToldIsInformed
    <3> QED
      BY <1>1, <3>3 DEF Informed
  <2>2. CASE i = Len(log) + 1
    <3>1. log'[i] = w /\ i = Len(log') /\ i \notin 1..Len(log)
      BY <1>2, <2>2
    <3>2. ~Heard(i)'
      BY <1>4, <3>1 DEF Heard
    <3>3. ~Told(i)'
      BY <3>1, <3>2 DEF Told
    <3> QED
      BY <3>3
  <2> QED
    BY <1>2, <2>1, <2>2
<1> QED
  BY <1>3, <1>5

(* The page is told of write j, and invalidates its queries. *)
LEMMA ToldOfOne ==
  ASSUME IInv, NEW j \in 1..Len(log), Invalidate(j, Invalidates(log[j])), page' = page, log' = log,
         \A i \in 1..Len(log) : Told(i)' => Told(i) \/ i = j
  PROVE  ShownIsRequested' /\ ToldIsInformed'
<1>1. j \in Nat /\ Len(log) \in Nat
  BY Lengths DEF IInv
<1>2. /\ \A k \in Keys : k \in Invalidates(log[j]) => Informed(j, k)'
      /\ \A k \in Keys : \A i \in Nat : Informed(i, k) => Informed(i, k)'
      /\ ShownIsRequested'
  BY <1>1, InvalidateInforms
<1>3. ToldIsInformed'
  <2> SUFFICES ASSUME NEW k \in Keys, NEW i \in 1..Len(log), Told(i)', k \in Invalidates(log[i])
               PROVE  Informed(i, k)'
    BY DEF ToldIsInformed
  <2>1. CASE i = j
    BY <1>2, <2>1
  <2>2. CASE Told(i)
    <3>1. Informed(i, k) /\ i \in Nat
      BY <1>1, <2>2 DEF IInv, ToldIsInformed
    <3> QED
      BY <1>2, <3>1
  <2> QED
    BY <2>1, <2>2
<1> QED
  BY <1>2, <1>3

(* Where only the queries and the page change, each query goes on to be
   informed of what it was. *)
LEMMA QueriesStep ==
  ASSUME IInv, UNCHANGED <<log, replies, heard>>,
         \A k \in Keys : \A i \in 1..Len(log) : Informed(i, k) => Informed(i, k)'
  PROVE  ToldIsInformed'
<1>1. \A i \in 1..Len(log) : Told(i)' <=> Told(i)
  BY DEF Told, Heard
<1>2. SUFFICES ASSUME NEW k \in Keys, NEW i \in 1..Len(log), Told(i)', k \in Invalidates(log[i])
               PROVE  Informed(i, k)'
  BY DEF ToldIsInformed
<1>3. Informed(i, k)
  BY <1>1, <1>2 DEF IInv, ToldIsInformed
<1> QED
  BY <1>3

LEMMA ServerReadsKeeps ==
  ASSUME IInv, NEW q \in Keys, ServerReads(q)
  PROVE  ShownIsRequested' /\ ToldIsInformed'
<1>1. /\ fetch' = [fetch EXCEPT ![q] = Len(log)]
      /\ UNCHANGED <<log, replies, heard, cached, invalid, early, page, Mounted>>
  BY DEF ServerReads, Mounted
<1>2. \A k \in Keys : fetch'[k] = IF k = q THEN Len(log) ELSE fetch[k]
  BY <1>1 DEF IInv, Typed
<1>3. Len(log) \in Nat /\ Len(log) # Idle /\ Mounted \subseteq Keys
  BY Lengths DEF IInv, Idle, Mounted
<1>4. ShownIsRequested'
  BY <1>1, <1>2, <1>3 DEF IInv, ShownIsRequested
<1>5. ASSUME NEW k \in Keys, NEW i \in 1..Len(log), Informed(i, k) PROVE Informed(i, k)'
  <2>1. CASE k = q
    <3>1. fetch'[k] >= i
      BY <1>2, <1>3, <2>1
    <3> QED
      BY <3>1 DEF Informed
  <2>2. CASE k # q
    BY <1>1, <1>2, <1>5, <2>2 DEF Informed
  <2> QED
    BY <2>1, <2>2
<1> QED
  BY <1>1, <1>4, <1>5, QueriesStep

LEMMA ResponseKeeps ==
  ASSUME IInv, NEW q \in Keys, Response(q)
  PROVE  ShownIsRequested' /\ ToldIsInformed'
<1>1. /\ fetch[q] >= 0 /\ fetch[q] \in Nat
      /\ fetch' = [fetch EXCEPT ![q] = Idle]
      /\ cached' = [cached EXCEPT ![q] = fetch[q]]
      /\ invalid' = invalid \ {q}
      /\ UNCHANGED <<log, replies, heard, early, page, Mounted>>
  BY DEF IInv, Typed, Response, Mounted, Idle, Started
<1>2. \A k \in Keys : /\ fetch'[k] = IF k = q THEN Idle ELSE fetch[k]
                      /\ cached'[k] = IF k = q THEN fetch[q] ELSE cached[k]
  BY <1>1 DEF IInv, Typed
<1>3. /\ fetch[q] # NoData /\ fetch[q] # Idle /\ fetch[q] # Started
      /\ Mounted \subseteq Keys
  BY <1>1 DEF Mounted, NoData, Idle, Started
<1>4. ShownIsRequested'
  BY <1>1, <1>2, <1>3 DEF IInv, ShownIsRequested
<1>5. ASSUME NEW k \in Keys, NEW i \in 1..Len(log), Informed(i, k) PROVE Informed(i, k)'
  <2>1. CASE k = q
    <3>1. <<i, k>> \in early \/ fetch[q] >= i
      BY <1>3, <1>5, <2>1 DEF Informed
    <3> QED
      BY <1>1, <1>2, <2>1, <3>1 DEF Informed
  <2>2. CASE k # q
    BY <1>1, <1>2, <1>5, <2>2 DEF Informed
  <2> QED
    BY <2>1, <2>2
<1> QED
  BY <1>1, <1>4, <1>5, QueriesStep

LEMMA NavigateKeeps ==
  ASSUME IInv, NEW p \in Pages, Navigate(p)
  PROVE  ShownIsRequested' /\ ToldIsInformed'
<1>1. PICK old \in SUBSET (KeysOf(p) \intersect Keys) :
        fetch' = [k \in Keys |->
                    IF /\ k \in KeysOf(p) /\ fetch[k] = Idle
                       /\ cached[k] = NoData \/ k \in invalid \union old
                    THEN Started ELSE fetch[k]]
  BY DEF Navigate
<1>2. /\ UNCHANGED <<log, replies, heard, cached, invalid, early>>
      /\ Mounted' = KeysOf(p) \intersect Keys
  BY DEF Navigate, Mounted
<1>3. \A k \in Keys : fetch'[k] = IF /\ k \in KeysOf(p) /\ fetch[k] = Idle
                                     /\ cached[k] = NoData \/ k \in invalid \union old
                                  THEN Started ELSE fetch[k]
  BY <1>1
<1>4. ShownIsRequested'
  <2>1. Started # Idle
    BY DEF Started, Idle
  <2> QED
    BY <1>2, <1>3, <2>1 DEF ShownIsRequested
<1>5. ASSUME NEW k \in Keys, NEW i \in 1..Len(log), Informed(i, k) PROVE Informed(i, k)'
  <2>1. CASE fetch'[k] = Started
    BY <2>1 DEF Informed
  <2>2. CASE fetch'[k] # Started
    <3>1. fetch'[k] = fetch[k]
      BY <1>3, <2>2
    <3>2. fetch[k] = Idle /\ (k \in invalid \/ cached[k] = NoData) => k \notin Mounted'
      BY <1>2, <1>3, <2>2
    <3> QED
      BY <1>2, <1>5, <3>1, <3>2 DEF Informed
  <2> QED
    BY <2>1, <2>2
<1> QED
  BY <1>2, <1>4, <1>5, QueriesStep

LEMMA OnMessageInforms ==
  ASSUME IInv, NEW s \in Sockets, OnMessage(s)
  PROVE  ShownIsRequested' /\ ToldIsInformed'
<1> DEFINE j == Head(channel[s])
<1>1. /\ channel[s] \in Seq(Nat) /\ channel[s] # <<>>
      /\ heard \in Seq(Nat) /\ heard' = Append(heard, j)
      /\ Invalidate(j, Invalidates(log[j]))
      /\ UNCHANGED <<log, replies, page>>
  BY DEF IInv, Typed, OnMessage
<1>2. Len(channel[s]) >= 1 /\ Len(channel[s]) \in Nat /\ j = channel[s][1] /\ j \in Nat
  BY <1>1, TakesOne
<1>3. j \in 1..Len(log)
  BY <1>2 DEF IInv, Messages, CarriedOnce
<1> HIDE DEF j
<1>4. /\ Len(heard) \in Nat
      /\ \A l \in 1..Len(heard) : heard'[l] = heard[l]
      /\ \A l \in 1..Len(heard') : l \in 1..Len(heard) \/ (l = Len(heard) + 1 /\ heard'[l] = j)
      /\ DOMAIN heard' = 1..Len(heard') /\ DOMAIN heard = 1..Len(heard)
  <2>1. heard' \in Seq(Nat)
    BY <1>1, <1>2, AppendsOne
  <2>2. DOMAIN heard' = 1..Len(heard') /\ DOMAIN heard = 1..Len(heard)
    BY <1>1, <2>1, LenProperties
  <2> QED
    BY <1>1, <1>2, <2>2, AppendsOne
<1>5. \A i \in 1..Len(log) : Told(i)' => Told(i) \/ i = j
  <2> SUFFICES ASSUME NEW i \in 1..Len(log), Told(i)', i # j PROVE Told(i)
    OBVIOUS
  <2>1. CASE log[i] \in OwnKinds
    BY <1>1, <2>1 DEF Told
  <2>2. CASE log[i] \notin OwnKinds
    <3>1. PICK l \in 1..Len(heard') : heard'[l] = i
      BY <1>1, <1>4, <2>2 DEF Told, Heard
    <3>2. l \in 1..Len(heard) /\ heard[l] = i
      BY <1>4, <3>1
    <3> QED
      BY <1>4, <2>2, <3>2 DEF Told, Heard
  <2> QED
    BY <2>1, <2>2
<1> QED
  BY <1>1, <1>3, <1>5, ToldOfOne

LEMMA PutSucceedsInforms ==
  ASSUME IInv, NEW j \in replies, PutSucceeds(j)
  PROVE  ShownIsRequested' /\ ToldIsInformed'
<1>1. /\ replies' = replies \ {j}
      /\ Invalidate(j, Invalidates(log[j]))
      /\ UNCHANGED <<log, heard, page>>
  BY DEF PutSucceeds
<1>2. j \in 1..Len(log)
  BY DEF IInv, Typed
<1>3. \A i \in 1..Len(log) : Told(i)' => Told(i) \/ i = j
  BY <1>1 DEF Told, Heard
<1> QED
  BY <1>1, <1>2, <1>3, ToldOfOne

LEMMA QueriesKept ==
  ASSUME IInv, [Next]_vars
  PROVE  ShownIsRequested' /\ ToldIsInformed'
<1>1. ASSUME NEW k \in Kinds \ OwnKinds, Write(k) PROVE ShownIsRequested' /\ ToldIsInformed'
  BY <1>1, NewIsUntold DEF Write
<1>2. ASSUME NEW k \in Kinds \intersect OwnKinds, Put(k) PROVE ShownIsRequested' /\ ToldIsInformed'
  BY <1>2, NewIsUntold DEF Put
<1>3. CASE \E i \in unannounced : Broadcast(i)
  BY <1>3, QueriesUntouched DEF Broadcast
<1>4. CASE \E i \in replies : PutSucceeds(i)
  BY <1>4, PutSucceedsInforms
<1>5. CASE \E k \in Keys : ServerReads(k) \/ Response(k)
  BY <1>5, ServerReadsKeeps, ResponseKeeps
<1>6. CASE \E p \in Pages : Navigate(p)
  BY <1>6, NavigateKeeps
<1>7. CASE \E s \in Sockets : OnMessage(s)
  BY <1>7, OnMessageInforms
<1>8. CASE SocketStep \/ Render \/ (\E s \in Sockets : ConnectionLost(s)) \/ UNCHANGED vars
  <2>1. UNCHANGED <<log, replies, heard, page, queryVars>>
    BY <1>8 DEF SocketStep, Accept, OnClose, Reconnect, Render, ConnectionLost, vars
  <2> QED
    BY <2>1, QueriesUntouched
<1> QED
  BY <1>1, <1>2, <1>3, <1>4, <1>5, <1>6, <1>7, <1>8 DEF Next

LEMMA Invariance == Spec => []IInv
<1>1. IInv /\ [Next]_vars => IInv'
  BY TypedKept, OneSocketKept, MessagesKept, QueriesKept DEF IInv
<1> QED
  BY <1>1, InitIInv, PTL DEF Spec

----
(* The bridge handles each message at most once, however sockets are closed,
   lost and opened again. *)
THEOREM MessagesAreHeardOnce == Spec => []HeardOnce
<1>1. IInv => HeardOnce
  BY DEF IInv, Messages
<1> QED
  BY <1>1, Invariance, PTL

(* When nothing is on its way, a page lacks a write only if nobody announces it
   to this query, its message came through no open socket, or it came during a
   first request or one of a page that is not shown. *)
THEOREM StalenessHasAReason == Spec => []StaleNeedsReason
<1>1. IInv => StaleNeedsReason
  <2> SUFFICES ASSUME IInv, Quiet,
                      NEW k \in Mounted, NEW i \in (cached[k] + 1)..Len(log),
                      k \in Touches(log[i]),
                      k \in Invalidates(log[i]), log[i] \in OwnKinds \/ Heard(i)
               PROVE  <<i, k>> \in early
    BY DEF StaleNeedsReason
  <2>1. k \in Keys /\ fetch[k] = Idle /\ replies = {}
    BY DEF Quiet, Mounted
  <2>2. cached[k] \in Nat
    BY <2>1 DEF IInv, Typed, ShownIsRequested
  <2>3. i \in 1..Len(log) /\ i > cached[k] /\ Len(log) \in Nat
    BY <2>2, Lengths DEF IInv
  <2>4. Told(i)
    BY <2>1 DEF Told
  <2>5. Informed(i, k)
    BY <2>1, <2>3, <2>4 DEF IInv, ToldIsInformed
  <2>6. /\ fetch[k] # Started /\ ~(fetch[k] >= i)
        /\ ~(cached[k] >= i)
    BY <2>1, <2>2, <2>3 DEF Idle, Started
  <2> QED
    BY <2>5, <2>6 DEF Informed
<1> QED
  BY <1>1, Invariance, PTL
====
