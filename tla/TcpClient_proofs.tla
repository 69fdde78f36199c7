---- MODULE TcpClient_proofs ----
(***************************************************************************)
(* Proofs about the agent's TCP client.                                    *)
(*                                                                         *)
(* The inductive invariant is IInv.  SocketInv ties the socket, its        *)
(* 'close' event and the timers together; FreshInv says that a socket that *)
(* has not connected has carried nothing; the invariants of TcpClient      *)
(* complete it.  Accounted, about what becomes of each frame, is shown on  *)
(* top of it in the last section.                                          *)
(***************************************************************************)
EXTENDS TcpClient, SequenceTheorems, TLAPS

SocketInv ==
  /\ socket = "destroyed" => conn < MaxConns
  /\ reconnectTimer => socket = "destroyed"
  /\ closePending /\ ~stopped => socket = "destroyed"
  /\ stopped => ~isConnected /\ conn > 0
  /\ socket # "none" => conn > 0
  /\ socket = "none" /\ ~stopped => conn = 0
  /\ conn = 0 => ~closePending

FreshInv ==
  /\ \A c \in Conns : c > conn => written[c] = <<>>
  /\ socket = "connecting" => written[conn] = <<>>
  /\ socket = "open" => written[conn] # <<>>
  /\ \A c \in Conns : delivered[c] <= Len(written[c])

ControlInv == TypeOK /\ SocketInv /\ OneLifeline /\ ConnectedIsFlushed

IInv ==
  /\ ControlInv
  /\ FreshInv
  /\ PendingIsNewest
  /\ HandshakeFirst
  /\ NeverOvertakes

----
Payload == Frames \union {Handshake}

USE CapAssumption, MaxConnsAssumption, MaxFramesAssumption

(* The state after a frame went through send: written or queued. *)
LEMMA SendType ==
  ASSUME TypeOK, ConnectedIsFlushed, SocketInv, Send
  PROVE  /\ produced' \in 0..MaxFrames
         /\ pendingFrames' \in Seq(Frames)
         /\ Len(pendingFrames') <= Cap
         /\ written' \in [Conns -> Seq(Payload)]
         /\ dropped' \in SUBSET Frames
         /\ CanWrite => pendingFrames' = pendingFrames
<1> DEFINE f == produced + 1
<1>0. Len(pendingFrames) \in 0..Cap
  BY LenProperties DEF TypeOK
<1>1. f \in Frames /\ f \in Payload /\ produced' = f /\ f \in 0..MaxFrames
  BY DEF Send, TypeOK, Frames, Payload
<1>2. CASE Write(f)
  <2>1. conn \in Conns
    BY <1>2 DEF Write, CanWrite, SocketInv, TypeOK, Conns
  <2>2. Append(written[conn], f) \in Seq(Payload)
    BY <1>1, <2>1, AppendProperties DEF TypeOK, Payload
  <2>3. QED
    BY <1>1, <1>2, <2>1, <2>2 DEF Write, TypeOK, Payload, Frames
<1>3. CASE Enqueue(f) /\ Len(pendingFrames) >= Cap
  <2>1. pendingFrames # <<>>
    BY <1>0, <1>3
  <2>2. /\ Head(pendingFrames) \in Frames
        /\ Tail(pendingFrames) \in Seq(Frames)
        /\ Len(Tail(pendingFrames)) = Len(pendingFrames) - 1
    BY <2>1, HeadTailProperties DEF TypeOK
  <2>3. /\ Append(Tail(pendingFrames), f) \in Seq(Frames)
        /\ Len(Append(Tail(pendingFrames), f)) = Len(Tail(pendingFrames)) + 1
    BY <1>1, <2>2, AppendProperties
  <2>4. QED
    BY <1>0, <1>1, <1>3, <2>2, <2>3, SMTT(30) DEF Enqueue, TypeOK, Payload
<1>4. CASE Enqueue(f) /\ ~(Len(pendingFrames) >= Cap)
  <2>1. /\ Append(pendingFrames, f) \in Seq(Frames)
        /\ Len(Append(pendingFrames, f)) = Len(pendingFrames) + 1
    BY <1>1, AppendProperties DEF TypeOK
  <2>2. /\ pendingFrames' = Append(pendingFrames, f)
        /\ dropped' = dropped /\ written' = written /\ ~CanWrite
    BY <1>4 DEF Enqueue
  <2>3. Len(pendingFrames) + 1 <= Cap
    BY <1>0, <1>4
  <2>4. QED
    BY <1>1, <2>1, <2>2, <2>3 DEF TypeOK, Payload
<1>5. QED
  BY <1>2, <1>3, <1>4 DEF Send

(* The state after 'connect': the queue is empty and on the wire. *)
LEMMA FlushType ==
  ASSUME TypeOK, SocketInv, OnConnect
  PROVE  /\ conn \in Conns
         /\ <<Handshake>> \in Seq(Payload)
         /\ written[conn] \o <<Handshake>> \o pendingFrames \in Seq(Payload)
         /\ written' \in [Conns -> Seq(Payload)]
         /\ written'[conn] = written[conn] \o <<Handshake>> \o pendingFrames
         /\ pendingFrames' = <<>>
<1>1. conn \in Conns
  BY DEF OnConnect, SocketInv, TypeOK, Conns
<1>2. <<Handshake>> \in Seq(Payload) /\ pendingFrames \in Seq(Payload)
  BY DEF TypeOK, Payload
<1>3. written[conn] \in Seq(Payload)
  BY <1>1 DEF TypeOK, Payload
<1>4. written[conn] \o <<Handshake>> \in Seq(Payload)
  BY <1>2, <1>3, ConcatProperties
<1>5. written[conn] \o <<Handshake>> \o pendingFrames \in Seq(Payload)
  BY <1>2, <1>4, ConcatProperties
<1>6. QED
  BY <1>1, <1>2, <1>5 DEF OnConnect, HandshakeAndFlush, TypeOK, Payload

LEMMA ControlStep == ControlInv /\ [Next]_vars => ControlInv'
<1> SUFFICES ASSUME ControlInv, [Next]_vars PROVE ControlInv'
  OBVIOUS
<1> USE DEF ControlInv
<1>1. CASE Start
  BY <1>1 DEF Start, Connect, timerVars, queueVars, TypeOK, SocketInv,
    OneLifeline, ConnectedIsFlushed, CanWrite
<1>2. CASE Send
  BY <1>2, SendType DEF Send, timerVars, TypeOK, SocketInv,
    OneLifeline, ConnectedIsFlushed, CanWrite, Payload
<1>3. CASE OnConnect
  BY <1>3, FlushType DEF OnConnect, HandshakeAndFlush, TypeOK, SocketInv,
    OneLifeline, ConnectedIsFlushed, CanWrite, Payload
<1>4. CASE SocketFails
  BY <1>4 DEF SocketFails, timerVars, queueVars, TypeOK, SocketInv,
    OneLifeline, ConnectedIsFlushed, CanWrite
<1>5. CASE OnClose
  BY <1>5 DEF OnClose, ScheduleReconnect, timerVars, queueVars, TypeOK, SocketInv,
    OneLifeline, ConnectedIsFlushed, CanWrite
<1>6. CASE ReconnectTimerFires
  <2>1. /\ ~stopped /\ ~closePending /\ conn < MaxConns
        /\ socket' = "connecting" /\ conn' = conn + 1 /\ ~reconnectTimer'
    BY <1>6 DEF ReconnectTimerFires, Connect, SocketInv, OneLifeline
  <2>2. conn' \in 0..MaxConns /\ conn' > 0
    BY <2>1 DEF TypeOK
  <2>3. TypeOK'
    BY <1>6, <2>1, <2>2 DEF ReconnectTimerFires, queueVars, TypeOK
  <2>4. QED
    BY <1>6, <2>1, <2>2, <2>3 DEF ReconnectTimerFires, queueVars, SocketInv,
      OneLifeline, ConnectedIsFlushed, CanWrite
<1>7. CASE Stop
  <2>1. TypeOK'
    BY <1>7 DEF Stop, queueVars, TypeOK
  <2>2. SocketInv'
    BY <1>7 DEF Stop, SocketInv
  <2>3. OneLifeline'
    BY <1>7 DEF Stop, OneLifeline
  <2>4. ConnectedIsFlushed'
    BY <1>7 DEF Stop, ConnectedIsFlushed, CanWrite
  <2>5. QED
    BY <2>1, <2>2, <2>3, <2>4
<1>8. ASSUME NEW c \in Conns, NetworkDelivers(c) PROVE ControlInv'
  BY <1>8 DEF NetworkDelivers, timerVars, queueVars, TypeOK, SocketInv,
    OneLifeline, ConnectedIsFlushed, CanWrite
<1>9. CASE UNCHANGED vars
  BY <1>9 DEF vars, timerVars, queueVars, TypeOK, SocketInv,
    OneLifeline, ConnectedIsFlushed, CanWrite
<1>10. QED
  BY <1>1, <1>2, <1>3, <1>4, <1>5, <1>6, <1>7, <1>8, <1>9 DEF Next, Telemetry, Heartbeat

----
(* FreshInv, HandshakeFirst, PendingIsNewest and NeverOvertakes only speak of
   the queue, of what was written, of the number of deliveries and of socket
   and conn; steps that leave those alone preserve them. *)

(* A frame written directly: the queue is empty, the connection has its
   handshake, and the frame is newer than anything written. *)
LEMMA WriteStep ==
  ASSUME IInv, Send, CanWrite
  PROVE  /\ pendingFrames' = pendingFrames
         /\ pendingFrames = <<>>
         /\ conn \in Conns
         /\ produced' = produced + 1
         /\ \A c \in Conns : Len(written'[c]) = IF c = conn THEN Len(written[c]) + 1 ELSE Len(written[c])
         /\ \A c \in Conns : \A i \in 1..Len(written[c]) : written'[c][i] = written[c][i]
         /\ written'[conn][Len(written[conn]) + 1] = produced + 1
<1>1. conn \in Conns
  BY DEF CanWrite, IInv, ControlInv, SocketInv, TypeOK, Conns
<1>2. Write(produced + 1) /\ produced' = produced + 1
  BY DEF Send, Enqueue
<1>3. pendingFrames' = pendingFrames /\ pendingFrames = <<>>
  BY <1>2 DEF Write, IInv, ControlInv, ConnectedIsFlushed
<1>4. \A c \in Conns : written[c] \in Seq(Payload)
  BY DEF IInv, ControlInv, TypeOK, Payload
<1>5. produced + 1 \in Payload
  BY DEF Send, IInv, ControlInv, TypeOK, Payload, Frames
<1>6. written' = [written EXCEPT ![conn] = Append(written[conn], produced + 1)]
  BY <1>2 DEF Write
<1>7. \A c \in Conns : written'[c] = IF c = conn THEN Append(written[conn], produced + 1) ELSE written[c]
  BY <1>1, <1>6 DEF IInv, ControlInv, TypeOK
<1>8. /\ Len(Append(written[conn], produced + 1)) = Len(written[conn]) + 1
      /\ \A i \in 1..Len(written[conn]) : Append(written[conn], produced + 1)[i] = written[conn][i]
      /\ Append(written[conn], produced + 1)[Len(written[conn]) + 1] = produced + 1
  BY <1>1, <1>4, <1>5, AppendProperties
<1>9. QED
  BY <1>1, <1>2, <1>3, <1>7, <1>8

(* A frame queued: it goes last, and one frame at most leaves at the front. *)
LEMMA EnqueueStep ==
  ASSUME IInv, Send, ~CanWrite
  PROVE  /\ written' = written
         /\ produced' = produced + 1
         /\ PendingIsNewest'
         /\ produced' - Len(pendingFrames') >= produced - Len(pendingFrames)
<1> DEFINE f == produced + 1
           n == Len(pendingFrames)
<1>1. Enqueue(f) /\ produced' = f
  BY DEF Send, Write
<1>2. /\ pendingFrames \in Seq(Frames) /\ n \in 0..Cap
      /\ f \in Frames /\ produced \in Nat
      /\ \A i \in 1..n : pendingFrames[i] = produced - n + i
  BY LenProperties DEF Send, IInv, ControlInv, TypeOK, Frames, PendingIsNewest
<1>3. CASE n >= Cap
  <2> DEFINE t == Tail(pendingFrames)
  <2>1. pendingFrames # <<>>
    BY <1>2, <1>3
  <2>2. /\ t \in Seq(Frames)
        /\ Len(t) = n - 1
        /\ \A i \in 1..Len(t) : t[i] = pendingFrames[i + 1]
    BY <1>2, <2>1, HeadTailProperties
  <2>3. /\ Len(Append(t, f)) = Len(t) + 1
        /\ \A i \in 1..Len(t) : Append(t, f)[i] = t[i]
        /\ Append(t, f)[Len(t) + 1] = f
    BY <1>2, <2>2, AppendProperties
  <2>4. pendingFrames' = Append(t, f)
    BY <1>1, <1>3 DEF Enqueue
  <2>5. Len(pendingFrames') = n
    BY <1>2, <2>2, <2>3, <2>4
  <2>6. \A i \in 1..n : pendingFrames'[i] = f - n + i
    <3> SUFFICES ASSUME NEW i \in 1..n PROVE pendingFrames'[i] = f - n + i
      OBVIOUS
    <3>1. CASE i \in 1..(n - 1)
      BY <1>2, <2>2, <2>3, <2>4, <3>1
    <3>2. CASE i = n
      BY <1>2, <2>2, <2>3, <2>4, <3>2
    <3>3. QED
      BY <1>2, <3>1, <3>2
  <2>7. QED
    BY <1>1, <1>2, <2>5, <2>6 DEF Enqueue, PendingIsNewest
<1>4. CASE ~(n >= Cap)
  <2>1. /\ Len(Append(pendingFrames, f)) = n + 1
        /\ \A i \in 1..n : Append(pendingFrames, f)[i] = pendingFrames[i]
        /\ Append(pendingFrames, f)[n + 1] = f
    BY <1>2, AppendProperties
  <2>2. pendingFrames' = Append(pendingFrames, f)
    BY <1>1, <1>4 DEF Enqueue
  <2>3. \A i \in 1..(n + 1) : pendingFrames'[i] = f - (n + 1) + i
    <3> SUFFICES ASSUME NEW i \in 1..(n + 1) PROVE pendingFrames'[i] = f - (n + 1) + i
      OBVIOUS
    <3>1. CASE i \in 1..n
      BY <1>2, <2>1, <2>2, <3>1
    <3>2. CASE i = n + 1
      BY <1>2, <2>1, <2>2, <3>2
    <3>3. QED
      BY <1>2, <3>1, <3>2
  <2>4. QED
    BY <1>1, <1>2, <2>1, <2>2, <2>3 DEF Enqueue, PendingIsNewest
<1>5. QED
  BY <1>3, <1>4

(* 'connect': the new connection carries the handshake, then the queue. *)
LEMMA FlushStep ==
  ASSUME IInv, OnConnect
  PROVE  /\ conn \in Conns
         /\ pendingFrames' = <<>> /\ produced' = produced
         /\ \A c \in Conns : c # conn => written'[c] = written[c]
         /\ written[conn] = <<>>
         /\ Len(written'[conn]) = 1 + Len(pendingFrames)
         /\ written'[conn][1] = Handshake
         /\ \A i \in 2..(1 + Len(pendingFrames)) :
              written'[conn][i] = produced - Len(pendingFrames) + i - 1
<1>1. /\ conn \in Conns
      /\ <<Handshake>> \in Seq(Payload)
      /\ written'[conn] = written[conn] \o <<Handshake>> \o pendingFrames
      /\ pendingFrames' = <<>>
  BY FlushType DEF IInv, ControlInv
<1>2. written[conn] = <<>>
  BY DEF OnConnect, IInv, FreshInv
<1>3. written[conn] \o <<Handshake>> = <<Handshake>>
  BY <1>1, <1>2, ConcatEmptySeq
<1>4. /\ pendingFrames \in Seq(Payload) /\ Len(pendingFrames) \in Nat
  BY LenProperties DEF IInv, ControlInv, TypeOK, Payload
<1>5. Len(<<Handshake>>) = 1 /\ <<Handshake>>[1] = Handshake
  OBVIOUS
<1>6. /\ Len(<<Handshake>> \o pendingFrames) = 1 + Len(pendingFrames)
      /\ \A i \in 1..(1 + Len(pendingFrames)) :
           (<<Handshake>> \o pendingFrames)[i] =
             IF i <= 1 THEN <<Handshake>>[i] ELSE pendingFrames[i - 1]
  BY <1>1, <1>4, <1>5, ConcatProperties
<1>7. \A i \in 1..Len(pendingFrames) : pendingFrames[i] = produced - Len(pendingFrames) + i
  BY DEF IInv, PendingIsNewest
<1>8. \A c \in Conns : c # conn => written'[c] = written[c]
  BY <1>1 DEF OnConnect, HandshakeAndFlush, IInv, ControlInv, TypeOK
<1>9. produced \in Nat /\ produced' = produced
  BY DEF OnConnect, IInv, ControlInv, TypeOK
<1>10. \A i \in 2..(1 + Len(pendingFrames)) :
         written'[conn][i] = produced - Len(pendingFrames) + i - 1
  <2> SUFFICES ASSUME NEW i \in 2..(1 + Len(pendingFrames))
               PROVE  written'[conn][i] = produced - Len(pendingFrames) + i - 1
    OBVIOUS
  <2>1. i - 1 \in 1..Len(pendingFrames) /\ i \in 1..(1 + Len(pendingFrames)) /\ ~(i <= 1)
    BY <1>4
  <2>2. QED
    BY <1>1, <1>3, <1>4, <1>6, <1>7, <1>9, <2>1
<1>11. QED
  BY <1>1, <1>2, <1>3, <1>4, <1>5, <1>6, <1>8, <1>9, <1>10

LEMMA Bounds ==
  ASSUME IInv
  PROVE  /\ produced \in Nat
         /\ Len(pendingFrames) \in 0..produced
         /\ \A c \in Conns : Len(written[c]) \in Nat /\ delivered[c] \in Nat
         /\ \A c \in Conns : \A i \in 1..Len(written[c]) : written[c][i] \in Nat
<1>1. produced \in Nat /\ pendingFrames \in Seq(Frames) /\ Len(pendingFrames) \in Nat
  BY LenProperties DEF IInv, ControlInv, TypeOK
<1>2. \A i \in 1..Len(pendingFrames) :
        pendingFrames[i] \in Frames /\ pendingFrames[i] = produced - Len(pendingFrames) + i
  BY <1>1, ElementOfSeq DEF IInv, PendingIsNewest
<1>3. Len(pendingFrames) \in 0..produced
  <2>1. CASE Len(pendingFrames) = 0
    BY <1>1, <2>1
  <2>2. CASE Len(pendingFrames) > 0
    <3>1. 1 \in 1..Len(pendingFrames)
      BY <1>1, <2>2
    <3>2. pendingFrames[1] \in 1..MaxFrames /\ pendingFrames[1] = produced - Len(pendingFrames) + 1
      BY <1>2, <3>1 DEF Frames
    <3>3. QED
      BY <1>1, <3>2
  <2>3. QED
    BY <1>1, <2>1, <2>2
<1>4. \A c \in Conns : written[c] \in Seq(Payload) /\ delivered[c] \in Nat
  BY DEF IInv, ControlInv, TypeOK, Payload
<1>5. \A c \in Conns : Len(written[c]) \in Nat
  BY <1>4, LenProperties
<1>6. Payload \subseteq Nat
  BY DEF Payload, Frames, Handshake
<1>7. \A c \in Conns : \A i \in 1..Len(written[c]) : written[c][i] \in Nat
  BY <1>4, <1>6, ElementOfSeq
<1>8. QED
  BY <1>1, <1>3, <1>4, <1>5, <1>7

(* The queue's half of the invariant. *)
QueueInv == FreshInv /\ PendingIsNewest /\ HandshakeFirst /\ NeverOvertakes

LEMMA WriteQueueInv ==
  ASSUME IInv, Send, CanWrite
  PROVE  QueueInv'
<1>1. /\ pendingFrames' = pendingFrames
      /\ pendingFrames = <<>>
      /\ conn \in Conns
      /\ produced' = produced + 1
      /\ \A c \in Conns : Len(written'[c]) = IF c = conn THEN Len(written[c]) + 1 ELSE Len(written[c])
      /\ \A c \in Conns : \A i \in 1..Len(written[c]) : written'[c][i] = written[c][i]
      /\ written'[conn][Len(written[conn]) + 1] = produced + 1
  BY WriteStep
<1>2. /\ produced \in Nat
      /\ \A c \in Conns : Len(written[c]) \in Nat /\ delivered[c] \in Nat
      /\ \A c \in Conns : \A i \in 1..Len(written[c]) : written[c][i] \in Nat
  BY Bounds
<1>3. conn' = conn /\ socket' = socket /\ delivered' = delivered /\ socket = "open"
  BY DEF Send, CanWrite
<1>4. Len(written[conn]) >= 1
  <2>1. written[conn] # <<>> /\ written[conn] \in Seq(Payload)
    BY <1>1, <1>3 DEF IInv, ControlInv, TypeOK, FreshInv, Payload
  <2>2. QED
    BY <2>1, EmptySeq
<1>5. \A d \in Conns : d > conn => Len(written[d]) = 0
  BY DEF IInv, FreshInv
<1>6. FreshInv'
  <2>1. \A c \in Conns : c > conn => written'[c] = <<>>
    <3>1. \A c \in Conns : c # conn => written'[c] = written[c]
      BY <1>1 DEF Send, Write, Enqueue, IInv, ControlInv, TypeOK
    <3>2. QED
      BY <1>1, <3>1 DEF IInv, FreshInv, Conns
  <2>2. written'[conn] # <<>>
    BY <1>1, <1>2, <1>4
  <2>3. \A c \in Conns : delivered[c] <= Len(written'[c])
    BY <1>1, <1>2 DEF IInv, FreshInv
  <2>4. QED
    BY <1>3, <2>1, <2>2, <2>3 DEF FreshInv
<1>7. PendingIsNewest'
  BY <1>1 DEF PendingIsNewest
<1>8. HandshakeFirst'
  <2> SUFFICES ASSUME NEW c \in Conns, NEW i \in 1..Len(written'[c])
               PROVE  written'[c][i] = Handshake <=> i = 1
    BY DEF HandshakeFirst
  <2>1. CASE i \in 1..Len(written[c])
    BY <1>1, <2>1 DEF IInv, HandshakeFirst
  <2>2. CASE c = conn /\ i = Len(written[c]) + 1
    BY <1>1, <1>2, <1>4, <2>2 DEF Handshake
  <2>3. QED
    BY <1>1, <1>2, <2>1, <2>2
<1>9. NeverOvertakes'
  <2>0. Len(pendingFrames) = 0
    BY <1>1
  <2>1. \A c \in Conns : \A i \in 1..Len(written[c]) : written[c][i] <= produced
    BY <2>0, <1>2 DEF IInv, NeverOvertakes
  <2>2. ASSUME NEW c \in Conns, NEW i \in 1..Len(written'[c])
        PROVE  written'[c][i] <= produced + 1
    <3>1. CASE i \in 1..Len(written[c])
      <4>1. written[c][i] \in Nat /\ written[c][i] <= produced /\ written'[c][i] = written[c][i]
        BY <1>1, <1>2, <2>1, <2>2, <3>1
      <4>2. QED
        BY <1>2, <4>1
    <3>2. CASE c = conn /\ i = Len(written[c]) + 1
      BY <1>1, <1>2, <3>2
    <3>3. QED
      BY <1>1, <1>2, <2>2, <3>1, <3>2
  <2>3. ASSUME NEW c \in Conns, NEW i \in 1..Len(written'[c]),
               NEW d \in Conns, NEW j \in 1..Len(written'[d]),
               c < d \/ (c = d /\ i < j), written'[d][j] # Handshake
        PROVE  written'[c][i] < written'[d][j]
    <3>1. CASE j \in 1..Len(written[d]) /\ i \in 1..Len(written[c])
      BY <1>1, <2>3, <3>1, SMTT(30) DEF IInv, NeverOvertakes
    <3>2. CASE d = conn /\ j = Len(written[d]) + 1
      <4>1. i \in 1..Len(written[c])
        BY <1>1, <1>2, <2>3, <3>2 DEF Conns
      <4>2. /\ written'[d][j] = produced + 1
            /\ written'[c][i] = written[c][i]
            /\ written[c][i] <= produced
            /\ written[c][i] \in Nat
        BY <1>1, <1>2, <2>1, <3>2, <4>1
      <4>3. QED
        BY <1>2, <4>2
    <3>3. CASE c = conn /\ i = Len(written[c]) + 1 /\ d # conn
      <4>1. d > conn
        BY <1>1, <2>3, <3>3 DEF Conns
      <4>2. Len(written'[d]) = 0
        BY <1>1, <1>5, <3>3, <4>1
      <4>3. QED
        BY <2>3, <4>2
    <3>4. CASE c = conn /\ i = Len(written[c]) + 1 /\ d = conn
      BY <1>1, <1>2, <2>3, <3>4 DEF Conns
    <3>5. QED
      BY <1>1, <1>2, <3>1, <3>2, <3>3, <3>4
  <2>4. Len(pendingFrames') = 0 /\ produced' - Len(pendingFrames') = produced + 1
    BY <1>1, <1>2
  <2>5. QED
    BY <1>1, <2>2, <2>3, <2>4 DEF NeverOvertakes
<1>10. QED
  BY <1>6, <1>7, <1>8, <1>9 DEF QueueInv

LEMMA EnqueueQueueInv ==
  ASSUME IInv, Send, ~CanWrite
  PROVE  QueueInv'
<1>1. /\ written' = written /\ produced' = produced + 1 /\ PendingIsNewest'
      /\ produced' - Len(pendingFrames') >= produced - Len(pendingFrames)
  BY EnqueueStep
<1>2. conn' = conn /\ socket' = socket /\ delivered' = delivered
  BY DEF Send
<1>3. FreshInv' /\ HandshakeFirst'
  BY <1>1, <1>2 DEF IInv, FreshInv, HandshakeFirst
<1>4. pendingFrames' \in Seq(Frames)
  BY SendType DEF IInv, ControlInv
<1>5. Len(pendingFrames') \in Nat
  BY <1>4, LenProperties
<1>6. NeverOvertakes'
  <2>1. \A c \in Conns : \A i \in 1..Len(written[c]) :
          written[c][i] <= produced' - Len(pendingFrames')
    BY <1>1, <1>5, Bounds DEF IInv, NeverOvertakes
  <2>2. QED
    BY <1>1, <2>1 DEF IInv, NeverOvertakes
<1>7. QED
  BY <1>1, <1>3, <1>6 DEF QueueInv

LEMMA FlushQueueInv ==
  ASSUME IInv, OnConnect
  PROVE  QueueInv'
<1> DEFINE n == Len(pendingFrames)
<1>1. /\ conn \in Conns
      /\ pendingFrames' = <<>> /\ produced' = produced
      /\ \A c \in Conns : c # conn => written'[c] = written[c]
      /\ written[conn] = <<>>
      /\ Len(written'[conn]) = 1 + n
      /\ written'[conn][1] = Handshake
      /\ \A i \in 2..(1 + n) : written'[conn][i] = produced - n + i - 1
  BY FlushStep
<1>2. /\ produced \in Nat /\ n \in 0..produced
      /\ \A c \in Conns : Len(written[c]) \in Nat /\ delivered[c] \in Nat
      /\ \A c \in Conns : \A i \in 1..Len(written[c]) : written[c][i] \in Nat
  BY Bounds
<1>3. conn' = conn /\ socket' = "open" /\ delivered' = delivered
  BY DEF OnConnect
<1>4. Len(pendingFrames') = 0
  BY <1>1
<1>5. \A d \in Conns : d > conn => written[d] = <<>>
  BY DEF IInv, FreshInv
<1>6. FreshInv'
  <2>1. \A c \in Conns : c > conn => written'[c] = <<>>
    BY <1>1, <1>5 DEF Conns
  <2>2. written'[conn] # <<>>
    BY <1>1, <1>2
  <2>3. \A c \in Conns : delivered[c] <= Len(written'[c])
    <3> TAKE c \in Conns
    <3>1. CASE c = conn
      <4>1. delivered[conn] <= 0
        BY <1>1, Len(<<>>) = 0 DEF IInv, FreshInv
      <4>2. QED
        BY <1>1, <1>2, <3>1, <4>1
    <3>2. CASE c # conn
      BY <1>1, <3>2 DEF IInv, FreshInv
    <3>3. QED
      BY <3>1, <3>2
  <2>4. QED
    BY <1>3, <2>1, <2>2, <2>3 DEF FreshInv
<1>7. PendingIsNewest'
  BY <1>4 DEF PendingIsNewest
<1>8. HandshakeFirst'
  <2> SUFFICES ASSUME NEW c \in Conns, NEW i \in 1..Len(written'[c])
               PROVE  written'[c][i] = Handshake <=> i = 1
    BY DEF HandshakeFirst
  <2>1. CASE c # conn
    BY <1>1, <2>1 DEF IInv, HandshakeFirst
  <2>2. CASE c = conn /\ i = 1
    BY <1>1, <2>2
  <2>3. CASE c = conn /\ i \in 2..(1 + n)
    BY <1>1, <1>2, <2>3 DEF Handshake
  <2>4. QED
    BY <1>1, <1>2, <2>1, <2>2, <2>3
<1>9. NeverOvertakes'
  <2>1. \A c \in Conns : \A i \in 1..Len(written[c]) : written[c][i] <= produced - n
    BY DEF IInv, NeverOvertakes
  <2>2. ASSUME NEW c \in Conns, NEW i \in 1..Len(written'[c])
        PROVE  written'[c][i] <= produced
    <3>1. CASE c # conn
      <4>1. written'[c][i] = written[c][i] /\ written[c][i] \in Nat /\ written[c][i] <= produced - n
        BY <1>1, <1>2, <2>1, <2>2, <3>1
      <4>2. QED
        BY <1>2, <4>1
    <3>2. CASE c = conn /\ i = 1
      BY <1>1, <1>2, <3>2 DEF Handshake
    <3>3. CASE c = conn /\ i \in 2..(1 + n)
      BY <1>1, <1>2, <3>3
    <3>4. QED
      BY <1>1, <1>2, <2>2, <3>1, <3>2, <3>3
  <2>3. ASSUME NEW c \in Conns, NEW i \in 1..Len(written'[c]),
               NEW d \in Conns, NEW j \in 1..Len(written'[d]),
               c < d \/ (c = d /\ i < j), written'[d][j] # Handshake
        PROVE  written'[c][i] < written'[d][j]
    <3>1. CASE c # conn /\ d # conn
      <4>1. written'[c] = written[c] /\ written'[d] = written[d]
        BY <1>1, <3>1
      <4>2. QED
        BY <2>3, <4>1 DEF IInv, NeverOvertakes
    <3>2. CASE c = conn /\ d # conn
      <4>1. d > conn /\ written'[d] = <<>>
        BY <1>1, <1>5, <2>3, <3>2 DEF Conns
      <4>2. QED
        BY <2>3, <4>1
    <3>3. CASE d = conn
      <4>1. j \in 2..(1 + n) /\ written'[d][j] = produced - n + j - 1
        BY <1>1, <1>2, <2>3, <3>3 DEF Handshake
      <4>2. CASE c # conn
        <5>1. written'[c][i] = written[c][i] /\ written[c][i] \in Nat /\ written[c][i] <= produced - n
          BY <1>1, <1>2, <2>1, <2>3, <4>2
        <5>2. QED
          BY <1>2, <4>1, <5>1
      <4>3. CASE c = conn /\ i = 1
        BY <1>1, <1>2, <4>1, <4>3 DEF Handshake
      <4>4. CASE c = conn /\ i \in 2..(1 + n)
        <5>1. i < j
          BY <2>3, <3>3, <4>4 DEF Conns
        <5>2. QED
          BY <1>1, <1>2, <4>1, <4>4, <5>1
      <4>5. QED
        BY <1>1, <1>2, <2>3, <4>2, <4>3, <4>4
    <3>4. QED
      BY <3>1, <3>2, <3>3
  <2>4. produced' - Len(pendingFrames') = produced
    BY <1>1, <1>2, <1>4
  <2>5. QED
    BY <2>2, <2>3, <2>4 DEF NeverOvertakes
<1>10. QED
  BY <1>6, <1>7, <1>8, <1>9 DEF QueueInv

LEMMA InvStep == IInv /\ [Next]_vars => IInv'
<1> SUFFICES ASSUME IInv, [Next]_vars PROVE QueueInv'
  BY ControlStep DEF IInv, QueueInv
<1>1. CASE Send
  BY <1>1, WriteQueueInv, EnqueueQueueInv
<1>2. CASE OnConnect
  BY <1>2, FlushQueueInv
<1>3. ASSUME UNCHANGED <<pendingFrames, produced, written>>
      PROVE  PendingIsNewest' /\ HandshakeFirst' /\ NeverOvertakes'
  BY <1>3 DEF IInv, PendingIsNewest, HandshakeFirst, NeverOvertakes
<1>4. conn \in Nat
  BY DEF IInv, ControlInv, TypeOK
<1>5. CASE Start
  BY <1>3, <1>4, <1>5 DEF Start, Connect, queueVars, QueueInv, IInv, FreshInv, Conns
<1>6. CASE SocketFails
  BY <1>3, <1>6 DEF SocketFails, queueVars, QueueInv, IInv, FreshInv
<1>7. CASE OnClose
  BY <1>3, <1>7 DEF OnClose, queueVars, QueueInv, IInv, FreshInv
<1>8. CASE ReconnectTimerFires
  <2>1. conn < MaxConns /\ ~stopped
    BY <1>8 DEF ReconnectTimerFires, IInv, ControlInv, SocketInv, OneLifeline
  <2>2. conn' = conn + 1 /\ conn' \in Conns /\ socket' = "connecting" /\ written' = written /\ delivered' = delivered
    BY <1>4, <1>8, <2>1 DEF ReconnectTimerFires, Connect, queueVars, Conns
  <2>3. FreshInv'
    BY <1>4, <2>2 DEF IInv, FreshInv, Conns
  <2>4. QED
    BY <1>3, <1>8, <2>3 DEF ReconnectTimerFires, queueVars, QueueInv
<1>9. CASE Stop
  BY <1>3, <1>9 DEF Stop, queueVars, QueueInv, IInv, FreshInv
<1>10. ASSUME NEW c \in Conns, NetworkDelivers(c) PROVE QueueInv'
  <2>1. \A d \in Conns : delivered'[d] <= Len(written[d])
    BY <1>10, Bounds DEF NetworkDelivers, IInv, ControlInv, TypeOK, FreshInv
  <2>2. QED
    BY <1>3, <1>10, <2>1 DEF NetworkDelivers, queueVars, QueueInv, IInv, FreshInv
<1>11. CASE UNCHANGED vars
  BY <1>3, <1>11 DEF vars, queueVars, QueueInv, IInv, FreshInv
<1>12. QED
  BY <1>1, <1>2, <1>5, <1>6, <1>7, <1>8, <1>9, <1>10, <1>11 DEF Next, Telemetry, Heartbeat

LEMMA InvInit == Init => IInv
<1> SUFFICES ASSUME Init PROVE IInv
  OBVIOUS
<1>0. TypeOK
  <2>1. pendingFrames \in Seq(Frames) /\ Len(pendingFrames) <= Cap
    BY EmptySeq DEF Init
  <2>2. <<>> \in Seq(Frames \union {Handshake})
    BY EmptySeq
  <2>3. written \in [Conns -> Seq(Frames \union {Handshake})]
    BY <2>2 DEF Init
  <2>4. delivered \in [Conns -> Nat] /\ conn \in 0..MaxConns /\ produced \in 0..MaxFrames
    BY DEF Init
  <2>5. QED
    BY <2>1, <2>3, <2>4 DEF Init, TypeOK
<1>1. SocketInv /\ OneLifeline
  BY DEF Init, SocketInv, OneLifeline
<1>2. FreshInv /\ HandshakeFirst /\ PendingIsNewest
  BY DEF Init, FreshInv, HandshakeFirst, PendingIsNewest
<1>3. NeverOvertakes
  BY DEF Init, NeverOvertakes
<1>4. ConnectedIsFlushed
  BY DEF Init, ConnectedIsFlushed, CanWrite
<1>5. QED
  BY <1>0, <1>1, <1>2, <1>3, <1>4 DEF IInv, ControlInv

LEMMA Invariance == Spec => []IInv
  BY InvInit, InvStep, PTL DEF Spec

----
(* Every state of a client is well typed, and its queue never exceeds Cap. *)
THEOREM Typing == Spec => []TypeOK
<1>1. IInv => TypeOK
  BY DEF IInv, ControlInv
<1>2. QED
  BY <1>1, Invariance, PTL

(* The frames written, over all connections, are in production order with no
   repetition, and none overtakes a queued frame. *)
THEOREM Ordering == Spec => []NeverOvertakes
<1>1. IInv => NeverOvertakes
  BY DEF IInv
<1>2. QED
  BY <1>1, Invariance, PTL

(* Every connection starts with the handshake and carries only that one. *)
THEOREM HandshakeLeads == Spec => []HandshakeFirst
<1>1. IInv => HandshakeFirst
  BY DEF IInv
<1>2. QED
  BY <1>1, Invariance, PTL

(* The queue is always the most recent frames without a gap. *)
THEOREM QueueKeepsNewest == Spec => []PendingIsNewest
<1>1. IInv => PendingIsNewest
  BY DEF IInv
<1>2. QED
  BY <1>1, Invariance, PTL

(* A started client that was not stopped always has exactly one reason to act
   again, and a stopped one has no timer left. *)
THEOREM NeverStalls == Spec => [](OneLifeline /\ ConnectedIsFlushed)
<1>1. IInv => OneLifeline /\ ConnectedIsFlushed
  BY DEF IInv, ControlInv
<1>2. QED
  BY <1>1, Invariance, PTL

(* Nothing is written and no socket is created after stop. *)
THEOREM StopHolds == Spec => StopIsFinal
<1>1. IInv /\ [Next]_vars => [stopped => UNCHANGED <<conn, written>>]_vars
  <2> SUFFICES ASSUME IInv, [Next]_vars, stopped PROVE UNCHANGED <<conn, written>>
    OBVIOUS
  <2>1. socket = "none" /\ ~isConnected /\ conn # 0 /\ ~reconnectTimer
    BY DEF IInv, ControlInv, SocketInv, OneLifeline, TypeOK
  <2>2. QED
    BY <2>1 DEF Next, Start, Telemetry, Heartbeat, Send, Write, Enqueue, CanWrite, OnConnect,
      SocketFails, OnClose, ReconnectTimerFires, Stop, NetworkDelivers, vars, queueVars
<1>2. QED
  BY <1>1, Invariance, PTL DEF Spec, StopIsFinal

----
(* Every frame before the queue was written or dropped, and none was both. *)
Accounted ==
  /\ WrittenFrames \union dropped = 1..(produced - Len(pendingFrames))
  /\ WrittenFrames \intersect dropped = {}

(* A frame that goes to the wire is older than the queue it leaves. *)
LEMMA AccountedWrite ==
  ASSUME IInv, Accounted, Send, CanWrite
  PROVE  Accounted'
<1> DEFINE f == produced + 1
<1>1. /\ pendingFrames' = pendingFrames /\ pendingFrames = <<>>
      /\ conn \in Conns
      /\ produced' = f
      /\ \A c \in Conns : Len(written'[c]) = IF c = conn THEN Len(written[c]) + 1 ELSE Len(written[c])
      /\ \A c \in Conns : \A i \in 1..Len(written[c]) : written'[c][i] = written[c][i]
      /\ written'[conn][Len(written[conn]) + 1] = f
  BY WriteStep
<1>2. /\ produced \in Nat /\ f \in Frames /\ Len(pendingFrames) = 0
      /\ \A c \in Conns : Len(written[c]) \in Nat
  BY <1>1, Bounds DEF Send, Frames
<1>3. dropped' = dropped
  BY DEF Send, Write, Enqueue
<1>4. WrittenFrames' = WrittenFrames \union {f}
  <2>1. ASSUME NEW g \in WrittenFrames PROVE g \in WrittenFrames'
    <3>0. PICK c \in Conns : \E i \in 1..Len(written[c]) : written[c][i] = g
      BY <2>1 DEF WrittenFrames
    <3>1. PICK i \in 1..Len(written[c]) : written[c][i] = g
      BY <3>0
    <3>2. i \in 1..Len(written'[c]) /\ written'[c][i] = g
      BY <1>1, <1>2, <3>1, SMTT(30)
    <3> QED
      BY <2>1, <3>2 DEF WrittenFrames
  <2>2. f \in WrittenFrames'
    <3>1. Len(written[conn]) + 1 \in 1..Len(written'[conn])
      BY <1>1, <1>2
    <3> QED
      BY <1>1, <1>2, <3>1 DEF WrittenFrames
  <2>3. ASSUME NEW g \in WrittenFrames', g # f PROVE g \in WrittenFrames
    <3>0. PICK c \in Conns : \E i \in 1..Len(written'[c]) : written'[c][i] = g
      BY <2>3 DEF WrittenFrames
    <3>1. PICK i \in 1..Len(written'[c]) : written'[c][i] = g
      BY <3>0
    <3>2. i \in 1..Len(written[c])
      BY <1>1, <1>2, <2>3, <3>1
    <3> QED
      BY <1>1, <2>3, <3>1, <3>2 DEF WrittenFrames
  <2> QED
    BY <2>1, <2>2, <2>3
<1>5. 1..f = (1..produced) \union {f} /\ f \notin 1..produced
  BY <1>2
<1> QED
  BY <1>1, <1>2, <1>3, <1>4, <1>5 DEF Accounted

(* A frame that is dropped was the oldest of the queue. *)
LEMMA AccountedEnqueue ==
  ASSUME IInv, Accounted, Send, ~CanWrite
  PROVE  Accounted'
<1> DEFINE f == produced + 1
           n == Len(pendingFrames)
<1>1. Enqueue(f) /\ produced' = f /\ WrittenFrames' = WrittenFrames
  BY DEF Send, Write, Enqueue, WrittenFrames
<1>2. /\ pendingFrames \in Seq(Frames) /\ n \in 0..produced
      /\ produced \in Nat /\ f \in Frames
  BY Bounds, LenProperties DEF Send, IInv, ControlInv, TypeOK, Frames
<1>3. CASE n >= Cap
  <2>1. pendingFrames # <<>> /\ n >= 1
    BY <1>2, <1>3
  <2>2. /\ Tail(pendingFrames) \in Seq(Frames) /\ Len(Tail(pendingFrames)) = n - 1
        /\ Head(pendingFrames) = pendingFrames[1]
    BY <1>2, <2>1, HeadTailProperties
  <2>3. Len(pendingFrames') = n /\ dropped' = dropped \union {pendingFrames[1]}
    BY <1>1, <1>2, <1>3, <2>2, AppendProperties DEF Enqueue
  <2>4. pendingFrames[1] = produced - n + 1
    BY <1>2, <2>1 DEF IInv, PendingIsNewest
  <2>5. /\ 1..(f - n) = (1..(produced - n)) \union {produced - n + 1}
        /\ produced - n + 1 \notin 1..(produced - n)
    BY <1>2
  <2> QED
    BY <1>1, <2>3, <2>4, <2>5 DEF Accounted
<1>4. CASE ~(n >= Cap)
  <2>1. pendingFrames' = Append(pendingFrames, f) /\ dropped' = dropped
    BY <1>1, <1>4 DEF Enqueue
  <2>2. Len(pendingFrames') = n + 1
    BY <1>2, <2>1, AppendProperties
  <2>3. f - (n + 1) = produced - n
    BY <1>2
  <2> QED
    BY <1>1, <2>1, <2>2, <2>3 DEF Accounted
<1> QED
  BY <1>3, <1>4

(* 'connect' writes the whole queue. *)
LEMMA AccountedFlush ==
  ASSUME IInv, Accounted, OnConnect
  PROVE  Accounted'
<1> DEFINE n == Len(pendingFrames)
<1>1. /\ conn \in Conns
      /\ pendingFrames' = <<>> /\ produced' = produced
      /\ \A c \in Conns : c # conn => written'[c] = written[c]
      /\ written[conn] = <<>>
      /\ Len(written'[conn]) = 1 + n
      /\ written'[conn][1] = Handshake
      /\ \A i \in 2..(1 + n) : written'[conn][i] = produced - n + i - 1
  BY FlushStep
<1>2. /\ produced \in 0..MaxFrames /\ n \in 0..produced
      /\ dropped' = dropped
  BY Bounds DEF IInv, ControlInv, TypeOK, OnConnect
<1>3. WrittenFrames' = WrittenFrames \union ((produced - n + 1)..produced)
  <2>1. ASSUME NEW g \in WrittenFrames PROVE g \in WrittenFrames'
    <3>0. PICK c \in Conns : \E i \in 1..Len(written[c]) : written[c][i] = g
      BY <2>1 DEF WrittenFrames
    <3>1. PICK i \in 1..Len(written[c]) : written[c][i] = g
      BY <3>0
    <3>2. c # conn
      BY <1>1, <3>1
    <3> QED
      BY <1>1, <2>1, <3>1, <3>2 DEF WrittenFrames
  <2>2. ASSUME NEW g \in (produced - n + 1)..produced PROVE g \in WrittenFrames'
    <3> DEFINE i == g - produced + n + 1
    <3>1. i \in 2..(1 + n) /\ i \in 1..(1 + n) /\ produced - n + i - 1 = g /\ g \in Frames
      BY <1>2, <2>2 DEF Frames
    <3> HIDE DEF i
    <3>2. i \in 1..Len(written'[conn]) /\ written'[conn][i] = g
      BY <1>1, <3>1
    <3> QED
      BY <1>1, <3>1, <3>2 DEF WrittenFrames
  <2>3. ASSUME NEW g \in WrittenFrames', g \notin (produced - n + 1)..produced
        PROVE  g \in WrittenFrames
    <3>0. PICK c \in Conns : \E i \in 1..Len(written'[c]) : written'[c][i] = g
      BY <2>3 DEF WrittenFrames
    <3>1. PICK i \in 1..Len(written'[c]) : written'[c][i] = g
      BY <3>0
    <3>2. g # Handshake /\ g \in Frames
      BY <2>3 DEF WrittenFrames, Frames, Handshake
    <3>3. CASE c = conn
      <4>1. i \in 2..(1 + n)
        BY <1>1, <1>2, <3>1, <3>2, <3>3
      <4>2. g = produced - n + i - 1
        BY <1>1, <3>1, <3>3, <4>1
      <4> QED
        BY <1>2, <2>3, <4>1, <4>2
    <3>4. CASE c # conn
      BY <1>1, <3>1, <3>2, <3>4 DEF WrittenFrames
    <3> QED
      BY <3>3, <3>4
  <2> QED
    BY <2>1, <2>2, <2>3
<1>4. /\ 1..produced = (1..(produced - n)) \union ((produced - n + 1)..produced)
      /\ (1..(produced - n)) \intersect ((produced - n + 1)..produced) = {}
  BY <1>2
<1>5. Len(pendingFrames') = 0
  BY <1>1
<1> QED
  BY <1>1, <1>2, <1>3, <1>4, <1>5 DEF Accounted

(* No path of send, flush, 'close' or stop loses a frame: each is written,
   queued, or dropped from a full queue, and none is both written and
   dropped. *)
THEOREM FramesAreAccounted == Spec => []EveryFrameAccounted
<1>1. Init => Accounted
  <2> SUFFICES ASSUME Init PROVE Accounted
    OBVIOUS
  <2>1. WrittenFrames = {} /\ dropped = {} /\ produced = 0 /\ Len(pendingFrames) = 0
    BY DEF Init, WrittenFrames
  <2> QED
    BY <2>1 DEF Accounted
<1>2. IInv /\ Accounted /\ [Next]_vars => Accounted'
  <2> SUFFICES ASSUME IInv, Accounted, [Next]_vars PROVE Accounted'
    OBVIOUS
  <2>1. CASE Send
    BY <2>1, AccountedWrite, AccountedEnqueue
  <2>2. CASE OnConnect
    BY <2>2, AccountedFlush
  <2>3. CASE Start \/ SocketFails \/ OnClose \/ ReconnectTimerFires \/ Stop \/ UNCHANGED vars
             \/ \E c \in Conns : NetworkDelivers(c)
    <3>1. UNCHANGED <<pendingFrames, produced, written, dropped>>
      BY <2>3 DEF Start, SocketFails, OnClose, ReconnectTimerFires, Stop, NetworkDelivers, vars,
        queueVars
    <3> QED
      BY <3>1 DEF Accounted, WrittenFrames
  <2> QED
    BY <2>1, <2>2, <2>3 DEF Next, Telemetry, Heartbeat
<1>3. IInv /\ Accounted => EveryFrameAccounted
  <2> SUFFICES ASSUME IInv, Accounted PROVE EveryFrameAccounted
    OBVIOUS
  <2> DEFINE n == Len(pendingFrames)
             Q == {pendingFrames[i] : i \in 1..n}
  <2>1. /\ produced \in Nat /\ n \in 0..produced
        /\ \A i \in 1..n : pendingFrames[i] = produced - n + i
    BY Bounds DEF IInv, PendingIsNewest
  <2>2. Q = (produced - n + 1)..produced
    <3>1. \A i \in 1..n : produced - n + i \in (produced - n + 1)..produced
      BY <2>1
    <3>2. ASSUME NEW g \in (produced - n + 1)..produced PROVE g \in Q
      <4>1. g - produced + n \in 1..n /\ produced - n + (g - produced + n) = g
        BY <2>1, <3>2
      <4> QED
        BY <2>1, <4>1
    <3> QED
      BY <2>1, <3>1, <3>2
  <2>3. 1..produced = (1..(produced - n)) \union ((produced - n + 1)..produced)
    BY <2>1
  <2>4. Len(pendingFrames) <= Cap
    BY DEF IInv, ControlInv, TypeOK
  <2> QED
    BY <2>2, <2>3, <2>4 DEF Accounted, EveryFrameAccounted
<1> QED
  BY <1>1, <1>2, <1>3, Invariance, PTL DEF Spec

----
(* Refinement: what the server reads is the abstract link. *)

LEMMA InboxElements ==
  ASSUME IInv, NEW c \in Conns
  PROVE  /\ Inbox[c] \in Seq(Payload)
         /\ Len(Inbox[c]) = delivered[c]
         /\ \A i \in 1..delivered[c] : i \in 1..Len(written[c]) /\ Inbox[c][i] = written[c][i]
<1>1. /\ delivered[c] \in Nat /\ Len(written[c]) \in Nat
      /\ delivered[c] <= Len(written[c])
      /\ written[c] \in Seq(Payload)
  BY Bounds DEF IInv, FreshInv, ControlInv, TypeOK, Payload
<1>2. Inbox[c] = SubSeq(written[c], 1, delivered[c])
  BY DEF Inbox
<1>3. \A i \in 1..delivered[c] : i \in 1..Len(written[c]) /\ written[c][i] \in Payload
  BY <1>1, ElementOfSeq
<1>4. /\ Inbox[c] \in Seq(Payload)
      /\ Len(Inbox[c]) = IF 1 <= delivered[c] THEN delivered[c] - 1 + 1 ELSE 0
      /\ \A i \in 1..(delivered[c] - 1 + 1) : Inbox[c][i] = written[c][1 + i - 1]
  BY <1>1, <1>2, <1>3, SubSeqProperties
<1>5. Len(Inbox[c]) = delivered[c]
  BY <1>1, <1>4
<1>6. \A i \in 1..delivered[c] : Inbox[c][i] = written[c][i]
  BY <1>1, <1>4
<1>7. QED
  BY <1>3, <1>4, <1>5, <1>6

(* Writing only extends a connection: what was delivered does not change. *)
LEMMA InboxStable ==
  ASSUME IInv, IInv', delivered' = delivered,
         \A c \in Conns : \A i \in 1..delivered[c] : written'[c][i] = written[c][i]
  PROVE  Inbox' = Inbox
<1>1. ASSUME NEW c \in Conns PROVE Inbox'[c] = Inbox[c]
  <2>1. /\ Inbox[c] \in Seq(Payload) /\ Len(Inbox[c]) = delivered[c]
        /\ \A i \in 1..delivered[c] : Inbox[c][i] = written[c][i]
    BY InboxElements
  <2>2. /\ written[c] \in Seq(Payload) /\ written'[c] \in Seq(Payload) /\ delivered[c] \in Nat
        /\ delivered[c] <= Len(written[c]) /\ delivered[c] <= Len(written'[c])
    BY DEF IInv, FreshInv, ControlInv, TypeOK, Payload
  <2>3. Inbox'[c] = SubSeq(written'[c], 1, delivered[c])
    BY DEF Inbox
  <2>4. \A i \in 1..delivered[c] : written'[c][i] \in Payload
    BY <2>2, LenProperties, ElementOfSeq
  <2>5. /\ Inbox'[c] \in Seq(Payload)
        /\ Len(Inbox'[c]) = IF 1 <= delivered[c] THEN delivered[c] - 1 + 1 ELSE 0
        /\ \A i \in 1..(delivered[c] - 1 + 1) : Inbox'[c][i] = written'[c][1 + i - 1]
    BY <2>2, <2>3, <2>4, SubSeqProperties
  <2>6. Len(Inbox'[c]) = Len(Inbox[c])
    BY <2>1, <2>2, <2>5
  <2>7. \A i \in 1..Len(Inbox[c]) : Inbox'[c][i] = Inbox[c][i]
    BY <2>1, <2>2, <2>5
  <2>8. QED
    BY <2>1, <2>5, <2>6, <2>7, SeqEqual
<1>2. QED
  BY <1>1 DEF Inbox

(* send and 'connect' leave alone what the server has read. *)
LEMMA InboxOfWrites ==
  ASSUME IInv, IInv', Send \/ OnConnect
  PROVE  Inbox' = Inbox
<1>1. delivered' = delivered
  BY DEF Send, OnConnect
<1>2. \A c \in Conns : delivered[c] \in Nat /\ delivered[c] <= Len(written[c]) /\ Len(written[c]) \in Nat
  BY Bounds DEF IInv, FreshInv
<1>3. \A c \in Conns : \A i \in 1..Len(written[c]) : written'[c][i] = written[c][i]
  <2>1. CASE Send /\ CanWrite
    BY <2>1, WriteStep
  <2>2. CASE Send /\ ~CanWrite
    BY <2>2, EnqueueStep
  <2>3. CASE OnConnect
    <3>1. /\ \A c \in Conns : c # conn => written'[c] = written[c]
          /\ Len(written[conn]) = 0
      BY <2>3, FlushStep, Len(<<>>) = 0
    <3>2. QED
      BY <3>1
  <2>4. QED
    BY <2>1, <2>2, <2>3
<1>4. \A c \in Conns : \A i \in 1..delivered[c] : written'[c][i] = written[c][i]
  BY <1>2, <1>3
<1>5. QED
  BY <1>1, <1>4, InboxStable

(* The next frame read from a connection is its handshake, or a frame that
   is in order with all that was read before. *)
LEMMA DeliveryStep ==
  ASSUME IInv, IInv', NEW c \in Conns, NetworkDelivers(c)
  PROVE  Link!Open(c) \/ Link!Deliver(c)
<1> DEFINE k == delivered[c] + 1
           f == written[c][k]
<1>1. /\ delivered[c] \in Nat /\ k \in 1..Len(written[c])
      /\ delivered' = [delivered EXCEPT ![c] = k]
      /\ written' = written /\ produced' = produced
      /\ f \in Nat /\ f \in Payload
  <2>1. /\ delivered[c] \in Nat /\ Len(written[c]) \in Nat /\ delivered \in [Conns -> Nat]
        /\ written[c] \in Seq(Payload)
    BY Bounds DEF IInv, ControlInv, TypeOK, Payload
  <2>2. k \in 1..Len(written[c])
    BY <2>1 DEF NetworkDelivers
  <2>3. QED
    BY <2>1, <2>2, Bounds, ElementOfSeq DEF NetworkDelivers, queueVars
<1>2. \A d \in Conns : /\ Inbox[d] \in Seq(Payload) /\ Len(Inbox[d]) = delivered[d]
                       /\ \A i \in 1..delivered[d] : i \in 1..Len(written[d]) /\ Inbox[d][i] = written[d][i]
  BY InboxElements
<1>3. Inbox' = [Inbox EXCEPT ![c] = Append(@, f)]
  <2>1. \A d \in Conns : d # c => Inbox'[d] = Inbox[d]
    BY <1>1 DEF Inbox, IInv, ControlInv, TypeOK
  <2>2. Inbox'[c] = Append(Inbox[c], f)
    <3>1. Inbox'[c] = SubSeq(written[c], 1, k)
      BY <1>1 DEF Inbox, IInv, ControlInv, TypeOK
    <3>2. \A i \in 1..k : written[c][i] \in Payload
      BY <1>1, ElementOfSeq, LenProperties DEF IInv, ControlInv, TypeOK, Payload
    <3>3. /\ Inbox'[c] \in Seq(Payload)
          /\ Len(Inbox'[c]) = k
          /\ \A i \in 1..k : Inbox'[c][i] = written[c][i]
      BY <1>1, <3>1, <3>2, SubSeqProperties
    <3>4. /\ Append(Inbox[c], f) \in Seq(Payload)
          /\ Len(Append(Inbox[c], f)) = k
          /\ \A i \in 1..delivered[c] : Append(Inbox[c], f)[i] = Inbox[c][i]
          /\ Append(Inbox[c], f)[k] = f
      BY <1>1, <1>2, AppendProperties
    <3>5. \A i \in 1..k : Inbox'[c][i] = Append(Inbox[c], f)[i]
      BY <1>1, <1>2, <3>3, <3>4
    <3>6. QED
      BY <3>3, <3>4, <3>5, SeqEqual
  <2>3. QED
    BY <2>1, <2>2 DEF Inbox
<1>4. CASE k = 1
  <2>1. Inbox[c] = <<>>
    BY <1>1, <1>2, <1>4, EmptySeq
  <2>2. f = Handshake
    BY <1>1, <1>4 DEF IInv, HandshakeFirst
  <2>3. Append(Inbox[c], f) = <<Handshake>>
    BY <2>1, <2>2
  <2>4. QED
    BY <1>1, <1>3, <2>1, <2>3 DEF Link!Open, Link!Handshake, Handshake
<1>5. CASE k # 1
  <2>1. Inbox[c] # <<>>
    BY <1>1, <1>2, <1>5
  <2>2. f # Handshake
    BY <1>1, <1>5 DEF IInv, HandshakeFirst
  <2>3. f \in 1..produced
    <3>1. f <= produced - Len(pendingFrames)
      BY <1>1 DEF IInv, NeverOvertakes
    <3>2. QED
      BY <1>1, <2>2, <3>1, Bounds DEF Handshake
  <2>4. Link!InOrder(c, f)
    <3> SUFFICES ASSUME NEW d \in Conns, NEW i \in 1..Len(Inbox[d]), Inbox[d][i] # Handshake
                 PROVE  IF d <= c THEN Inbox[d][i] < f ELSE f < Inbox[d][i]
      BY DEF Link!InOrder, Link!Conns, Conns, Link!Handshake, Handshake
    <3>1. /\ i \in 1..delivered[d] /\ i \in 1..Len(written[d]) /\ Inbox[d][i] = written[d][i]
      BY <1>2
    <3>2. CASE d < c
      BY <1>1, <2>2, <3>1, <3>2 DEF IInv, NeverOvertakes, Conns
    <3>3. CASE d = c
      <4>1. i < k
        BY <1>1, <3>1, <3>3
      <4>2. written[d][i] < f
        BY <1>1, <2>2, <3>1, <3>3, <4>1 DEF IInv, NeverOvertakes
      <4>3. QED
        BY <3>1, <3>3, <4>2 DEF Conns
    <3>4. CASE c < d
      <4>1. written[d][i] # Handshake
        BY <3>1
      <4>2. f < written[d][i]
        BY <1>1, <3>1, <3>4, <4>1 DEF IInv, NeverOvertakes
      <4>3. QED
        BY <3>1, <3>4, <4>2 DEF Conns
    <3>5. QED
      BY <3>2, <3>3, <3>4 DEF Conns
  <2>5. QED
    BY <1>1, <1>3, <2>1, <2>3, <2>4 DEF Link!Deliver
<1>6. QED
  BY <1>4, <1>5

(* The server's view of a client is an at-most-once, ordered link on which
   every connection opens with a handshake. *)
THEOREM Refinement == Spec => ImplementsLink
<1>1. Init => Link!Init
  <2> SUFFICES ASSUME Init PROVE Link!Init
    OBVIOUS
  <2>1. \A c \in Conns : SubSeq(written[c], 1, delivered[c]) = <<>>
    BY SubSeqEmpty DEF Init
  <2>2. QED
    BY <2>1 DEF Init, Link!Init, Inbox, Conns, Link!Conns
<1>2. IInv /\ IInv' /\ [Next]_vars => [Link!Next]_(Link!linkVars)
  <2> SUFFICES ASSUME IInv, IInv', [Next]_vars PROVE [Link!Next]_(Link!linkVars)
    OBVIOUS
  <2>1. CASE Send
    BY <2>1, InboxOfWrites DEF Send, Link!Next, Link!Offer
  <2>2. CASE OnConnect
    BY <2>2, InboxOfWrites DEF OnConnect, Link!linkVars
  <2>3. ASSUME NEW c \in Conns, NetworkDelivers(c) PROVE Link!Next
    BY <2>3, DeliveryStep DEF Link!Next, Link!Conns, Conns
  <2>4. CASE Start \/ SocketFails \/ OnClose \/ ReconnectTimerFires \/ Stop \/ UNCHANGED vars
    BY <2>4 DEF Start, SocketFails, OnClose, ReconnectTimerFires, Stop, vars, queueVars,
      Inbox, Link!linkVars
  <2>5. QED
    BY <2>1, <2>2, <2>3, <2>4 DEF Next, Telemetry, Heartbeat
<1>3. QED
  BY <1>1, <1>2, Invariance, PTL DEF Spec, ImplementsLink, Link!Spec
====
