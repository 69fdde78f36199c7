---- MODULE Framing_proofs ----
(***************************************************************************)
(* The wire protocol: a frame survives encoding and decoding, and a stream *)
(* of frames survives being cut into chunks and losing its connection, for *)
(* any message types, payloads, chunks, frames and breaks.                 *)
(***************************************************************************)
EXTENDS Framing, SequenceTheorems, TLAPS

Typed ==
  /\ sent \in Seq(Frame)
  /\ stream \in Seq(Byte)
  /\ ends \in Seq(Nat)
  /\ arrived \in Nat
  /\ running \in BOOLEAN
  /\ combined \in Seq(Byte)
  /\ offset \in Nat
  /\ remainder \in Seq(Byte)
  /\ decoded \in Seq(Frame)

(* The i-th frame lies in the stream between two ends. *)
Begin(i) == IF i = 1 THEN 0 ELSE ends[i - 1]
Size(f) == 5 + Len(f.payload)
Laid(i) ==
  /\ ends[i] = Begin(i) + Size(sent[i])
  /\ ends[i] <= Len(stream)
  /\ \A j \in 1..Size(sent[i]) : stream[Begin(i) + j] = Encode(sent[i])[j]

Layout ==
  /\ Len(ends) = Len(sent)
  /\ \A i \in 1..Len(sent) : Laid(i)
  /\ Len(stream) = IF sent = <<>> THEN 0 ELSE ends[Len(sent)]
  /\ \A i, j \in 1..Len(sent) : i < j => ends[i] < ends[j]

(* Where the first frame that is not decoded begins. *)
Here == IF Len(decoded) = 0 THEN 0 ELSE ends[Len(decoded)]

InOrder ==
  /\ Len(decoded) <= Len(sent)
  /\ \A i \in 1..Len(decoded) : decoded[i] = sent[i]
  /\ Here <= arrived /\ arrived <= Len(stream)

(* The bytes that have arrived beyond the first n. *)
Holds(bytes, n) ==
  /\ Len(bytes) = arrived - n
  /\ \A j \in 1..Len(bytes) : bytes[j] = stream[n + j]

NoneWaits == \A i \in 1..Len(sent) : ends[i] <= arrived => i <= Len(decoded)

(* decodeFrames works on the rest of the last chunk and the new one, and what
   it leaves holds no whole frame. *)
Buffered ==
  IF running THEN offset <= Here /\ Holds(combined, Here - offset)
  ELSE Holds(remainder, Here) /\ NoneWaits

IInv == Typed /\ Layout /\ InOrder /\ Buffered

----
(* Four bytes hold a length. *)
LEMMA LengthRoundTrip ==
  ASSUME NEW n \in Nat, n < 2147483648
  PROVE  /\ WriteUInt32BE(n) \in Seq(Byte)
         /\ Len(WriteUInt32BE(n)) = 4
         /\ ReadUInt32BE(WriteUInt32BE(n), 0) = n
<1> DEFINE a == n \div 256
           b == n \div 65536
           c == n \div 16777216
<1>1. /\ a \in Nat /\ b \in Nat /\ c \in 0..127
      /\ n = 256 * a + (n % 256)
      /\ a = 256 * b + (a % 256)
      /\ b = 256 * c + (b % 256)
      /\ n % 256 \in 0..255 /\ a % 256 \in 0..255 /\ b % 256 \in 0..255
  BY SMT
<1>2. WriteUInt32BE(n) = <<c, b % 256, a % 256, n % 256>>
  BY SMT DEF WriteUInt32BE
<1> HIDE DEF a, b, c
<1>3. <<c, b % 256, a % 256, n % 256>> \in Seq(Byte)
  BY SMT, <1>1 DEF Byte
<1>4. ReadUInt32BE(<<c, b % 256, a % 256, n % 256>>, 0)
        = c * 16777216 + (b % 256) * 65536 + (a % 256) * 256 + (n % 256)
  BY SMT, <1>1 DEF ReadUInt32BE
<1> QED
  BY SMT, <1>1, <1>2, <1>3, <1>4

LEMMA EncodeLayout ==
  ASSUME NEW f \in Frame
  PROVE  /\ f.messageType \in Byte /\ f.payload \in Seq(Byte) /\ Len(f.payload) \in Nat
         /\ Encode(f) \in Seq(Byte)
         /\ Len(Encode(f)) = Size(f)
         /\ ReadUInt32BE(Encode(f), 0) = 1 + Len(f.payload)
         /\ Encode(f)[5] = f.messageType
         /\ \A j \in 1..Len(f.payload) : Encode(f)[5 + j] = f.payload[j]
<1> DEFINE n == 1 + Len(f.payload)
           h == WriteUInt32BE(n)
           t == <<f.messageType>>
<1>1. f.messageType \in Byte /\ f.payload \in Seq(Byte) /\ Len(f.payload) \in Nat
  BY TypesAssumption, PayloadsAssumption, LenProperties, SMT DEF Frame
<1>2. h \in Seq(Byte) /\ Len(h) = 4 /\ ReadUInt32BE(h, 0) = n
  <2>1. n \in Nat /\ n < 2147483648
    BY <1>1, PayloadsAssumption, SMT DEF Frame
  <2> QED
    BY <2>1, LengthRoundTrip, SMT
<1>3. t \in Seq(Byte) /\ Len(t) = 1 /\ t[1] = f.messageType
  BY <1>1
<1>4. Encode(f) = h \o t \o f.payload
  BY DEF Encode
<1> HIDE DEF h, t, n
<1>5. /\ h \o t \in Seq(Byte)
      /\ Len(h \o t) = 4 + 1
      /\ \A i \in 1..(4 + 1) : (h \o t)[i] = IF i <= 4 THEN h[i] ELSE t[i - 4]
  <2>1. h \in Seq(Byte) /\ t \in Seq(Byte) /\ Len(h) = 4 /\ Len(t) = 1
    BY <1>2, <1>3
  <2>2. /\ h \o t \in Seq(Byte)
        /\ Len(h \o t) = Len(h) + Len(t)
        /\ \A i \in 1..(Len(h) + Len(t)) :
             (h \o t)[i] = IF i <= Len(h) THEN h[i] ELSE t[i - Len(h)]
    BY <2>1, ConcatProperties, Zenon
  <2> QED
    BY <2>1, <2>2, Zenon
<1>6. /\ Encode(f) \in Seq(Byte)
      /\ Len(Encode(f)) = 5 + Len(f.payload)
      /\ \A i \in 1..(5 + Len(f.payload)) :
           Encode(f)[i] = IF i <= 5 THEN (h \o t)[i] ELSE f.payload[i - 5]
  <2> DEFINE ht == h \o t
  <2>1. ht \in Seq(Byte) /\ Len(ht) = 5
    BY <1>5
  <2> HIDE DEF ht
  <2>2. /\ ht \o f.payload \in Seq(Byte)
        /\ Len(ht \o f.payload) = Len(ht) + Len(f.payload)
        /\ \A i \in 1..(Len(ht) + Len(f.payload)) :
             (ht \o f.payload)[i] = IF i <= Len(ht) THEN ht[i] ELSE f.payload[i - Len(ht)]
    BY <1>1, <2>1, ConcatProperties, Zenon
  <2>3. Encode(f) = ht \o f.payload
    BY <1>4 DEF ht
  <2> QED
    BY <2>1, <2>2, <2>3, Zenon DEF ht
<1>7. \A i \in 1..5 : i \in 1..(5 + Len(f.payload))
  BY <1>1
<1>8. /\ Encode(f)[1] = h[1] /\ Encode(f)[2] = h[2] /\ Encode(f)[3] = h[3] /\ Encode(f)[4] = h[4]
      /\ Encode(f)[5] = f.messageType
  <2>1. \A i \in 1..5 : Encode(f)[i] = (h \o t)[i]
    <3> TAKE i \in 1..5
    <3>1. i \in 1..(5 + Len(f.payload)) /\ i <= 5
      BY <1>7
    <3> QED
      BY <1>6, <3>1
  <2>2. /\ (h \o t)[1] = h[1] /\ (h \o t)[2] = h[2] /\ (h \o t)[3] = h[3]
        /\ (h \o t)[4] = h[4] /\ (h \o t)[5] = f.messageType
    <3>1. \A i \in 1..4 : i \in 1..(4 + 1) /\ i <= 4
      OBVIOUS
    <3>2. 5 \in 1..(4 + 1) /\ ~(5 <= 4) /\ 5 - 4 = 1
      OBVIOUS
    <3>3. \A i \in 1..4 : (h \o t)[i] = h[i]
      BY <1>5, <3>1
    <3>4. (h \o t)[5] = t[1]
      BY <1>5, <3>2
    <3>5. 1 \in 1..4 /\ 2 \in 1..4 /\ 3 \in 1..4 /\ 4 \in 1..4
      OBVIOUS
    <3> QED
      BY <1>3, <3>3, <3>4, <3>5, Zenon
  <2>3. 1 \in 1..5 /\ 2 \in 1..5 /\ 3 \in 1..5 /\ 4 \in 1..5 /\ 5 \in 1..5
    OBVIOUS
  <2> QED
    BY <2>1, <2>2, <2>3, Zenon
<1>9. ReadUInt32BE(Encode(f), 0) = n
  BY <1>2, <1>8 DEF ReadUInt32BE
<1>10. \A j \in 1..Len(f.payload) : Encode(f)[5 + j] = f.payload[j]
  <2> TAKE j \in 1..Len(f.payload)
  <2>1. 5 + j \in 1..(5 + Len(f.payload)) /\ ~(5 + j <= 5) /\ (5 + j) - 5 = j
    BY <1>1
  <2> QED
    BY <1>6, <2>1
<1> QED
  BY <1>1, <1>6, <1>8, <1>9, <1>10 DEF Size, n

(* encodeFrame and decodeSingleFrame: a frame comes back as it was. *)
THEOREM FrameRoundTrip == \A f \in Frame : DecodeSingle(Encode(f)) = f
<1> TAKE f \in Frame
<1> DEFINE e == Encode(f)
           p == SubSeq(e, 6, 5 + Len(f.payload))
<1>1. /\ f.payload \in Seq(Byte) /\ Len(f.payload) \in Nat
      /\ e \in Seq(Byte) /\ Len(e) = 5 + Len(f.payload)
      /\ ReadUInt32BE(e, 0) = 1 + Len(f.payload)
      /\ e[5] = f.messageType
      /\ \A j \in 1..Len(f.payload) : e[5 + j] = f.payload[j]
  BY EncodeLayout DEF Size
<1> HIDE DEF e
<1>2. DecodeSingle(e) = [messageType |-> f.messageType, payload |-> p]
  <2>1. 4 + ReadUInt32BE(e, 0) = 5 + Len(f.payload)
    BY <1>1
  <2> QED
    BY <1>1, <2>1, Zenon DEF DecodeSingle
<1>3. \A i \in 6..(5 + Len(f.payload)) : e[i] \in Byte
  BY <1>1, ElementOfSeq
<1>4. /\ p \in Seq(Byte)
      /\ Len(p) = Len(f.payload)
      /\ \A i \in 1..Len(f.payload) : p[i] = e[5 + i]
  BY <1>1, <1>3, SubSeqProperties
<1>5. p = f.payload
  BY <1>1, <1>4, SeqEqual
<1>6. f = [messageType |-> f.messageType, payload |-> f.payload]
  BY DEF Frame
<1> QED
  BY <1>2, <1>5, <1>6 DEF e

----
LEMMA Lengths ==
  ASSUME Typed
  PROVE  /\ Len(sent) \in Nat /\ Len(stream) \in Nat /\ Len(ends) \in Nat
         /\ Len(combined) \in Nat /\ Len(remainder) \in Nat /\ Len(decoded) \in Nat
         /\ \A i \in 1..Len(ends) : ends[i] \in Nat
         /\ \A i \in 1..Len(sent) : sent[i] \in Frame
         /\ \A i \in 1..Len(stream) : stream[i] \in Byte
         /\ \A i \in 1..Len(combined) : combined[i] \in Byte
  BY LenProperties, ElementOfSeq DEF Typed

LEMMA FreshIInv == Fresh => IInv
<1> SUFFICES ASSUME Fresh PROVE IInv
  OBVIOUS
<1>1. Typed
  <2>1. <<>> \in Seq(Frame) /\ <<>> \in Seq(Byte) /\ <<>> \in Seq(Nat)
    BY EmptySeq
  <2> QED
    BY <2>1 DEF Fresh, Typed
<1>2. Layout
  BY DEF Fresh, Layout
<1>3. InOrder /\ Buffered
  BY DEF Fresh, InOrder, Buffered, Here, Holds, NoneWaits
<1> QED
  BY <1>1, <1>2, <1>3 DEF IInv

LEMMA HereIsNat ==
  ASSUME Typed, Layout, Len(decoded) <= Len(sent)
  PROVE  Here \in Nat
<1>1. Len(decoded) \in Nat /\ Len(sent) \in Nat /\ \A i \in 1..Len(sent) : ends[i] \in Nat
  BY Lengths DEF Layout
<1> QED
  BY <1>1 DEF Here

(* The next frame begins where the decoded ones end; once four of its bytes
   have arrived its length is known. *)
LEMMA NextFrame ==
  ASSUME IInv, NEW d, d = Len(decoded) + 1, running, Left >= 4
  PROVE  /\ d \in 1..Len(sent)
         /\ Begin(d) = Here
         /\ Left = arrived - Here
         /\ FrameLength = Size(sent[d])
         /\ ends[d] = Here + FrameLength
<1>1. /\ Len(decoded) \in Nat /\ Len(sent) \in Nat /\ Len(stream) \in Nat
      /\ Here \in Nat /\ arrived \in Nat /\ offset \in Nat
      /\ Here <= arrived /\ arrived <= Len(stream)
      /\ Len(decoded) <= Len(sent)
  BY Lengths, HereIsNat DEF IInv, Typed, InOrder
<1>2. /\ Len(combined) = arrived - (Here - offset)
      /\ \A j \in 1..Len(combined) : combined[j] = stream[(Here - offset) + j]
  BY DEF IInv, Buffered, Holds
<1>3. Left = arrived - Here
  BY <1>1, <1>2 DEF Left
<1>4. d \in 1..Len(sent)
  <2>1. Len(decoded) # Len(sent)
    <3> SUFFICES ASSUME Len(decoded) = Len(sent) PROVE FALSE
      OBVIOUS
    <3>1. Len(stream) = Here
      <4>1. sent = <<>> <=> Len(sent) = 0
        BY EmptySeq DEF IInv, Typed
      <4> QED
        BY <4>1 DEF IInv, Layout, Here
    <3> QED
      BY <1>1, <1>3, <3>1
  <2> QED
    BY <1>1, <2>1
<1>5. Begin(d) = Here
  BY <1>1 DEF Begin, Here
<1>6. /\ ends[d] = Here + Size(sent[d])
      /\ \A j \in 1..Size(sent[d]) : stream[Here + j] = Encode(sent[d])[j]
  BY <1>4, <1>5 DEF IInv, Layout, Laid
<1>7. sent[d] \in Frame
  BY <1>4, Lengths DEF IInv
<1>8. Size(sent[d]) = 5 + Len(sent[d].payload) /\ Len(sent[d].payload) \in Nat
  BY <1>7, EncodeLayout DEF Size
<1>9. \A k \in 1..4 : combined[offset + k] = Encode(sent[d])[k]
  <2> TAKE k \in 1..4
  <2>1. offset + k \in 1..Len(combined) /\ (Here - offset) + (offset + k) = Here + k
    BY <1>1, <1>2, <1>3
  <2>2. k \in 1..Size(sent[d])
    BY <1>8
  <2> QED
    BY <1>2, <1>6, <2>1, <2>2
<1>10. ReadUInt32BE(combined, offset) = ReadUInt32BE(Encode(sent[d]), 0)
  BY <1>9 DEF ReadUInt32BE
<1>11. FrameLength = Size(sent[d])
  BY <1>7, <1>8, <1>10, EncodeLayout DEF FrameLength
<1> QED
  BY <1>3, <1>4, <1>5, <1>6, <1>11

----
(* A frame is written behind all others, and has not arrived. *)
LEMMA WriteKeeps ==
  ASSUME IInv, NEW f \in Frame, Write(f)
  PROVE  IInv'
<1> DEFINE n == Len(sent)
           z == Len(stream)
<1>1. /\ sent' = Append(sent, f)
      /\ stream' = stream \o Encode(f)
      /\ ends' = Append(ends, z + Len(Encode(f)))
      /\ UNCHANGED <<arrived, running, combined, offset, remainder, decoded>>
  BY DEF Write, receiverVars
<1>2. /\ n \in Nat /\ z \in Nat /\ Len(ends) = n
      /\ \A i \in 1..n : ends[i] \in Nat /\ sent[i] \in Frame
      /\ \A i \in 1..n : Laid(i)
  BY Lengths DEF IInv, Layout
<1>3. /\ Encode(f) \in Seq(Byte) /\ Len(Encode(f)) = Size(f)
      /\ Size(f) \in Nat /\ Size(f) >= 5
  BY EncodeLayout DEF Size
<1>4. /\ sent' \in Seq(Frame) /\ Len(sent') = n + 1
      /\ \A i \in 1..n : sent'[i] = sent[i]
      /\ sent'[n + 1] = f
  BY <1>1, AppendProperties DEF IInv, Typed
<1>5. /\ ends' \in Seq(Nat) /\ Len(ends') = n + 1
      /\ \A i \in 1..n : ends'[i] = ends[i]
      /\ ends'[n + 1] = z + Size(f)
  <2>1. z + Len(Encode(f)) \in Nat
    BY <1>2, <1>3
  <2> QED
    BY <1>1, <1>2, <1>3, <2>1, AppendProperties, SMTT(30) DEF IInv, Typed
<1>6. /\ stream' \in Seq(Byte) /\ Len(stream') = z + Size(f)
      /\ \A j \in 1..(z + Size(f)) : stream'[j] = IF j <= z THEN stream[j] ELSE Encode(f)[j - z]
  BY <1>1, <1>3, ConcatProperties DEF IInv, Typed
<1>7. z = IF n = 0 THEN 0 ELSE ends[n]
  BY EmptySeq DEF IInv, Typed, Layout
<1> HIDE DEF n, z
<1>8. Typed'
  BY <1>1, <1>4, <1>5, <1>6 DEF IInv, Typed
<1>9. \A i \in 1..n : Laid(i)'
  <2> SUFFICES ASSUME NEW i \in 1..n PROVE Laid(i)'
    OBVIOUS
  <2>1. /\ i = 1 \/ i - 1 \in 1..n
        /\ Size(sent[i]) \in Nat
    BY <1>2, EncodeLayout DEF Size
  <2>2. Begin(i)' = Begin(i) /\ Begin(i) \in Nat
    BY <1>2, <1>5, <2>1 DEF Begin
  <2>3. /\ ends[i] = Begin(i) + Size(sent[i])
        /\ ends[i] <= z
        /\ \A j \in 1..Size(sent[i]) : stream[Begin(i) + j] = Encode(sent[i])[j]
    BY <1>2 DEF Laid, z
  <2>4. ends'[i] = ends[i] /\ sent'[i] = sent[i]
    BY <1>4, <1>5
  <2>5. \A j \in 1..Size(sent[i]) : stream'[Begin(i) + j] = stream[Begin(i) + j]
    <3> TAKE j \in 1..Size(sent[i])
    <3>1. Begin(i) + j \in 1..(z + Size(f)) /\ Begin(i) + j <= z
      BY <1>2, <1>3, <2>1, <2>2, <2>3
    <3> QED
      BY <1>6, <3>1
  <2> QED
    BY <1>2, <1>3, <1>6, <2>2, <2>3, <2>4, <2>5 DEF Laid
<1>10. \A k \in Nat : k = n + 1 => Laid(k)'
  <2> SUFFICES ASSUME NEW k \in Nat, k = n + 1 PROVE Laid(k)'
    OBVIOUS
  <2>1. Begin(k)' = z
    <3>1. n # 0 => n \in 1..n
      BY <1>2
    <3> QED
      BY <1>2, <1>5, <1>7, <3>1 DEF Begin
  <2>2. \A j \in 1..Size(f) : stream'[z + j] = Encode(f)[j]
    <3> TAKE j \in 1..Size(f)
    <3>1. z + j \in 1..(z + Size(f)) /\ ~(z + j <= z) /\ (z + j) - z = j
      BY <1>2, <1>3
    <3> QED
      BY <1>6, <3>1
  <2>3. sent'[k] = f /\ ends'[k] = z + Size(f)
    BY <1>4, <1>5
  <2>4. Len(stream') = z + Size(f)
    BY <1>6
  <2>5. Size(sent'[k]) = Size(f)
    BY <2>3
  <2>6. z + Size(f) <= z + Size(f)
    BY <1>2, <1>3
  <2> QED
    BY <2>1, <2>2, <2>3, <2>4, <2>5, <2>6 DEF Laid
<1>11. Layout'
  <2>1. \A i \in 1..(n + 1) : i \in 1..n \/ i = n + 1
    BY <1>2
  <2>2. \A i \in 1..Len(sent') : Laid(i)'
    <3> SUFFICES ASSUME NEW i \in 1..Len(sent') PROVE Laid(i)'
      OBVIOUS
    <3>1. CASE i \in 1..n
      BY <1>9, <3>1
    <3>2. CASE i = n + 1
      <4>1. i \in Nat
        BY <1>2, <3>2
      <4> QED
        BY <1>10, <3>2, <4>1
    <3>3. i \in 1..(n + 1)
      BY <1>4
    <3> QED
      BY <2>1, <3>1, <3>2, <3>3
  <2>3. sent' # <<>>
    <3>1. Len(sent') # 0
      BY <1>2, <1>4
    <3>2. Len(<<>>) = 0
      OBVIOUS
    <3> QED
      BY <3>1, <3>2
  <2>4. \A i, j \in 1..(n + 1) : i < j => ends'[i] < ends'[j]
    <3>1. \A i \in 1..n : ends[i] <= z
      BY <1>2 DEF Laid, z
    <3>2. \A i, j \in 1..n : i < j => ends[i] < ends[j]
      BY DEF IInv, Layout, n
    <3> SUFFICES ASSUME NEW i \in 1..(n + 1), NEW j \in 1..(n + 1), i < j
                 PROVE  ends'[i] < ends'[j]
      OBVIOUS
    <3>3. i \in 1..n
      BY <1>2
    <3>4. ends'[i] = ends[i] /\ ends[i] \in Nat
      BY <1>2, <1>5, <3>3
    <3>5. CASE j \in 1..n
      <4>1. ends'[j] = ends[j] /\ ends[i] < ends[j]
        BY <1>5, <3>2, <3>3, <3>5
      <4> QED
        BY <3>4, <4>1
    <3>6. CASE j = n + 1
      <4>1. ends'[j] = z + Size(f) /\ ends[i] <= z
        BY <1>5, <3>1, <3>3, <3>6
      <4> QED
        BY <1>2, <1>3, <3>4, <4>1
    <3> QED
      BY <2>1, <3>5, <3>6
  <2> QED
    BY <1>4, <1>5, <1>6, <2>2, <2>3, <2>4 DEF Layout
<1>12. Here' = Here
  BY <1>1, <1>2, <1>5, Lengths DEF IInv, InOrder, Here, n
<1>13. /\ Len(decoded) \in Nat /\ Len(decoded) <= n
       /\ \A i \in 1..Len(decoded) : decoded[i] = sent[i]
       /\ Here <= arrived /\ arrived <= z
       /\ Here \in Nat /\ arrived \in Nat
  BY Lengths, HereIsNat DEF IInv, Typed, InOrder, n, z
<1>14. InOrder'
  <2>1. Len(decoded) <= n + 1 /\ arrived <= z + Size(f)
    BY <1>2, <1>3, <1>13
  <2>2. \A i \in 1..Len(decoded) : i \in 1..n
    BY <1>2, <1>13
  <2>3. \A i \in 1..Len(decoded) : decoded[i] = sent'[i]
    BY <1>4, <1>13, <2>2
  <2> QED
    BY <1>1, <1>4, <1>6, <1>12, <1>13, <2>1, <2>3 DEF InOrder
<1>15. \A j \in 1..arrived : stream'[j] = stream[j]
  BY <1>2, <1>3, <1>6, <1>13
<1>16. Buffered'
  <2>1. ASSUME NEW b \in Seq(Byte), NEW m \in Nat, Holds(b, m)
        PROVE  Len(b) = arrived' - m /\ \A j \in 1..Len(b) : b[j] = stream'[m + j]
    <3>1. Len(b) = arrived - m /\ \A j \in 1..Len(b) : b[j] = stream[m + j]
      BY <2>1 DEF Holds
    <3>2. \A j \in 1..Len(b) : m + j \in 1..arrived
      BY <1>13, <3>1
    <3> QED
      BY <1>1, <1>15, <3>1, <3>2
  <2>2. CASE running
    <3>1. offset <= Here /\ Here - offset \in Nat /\ Holds(combined, Here - offset)
      BY <1>13, <2>2 DEF IInv, Typed, Buffered
    <3> QED
      BY <1>1, <1>12, <2>1, <2>2, <3>1 DEF IInv, Typed, Buffered, Holds
  <2>3. CASE ~running
    <3>1. Holds(remainder, Here) /\ NoneWaits
      BY <2>3 DEF IInv, Buffered
    <3>2. NoneWaits'
      <4>1. \A i \in 1..(n + 1) : i \in 1..n \/ i = n + 1
        BY <1>2
      <4>2. ends'[n + 1] > arrived
        BY <1>2, <1>3, <1>5, <1>13
      <4>3. \A i \in 1..n : ends[i] <= arrived => i <= Len(decoded)
        BY <3>1 DEF NoneWaits, n
      <4> QED
        BY <1>1, <1>2, <1>3, <1>4, <1>5, <1>13, <4>1, <4>2, <4>3 DEF NoneWaits
    <3> QED
      BY <1>1, <1>12, <1>13, <2>1, <2>3, <3>1, <3>2 DEF IInv, Typed, Buffered, Holds
  <2> QED
    BY <2>2, <2>3
<1> QED
  BY <1>8, <1>11, <1>14, <1>16 DEF IInv

(* What the sender wrote stays where it is. *)
LEMMA SenderKept ==
  ASSUME IInv, UNCHANGED senderVars
  PROVE  Layout'
<1>1. UNCHANGED <<sent, stream, ends>>
  BY DEF senderVars
<1>2. \A i \in Nat : Laid(i)' <=> Laid(i)
  BY <1>1 DEF Laid, Begin
<1>3. Len(sent) \in Nat
  BY Lengths DEF IInv
<1>4. \A i \in 1..Len(sent) : Laid(i)'
  BY <1>2, <1>3 DEF IInv, Layout
<1> QED
  BY <1>1, <1>4 DEF IInv, Layout

(* The next n bytes join the rest of the last chunk. *)
LEMMA OnDataKeeps ==
  ASSUME IInv, NEW n \in 1..(Len(stream) - arrived), OnData(n)
  PROVE  IInv'
<1> DEFINE chunk == SubSeq(stream, arrived + 1, arrived + n)
<1>1. /\ ~running /\ running' = TRUE
      /\ combined' = remainder \o chunk
      /\ offset' = 0
      /\ arrived' = arrived + n
      /\ UNCHANGED senderVars
      /\ UNCHANGED <<sent, stream, ends, remainder, decoded>>
  BY DEF OnData, senderVars
<1>2. /\ arrived \in Nat /\ Len(stream) \in Nat /\ Len(remainder) \in Nat
      /\ n \in Nat /\ arrived + n <= Len(stream)
      /\ Here \in Nat /\ Here <= arrived
      /\ \A i \in 1..Len(stream) : stream[i] \in Byte
      /\ remainder \in Seq(Byte)
  BY Lengths, HereIsNat DEF IInv, Typed, InOrder
<1>3. /\ Len(remainder) = arrived - Here
      /\ \A j \in 1..Len(remainder) : remainder[j] = stream[Here + j]
  BY <1>1 DEF IInv, Buffered, Holds
<1>4. /\ chunk \in Seq(Byte) /\ Len(chunk) = n
      /\ \A j \in 1..n : chunk[j] = stream[arrived + j]
  <2>1. \A i \in (arrived + 1)..(arrived + n) : stream[i] \in Byte
    BY <1>2
  <2>2. arrived + 1 \in Int /\ arrived + n \in Int
    BY <1>2
  <2>3. /\ chunk \in Seq(Byte)
        /\ Len(chunk) = IF arrived + 1 <= arrived + n THEN (arrived + n) - (arrived + 1) + 1 ELSE 0
        /\ \A i \in 1..((arrived + n) - (arrived + 1) + 1) : chunk[i] = stream[(arrived + 1) + i - 1]
    BY <2>1, <2>2, SubSeqProperties
  <2> HIDE DEF chunk
  <2>4. (arrived + n) - (arrived + 1) + 1 = n /\ arrived + 1 <= arrived + n
    BY <1>2
  <2>5. \A i \in 1..n : (arrived + 1) + i - 1 = arrived + i
    BY <1>2
  <2> QED
    BY <2>3, <2>4, <2>5
<1> HIDE DEF chunk
<1>5. /\ combined' \in Seq(Byte)
      /\ Len(combined') = Len(remainder) + n
      /\ \A j \in 1..(Len(remainder) + n) :
           combined'[j] = IF j <= Len(remainder) THEN remainder[j] ELSE chunk[j - Len(remainder)]
  <2>1. /\ remainder \o chunk \in Seq(Byte)
        /\ Len(remainder \o chunk) = Len(remainder) + Len(chunk)
        /\ \A j \in 1..(Len(remainder) + Len(chunk)) :
             (remainder \o chunk)[j]
               = IF j <= Len(remainder) THEN remainder[j] ELSE chunk[j - Len(remainder)]
    BY <1>2, <1>4, ConcatProperties, Zenon
  <2> QED
    BY <1>1, <1>4, <2>1, Zenon
<1>6. Typed'
  BY <1>1, <1>2, <1>5 DEF IInv, Typed
<1>7. Here' = Here
  BY <1>1 DEF Here
<1>8. InOrder'
  BY <1>1, <1>2, <1>7 DEF IInv, InOrder
<1>9. \A j \in 1..Len(combined') : combined'[j] = stream[Here + j]
  <2> TAKE j \in 1..Len(combined')
  <2>1. j \in 1..(Len(remainder) + n) /\ j \in Nat
    BY <1>2, <1>5
  <2>2. CASE j <= Len(remainder)
    <3>1. j \in 1..Len(remainder)
      BY <1>2, <2>1, <2>2
    <3> QED
      BY <1>3, <1>5, <2>1, <2>2, <3>1
  <2>3. CASE ~(j <= Len(remainder))
    <3>1. j - Len(remainder) \in 1..n /\ arrived + (j - Len(remainder)) = Here + j
      BY <1>2, <1>3, <2>1, <2>3
    <3>2. chunk[j - Len(remainder)] = stream[Here + j]
      BY <1>4, <3>1
    <3> QED
      BY <1>5, <2>1, <2>3, <3>2
  <2> QED
    BY <2>2, <2>3
<1>10. Buffered'
  <2>1. Len(combined') = (arrived + n) - Here
    BY <1>2, <1>3, <1>5
  <2>2. Here - 0 = Here /\ 0 <= Here
    BY <1>2
  <2>3. Holds(combined, Here - offset)'
    BY <1>1, <1>7, <1>9, <2>1, <2>2 DEF Holds
  <2> QED
    BY <1>1, <1>7, <2>2, <2>3 DEF Buffered
<1> QED
  BY <1>1, <1>6, <1>8, <1>10, SenderKept DEF IInv

(* One turn of the loop takes the bytes of exactly the next frame. *)
LEMMA DecodeNextKeeps ==
  ASSUME IInv, DecodeNext
  PROVE  IInv'
<1> DEFINE d == Len(decoded) + 1
           m == Here - offset
           b == SubSeq(combined, offset + 1, offset + FrameLength)
<1>1. /\ running /\ Left >= 4 /\ Left >= FrameLength
      /\ decoded' = Append(decoded, DecodeSingle(b))
      /\ offset' = offset + FrameLength
      /\ UNCHANGED senderVars
      /\ UNCHANGED <<sent, stream, ends, arrived, running, combined, remainder>>
  BY DEF DecodeNext, HasFrame, senderVars
<1>2. /\ d \in 1..Len(sent)
      /\ Begin(d) = Here
      /\ Left = arrived - Here
      /\ FrameLength = Size(sent[d])
      /\ ends[d] = Here + FrameLength
  BY <1>1, NextFrame
<1>3. /\ Len(decoded) \in Nat /\ Len(sent) \in Nat /\ Len(stream) \in Nat /\ Len(combined) \in Nat
      /\ Here \in Nat /\ arrived \in Nat /\ offset \in Nat /\ offset <= Here
      /\ Here <= arrived /\ arrived <= Len(stream)
      /\ \A i \in 1..Len(combined) : combined[i] \in Byte
      /\ decoded \in Seq(Frame)
  BY <1>1, Lengths, HereIsNat DEF IInv, Typed, InOrder, Buffered
<1>4. /\ Len(combined) = arrived - m
      /\ \A j \in 1..Len(combined) : combined[j] = stream[m + j]
  BY <1>1 DEF IInv, Buffered, Holds
<1>5. /\ sent[d] \in Frame
      /\ Encode(sent[d]) \in Seq(Byte)
      /\ Len(Encode(sent[d])) = FrameLength
      /\ FrameLength \in Nat /\ FrameLength >= 5
      /\ \A j \in 1..FrameLength : stream[Here + j] = Encode(sent[d])[j]
  <2>1. sent[d] \in Frame
    BY <1>2, Lengths DEF IInv
  <2>2. Laid(d)
    BY <1>2 DEF IInv, Layout
  <2>3. Size(sent[d]) \in Nat /\ Size(sent[d]) >= 5
    BY <2>1, EncodeLayout DEF Size
  <2> QED
    BY <1>2, <2>1, <2>2, <2>3, EncodeLayout DEF Laid
<1> HIDE DEF d, m
<1>6. b = Encode(sent[d])
  <2>1. Left = Len(combined) - offset
    BY DEF Left
  <2>2. \A i \in (offset + 1)..(offset + FrameLength) : combined[i] \in Byte
    BY <1>1, <1>3, <1>5, <2>1
  <2>3. offset + 1 \in Int /\ offset + FrameLength \in Int
    BY <1>3, <1>5
  <2>4. /\ b \in Seq(Byte)
        /\ Len(b) = IF offset + 1 <= offset + FrameLength
                      THEN (offset + FrameLength) - (offset + 1) + 1 ELSE 0
        /\ \A i \in 1..((offset + FrameLength) - (offset + 1) + 1) :
             b[i] = combined[(offset + 1) + i - 1]
    BY <2>2, <2>3, SubSeqProperties
  <2> HIDE DEF b
  <2>5. /\ (offset + FrameLength) - (offset + 1) + 1 = FrameLength
        /\ offset + 1 <= offset + FrameLength
    BY <1>3, <1>5
  <2>6. Len(b) = FrameLength
    BY <2>4, <2>5
  <2>7. \A i \in 1..FrameLength : b[i] = Encode(sent[d])[i]
    <3> TAKE i \in 1..FrameLength
    <3>1. /\ (offset + 1) + i - 1 = offset + i
          /\ offset + i \in 1..Len(combined)
          /\ m + (offset + i) = Here + i
      BY <1>1, <1>3, <1>5, <2>1 DEF m
    <3>2. b[i] = combined[offset + i]
      BY <2>4, <2>5, <3>1
    <3>3. combined[offset + i] = stream[Here + i]
      BY <1>4, <3>1
    <3> QED
      BY <1>5, <3>2, <3>3
  <2> QED
    BY <1>5, <2>4, <2>6, <2>7, SeqEqual
<1> HIDE DEF b
<1>7. decoded' = Append(decoded, sent[d])
  BY <1>1, <1>5, <1>6, FrameRoundTrip
<1>8. /\ decoded' \in Seq(Frame) /\ Len(decoded') = d
      /\ \A i \in 1..Len(decoded) : decoded'[i] = decoded[i]
      /\ decoded'[d] = sent[d]
  BY <1>3, <1>5, <1>7, AppendProperties DEF d
<1>9. Typed'
  <2>1. offset' \in Nat
    BY <1>1, <1>3, <1>5
  <2> QED
    BY <1>1, <1>8, <2>1 DEF IInv, Typed
<1>10. Here' = Here + FrameLength
  BY <1>1, <1>2, <1>3, <1>8 DEF Here, d
<1>11. InOrder'
  <2>1. \A i \in 1..d : i \in 1..Len(decoded) \/ i = d
    BY <1>3 DEF d
  <2>2. \A i \in 1..Len(decoded) : decoded[i] = sent[i]
    BY DEF IInv, InOrder
  <2>3. Here + FrameLength <= arrived
    BY <1>1, <1>2, <1>3, <1>5
  <2>4. d <= Len(sent)
    BY <1>2, <1>3
  <2> QED
    BY <1>1, <1>3, <1>8, <1>10, <2>1, <2>2, <2>3, <2>4 DEF InOrder
<1>12. Buffered'
  <2>1. /\ Here' - offset' = m
        /\ offset' <= Here'
    BY <1>1, <1>3, <1>5, <1>10 DEF m
  <2>2. Holds(combined, Here - offset)'
    BY <1>1, <1>4, <2>1 DEF Holds
  <2> QED
    BY <1>1, <2>1, <2>2 DEF Buffered
<1> QED
  BY <1>1, <1>9, <1>11, <1>12, SenderKept DEF IInv

(* The loop ends when the next frame has not arrived. *)
LEMMA ReturnKeeps ==
  ASSUME IInv, Return
  PROVE  IInv'
<1> DEFINE m == Here - offset
           z == Len(combined)
<1>1. /\ running /\ ~running' /\ running' \in BOOLEAN
      /\ Left >= 4 => ~(Left >= FrameLength)
      /\ remainder' = SubSeq(combined, offset + 1, z)
      /\ combined' = <<>>
      /\ offset' = 0
      /\ UNCHANGED senderVars
      /\ UNCHANGED <<sent, stream, ends, arrived, decoded>>
  BY DEF Return, HasFrame, senderVars
<1>2. /\ Len(decoded) \in Nat /\ Len(sent) \in Nat /\ z \in Nat
      /\ Here \in Nat /\ arrived \in Nat /\ offset \in Nat /\ offset <= Here
      /\ Here <= arrived
      /\ \A i \in 1..z : combined[i] \in Byte
      /\ \A i \in 1..Len(sent) : ends[i] \in Nat
  BY <1>1, Lengths, HereIsNat DEF IInv, Typed, InOrder, Buffered, Layout
<1>3. /\ z = arrived - m
      /\ \A j \in 1..z : combined[j] = stream[m + j]
  BY <1>1 DEF IInv, Buffered, Holds
<1>4. Left = z - offset
  BY DEF Left
<1> HIDE DEF m, z
<1>5. /\ remainder' \in Seq(Byte)
      /\ Len(remainder') = z - offset
      /\ \A j \in 1..(z - offset) : remainder'[j] = combined[offset + j]
  <2>1. offset + 1 \in Int /\ z \in Int
    BY <1>2
  <2>2. \A i \in (offset + 1)..z : combined[i] \in Byte
    BY <1>2
  <2>3. /\ remainder' \in Seq(Byte)
        /\ Len(remainder') = IF offset + 1 <= z THEN z - (offset + 1) + 1 ELSE 0
        /\ \A i \in 1..(z - (offset + 1) + 1) : remainder'[i] = combined[(offset + 1) + i - 1]
    BY <1>1, <2>1, <2>2, SubSeqProperties
  <2>4. /\ z - (offset + 1) + 1 = z - offset
        /\ ~(offset + 1 <= z) => z - offset = 0
    BY <1>2, <1>3 DEF m
  <2>5. \A i \in 1..(z - offset) : (offset + 1) + i - 1 = offset + i
    BY <1>2
  <2> QED
    BY <2>3, <2>4, <2>5
<1>6. Typed'
  <2>1. <<>> \in Seq(Byte)
    BY EmptySeq
  <2> QED
    BY <1>1, <1>5, <2>1 DEF IInv, Typed
<1>7. Here' = Here
  BY <1>1 DEF Here
<1>8. InOrder'
  BY <1>1, <1>7 DEF IInv, InOrder
<1>9. z - offset = arrived - Here
  BY <1>2, <1>3 DEF m
<1>10. \A j \in 1..(z - offset) : remainder'[j] = stream[Here + j]
  <2> TAKE j \in 1..(z - offset)
  <2>1. offset + j \in 1..z /\ m + (offset + j) = Here + j
    BY <1>2 DEF m
  <2>2. combined[offset + j] = stream[Here + j]
    BY <1>3, <2>1
  <2> QED
    BY <1>5, <2>2
<1>11. NoneWaits
  <2> SUFFICES ASSUME NEW i \in 1..Len(sent), ends[i] <= arrived, ~(i <= Len(decoded))
               PROVE  FALSE
    BY DEF NoneWaits
  <2> DEFINE d == Len(decoded) + 1
  <2>1. d \in 1..Len(sent) /\ (d = i \/ d < i)
    BY <1>2
  <2>2. ends[d] <= arrived
    <3>1. d < i => ends[d] < ends[i]
      BY <2>1 DEF IInv, Layout
    <3>2. ends[d] \in Nat /\ ends[i] \in Nat
      BY <1>2, <2>1
    <3> QED
      BY <1>2, <2>1, <3>1, <3>2
  <2>3. /\ ends[d] = Begin(d) + Size(sent[d])
        /\ Size(sent[d]) \in Nat /\ Size(sent[d]) >= 5
    <3>1. Laid(d) /\ sent[d] \in Frame
      BY <2>1, Lengths DEF IInv, Layout
    <3>2. Size(sent[d]) \in Nat /\ Size(sent[d]) >= 5
      BY <3>1, EncodeLayout DEF Size
    <3> QED
      BY <3>1, <3>2 DEF Laid
  <2>4. Begin(d) = Here
    BY <1>2 DEF Begin, Here
  <2>5. Left >= 4
    BY <1>2, <1>4, <1>9, <2>2, <2>3, <2>4
  <2>6. FrameLength = Size(sent[d]) /\ Left = arrived - Here
    BY <1>1, <2>5, NextFrame
  <2> HIDE DEF d
  <2> QED
    BY <1>1, <1>2, <2>2, <2>3, <2>4, <2>5, <2>6
<1>12. Buffered'
  <2>1. Holds(remainder, Here)'
    BY <1>1, <1>5, <1>7, <1>9, <1>10 DEF Holds
  <2>2. NoneWaits'
    BY <1>1, <1>11 DEF NoneWaits
  <2> QED
    BY <1>1, <2>1, <2>2 DEF Buffered
<1> QED
  BY <1>1, <1>6, <1>8, <1>12, SenderKept DEF IInv

(* A new connection begins with nothing kept from the last one. *)
LEMMA BreakKeeps ==
  ASSUME IInv, Break
  PROVE  IInv'
<1>1. /\ ~running /\ running' = running
      /\ sent' = <<>> /\ stream' = <<>> /\ ends' = <<>> /\ decoded' = <<>>
      /\ remainder' = <<>> /\ arrived' = 0
      /\ combined' = combined /\ offset' = offset
  BY DEF Break
<1>2. Typed'
  <2>1. <<>> \in Seq(Frame) /\ <<>> \in Seq(Byte) /\ <<>> \in Seq(Nat)
    BY EmptySeq
  <2> QED
    BY <1>1, <2>1 DEF IInv, Typed
<1>3. Layout'
  BY <1>1 DEF Layout
<1>4. InOrder' /\ Buffered'
  BY <1>1 DEF InOrder, Buffered, Here, Holds, NoneWaits
<1> QED
  BY <1>2, <1>3, <1>4 DEF IInv

LEMMA StutterKeeps ==
  ASSUME IInv, UNCHANGED vars
  PROVE  IInv'
<1>1. /\ UNCHANGED senderVars
      /\ UNCHANGED <<sent, stream, ends>>
      /\ UNCHANGED <<arrived, running, combined, offset, remainder, decoded>>
  BY DEF vars, senderVars, receiverVars
<1>2. Typed'
  BY <1>1 DEF IInv, Typed
<1>3. Here' = Here
  BY <1>1 DEF Here
<1>4. InOrder'
  BY <1>1, <1>3 DEF IInv, InOrder
<1>5. Buffered'
  BY <1>1, <1>3 DEF IInv, Buffered, Holds, NoneWaits
<1> QED
  BY <1>1, <1>2, <1>4, <1>5, SenderKept DEF IInv

LEMMA Invariance == Spec => []IInv
<1>1. Init => IInv
  BY FreshIInv DEF Init
<1>2. IInv /\ [Next]_vars => IInv'
  <2> SUFFICES ASSUME IInv, [Next]_vars PROVE IInv'
    OBVIOUS
  <2>1. CASE \E f \in Frame : Write(f)
    BY <2>1, WriteKeeps
  <2>2. CASE \E n \in 1..(Len(stream) - arrived) : OnData(n)
    BY <2>2, OnDataKeeps
  <2>3. CASE DecodeNext
    BY <2>3, DecodeNextKeeps
  <2>4. CASE Return
    BY <2>4, ReturnKeeps
  <2>5. CASE Break
    BY <2>5, BreakKeeps
  <2>6. CASE UNCHANGED vars
    BY <2>6, StutterKeeps
  <2> QED
    BY <2>1, <2>2, <2>3, <2>4, <2>5, <2>6 DEF Next
<1> QED
  BY <1>1, <1>2, PTL DEF Spec

(* However the stream is cut and wherever a connection is lost, the frames
   decoded from a connection are the first ones written to it, and between two
   chunks they are all whose last byte has arrived. *)
THEOREM StreamIsWhole == Spec => []DecodedIsWhole
<1>1. IInv => DecodedIsWhole
  <2> SUFFICES ASSUME IInv PROVE DecodedIsWhole
    OBVIOUS
  <2> DEFINE n == Len(decoded)
             p == SubSeq(sent, 1, n)
  <2>1. /\ n \in Nat /\ Len(sent) \in Nat /\ n <= Len(sent)
        /\ \A i \in 1..Len(sent) : sent[i] \in Frame
        /\ decoded \in Seq(Frame)
        /\ \A i \in 1..n : decoded[i] = sent[i]
    BY Lengths DEF IInv, Typed, InOrder
  <2>2. /\ p \in Seq(Frame)
        /\ Len(p) = n
        /\ \A i \in 1..n : p[i] = sent[i]
    <3> HIDE DEF n
    <3>1. \A i \in 1..n : sent[i] \in Frame
      BY <2>1
    <3>2. /\ p \in Seq(Frame)
          /\ Len(p) = IF 1 <= n THEN n - 1 + 1 ELSE 0
          /\ \A i \in 1..(n - 1 + 1) : p[i] = sent[1 + i - 1]
      BY <2>1, <3>1, SubSeqProperties
    <3>3. n - 1 + 1 = n /\ (~(1 <= n) => n = 0) /\ \A i \in 1..n : 1 + i - 1 = i
      BY <2>1
    <3> HIDE DEF p
    <3> QED
      BY <3>2, <3>3
  <2> HIDE DEF p
  <2>3. decoded = p
    BY <2>1, <2>2, SeqEqual
  <2>4. ~running => NoneWaits
    BY DEF IInv, Buffered
  <2> QED
    BY <2>1, <2>3, <2>4 DEF DecodedIsWhole, NoneWaits, p
<1> QED
  BY <1>1, Invariance, PTL
====
