---- MODULE Framing ----
(***************************************************************************)
(* The wire protocol: packages/shared/src/protocol/encoder.ts and          *)
(* decoder.ts, with the callers that keep the undecoded rest of a chunk    *)
(* for the next one (receiver/tcp-server.ts, transport/tcp-client.ts).     *)
(*                                                                         *)
(* A connection is a stream of bytes; 'data' hands over as many of them as *)
(* have arrived, cut anywhere.  decodeFrames is one synchronous call, whose *)
(* loop takes one step per frame here: only the other end of the           *)
(* connection can act in between.  A payload is its serialised bytes.      *)
(***************************************************************************)
EXTENDS Integers, Sequences

CONSTANTS
  Types,       \* message types
  Payloads,    \* serialised payloads
  MaxFrames,   \* frames written on a connection (bound)
  MaxBreaks    \* connections lost (bound)

Byte == 0..255

ASSUME TypesAssumption == Types \subseteq Byte
(* No string of the runtime is longer in UTF-8, so a length fits its field. *)
ASSUME PayloadsAssumption ==
  Payloads \subseteq Seq(Byte) /\ \A p \in Payloads : Len(p) < 2147483640
ASSUME BoundAssumption == MaxFrames \in Nat /\ MaxBreaks \in Nat

VARIABLES
  sent,        \* frames written to the connection
  stream,      \* their bytes
  arrived,     \* how many of the bytes have been given to 'data'
  running,     \* decodeFrames is in its loop
  combined,    \* local of decodeFrames
  offset,      \* local of decodeFrames
  remainder,   \* kept by the caller between two chunks
  decoded,     \* frames decoded from this connection
  breaks,
  ends         \* history: ends[i] is where the i-th frame ends in the stream

senderVars == <<sent, stream, ends>>
receiverVars == <<arrived, running, combined, offset, remainder, decoded>>
vars == <<senderVars, receiverVars, breaks>>

Frame == [messageType : Types, payload : Payloads]

WriteUInt32BE(n) ==
  <<n \div 16777216, (n \div 65536) % 256, (n \div 256) % 256, n % 256>>

ReadUInt32BE(b, o) ==
  b[o + 1] * 16777216 + b[o + 2] * 65536 + b[o + 3] * 256 + b[o + 4]

(* encodeFrame: the length counts the type and the payload. *)
Encode(f) ==
  WriteUInt32BE(1 + Len(f.payload)) \o <<f.messageType>> \o f.payload

(* decodeSingleFrame, on the bytes of one frame. *)
DecodeSingle(b) ==
  [messageType |-> b[5], payload |-> SubSeq(b, 6, 4 + ReadUInt32BE(b, 0))]

Fresh ==
  /\ sent = <<>>
  /\ stream = <<>>
  /\ ends = <<>>
  /\ arrived = 0
  /\ running = FALSE
  /\ combined = <<>>
  /\ offset = 0
  /\ remainder = <<>>
  /\ decoded = <<>>

Init == Fresh /\ breaks = 0

----
(* The other end writes a frame. *)
Write(f) ==
  /\ Len(sent) < MaxFrames
  /\ sent' = Append(sent, f)
  /\ stream' = stream \o Encode(f)
  /\ ends' = Append(ends, Len(stream) + Len(Encode(f)))
  /\ UNCHANGED <<receiverVars, breaks>>

(* 'data' with the next n bytes: decodeFrames up to its loop. *)
OnData(n) ==
  /\ ~running
  /\ running' = TRUE
  /\ combined' = remainder \o SubSeq(stream, arrived + 1, arrived + n)
  /\ offset' = 0
  /\ arrived' = arrived + n
  /\ UNCHANGED <<senderVars, remainder, decoded, breaks>>

Left == Len(combined) - offset
FrameLength == 4 + ReadUInt32BE(combined, offset)

\* Mutant: a frame that ends with the chunk is not there yet.
HasFrameLate == Left >= 4 /\ Left > FrameLength

(* The loop's condition and its break. *)
HasFrame == Left >= 4 /\ Left >= FrameLength

(* One turn of the loop. *)
DecodeNext ==
  /\ running
  /\ HasFrame
  /\ decoded' = Append(decoded, DecodeSingle(SubSeq(combined, offset + 1, offset + FrameLength)))
  /\ offset' = offset + FrameLength
  /\ UNCHANGED <<senderVars, arrived, running, combined, remainder, breaks>>

(* decodeFrames returns and the caller keeps the rest. *)
Return ==
  /\ running
  /\ ~HasFrame
  /\ running' = FALSE
  /\ remainder' = SubSeq(combined, offset + 1, Len(combined))
  /\ combined' = <<>>
  /\ offset' = 0
  /\ UNCHANGED <<senderVars, arrived, decoded, breaks>>

(* The connection is lost at any byte; the next one starts with an empty
   remainder, on either side. *)
Break ==
  /\ ~running
  /\ breaks < MaxBreaks
  /\ breaks' = breaks + 1
  /\ sent' = <<>> /\ stream' = <<>> /\ ends' = <<>> /\ decoded' = <<>>
  /\ remainder' = <<>>
  /\ arrived' = 0
  /\ UNCHANGED <<running, combined, offset>>

Next ==
  \/ \E f \in Frame : Write(f)
  \/ \E n \in 1..(Len(stream) - arrived) : OnData(n)
  \/ DecodeNext
  \/ Return
  \/ Break

Spec == Init /\ [][Next]_vars

----
(* However the stream is cut into chunks, the frames decoded from a connection
   are the first ones written to it, none split, joined, skipped or repeated, and
   nothing of a connection lost in the middle of a frame shows up in the next
   one.  Between two chunks they are all whose last byte has arrived: no frame
   waits for bytes of the next one. *)
DecodedIsWhole ==
  /\ Len(decoded) <= Len(sent)
  /\ decoded = SubSeq(sent, 1, Len(decoded))
  /\ ~running => \A i \in 1..Len(sent) : ends[i] <= arrived => i <= Len(decoded)
====
