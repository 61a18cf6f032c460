------------------------------ MODULE WireFormat ------------------------------
(***************************************************************************)
(* The frames of the worker protocol (crates/osv-worker-protocol/src/       *)
(* lib.rs): encoding, the line that may damage one, and decoding.           *)
(*                                                                         *)
(* A frame on the wire is its header fields and its payload, byte by byte;   *)
(* the payload limit is a constant.                                         *)
(***************************************************************************)
EXTENDS Naturals, Sequences

CONSTANTS
  FrameNumbers,     \* sequence numbers, chunk counts and versions that occur
  Payloads,         \* data of a chunk, sequences of bytes
  MaxDataLength,    \* MAX_DATA_LEN
  DamagedBytes      \* what a damaged byte may become

Octet == 0..255
TwoOctets == {low + 256 * high : low, high \in Octet}

ASSUME WireAssumption ==
  /\ FrameNumbers \subseteq TwoOctets /\ DamagedBytes \subseteq Octet
  /\ Payloads \subseteq Seq(Octet) /\ MaxDataLength \in Nat

VARIABLES
  sent,      \* the message that was encoded
  wire,      \* the frame as it arrives
  received   \* what decode made of it

wireVars == <<sent, wire, received>>

NotSent == [kind |-> "none"]
NoFrame == [kind |-> 0]
Undecoded == [done |-> FALSE]

KindOf == [Hello |-> 1, Ready |-> 2, Start |-> 3, Data |-> 4, End |-> 5, Cancel |-> 6,
           Complete |-> 7, Failed |-> 8, ResultData |-> 9, ResultEnd |-> 10]
LockStatuses == {"Locked", "Degraded"}
Version == 3
HeaderLength == 24
MaxPayload == MaxDataLength + 9

----------------------------------------------------------------------------
\* Little-endian numbers; those of the model fit two bytes, whatever their width.
Digits(n, width) ==
  [i \in 1..width |-> IF i = 1 THEN n % 256 ELSE IF i = 2 THEN n \div 256 ELSE 0]
Number(bytes) == bytes[1] + 256 * bytes[2]

LockByte(s) == IF s = "Locked" THEN 1 ELSE 2
ClassByte == [InvalidInput |-> 1, ResourceLimit |-> 2, Internal |-> 3]
RoleByte == [Media |-> 1, Archive |-> 2]

Message(kind) ==
  CASE kind = "Hello" -> [kind : {kind}, minimum : FrameNumbers, maximum : FrameNumbers]
    [] kind = "Ready" -> [kind : {kind}, version : FrameNumbers, flags : FrameNumbers,
                          locks : LockStatuses]
    [] kind = "Start" -> [kind : {kind}, role : DOMAIN RoleByte]
    [] kind \in {"Data", "ResultData"} ->
         [kind : {kind}, sequence : FrameNumbers, bytes : Payloads]
    [] kind \in {"End", "ResultEnd"} -> [kind : {kind}, chunks : FrameNumbers]
    [] kind = "Cancel" -> [kind : {kind}]
    [] kind = "Complete" -> [kind : {kind}, locks : LockStatuses]
    [] kind = "Failed" -> [kind : {kind}, class : DOMAIN ClassByte, locks : LockStatuses]

\* encode_payload, and payload_len where it refuses.
Sendable(m) == m.kind \in {"Data", "ResultData"} => Len(m.bytes) <= MaxDataLength
Payload(m) ==
  CASE m.kind = "Hello" -> Digits(m.minimum, 2) \o Digits(m.maximum, 2)
    [] m.kind = "Ready" -> Digits(m.version, 2) \o Digits(m.flags, 4) \o <<LockByte(m.locks)>>
    [] m.kind = "Start" -> <<RoleByte[m.role]>>
    [] m.kind \in {"Data", "ResultData"} -> Digits(m.sequence, 8) \o m.bytes
    [] m.kind \in {"End", "ResultEnd"} -> Digits(m.chunks, 8)
    [] m.kind = "Cancel" -> <<>>
    [] m.kind = "Complete" -> <<LockByte(m.locks)>>
    [] m.kind = "Failed" -> <<ClassByte[m.class], LockByte(m.locks)>>

Encode(m) ==
  [magic |-> "OSVWIPC", version |-> Version, kind |-> KindOf[m.kind], reserved |-> 0,
   length |-> Len(Payload(m)), payload |-> Payload(m)]

----------------------------------------------------------------------------
\* decode: the framing first, then the length that the kind requires, then its bytes.
Framed(w) ==
  /\ w.magic = "OSVWIPC" /\ w.version = Version /\ w.reserved = 0
  /\ w.length <= MaxPayload /\ w.length = Len(w.payload)

\* Mutant: a chunk without data is malformed.
DataLengths == {n \in 0..MaxPayload : n > 8}

ChunkLengths == {n \in 0..MaxPayload : n >= 8}
PayloadLengths(kind) ==
  CASE kind = 1 -> {4} [] kind = 2 -> {7} [] kind = 3 -> {1} [] kind \in {4, 9} -> ChunkLengths
    [] kind \in {5, 10} -> {8} [] kind = 6 -> {0} [] kind = 7 -> {1} [] kind = 8 -> {2}
    [] OTHER -> {}

\* The bytes of a payload that have to name something.
LockBytes == {1, 2}
PayloadNames(kind, p) ==
  CASE kind = 2 -> p[7] \in LockBytes
    [] kind = 3 -> p[1] \in {1, 2}
    [] kind = 7 -> p[1] \in LockBytes
    [] kind = 8 -> p[1] \in {1, 2, 3} /\ p[2] \in LockBytes
    [] OTHER -> TRUE

Decodes(w) ==
  /\ Framed(w)
  /\ Len(w.payload) \in PayloadLengths(w.kind) /\ PayloadNames(w.kind, w.payload)

LockOf(byte) == IF byte = 1 THEN "Locked" ELSE "Degraded"
Named(names, byte) == CHOOSE n \in DOMAIN names : names[n] = byte
Decoded(w) ==
  LET kind == Named(KindOf, w.kind)
      p == w.payload
      tail(n) == SubSeq(p, n, Len(p))
  IN CASE kind = "Hello" -> [kind |-> kind, minimum |-> Number(p), maximum |-> Number(tail(3))]
       [] kind = "Ready" -> [kind |-> kind, version |-> Number(p), flags |-> Number(tail(3)),
                             locks |-> LockOf(p[7])]
       [] kind = "Start" -> [kind |-> kind, role |-> Named(RoleByte, p[1])]
       [] kind \in {"Data", "ResultData"} ->
            [kind |-> kind, sequence |-> Number(p), bytes |-> tail(9)]
       [] kind \in {"End", "ResultEnd"} -> [kind |-> kind, chunks |-> Number(p)]
       [] kind = "Cancel" -> [kind |-> kind]
       [] kind = "Complete" -> [kind |-> kind, locks |-> LockOf(p[1])]
       [] kind = "Failed" -> [kind |-> kind, class |-> Named(ClassByte, p[1]),
                              locks |-> LockOf(p[2])]

----------------------------------------------------------------------------
WireInit == sent = NotSent /\ wire = NoFrame /\ received = Undecoded

Send(m) ==
  /\ sent = NotSent /\ Sendable(m)
  /\ sent' = m /\ wire' = Encode(m)
  /\ UNCHANGED received

\* One damage: a byte (of a number, one of its two low ones), a field, the end of the frame.
DamageFrame ==
  /\ wire # NoFrame /\ received = Undecoded /\ wire = Encode(sent)
  /\ \/ \E i \in 1..Len(wire.payload), byte \in DamagedBytes :
          /\ i \in {1, 2, 9} \/ (i = 7 /\ wire.kind = KindOf["Ready"])
          /\ wire' = [wire EXCEPT !.payload[i] = byte]
     \/ \E byte \in DamagedBytes : \/ wire' = [wire EXCEPT !.kind = byte]
                                   \/ wire' = [wire EXCEPT !.reserved = byte]
                                   \/ wire' = [wire EXCEPT !.length = byte]
                                   \/ wire' = [wire EXCEPT !.version = byte]
     \/ wire.payload # <<>> /\
          wire' = [wire EXCEPT !.payload = SubSeq(@, 1, Len(@) - 1), !.length = @ - 1]
     \/ wire' = [wire EXCEPT !.payload = Append(@, 0)]
  /\ UNCHANGED <<sent, received>>

Receive ==
  /\ wire # NoFrame /\ received = Undecoded
  /\ received' = IF Decodes(wire) THEN [done |-> TRUE, ok |-> TRUE, message |-> Decoded(wire)]
                 ELSE [done |-> TRUE, ok |-> FALSE]
  /\ UNCHANGED <<sent, wire>>

WireNext ==
  \/ sent = NotSent /\ \E kind \in DOMAIN KindOf : \E m \in Message(kind) : Send(m)
  \/ DamageFrame \/ Receive

----------------------------------------------------------------------------
\* What is sent arrives as it was sent; and a frame that decodes is the encoding of what
\* it decodes to, so that no two frames mean the same and none means what the sender could
\* not have said (kinds, reserved bytes, exact lengths, names).
WireIsCanonical ==
  received.done =>
    /\ wire = Encode(sent) => received.ok /\ received.message = sent
    /\ received.ok => Encode(received.message) = wire

----------------------------------------------------------------------------
\* The inductive invariant: a frame on the wire holds bytes, and if it still has the
\* length that it states, the high bytes of its numbers are zero.
HighBytesAreZero(p) ==
  /\ Len(p) >= 7 => p[5] = 0 /\ p[6] = 0
  /\ Len(p) >= 8 => p[3] = 0 /\ p[4] = 0 /\ p[7] = 0 /\ p[8] = 0
Shaped(w) ==
  /\ DOMAIN w = {"magic", "version", "kind", "reserved", "length", "payload"}
  /\ w = [f \in DOMAIN w |-> w[f]]
  /\ w.payload \in Seq(Octet)
  /\ w.length = Len(w.payload) => HighBytesAreZero(w.payload)

WireInvariant ==
  /\ WireIsCanonical
  /\ received.done => sent # NotSent
  /\ sent = NotSent => wire = NoFrame
  /\ sent # NotSent =>
       /\ \E kind \in DOMAIN KindOf : sent \in Message(kind)
       /\ Sendable(sent) /\ Shaped(wire)
=============================================================================
