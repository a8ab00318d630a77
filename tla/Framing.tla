------------------------------ MODULE Framing -------------------------------
(***************************************************************************)
(* Binary packets on one TCP connection after another: the two ways to     *)
(* send one, and BinaryPacketDecoder, which reads the byte stream in       *)
(* chunks of any size into a buffer of twice BufferSize, gives the packets *)
(* that are complete to its callback, and moves the rest to the front.     *)
(*                                                                         *)
(* Bytes are abstracted to their place in the stream of the connection:    *)
(* buffer position i holds byte base + i of the stream, so that moving the *)
(* rest to the front adds to base.  A packet is the length its header      *)
(* announces and the number of bytes that are written.                     *)
(***************************************************************************)
EXTENDS Integers, Sequences

CONSTANTS
  HeadLength,        \* PACKET_HEAD_LENGTH: two 16-bit fields, length and type
  BufferSize,  \* of the decoder: LargePacket::MAX_PACKET_LENGTH, 2^16 - 1
  Bodies,      \* the lengths of the bodies that are sent
  MaxPackets,  \* bound: packets sent on a connection
  MaxResets,   \* bound: connections after the first
  Checked      \* sent with Send(type, data, len), which checks the length, or
               \* with Send(type, BufferStream), which does not

ASSUME SizesAssumption ==
  /\ HeadLength \in Nat \ {0} /\ BufferSize \in Nat /\ BufferSize > HeadLength
  /\ Bodies \subseteq Nat

ASSUME LimitsAssumption ==
  MaxPackets \in Nat /\ MaxResets \in Nat /\ Checked \in BOOLEAN

LengthField == HeadLength \div 2               \* sizeof(uint16_t)
MaxBody     == BufferSize - HeadLength         \* LargePacket::MAX_BODY_LENGTH
Width       == BufferSize + 1            \* lengths are taken modulo 2^16

VARIABLES
  stream,   \* the packets sent on this connection: [total, size]
  arrived,  \* how many bytes of the stream the decoder has read
  base,     \* place in the stream of the first byte of the buffer
  readPos,  \* m_recvReadPos
  writePos, \* m_recvWritePos
  parsing,  \* is Process running?
  received, \* the total length of each packet given to the callback
  resets    \* connections made after the first

vars == <<stream, arrived, base, readPos, writePos, parsing, received, resets>>

Init ==
  /\ stream = <<>> /\ arrived = 0
  /\ base = 0 /\ readPos = 0 /\ writePos = 0
  /\ parsing = FALSE /\ received = <<>> /\ resets = 0

\* The bytes of the first n packets of the stream.
Bytes[n \in Nat] == IF n = 0 THEN 0 ELSE Bytes[n - 1] + stream[n].size

Written == Bytes[Len(stream)]

-----------------------------------------------------------------------------
\* The total length as the header announces it.
TotalLength(len) == (len + HeadLength) % Width

\* Send: the body is refused when it is too long, if that is checked.
Send(len) ==
  /\ Len(stream) < MaxPackets
  /\ Checked => len <= MaxBody
  /\ stream' = Append(stream, [total |-> TotalLength(len), size |-> len + HeadLength])
  /\ UNCHANGED <<arrived, base, readPos, writePos, parsing, received, resets>>

\* Mutant: the whole buffer is offered.
BufferLeft == 2 * BufferSize

\* GetWriteBuffer: the room offered at writePos.
Offered == IF writePos > BufferSize THEN 0 ELSE BufferSize

\* libuv reads at most that into the buffer, and Process begins.
OnRead(n) ==
  /\ ~parsing
  /\ n <= Offered /\ n <= Written - arrived
  /\ arrived' = arrived + n
  /\ writePos' = writePos + n
  /\ parsing' = TRUE
  /\ UNCHANGED <<stream, base, readPos, received, resets>>

\* Mutant: a packet without a body waits for more bytes.
HeaderRead == writePos - readPos > HeadLength

\* Enough bytes to look at the length.
LengthRead == writePos - readPos > LengthField

\* The length found at the read position: that of the header there; if there
\* is none, of some bytes of a body.
LengthAt(pos) ==
  LET here == {k \in 1..Len(stream) : Bytes[k - 1] = pos}
  IN  IF here # {} THEN {stream[k].total : k \in here} ELSE 0..BufferSize

Complete(total) == LengthRead /\ writePos - readPos >= total

\* One turn of the loop of Process; the callback accepts the packet.
OnRecvPacket ==
  /\ parsing
  /\ \E total \in LengthAt(base + readPos) :
       /\ Complete(total)
       /\ received' = Append(received, total)
       /\ readPos' = readPos + total
  /\ UNCHANGED <<stream, arrived, base, writePos, parsing, resets>>

\* Mutant: only an empty buffer is used from its front again.
AdjustEmpty == writePos >= BufferSize /\ readPos = writePos

AdjustNeeded == writePos >= BufferSize

\* The loop ends, and AdjustWriteSpace moves the rest to the front.
AdjustWriteSpace ==
  /\ parsing
  /\ ~LengthRead \/ \E total \in LengthAt(base + readPos) : ~Complete(total)
  /\ parsing' = FALSE
  /\ IF AdjustNeeded
     THEN base' = base + readPos /\ readPos' = 0 /\ writePos' = writePos - readPos
     ELSE UNCHANGED <<base, readPos, writePos>>
  /\ UNCHANGED <<stream, arrived, received, resets>>

\* Mutant: the positions are kept.
KeepPositions == UNCHANGED <<readPos, writePos>>

\* BinaryPacketDecoder::Reset.
Reset == readPos' = 0 /\ writePos' = 0

\* The connection closes between two reads, or because the callback refuses
\* the packet at hand; Close resets the decoder, and a new connection begins.
Close ==
  /\ resets < MaxResets
  /\ ~parsing \/ \E total \in LengthAt(base + readPos) : Complete(total)
  /\ resets' = resets + 1
  /\ Reset
  /\ stream' = <<>> /\ arrived' = 0 /\ base' = 0
  /\ parsing' = FALSE /\ received' = <<>>

Next ==
  \/ \E len \in Bodies : Send(len)
  \/ \E n \in 1..(2 * BufferSize) : OnRead(n)
  \/ OnRecvPacket \/ AdjustWriteSpace \/ Close

Spec == Init /\ [][Next]_vars

\* The network delivers and the decoder runs.
Fairness ==
  /\ WF_vars(\E n \in 1..(2 * BufferSize) : OnRead(n))
  /\ WF_vars(OnRecvPacket) /\ WF_vars(AdjustWriteSpace)

FairSpec == Spec /\ Fairness

-----------------------------------------------------------------------------
(* Properties.                                                             *)

\* The positions stay in the buffer; the decoder's variables have their types.
TypeOK ==
  /\ stream \in Seq([total : 0..BufferSize, size : Nat])
  /\ arrived \in Nat /\ base \in Nat
  /\ readPos \in 0..writePos /\ writePos \in 0..(2 * BufferSize)
  /\ parsing \in BOOLEAN /\ resets \in 0..MaxResets

\* Whatever has been read, what GetWriteBuffer offers fits in the buffer, and
\* it never offers nothing, which would stop the connection for good.
RoomToRead == ~parsing => Offered > 0 /\ writePos + Offered <= 2 * BufferSize

\* The packets given to the callback are those that were sent, whole and in
\* order, however the stream was cut and moved; the rest of the buffer begins
\* with the next one. Between two reads nothing complete is left there: its
\* delivery would wait for bytes of the next packet.
Intact ==
  /\ Len(received) <= Len(stream)
  /\ \A k \in 1..Len(received) : received[k] = stream[k].size
  /\ base + readPos = Bytes[Len(received)]
  /\ base + writePos = arrived
  /\ ~parsing /\ Len(received) < Len(stream) =>
       Bytes[Len(received) + 1] > arrived

\* Every packet sent is given to the callback, unless the connection closes.
AllReceived ==
  \A k \in 1..MaxPackets : \A r \in 0..MaxResets :
    Len(stream) >= k /\ resets = r ~> Len(received) >= k \/ resets # r

\* A packet announces the bytes it has: so it is with the Send that checks.
LengthIsTrue == \A k \in 1..Len(stream) : stream[k].total = stream[k].size

=============================================================================
