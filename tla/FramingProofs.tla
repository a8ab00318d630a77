--------------------------- MODULE FramingProofs ----------------------------
(***************************************************************************)
(* Proofs about Framing, for any buffer size larger than a header, any     *)
(* packets, and the lengths any peer may announce.                         *)
(*                                                                         *)
(* What the recursive function Bytes computes is proved by induction. The  *)
(* library's induction theorems have an operator as a parameter, which the *)
(* provers cannot instantiate; SetInduction has a set in its place, and    *)
(* follows from the fact that < is well-founded on Nat.                    *)
(***************************************************************************)
EXTENDS Framing, WellFoundedInduction, TLAPS

USE SizesAssumption, LimitsAssumption

\* Between two reads the rest of the buffer is shorter than a packet, and has
\* been moved to the front when it lay behind BufferSize.
RestIsShort == ~parsing => writePos < BufferSize

LEMMA LengthFieldShort == LengthField \in Nat /\ LengthField < BufferSize
BY DEF LengthField

LEMMA ElementType ==
  ASSUME NEW S, NEW s \in Seq(S), NEW k \in 1..Len(s)
  PROVE  s[k] \in S
OBVIOUS

-----------------------------------------------------------------------------
(* The bytes of a stream.                                                  *)

\* The order of the natural numbers as a relation.
LessNat == {ss \in Nat \X Nat : ss[1] < ss[2]}

\* No sequence of natural numbers descends for ever.
LEMMA LessNatWF == IsWellFoundedOn(LessNat, Nat)
BY NatLessThanWellFounded DEF OpToRel, LessNat

\* A set that holds 0 and, with a number, the next one, holds all of them.
LEMMA SetInduction ==
  ASSUME NEW S, 0 \in S, \A n \in Nat : n \in S => n + 1 \in S
  PROVE  \A n \in Nat : n \in S
<1> SUFFICES ASSUME Nat \ S # {} PROVE FALSE
  OBVIOUS
<1> DEFINE T == Nat \ S
<1>1. \E x \in T : \A y \in T : ~(<<y, x>> \in LessNat)
  BY LessNatWF, WFMin, T \subseteq Nat, T # {}
<1>2. PICK x \in T : \A y \in T : ~(<<y, x>> \in LessNat)
  BY <1>1
<1>3. x # 0 /\ x - 1 \in Nat
  OBVIOUS
<1>4. <<x - 1, x>> \in LessNat
  BY <1>3 DEF LessNat
<1>5. x - 1 \in S
  BY <1>2, <1>3, <1>4
<1> QED BY <1>3, <1>5

\* Bytes, for any stream s: the function its recursive definition stands for.
BytesOf(s) ==
  CHOOSE f : f = [n \in Nat |-> IF n = 0 THEN 0 ELSE f[n - 1] + s[n].size]

\* f counts the bytes of the first m packets of s.
Counts(s, m, f) ==
  /\ f[0] = 0
  /\ \A i \in 1..m : f[i] = f[i - 1] + s[i].size

\* Two such functions agree up to m.
LEMMA CountsUnique ==
  ASSUME NEW s, NEW m \in Nat, NEW f, NEW g, Counts(s, m, f), Counts(s, m, g)
  PROVE  \A i \in 0..m : f[i] = g[i]
<1> DEFINE S == {i \in Nat : i <= m => f[i] = g[i]}
<1>1. 0 \in S BY DEF Counts
<1>2. ASSUME NEW i \in Nat, i \in S PROVE i + 1 \in S
  BY <1>2 DEF Counts
<1> HIDE DEF S
<1>3. \A i \in Nat : i \in S BY <1>1, <1>2, SetInduction
<1> QED BY <1>3 DEF S

\* There is one for every m.
LEMMA CountsExists ==
  ASSUME NEW s, NEW m \in Nat
  PROVE  \E f : Counts(s, m, f)
<1> DEFINE S == {i \in Nat : \E f : Counts(s, i, f)}
<1>1. 0 \in S
  <2>1. Counts(s, 0, [i \in {0} |-> 0]) BY DEF Counts
  <2> QED BY <2>1
<1>2. ASSUME NEW i \in Nat, i \in S PROVE i + 1 \in S
  <2>1. PICK f : Counts(s, i, f) BY <1>2
  <2> DEFINE g == [j \in 0..(i + 1) |-> IF j = i + 1 THEN f[i] + s[i + 1].size ELSE f[j]]
  <2>2. Counts(s, i + 1, g)
    <3>1. g[0] = 0 BY <2>1 DEF Counts
    <3>2. ASSUME NEW j \in 1..(i + 1) PROVE g[j] = g[j - 1] + s[j].size
      <4>1. j - 1 \in 0..(i + 1) /\ g[j - 1] = f[j - 1]
        OBVIOUS
      <4>2. CASE j = i + 1 BY <4>1, <4>2
      <4>3. CASE j # i + 1
        <5>1. j \in 1..i /\ g[j] = f[j] BY <4>3
        <5> QED BY <2>1, <4>1, <5>1 DEF Counts
      <4> QED BY <4>2, <4>3
    <3> QED BY <3>1, <3>2 DEF Counts
  <2> QED BY <2>2
<1> HIDE DEF S
<1>3. m \in S BY <1>1, <1>2, SetInduction
<1> QED BY <1>3 DEF S

\* The recursive definition has a solution.
LEMMA BytesDefined ==
  ASSUME NEW s
  PROVE  BytesOf(s) = [n \in Nat |-> IF n = 0 THEN 0 ELSE BytesOf(s)[n - 1] + s[n].size]
<1> DEFINE G(n) == CHOOSE f : Counts(s, n, f)
<1> DEFINE F == [n \in Nat |-> G(n)[n]]
<1>1. \A n \in Nat : Counts(s, n, G(n))
  BY CountsExists
<1>2. ASSUME NEW n \in Nat, n # 0 PROVE F[n] = F[n - 1] + s[n].size
  <2>1. n - 1 \in Nat /\ n \in 1..n /\ n - 1 \in 0..(n - 1)
    BY <1>2
  <2>2. Counts(s, n - 1, G(n)) /\ Counts(s, n - 1, G(n - 1))
    BY <1>1, <2>1 DEF Counts
  <2> HIDE DEF G
  <2>3. G(n)[n - 1] = G(n - 1)[n - 1]
    BY <2>1, <2>2, CountsUnique
  <2>4. G(n)[n] = G(n)[n - 1] + s[n].size
    BY <1>1, <2>1 DEF Counts
  <2> QED BY <2>1, <2>3, <2>4
<1>3. F[0] = 0 BY <1>1 DEF Counts
<1>4. F = [n \in Nat |-> IF n = 0 THEN 0 ELSE F[n - 1] + s[n].size]
  <2> HIDE DEF G
  <2>1. \A n \in Nat : F[n] = IF n = 0 THEN 0 ELSE F[n - 1] + s[n].size
    BY <1>2, <1>3
  <2> QED BY <2>1
<1> HIDE DEF F
<1>5. \E f : f = [n \in Nat |-> IF n = 0 THEN 0 ELSE f[n - 1] + s[n].size]
  BY <1>4
<1> QED BY <1>5 DEF BytesOf

LEMMA BytesOfStep ==
  ASSUME NEW s
  PROVE  /\ BytesOf(s)[0] = 0
         /\ \A n \in Nat \ {0} : BytesOf(s)[n] = BytesOf(s)[n - 1] + s[n].size
<1> DEFINE F == BytesOf(s)
<1>1. F = [n \in Nat |-> IF n = 0 THEN 0 ELSE F[n - 1] + s[n].size]
  BY BytesDefined
<1> HIDE DEF F
<1>2. \A n \in Nat : F[n] = IF n = 0 THEN 0 ELSE F[n - 1] + s[n].size
  BY <1>1
<1>3. F[0] = 0 /\ \A n \in Nat \ {0} : F[n] = F[n - 1] + s[n].size
  BY <1>2
<1> QED BY <1>3 DEF F

\* Every packet adds at least a header.
LEMMA BytesOfGrow ==
  ASSUME NEW s, NEW m \in Nat,
         \A k \in 1..m : s[k].size \in Nat /\ s[k].size >= HeadLength
  PROVE  /\ \A i \in 0..m : BytesOf(s)[i] \in Nat
         /\ \A i, j \in 0..m : i < j => BytesOf(s)[i] < BytesOf(s)[j]
<1> DEFINE B == BytesOf(s)
<1>0. B[0] = 0 /\ \A n \in Nat \ {0} : B[n] = B[n - 1] + s[n].size
  BY BytesOfStep
<1> HIDE DEF B
<1> DEFINE S == {j \in Nat : j <= m =>
                  /\ B[j] \in Nat
                  /\ \A i \in 0..m : i < j => B[i] \in Nat /\ B[i] < B[j]}
<1>1. 0 \in S BY <1>0
<1>2. ASSUME NEW j \in Nat, j \in S PROVE j + 1 \in S
  <2> SUFFICES ASSUME j + 1 <= m
               PROVE  /\ B[j + 1] \in Nat
                      /\ \A i \in 0..m : i < j + 1 =>
                           B[i] \in Nat /\ B[i] < B[j + 1]
    OBVIOUS
  <2>1. B[j + 1] = B[j] + s[j + 1].size /\ B[j] \in Nat
    BY <1>0, <1>2
  <2>2. s[j + 1].size \in Nat /\ s[j + 1].size >= HeadLength
    OBVIOUS
  <2>3. B[j + 1] \in Nat /\ B[j] < B[j + 1]
    BY <2>1, <2>2
  <2>4. ASSUME NEW i \in 0..m, i < j + 1 PROVE B[i] \in Nat /\ B[i] < B[j + 1]
    <3>1. CASE i = j BY <2>1, <2>3, <3>1
    <3>2. CASE i < j
      <4>1. B[i] \in Nat /\ B[i] < B[j] BY <1>2, <3>2
      <4> QED BY <2>1, <2>3, <4>1
    <3> QED BY <2>4, <3>1, <3>2
  <2> QED BY <2>3, <2>4
<1> HIDE DEF S
<1>3. \A j \in Nat : j \in S BY <1>1, <1>2, SetInduction
<1> QED BY <1>3 DEF S, B

-----------------------------------------------------------------------------
(* The buffer.                                                             *)

\* Whatever the stream holds, a length found in it fits in 16 bits.
LEMMA LengthAtType ==
  ASSUME TypeOK, NEW pos \in Nat
  PROVE  LengthAt(pos) \subseteq 0..BufferSize
<1> DEFINE here == {k \in 1..Len(stream) : Bytes[k - 1] = pos}
<1>1. \A k \in 1..Len(stream) : stream[k] \in [total : 0..BufferSize, size : Nat]
  BY ElementType DEF TypeOK
<1>2. \A k \in here : stream[k].total \in 0..BufferSize
  BY <1>1
<1> HIDE DEF here
<1>3. LengthAt(pos) = IF here # {} THEN {stream[k].total : k \in here}
                                  ELSE 0..BufferSize
  BY DEF LengthAt, here
<1> QED BY <1>2, <1>3

LEMMA InitRoom == Init => TypeOK /\ RestIsShort
<1> SUFFICES ASSUME Init PROVE TypeOK /\ RestIsShort
  OBVIOUS
<1>1. parsing \in BOOLEAN BY Zenon DEF Init
<1> QED BY <1>1 DEF Init, TypeOK, RestIsShort

LEMMA StepRoom ==
  ASSUME TypeOK, RestIsShort, [Next]_vars
  PROVE  TypeOK' /\ RestIsShort'
<1>0. parsing' \in BOOLEAN
  BY Zenon DEF TypeOK, Next, Send, OnRead, OnRecvPacket, AdjustWriteSpace, Close,
               vars
<1> USE <1>0 DEF TypeOK, RestIsShort
<1>1. ASSUME NEW len \in Bodies, Send(len) PROVE TypeOK' /\ RestIsShort'
  <2>1. TotalLength(len) \in 0..BufferSize /\ len + HeadLength \in Nat
    BY DEF TotalLength, Width
  <2>2. [total |-> TotalLength(len), size |-> len + HeadLength]
          \in [total : 0..BufferSize, size : Nat]
    BY <2>1
  <2>3. stream' \in Seq([total : 0..BufferSize, size : Nat])
    BY <1>1, <2>2 DEF Send
  <2> QED BY <1>1, <2>3 DEF Send
<1>2. ASSUME NEW n \in 1..(2 * BufferSize), OnRead(n)
      PROVE  TypeOK' /\ RestIsShort'
  BY <1>2 DEF OnRead, Offered
<1>3. CASE OnRecvPacket
  <2>1. PICK total \in LengthAt(base + readPos) :
          Complete(total) /\ readPos' = readPos + total
    BY <1>3 DEF OnRecvPacket
  <2>2. total \in 0..BufferSize
    BY <2>1, LengthAtType
  <2> QED BY <1>3, <2>1, <2>2 DEF OnRecvPacket, Complete
<1>4. CASE AdjustWriteSpace
  <2>1. writePos - readPos < BufferSize
    <3>1. CASE ~LengthRead
      BY <3>1, LengthFieldShort DEF LengthRead
    <3>2. CASE \E total \in LengthAt(base + readPos) : ~Complete(total)
      <4>1. PICK total \in LengthAt(base + readPos) : ~Complete(total)
        BY <3>2
      <4>2. total \in 0..BufferSize
        BY <4>1, LengthAtType
      <4> QED BY <4>1, <4>2, LengthFieldShort DEF Complete, LengthRead
    <3> QED BY <1>4, <3>1, <3>2 DEF AdjustWriteSpace
  <2> QED BY <1>4, <2>1 DEF AdjustWriteSpace, AdjustNeeded
<1>5. CASE Close
  BY <1>5 DEF Close, Reset
<1>6. CASE UNCHANGED vars
  BY <1>6 DEF vars
<1> QED BY <1>1, <1>2, <1>3, <1>4, <1>5, <1>6 DEF Next

LEMMA RoomInvariant == Spec => [](TypeOK /\ RestIsShort)
BY InitRoom, StepRoom, PTL DEF Spec

\* The positions stay in the buffer.
THEOREM PositionsCorrect == Spec => []TypeOK
BY RoomInvariant, PTL

\* What GetWriteBuffer offers is never nothing and never beyond the buffer.
THEOREM RoomCorrect == Spec => []RoomToRead
<1>1. TypeOK /\ RestIsShort => RoomToRead
  BY DEF TypeOK, RestIsShort, RoomToRead, Offered
<1> QED BY RoomInvariant, <1>1, PTL

\* A body that MaxBody allows is announced with its own length.
LEMMA LengthFits ==
  ASSUME NEW len \in Bodies, len <= MaxBody
  PROVE  TotalLength(len) = len + HeadLength
BY DEF TotalLength, Width, MaxBody

\* The Send that checks the length announces it, so that the receiver never
\* takes a part of a body for a header; the Send of a BufferStream does not.
THEOREM LengthCorrect ==
  ASSUME Checked
  PROVE  Spec => []LengthIsTrue
<1>1. Init => LengthIsTrue
  BY DEF Init, LengthIsTrue
<1>2. ASSUME TypeOK, LengthIsTrue, [Next]_vars PROVE LengthIsTrue'
  <2>1. ASSUME NEW len \in Bodies, Send(len) PROVE LengthIsTrue'
    <3> DEFINE packet == [total |-> TotalLength(len), size |-> len + HeadLength]
    <3>1. packet.total = packet.size
      BY <2>1, LengthFits DEF Send
    <3>2. stream' = Append(stream, packet)
      BY <2>1 DEF Send
    <3>3. packet \in [total : 0..BufferSize, size : Nat]
      BY DEF TotalLength, Width
    <3> HIDE DEF packet
    <3> QED BY <1>2, <3>1, <3>2, <3>3 DEF LengthIsTrue, TypeOK
  <2>2. CASE Close
    BY <2>2 DEF Close, LengthIsTrue
  <2>3. CASE UNCHANGED stream
    BY <1>2, <2>3 DEF LengthIsTrue
  <2> QED BY <1>2, <2>1, <2>2, <2>3
       DEF Next, OnRead, OnRecvPacket, AdjustWriteSpace, vars
<1> QED BY <1>1, <1>2, PositionsCorrect, PTL DEF Spec

-----------------------------------------------------------------------------
(* The packets.                                                            *)

\* The bytes read are bytes that were sent, and every packet has a header.
StreamInv ==
  /\ arrived <= Written
  /\ \A k \in 1..Len(stream) : stream[k].size >= HeadLength

\* What the proof of Intact rests on, besides the types.
IntactInv == LengthIsTrue /\ StreamInv /\ Intact /\ received \in Seq(Nat)

LEMMA BytesStep ==
  /\ Bytes[0] = 0
  /\ \A n \in Nat \ {0} : Bytes[n] = Bytes[n - 1] + stream[n].size
<1>1. Bytes = BytesOf(stream)
  BY Zenon DEF Bytes, BytesOf
<1> QED BY <1>1, BytesOfStep

LEMMA BytesStart == Bytes'[0] = 0
<1>1. Bytes' = BytesOf(stream')
  BY Zenon DEF Bytes, BytesOf
<1> QED BY <1>1, BytesOfStep

\* The places where packets begin are distinct, and in order.
LEMMA BytesGrow ==
  ASSUME TypeOK, StreamInv
  PROVE  /\ \A i \in 0..Len(stream) : Bytes[i] \in Nat
         /\ \A i, j \in 0..Len(stream) : i < j => Bytes[i] < Bytes[j]
<1>1. Bytes = BytesOf(stream)
  BY Zenon DEF Bytes, BytesOf
<1>2. Len(stream) \in Nat
  BY DEF TypeOK
<1>3. \A k \in 1..Len(stream) : stream[k].size \in Nat /\ stream[k].size >= HeadLength
  <2>1. \A k \in 1..Len(stream) : stream[k] \in [total : 0..BufferSize, size : Nat]
    BY ElementType DEF TypeOK
  <2> QED BY <2>1 DEF StreamInv
<1> QED BY <1>1, <1>2, <1>3, BytesOfGrow

\* Sending a packet moves none of those sent before.
LEMMA BytesAppend ==
  ASSUME TypeOK, NEW p, stream' = Append(stream, p)
  PROVE  /\ \A i \in 0..Len(stream) : Bytes'[i] = Bytes[i]
         /\ Bytes'[Len(stream) + 1] = Bytes[Len(stream)] + p.size
<1>1. Bytes = BytesOf(stream) /\ Bytes' = BytesOf(stream')
  BY Zenon DEF Bytes, BytesOf
<1>2. Len(stream) \in Nat
  BY DEF TypeOK
<1>3. \A k \in 1..Len(stream) : stream[k] = stream'[k]
  BY DEF TypeOK
<1>4. stream'[Len(stream) + 1] = p
  BY DEF TypeOK
<1>5. \A i \in 0..Len(stream) : Bytes'[i] = Bytes[i]
  <2>1. PICK m \in Nat : m = Len(stream)
    BY <1>2
  <2>2. PICK s, t : s = stream /\ t = stream'
    OBVIOUS
  <2>3. \A k \in 1..m : s[k] = t[k]
    BY <1>3, <2>1, <2>2
  <2>4. \A i \in 0..m : BytesOf(s)[i] = BytesOf(t)[i]
    <3>1. Counts(s, m, BytesOf(s)) /\ Counts(s, m, BytesOf(t))
      BY <2>3, BytesOfStep DEF Counts
    <3> QED BY <3>1, CountsUnique
  <2> QED BY <1>1, <2>1, <2>2, <2>4
<1>6. Bytes'[Len(stream) + 1] = Bytes'[Len(stream)] + p.size
  <2>1. Len(stream) + 1 \in Nat \ {0} /\ (Len(stream) + 1) - 1 = Len(stream)
    BY <1>2
  <2>2. \A n \in Nat \ {0} :
          BytesOf(stream')[n] = BytesOf(stream')[n - 1] + stream'[n].size
    BY BytesOfStep
  <2> QED BY <1>1, <1>4, <2>1, <2>2
<1> QED BY <1>2, <1>5, <1>6

\* While a packet is missing, the length at the read position is its own.
LEMMA LengthAtNext ==
  ASSUME TypeOK, IntactInv, Len(received) < Len(stream)
  PROVE  /\ LengthAt(base + readPos) = {stream[Len(received) + 1].size}
         /\ stream[Len(received) + 1].size >= HeadLength
         /\ stream[Len(received) + 1].size \in Nat
         /\ Bytes[Len(received) + 1]
              = Bytes[Len(received)] + stream[Len(received) + 1].size
<1> DEFINE n == Len(received)
           here == {k \in 1..Len(stream) : Bytes[k - 1] = base + readPos}
<1>1. n \in Nat /\ n + 1 \in 1..Len(stream) /\ Len(stream) \in Nat
  BY DEF TypeOK, IntactInv
<1>2. base + readPos = Bytes[n]
  BY DEF IntactInv, Intact
<1>3. \A i, j \in 0..Len(stream) : i < j => Bytes[i] < Bytes[j]
  BY BytesGrow DEF IntactInv
<1>4. \A i \in 0..Len(stream) : Bytes[i] \in Nat
  BY BytesGrow DEF IntactInv
<1>5. here = {n + 1}
  <2>1. ASSUME NEW k \in here PROVE k = n + 1
    <3>1. k - 1 \in 0..Len(stream) /\ n \in 0..Len(stream)
      BY <1>1
    <3>2. Bytes[k - 1] = Bytes[n]
      BY <1>2
    <3>3. ~(k - 1 < n) /\ ~(n < k - 1)
      BY <1>3, <1>4, <3>1, <3>2
    <3> QED BY <3>1, <3>3, <1>1
  <2>2. n + 1 \in here
    BY <1>1, <1>2
  <2> QED BY <2>1, <2>2
<1>6. stream[n + 1].total = stream[n + 1].size /\ stream[n + 1].size >= HeadLength
  BY <1>1 DEF IntactInv, LengthIsTrue, StreamInv
<1>7. stream[n + 1].size \in Nat
  <2>1. stream[n + 1] \in [total : 0..BufferSize, size : Nat]
    BY <1>1, ElementType DEF TypeOK
  <2> QED BY <2>1
<1>8. Bytes[n + 1] = Bytes[n] + stream[n + 1].size
  BY <1>1, BytesStep
<1>9. LengthAt(base + readPos) = IF here # {} THEN {stream[k].total : k \in here}
                                             ELSE 0..BufferSize
  BY DEF LengthAt
<1> HIDE DEF here
<1>10. LengthAt(base + readPos) = {stream[n + 1].size}
  BY <1>5, <1>6, <1>9
<1> QED BY <1>6, <1>7, <1>8, <1>10

LEMMA SendIntact ==
  ASSUME Checked, TypeOK, IntactInv, NEW len \in Bodies, Send(len)
  PROVE  StreamInv' /\ Intact'
<1> DEFINE p == [total |-> TotalLength(len), size |-> len + HeadLength]
<1>1. /\ stream' = Append(stream, p)
      /\ UNCHANGED <<arrived, base, readPos, writePos, parsing, received>>
  BY DEF Send
<1>2. p.size \in Nat /\ p.size >= HeadLength
  OBVIOUS
<1> HIDE DEF p
<1>3. /\ Len(stream) \in Nat /\ Len(stream') = Len(stream) + 1
      /\ Len(received) \in 0..Len(stream)
      /\ \A k \in 1..Len(stream) : stream'[k] = stream[k]
      /\ stream'[Len(stream) + 1] = p
  BY <1>1 DEF TypeOK, IntactInv, Intact
<1>4. \A i \in 0..Len(stream) : Bytes'[i] = Bytes[i]
  BY <1>1, BytesAppend
<1>5. Bytes'[Len(stream) + 1] = Bytes[Len(stream)] + p.size
  BY <1>1, BytesAppend
<1>6. \A i \in 0..Len(stream) : Bytes[i] \in Nat
  BY BytesGrow DEF IntactInv
<1>7. Bytes[Len(stream)] \in Nat /\ arrived <= Bytes[Len(stream)]
  BY <1>3, <1>6 DEF IntactInv, StreamInv, Written
<1>8. StreamInv'
  <2>1. arrived' <= Written'
    BY <1>1, <1>2, <1>3, <1>5, <1>7 DEF Written, TypeOK
  <2>2. \A k \in 1..Len(stream') : stream'[k].size >= HeadLength
    BY <1>2, <1>3 DEF IntactInv, StreamInv
  <2> QED BY <2>1, <2>2 DEF StreamInv
<1>9. ASSUME ~parsing, Len(received) < Len(stream')
      PROVE  Bytes'[Len(received) + 1] > arrived
  <2>1. CASE Len(received) = Len(stream)
    BY <1>2, <1>5, <1>7, <2>1 DEF TypeOK
  <2>2. CASE Len(received) < Len(stream)
    <3>1. Len(received) + 1 \in 0..Len(stream)
      BY <1>3, <2>2
    <3>2. Bytes[Len(received) + 1] > arrived
      BY <1>9, <2>2 DEF IntactInv, Intact
    <3> QED BY <1>4, <3>1, <3>2
  <2> QED BY <1>3, <1>9, <2>1, <2>2
<1>10. Bytes'[Len(received)] = Bytes[Len(received)]
  BY <1>3, <1>4
<1>11. \A k \in 1..Len(received) : received[k] = stream'[k].size
  BY <1>3 DEF IntactInv, Intact
<1> QED BY <1>1, <1>3, <1>8, <1>9, <1>10, <1>11 DEF IntactInv, Intact

LEMMA ReceiveIntact ==
  ASSUME TypeOK, IntactInv, OnRecvPacket
  PROVE  Intact' /\ received' \in Seq(Nat)
<1> DEFINE n == Len(received)
<1>1. PICK total \in LengthAt(base + readPos) :
        /\ Complete(total)
        /\ received' = Append(received, total) /\ readPos' = readPos + total
  BY DEF OnRecvPacket
<1>2. parsing /\ UNCHANGED <<stream, arrived, base, writePos, parsing>>
  BY DEF OnRecvPacket
<1>3. /\ n \in Nat /\ Len(stream) \in Nat /\ n <= Len(stream)
      /\ base + readPos = Bytes[n] /\ base + writePos = arrived
      /\ \A k \in 1..n : received[k] = stream[k].size
      /\ received \in Seq(Nat)
  BY DEF TypeOK, IntactInv, Intact
<1>4. n < Len(stream)
  <2> SUFFICES ASSUME n = Len(stream) PROVE FALSE
    BY <1>3
  <2>1. arrived <= Bytes[n]
    BY DEF IntactInv, StreamInv, Written
  <2>2. writePos - readPos <= 0
    BY <1>3, <2>1 DEF TypeOK
  <2> QED BY <1>1, <2>2, LengthFieldShort DEF Complete, LengthRead, TypeOK
<1>5. /\ total = stream[n + 1].size /\ total \in Nat
      /\ Bytes[n + 1] = Bytes[n] + total
  BY <1>1, <1>4, LengthAtNext
<1>6. received' \in Seq(Nat) /\ Len(received') = n + 1 /\ received'[n + 1] = total
      /\ \A k \in 1..n : received'[k] = received[k]
  BY <1>1, <1>3, <1>5
<1>7. Bytes' = Bytes
  BY <1>2, Zenon DEF Bytes
<1>8. base' + readPos' = Bytes[n + 1]
  BY <1>1, <1>2, <1>3, <1>5 DEF TypeOK
<1>9. \A k \in 1..Len(received') : received'[k] = stream[k].size
  BY <1>3, <1>5, <1>6
<1>10. /\ Len(received') <= Len(stream')
       /\ \A k \in 1..Len(received') : received'[k] = stream'[k].size
       /\ base' + readPos' = Bytes'[Len(received')]
       /\ base' + writePos' = arrived' /\ parsing'
  BY <1>2, <1>3, <1>4, <1>6, <1>7, <1>8, <1>9
<1> QED BY <1>6, <1>10 DEF Intact

LEMMA AdjustIntact ==
  ASSUME TypeOK, IntactInv, AdjustWriteSpace
  PROVE  Intact'
<1> DEFINE n == Len(received)
<1>1. /\ UNCHANGED <<stream, arrived, received>>
      /\ base' + readPos' = base + readPos /\ base' + writePos' = base + writePos
  BY DEF AdjustWriteSpace, TypeOK
<1>2. ASSUME n < Len(stream) PROVE Bytes[n + 1] > arrived
  <2>1. /\ LengthAt(base + readPos) = {stream[n + 1].size}
        /\ stream[n + 1].size >= HeadLength /\ stream[n + 1].size \in Nat
        /\ Bytes[n + 1] = Bytes[n] + stream[n + 1].size
    BY <1>2, LengthAtNext
  <2>2. LengthField < HeadLength /\ LengthField \in Nat
    BY DEF LengthField
  <2>3. writePos - readPos < stream[n + 1].size
    <3>1. CASE ~LengthRead
      BY <2>1, <2>2, <3>1 DEF LengthRead, TypeOK
    <3>2. CASE LengthRead
      <4>1. ~Complete(stream[n + 1].size)
        BY <2>1, <3>2 DEF AdjustWriteSpace
      <4> QED BY <2>1, <3>2, <4>1 DEF Complete, TypeOK
    <3> QED BY <3>1, <3>2
  <2>4. base + readPos = Bytes[n] /\ base + writePos = arrived
    BY DEF IntactInv, Intact
  <2> QED BY <2>1, <2>3, <2>4 DEF TypeOK
<1>3. Bytes' = Bytes
  BY <1>1, Zenon DEF Bytes
<1> QED BY <1>1, <1>2, <1>3 DEF IntactInv, Intact

LEMMA StepIntact ==
  ASSUME Checked, TypeOK, IntactInv, LengthIsTrue', [Next]_vars
  PROVE  IntactInv'
<1>1. ASSUME NEW len \in Bodies, Send(len) PROVE IntactInv'
  <2>1. received' = received BY <1>1 DEF Send
  <2> QED BY <1>1, <2>1, SendIntact DEF IntactInv
<1>2. ASSUME NEW n \in 1..(2 * BufferSize), OnRead(n) PROVE IntactInv'
  <2>1. /\ parsing' /\ UNCHANGED <<stream, base, readPos, received>>
        /\ arrived' = arrived + n /\ writePos' = writePos + n
        /\ n <= Written - arrived
    BY <1>2 DEF OnRead
  <2>2. Bytes' = Bytes
    BY <2>1, Zenon DEF Bytes
  <2>3. Written \in Nat /\ Written' = Written
    <3>1. \A i \in 0..Len(stream) : Bytes[i] \in Nat
      BY BytesGrow DEF IntactInv
    <3>2. Len(stream) \in 0..Len(stream)
      BY DEF TypeOK
    <3> QED BY <2>1, <2>2, <3>1, <3>2 DEF Written
  <2>4. StreamInv'
    BY <2>1, <2>3 DEF IntactInv, StreamInv, TypeOK
  <2>5. base' + writePos' = arrived'
    BY <2>1 DEF IntactInv, Intact, TypeOK
  <2>6. Intact'
    BY <2>1, <2>2, <2>5 DEF IntactInv, Intact
  <2> QED BY <2>1, <2>4, <2>6 DEF IntactInv
<1>3. CASE OnRecvPacket
  <2>1. Intact' /\ received' \in Seq(Nat)
    BY <1>3, ReceiveIntact
  <2>2. UNCHANGED <<stream, arrived>> BY <1>3 DEF OnRecvPacket
  <2>3. Bytes' = Bytes BY <2>2, Zenon DEF Bytes
  <2>4. StreamInv' BY <2>2, <2>3 DEF IntactInv, StreamInv, Written
  <2> QED BY <2>1, <2>4 DEF IntactInv
<1>4. CASE AdjustWriteSpace
  <2>1. Intact'
    BY <1>4, AdjustIntact
  <2>2. UNCHANGED <<stream, arrived, received>> BY <1>4 DEF AdjustWriteSpace
  <2>3. Bytes' = Bytes BY <2>2, Zenon DEF Bytes
  <2>4. StreamInv' BY <2>2, <2>3 DEF IntactInv, StreamInv, Written
  <2> QED BY <2>1, <2>2, <2>4 DEF IntactInv
<1>5. CASE Close
  <2>1. /\ stream' = <<>> /\ arrived' = 0 /\ base' = 0 /\ readPos' = 0
        /\ writePos' = 0 /\ received' = <<>>
    BY <1>5 DEF Close, Reset
  <2> QED BY <2>1, BytesStart DEF IntactInv, Intact, StreamInv, Written
<1>6. CASE UNCHANGED vars
  <2>1. UNCHANGED <<stream, arrived, base, readPos, writePos, parsing, received>>
    BY <1>6 DEF vars
  <2>2. Bytes' = Bytes BY <2>1, Zenon DEF Bytes
  <2> QED BY <2>1, <2>2 DEF IntactInv, Intact, StreamInv, Written
<1> QED BY <1>1, <1>2, <1>3, <1>4, <1>5, <1>6 DEF Next

\* The packets received are those sent, whole and in order, for every way the
\* stream may be cut and every number of packets and connections.
THEOREM IntactCorrect ==
  ASSUME Checked
  PROVE  Spec => []Intact
<1>1. Init => IntactInv
  <2> SUFFICES ASSUME Init PROVE IntactInv
    OBVIOUS
  <2>1. Bytes[0] = 0 BY BytesStep
  <2>2. LengthIsTrue BY DEF Init, LengthIsTrue
  <2> QED BY <2>1, <2>2 DEF Init, IntactInv, Intact, StreamInv, Written
<1>2. ASSUME TypeOK, IntactInv, LengthIsTrue', [Next]_vars PROVE IntactInv'
  BY <1>2, StepIntact
<1>3. Spec => []LengthIsTrue
  BY LengthCorrect
<1>4. IntactInv => Intact
  BY DEF IntactInv
<1> QED BY <1>1, <1>2, <1>3, <1>4, PositionsCorrect, PTL DEF Spec

=============================================================================
