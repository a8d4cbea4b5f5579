---------------------------- MODULE BitStreamProofs ----------------------------
(***************************************************************************)
(* A stream of any length, over any memory, holds what was written and     *)
(* reads it back, if the callers' left-aligned inputs are tidy and ReadBits'*)
(* output is not written back (with Recopy HoldsWhatWasWritten fails).     *)
(***************************************************************************)
EXTENDS BitStream, SequenceTheorems, TLAPS

USE RoomAssumption, MemoryAssumption, InputAssumption, SizesAssumption

TidyCallers == ~Recopy /\ \A in \in Inputs : Tidy(in)

(* Division by 8.                                                           *)
LEMMA Eights ==
  ASSUME NEW q \in Nat, NEW r \in 0..7
  PROVE  (8 * q + r) % 8 = r /\ (8 * q + r) \div 8 = q
  BY SMT

LEMMA Split ==
  ASSUME NEW p \in Nat
  PROVE  /\ p \div 8 \in Nat /\ p % 8 \in 0..7
         /\ p = 8 * (p \div 8) + (p % 8)
  BY SMT

LEMMA ByteOfSplit ==
  ASSUME NEW p \in Nat
  PROVE  /\ ByteOf(p) = 8 * (p \div 8) /\ ByteOf(p) \in Nat
         /\ ByteOf(p) <= p /\ p <= ByteOf(p) + 7
         /\ p % 8 = p - ByteOf(p)
         /\ p = ByteOf(p) <=> p % 8 = 0
<1>1. p \div 8 \in Nat /\ p % 8 \in 0..7 /\ p = 8 * (p \div 8) + (p % 8)
  BY Split
<1> QED  BY <1>1, SMT DEF ByteOf

(* The bits after p in its byte are clear: `|=' can write them.             *)
Clear(d, p) == \A k \in p..ByteOf(p) + 7 : p # ByteOf(p) => d[k] = 0

(* What one iteration of WriteBits does to the bytes.                       *)
LEMMA PutWrites ==
  ASSUME NEW d \in [Bits(Room) -> BIT], NEW p \in Nat, NEW toGo \in Nat \ {0},
         NEW byte \in Byte, p + toGo <= 8 * Room, Clear(d, p)
  PROVE  LET e == Put(d, p, byte, toGo)
             n == Least(8, toGo)
         IN  /\ e \in [Bits(Room) -> BIT]
             /\ \A k \in Bits(Room) : k < p => e[k] = d[k]
             /\ \A i \in 0..7 : i < n => e[p + i] = byte[i]
             /\ (\A j \in 0..7 : j >= n => byte[j] = 0) => Clear(e, p + n)
<1> DEFINE b == ByteOf(p)
           e == Put(d, p, byte, toGo)
           n == Least(8, toGo)
           V(k) == IF k \in p..b + 7
                   THEN IF p = b THEN byte[k - p] ELSE Or(d[k], byte[k - p])
                   ELSE IF p # b /\ (p - b) + toGo > 8 /\ k \in b + 8..b + 15
                   THEN IF k < p + 8 THEN byte[k - p] ELSE 0
                   ELSE d[k]
<1>1. b = 8 * (p \div 8) /\ b \in Nat /\ b <= p /\ p <= b + 7 /\ p \div 8 \in Nat
  BY ByteOfSplit, Split
<1>2. n \in 1..8 /\ n <= toGo /\ (n = 8 \/ n = toGo)
  BY DEF Least
<1>3. e = [k \in Bits(Room) |-> V(k)]
  BY DEF Put
<1> HIDE DEF e, n, b
<1>4. \A k \in Bits(Room) : V(k) \in BIT
  <2> SUFFICES ASSUME NEW k \in Bits(Room) PROVE V(k) \in BIT  OBVIOUS
  <2>1. k \in Int /\ d[k] \in BIT /\ 0 \in BIT  BY DEF Bits, BIT
  <2>2. CASE k \in p..b + 7
    <3>1. byte[k - p] \in BIT  BY <2>2, <2>1, <1>1 DEF Byte
    <3> QED  BY <3>1, <2>1, <2>2 DEF Or, BIT
  <2>3. CASE k \notin p..b + 7 /\ k \in b + 8..b + 15 /\ k < p + 8
    <3>1. byte[k - p] \in BIT  BY <2>3, <2>1, <1>1 DEF Byte
    <3> QED  BY <3>1, <2>1, <2>3
  <2> QED  BY <2>1, <2>2, <2>3
<1>5. e \in [Bits(Room) -> BIT]
  BY <1>3, <1>4
<1>6. \A k \in Bits(Room) : e[k] = V(k)
  BY <1>3
<1>7. \A k \in Bits(Room) : k < p => e[k] = d[k]
  BY <1>1, <1>6 DEF Bits
<1>8. \A i \in 0..7 : i < n => e[p + i] = byte[i]
  <2> SUFFICES ASSUME NEW i \in 0..7, i < n PROVE e[p + i] = byte[i]  OBVIOUS
  <2>1. p + i \in Bits(Room) /\ (p + i) - p = i /\ byte[i] \in BIT
    BY <1>2 DEF Bits, Byte
  <2>2. CASE p + i <= b + 7
    <3>1. p + i \in p..b + 7  BY <2>2, <1>1
    <3>2. p # b => d[p + i] = 0
      BY <3>1 DEF Clear, b
    <3> QED  BY <3>1, <3>2, <2>1, <1>6 DEF Or
  <2>3. CASE p + i > b + 7
    <3>1. /\ p + i \notin p..b + 7 /\ p # b
          /\ (p - b) + toGo > 8 /\ p + i \in b + 8..b + 15 /\ p + i < p + 8
      BY <2>3, <1>1, <1>2
    <3> QED  BY <3>1, <2>1, <1>6
  <2>4. p + i <= b + 7 \/ p + i > b + 7
    BY <1>1
  <2> QED  BY <2>2, <2>3, <2>4
<1>9. ASSUME \A j \in 0..7 : j >= n => byte[j] = 0 PROVE Clear(e, p + n)
  <2> DEFINE c == ByteOf(p + n)
  <2>1. /\ c = 8 * ((p + n) \div 8) /\ (p + n) \div 8 \in Nat /\ c \in Nat
        /\ c <= p + n /\ p + n <= c + 7
    <3>1. p + n \in Nat  BY <1>2
    <3> QED  BY <3>1, ByteOfSplit, Split
  <2> HIDE DEF c
  <2> SUFFICES ASSUME NEW k \in p + n..c + 7, p + n # c PROVE e[k] = 0
    BY DEF Clear, c
  <2>2. c = b \/ c = b + 8
    BY <2>1, <1>1, <1>2
  <2>3. k \in Bits(Room)
    <3>1. p + n <= 8 * Room /\ p + n # 8 * Room
      BY <1>2, <2>1
    <3>2. c + 7 < 8 * Room
      BY <3>1, <2>1, <1>2
    <3> QED  BY <3>2, <2>1, <1>2 DEF Bits
  <2>4. CASE c = b
    <3>1. k \in p..b + 7 /\ k - p \in 0..7 /\ k - p >= n
      BY <2>4, <1>1, <1>2
    <3>2. byte[k - p] = 0  BY <3>1, <1>9
    <3>3. p # b => d[k] = 0  BY <3>1 DEF Clear, b
    <3> QED  BY <3>1, <3>2, <3>3, <2>3, <1>6 DEF Or
  <2>5. CASE c = b + 8
    <3>1. k \notin p..b + 7 /\ k \in b + 8..b + 15 /\ p # b /\ (p - b) + toGo > 8
      BY <2>5, <2>1, <1>1, <1>2
    <3>2. CASE k < p + 8
      <4>1. k - p \in 0..7 /\ k - p >= n  BY <3>2, <1>2
      <4>2. byte[k - p] = 0  BY <4>1, <1>9
      <4> QED  BY <4>2, <3>1, <3>2, <2>3, <1>6
    <3>3. CASE ~(k < p + 8)
      BY <3>1, <3>3, <2>3, <1>6
    <3> QED  BY <3>2, <3>3
  <2> QED  BY <2>2, <2>4, <2>5
<1> QED  BY <1>5, <1>7, <1>8, <1>9 DEF e, n

(* Write0, Write1 and an iteration of Write(bitStream).                     *)
LEMMA PutBitWrites ==
  ASSUME NEW d \in [Bits(Room) -> BIT], NEW p \in Bits(Room), NEW v \in BIT,
         Clear(d, p)
  PROVE  LET e == PutBit(d, p, v)
         IN  /\ e \in [Bits(Room) -> BIT]
             /\ \A k \in Bits(Room) : k < p => e[k] = d[k]
             /\ e[p] = v
             /\ Clear(e, p + 1)
<1> DEFINE b == ByteOf(p)
           e == PutBit(d, p, v)
<1>1. /\ b = 8 * (p \div 8) /\ b \in Nat /\ b <= p /\ p <= b + 7 /\ p \div 8 \in Nat
      /\ p \in Nat /\ p < 8 * Room /\ b + 8 <= 8 * Room /\ (p = b <=> p % 8 = 0)
  <2>1. p \in Nat /\ p < 8 * Room  BY DEF Bits
  <2>2. /\ b = 8 * (p \div 8) /\ b \in Nat /\ b <= p /\ p <= b + 7 /\ p \div 8 \in Nat
        /\ (p = b <=> p % 8 = 0)
    BY <2>1, ByteOfSplit, Split
  <2> HIDE DEF b
  <2> QED  BY <2>1, <2>2
<1>2. CASE p % 8 = 0
  <2> DEFINE byte == [Blank EXCEPT ![0] = v]
  <2>1. byte \in Byte /\ byte[0] = v /\ \A j \in 1..7 : byte[j] = 0
    BY DEF Byte, Blank, BIT
  <2>2. e = Put(d, p, byte, 8)
    BY <1>2 DEF PutBit
  <2>3. p + 8 <= 8 * Room /\ p = b
    BY <1>1, <1>2
  <2>4. /\ e \in [Bits(Room) -> BIT]
        /\ \A k \in Bits(Room) : k < p => e[k] = d[k]
        /\ \A i \in 0..7 : i < Least(8, 8) => e[p + i] = byte[i]
    <3> HIDE DEF byte, b
    <3>1. LET f == Put(d, p, byte, 8)
          IN  /\ f \in [Bits(Room) -> BIT]
              /\ \A k \in Bits(Room) : k < p => f[k] = d[k]
              /\ \A i \in 0..7 : i < Least(8, 8) => f[p + i] = byte[i]
      BY <2>1, <2>3, <1>1, PutWrites
    <3> QED  BY <3>1, <2>2
  <2>5. \A i \in 0..7 : e[p + i] = byte[i]
    BY <2>4 DEF Least
  <2>6. e[p] = v
    <3>1. e[p + 0] = byte[0] /\ p + 0 = p  BY <2>5, <1>1
    <3> QED  BY <3>1, <2>1
  <2>7. Clear(e, p + 1)
    <3>1. ByteOf(p + 1) = b
      <4>1. p + 1 = 8 * (p \div 8) + 1  BY <1>1, <2>3
      <4>2. (p + 1) % 8 = 1  BY <4>1, <1>1, Eights
      <4> HIDE DEF b
      <4> QED  BY <4>2, <1>1, <2>3 DEF ByteOf
    <3> HIDE DEF b, e, byte
    <3> SUFFICES ASSUME NEW k \in p + 1..b + 7 PROVE e[k] = 0
      BY <3>1 DEF Clear
    <3>2. k - p \in 1..7 /\ k - p \in 0..7 /\ p + (k - p) = k
      BY <1>1, <2>3
    <3>3. e[p + (k - p)] = byte[k - p]  BY <3>2, <2>5
    <3> QED  BY <3>2, <3>3, <2>1
  <2> QED  BY <2>4, <2>6, <2>7
<1>3. CASE p % 8 # 0
  <2>1. e = [d EXCEPT ![p] = Or(d[p], v)]
    BY <1>3 DEF PutBit
  <2>2. d[p] = 0
    BY <1>1, <1>3 DEF Clear, b
  <2>3. Or(d[p], v) = v
    BY <2>2 DEF Or
  <2>4. /\ e \in [Bits(Room) -> BIT] /\ e[p] = v
        /\ \A k \in Bits(Room) : k # p => e[k] = d[k]
    BY <2>1, <2>3
  <2> HIDE DEF e
  <2>5. Clear(e, p + 1)
    <3> DEFINE c == ByteOf(p + 1)
    <3>1. /\ c = 8 * ((p + 1) \div 8) /\ (p + 1) \div 8 \in Nat /\ c \in Nat
          /\ c <= p + 1 /\ p + 1 <= c + 7
      <4>1. p + 1 \in Nat  BY <1>1
      <4> QED  BY <4>1, ByteOfSplit, Split
    <3> HIDE DEF c, b
    <3> SUFFICES ASSUME NEW k \in p + 1..c + 7, p + 1 # c PROVE e[k] = 0
      BY DEF Clear, c
    <3>2. c = b  BY <3>1, <1>1
    <3>3. k \in p..b + 7 /\ k # p /\ k \in Bits(Room) /\ p # b
      BY <3>2, <1>1, <1>3 DEF Bits
    <3>4. d[k] = 0  BY <3>3 DEF Clear, b
    <3> QED  BY <3>3, <3>4, <2>4
  <2>6. \A k \in Bits(Room) : k < p => e[k] = d[k]
    BY <2>4 DEF Bits
  <2> QED  BY <2>4, <2>5, <2>6 DEF e
<1> QED  BY <1>2, <1>3, <1>1

(* dataByte is the next eight bits meant by the input, and is clear after   *)
(* the last of them.                                                        *)
LEMMA DataByteMeans ==
  ASSUME NEW in \in Input, NEW toGo \in 1..in.bits, (in.bits - toGo) % 8 = 0,
         in.bits <= 8 * Len(in.bytes)
  PROVE  /\ DataByte(in, toGo) \in Byte
         /\ \A i \in 0..7 : i < Least(8, toGo) =>
              DataByte(in, toGo)[i] = Meant(in, (in.bits - toGo) + i)
         /\ Tidy(in) =>
              \A j \in 0..7 : j >= Least(8, toGo) => DataByte(in, toGo)[j] = 0
<1> DEFINE s == in.bits - toGo
           q == s \div 8
           byte == in.bytes[q + 1]
<1>1. in.bits \in Nat /\ in.bytes \in Seq(Byte) /\ in.right \in BOOLEAN
  BY DEF Input
<1>2. s \in Nat /\ q \in Nat /\ s = 8 * q
  <2>1. s \in Nat  BY <1>1
  <2> HIDE DEF s
  <2>2. s % 8 = 0  BY DEF s
  <2> QED  BY <2>1, <2>2, Split
<1>3. byte \in Byte
  <2>1. q + 1 \in 1..Len(in.bytes)
    <3>1. Len(in.bytes) \in Nat  BY <1>1
    <3>2. 8 * q < 8 * Len(in.bytes)
      <4> DEFINE bits == in.bits
                 L == Len(in.bytes)
      <4>1. bits \in Nat /\ bits - toGo = 8 * q /\ q \in Nat /\ bits <= 8 * L
        BY <1>1, <1>2
      <4>2. toGo \in Int /\ toGo > 0  BY <1>1
      <4> HIDE DEF bits, q, L
      <4>3. 8 * q < 8 * L  BY <4>1, <4>2, <3>1 DEF L
      <4> QED  BY <4>3 DEF L
    <3> HIDE DEF q
    <3> QED  BY <1>2, <3>1, <3>2
  <2> HIDE DEF q
  <2> QED  BY <2>1, <1>1
<1>4. \A j \in 0..7 : byte[j] \in BIT
  BY <1>3 DEF Byte
<1>5. \A i \in 0..7 :
        Meant(in, s + i) = byte[IF in.right /\ toGo < 8 THEN i + (8 - toGo) ELSE i]
  <2> SUFFICES ASSUME NEW i \in 0..7
               PROVE  Meant(in, s + i) = byte[IF in.right /\ toGo < 8
                                              THEN i + (8 - toGo) ELSE i]
    OBVIOUS
  <2>1. (s + i) % 8 = i /\ (s + i) \div 8 = q
    <3> HIDE DEF s, q
    <3>1. (8 * q + i) % 8 = i /\ (8 * q + i) \div 8 = q
      BY <1>2, Eights
    <3>2. s + i = 8 * q + i  BY <1>2
    <3> QED  BY <3>1, <3>2
  <2>2. in.bits - ((s + i) - ((s + i) % 8)) = toGo
    <3> DEFINE r == (s + i) % 8
    <3>1. r = i  BY <2>1
    <3> HIDE DEF r
    <3>2. in.bits - ((s + i) - r) = toGo  BY <3>1, <1>1
    <3> QED  BY <3>2 DEF r
  <2> HIDE DEF s, q
  <2> QED  BY <2>1, <2>2 DEF Meant
<1>6. CASE toGo < 8 /\ in.right
  <2>1. DataByte(in, toGo) = [j \in 0..7 |-> IF j < toGo THEN byte[j + (8 - toGo)] ELSE 0]
    BY <1>6 DEF DataByte
  <2>2. Least(8, toGo) = toGo  BY <1>1, <1>6 DEF Least
  <2>3. \A j \in 0..7 : j < toGo => byte[j + (8 - toGo)] \in BIT
    <3> HIDE DEF byte
    <3> SUFFICES ASSUME NEW j \in 0..7, j < toGo PROVE byte[j + (8 - toGo)] \in BIT
      OBVIOUS
    <3>1. j + (8 - toGo) \in 0..7  BY <1>1, <1>6
    <3> QED  BY <3>1, <1>4
  <2> HIDE DEF byte, s
  <2>4. DataByte(in, toGo) \in Byte
    <3>1. \A j \in 0..7 : (IF j < toGo THEN byte[j + (8 - toGo)] ELSE 0) \in BIT
      BY <2>3 DEF BIT
    <3> QED  BY <2>1, <3>1 DEF Byte
  <2>5. ASSUME NEW i \in 0..7, i < toGo PROVE DataByte(in, toGo)[i] = Meant(in, s + i)
    BY <2>1, <2>5, <1>5, <1>6
  <2>6. ASSUME NEW j \in 0..7, ~(j < toGo) PROVE DataByte(in, toGo)[j] = 0
    BY <2>1, <2>6
  <2>7. toGo \in Int  BY <1>1
  <2>8. \A j \in 0..7 : j >= toGo => ~(j < toGo)  BY <2>7
  <2> QED  BY <2>2, <2>4, <2>5, <2>6, <2>8 DEF s
<1>7. CASE ~(toGo < 8 /\ in.right)
  <2>1. DataByte(in, toGo) = byte
    BY <1>7 DEF DataByte
  <2>2. \A i \in 0..7 : Meant(in, s + i) = byte[i]
    BY <1>5, <1>7
  <2>3. ASSUME Tidy(in), NEW j \in 0..7, j >= Least(8, toGo) PROVE byte[j] = 0
    <3>1. toGo < 8 /\ j >= toGo
      BY <2>3, <1>1 DEF Least
    <3>2. in.bits = 8 * q + toGo /\ toGo \in 0..7 /\ toGo # 0
      <4> DEFINE bits == in.bits
      <4>1. bits - toGo = 8 * q /\ bits \in Nat /\ toGo \in Int /\ toGo > 0 /\ toGo < 8
        <5>1. in.bits - toGo = 8 * q  BY <1>2
        <5>2. toGo \in Int /\ toGo > 0  BY <1>1
        <5> QED  BY <5>1, <5>2, <3>1, <1>1
      <4>2. q \in Nat  BY <1>2
      <4> HIDE DEF q, bits
      <4>3. bits = 8 * q + toGo /\ toGo \in 0..7 /\ toGo # 0
        BY <4>1, <4>2
      <4> QED  BY <4>3 DEF bits
    <3>3. in.bits % 8 = toGo /\ in.bits \div 8 = q
      <4> HIDE DEF q, s
      <4> QED  BY <3>2, <1>2, Eights
    <3>4. ~in.right  BY <3>1, <1>7
    <3>5. byte = in.bytes[in.bits \div 8 + 1]  BY <3>3
    <3> HIDE DEF q, byte, s
    <3> QED  BY <2>3, <3>1, <3>2, <3>3, <3>4, <3>5 DEF Tidy
  <2> QED  BY <2>1, <2>2, <2>3, <1>3
<1> QED  BY <1>6, <1>7

(* The bits an input means are bits, and there are in.bits of them.         *)
LEMMA MeantIsBit ==
  ASSUME NEW in \in Inputs, NEW i \in 0..in.bits - 1
  PROVE  Meant(in, i) \in BIT
<1> DEFINE q == i \div 8
           r == i % 8
<1>1. in.bits \in Nat /\ in.bytes \in Seq(Byte) /\ in.bits <= 8 * Len(in.bytes)
      /\ Len(in.bytes) \in Nat
  BY DEF Input
<1>2. i \in Nat /\ i < in.bits
  BY <1>1
<1>3. q \in Nat /\ r \in 0..7 /\ i = 8 * q + r
  BY <1>2, Split
<1> HIDE DEF q, r
<1>4. q + 1 \in 1..Len(in.bytes)
  BY <1>1, <1>2, <1>3
<1>5. in.bytes[q + 1] \in Byte
  BY <1>1, <1>4
<1>6. ASSUME NEW j \in 0..7 PROVE in.bytes[q + 1][j] \in BIT
  BY <1>5 DEF Byte
<1> DEFINE left == in.bits - (i - r)
<1>7. left \in Nat /\ r < left
  BY <1>1, <1>2, <1>3
<1>8. Meant(in, i) = in.bytes[q + 1][IF in.right /\ left < 8 THEN r + (8 - left) ELSE r]
  BY DEF Meant, q, r
<1> HIDE DEF left
<1>9. (IF in.right /\ left < 8 THEN r + (8 - left) ELSE r) \in 0..7
  BY <1>3, <1>7
<1> QED  BY <1>6, <1>8, <1>9

LEMMA MeantBitsAre ==
  ASSUME NEW in \in Inputs
  PROVE  /\ MeantBits(in) \in Seq(BIT)
         /\ Len(MeantBits(in)) = in.bits
         /\ \A i \in 1..in.bits : MeantBits(in)[i] = Meant(in, i - 1)
<1>1. in.bits \in Nat  BY DEF Input
<1>2. ASSUME NEW i \in 1..in.bits PROVE Meant(in, i - 1) \in BIT
  <2>1. i - 1 \in 0..in.bits - 1  BY <1>1
  <2> QED  BY <2>1, MeantIsBit
<1> DEFINE n == in.bits
<1>3. MeantBits(in) = [i \in 1..n |-> Meant(in, i - 1)]  BY DEF MeantBits
<1>4. n \in Nat /\ \A i \in 1..n : Meant(in, i - 1) \in BIT  BY <1>1, <1>2
<1> HIDE DEF n
<1>5. /\ MeantBits(in) \in Seq(BIT) /\ Len(MeantBits(in)) = n
      /\ \A i \in 1..n : MeantBits(in)[i] = Meant(in, i - 1)
  BY <1>3, <1>4
<1> QED  BY <1>5 DEF n

(* Got takes the stream's next bits, where Meant looks for them.            *)
LEMMA GotMeans ==
  ASSUME NEW p \in Nat, NEW toGo \in Nat \ {0}, NEW right \in BOOLEAN,
         NEW i \in 0..Least(8, toGo) - 1
  PROVE  Got(p, toGo, right)[IF right /\ toGo < 8 THEN i + (8 - toGo) ELSE i]
           = data[p + i]
<1> DEFINE m == p % 8
           byte == [j \in 0..7 |->
                      IF j < 8 - m \/ (m > 0 /\ toGo > 8 - m) THEN data[p + j] ELSE 0]
<1>1. m \in 0..7  BY Split
<1>2. i \in 0..7 /\ i < toGo
  BY DEF Least
<1>3. byte[i] = data[p + i]
  <2> HIDE DEF m
  <2>1. i < 8 - m \/ (m > 0 /\ toGo > 8 - m)
    BY <1>1, <1>2
  <2> QED  BY <1>2, <2>1
<1>4. CASE toGo < 8 /\ right
  <2>1. Got(p, toGo, right) = [j \in 0..7 |-> IF j >= 8 - toGo THEN byte[j - (8 - toGo)] ELSE 0]
    BY <1>4 DEF Got
  <2> HIDE DEF byte
  <2>2. /\ i + (8 - toGo) \in 0..7 /\ i + (8 - toGo) >= 8 - toGo
        /\ (i + (8 - toGo)) - (8 - toGo) = i
    BY <1>2, <1>4
  <2> QED  BY <2>1, <2>2, <1>3, <1>4
<1>5. CASE ~(toGo < 8 /\ right)
  <2>1. Got(p, toGo, right) = byte
    BY <1>5 DEF Got
  <2> HIDE DEF byte
  <2> QED  BY <2>1, <1>3, <1>5
<1> QED  BY <1>4, <1>5

-----------------------------------------------------------------------------
(* The inductive invariant: HoldsWhatWasWritten speaks of whole calls; what *)
(* it needs in the middle of one is where each loop is in its input, and    *)
(* that the bits after the last one are clear in its byte.                  *)

Call == [op : {"none", "WriteBits", "WriteStream", "ReadBits", "returned"},
         in : Input, toGo : Nat, from : Nat]

Types ==
  /\ data \in [Bits(Room) -> BIT]
  /\ numberOfBitsUsed \in 0..8 * Room /\ readOffset \in 0..8 * Room
  /\ call \in Call
  /\ written \in Seq(BIT)

Kept ==
  /\ Clear(data, numberOfBitsUsed)
  /\ \A k \in 0..numberOfBitsUsed - 1 : data[k] = written[k + 1]

Lengths ==
  /\ call.toGo <= call.in.bits /\ (Busy <=> call.toGo > 0)
  /\ Len(written) = numberOfBitsUsed + (IF call.op \in {"WriteBits", "WriteStream"}
                                        THEN call.toGo ELSE 0)

InWriteBits == call.op = "WriteBits" =>
  /\ call.in \in Inputs /\ (call.in.bits - call.toGo) % 8 = 0
  /\ numberOfBitsUsed + call.toGo <= 8 * Room
  /\ \A i \in 0..call.toGo - 1 :
       written[numberOfBitsUsed + 1 + i] = Meant(call.in, (call.in.bits - call.toGo) + i)

InWriteStream == call.op = "WriteStream" =>
  /\ call.in \in Inputs /\ call.from <= numberOfBitsUsed
  /\ (numberOfBitsUsed - call.from) + call.toGo <= call.in.bits
  /\ numberOfBitsUsed + call.toGo <= 8 * Room
  /\ \A i \in 0..call.toGo - 1 :
       written[numberOfBitsUsed + 1 + i] = Meant(call.in, (numberOfBitsUsed - call.from) + i)

InReadBits == call.op = "ReadBits" =>
  LET done == call.in.bits - call.toGo IN
  /\ done % 8 = 0 /\ readOffset = call.from + done
  /\ readOffset + call.toGo <= numberOfBitsUsed
  /\ output \in Seq(Byte) /\ Len(output) = done \div 8
  /\ \A i \in 0..done - 1 : output[(i \div 8) + 1][i % 8] = data[call.from + i]

IInv ==
  /\ Types /\ Kept /\ Lengths
  /\ InWriteBits /\ InWriteStream /\ InReadBits /\ ReadsWhatWasWritten

LEMMA IdleCall ==
  /\ Idle \in Call /\ Idle.op = "none" /\ Idle.toGo = 0 /\ Idle.in.bits = 0
<1> DEFINE none == [bytes |-> <<>>, bits |-> 0, right |-> TRUE]
<1>1. none \in Input
  <2>1. <<>> \in Seq(Byte) /\ 0 \in Nat  OBVIOUS
  <2> QED  BY <2>1, Zenon DEF Input
<1>2. Idle = [op |-> "none", in |-> none, toGo |-> 0, from |-> 0] /\ none.bits = 0
  BY DEF Idle
<1> HIDE DEF none
<1> QED  BY <1>1, <1>2 DEF Call

(* Most calls are over in a step: only the stream itself matters then.      *)
LEMMA AtOnce ==
  ASSUME call' = Idle, (Types /\ Kept)', Len(written') = numberOfBitsUsed'
  PROVE  IInv'
<1>1. call'.op = "none" /\ call'.toGo = 0 /\ call'.in.bits = 0 /\ numberOfBitsUsed' \in Nat
  BY IdleCall DEF Types
<1>2. Lengths'
  <2>1. ~Busy'  BY <1>1 DEF Busy
  <2>2. (call.toGo <= call.in.bits)' /\ ~(call.toGo > 0)'
    BY <1>1
  <2>3. call'.op \notin {"WriteBits", "WriteStream"}
    BY <1>1
  <2>4. Len(written') = numberOfBitsUsed' + 0
    BY <1>1
  <2> QED  BY <2>1, <2>2, <2>3, <2>4 DEF Lengths
<1>3. (InWriteBits /\ InWriteStream /\ InReadBits /\ ReadsWhatWasWritten)'
  BY <1>1 DEF InWriteBits, InWriteStream, InReadBits, ReadsWhatWasWritten
<1> QED  BY <1>2, <1>3 DEF IInv

LEMMA ClearAtZero == \A d : Clear(d, 0)
<1>1. ByteOf(0) = 0  BY ByteOfSplit
<1> QED  BY <1>1 DEF Clear

LEMMA InitInv == Init => IInv
<1> SUFFICES ASSUME Init PROVE IInv  OBVIOUS
<1>1. Types
  BY IdleCall DEF Init, Types
<1>2. Kept
  BY ClearAtZero DEF Init, Kept
<1>3. call.op = "none" /\ call.toGo = 0 /\ call.in.bits = 0 /\ Len(written) = 0 /\ numberOfBitsUsed = 0
  BY IdleCall DEF Init
<1> QED  BY <1>1, <1>2, <1>3
            DEF IInv, Lengths, InWriteBits, InWriteStream, InReadBits, ReadsWhatWasWritten, Busy

-----------------------------------------------------------------------------
(* Writing.                                                                 *)

LEMMA Written ==
  ASSUME NEW w \in Seq(BIT), NEW t \in Seq(BIT)
  PROVE  /\ w \o t \in Seq(BIT) /\ Len(w \o t) = Len(w) + Len(t)
         /\ \A k \in 1..Len(w) : (w \o t)[k] = w[k]
         /\ \A i \in 1..Len(t) : (w \o t)[Len(w) + i] = t[i]
<1>1. /\ w \o t \in Seq(BIT) /\ Len(w \o t) = Len(w) + Len(t)
      /\ \A i \in 1..Len(w) + Len(t) :
           (w \o t)[i] = IF i <= Len(w) THEN w[i] ELSE t[i - Len(w)]
  BY ConcatProperties
<1>2. Len(w) \in Nat /\ Len(t) \in Nat  OBVIOUS
<1>3. ASSUME NEW k \in 1..Len(w) PROVE (w \o t)[k] = w[k]
  BY <1>1, <1>2
<1>4. ASSUME NEW i \in 1..Len(t) PROVE (w \o t)[Len(w) + i] = t[i]
  <2>1. Len(w) + i \in 1..Len(w) + Len(t) /\ ~(Len(w) + i <= Len(w)) /\ (Len(w) + i) - Len(w) = i
    BY <1>2
  <2> QED  BY <2>1, <1>1
<1> QED  BY <1>1, <1>3, <1>4

LEMMA NotBusy ==
  ASSUME IInv, ~Busy
  PROVE  /\ numberOfBitsUsed \in 0..8 * Room /\ numberOfBitsUsed \in Nat
         /\ data \in [Bits(Room) -> BIT] /\ Clear(data, numberOfBitsUsed)
         /\ written \in Seq(BIT) /\ Len(written) = numberOfBitsUsed
         /\ \A k \in 0..numberOfBitsUsed - 1 : data[k] = written[k + 1]
         /\ readOffset \in 0..8 * Room /\ readOffset \in Nat
<1>1. call.op \notin {"WriteBits", "WriteStream"}
  BY DEF Busy
<1>2. Types /\ Kept /\ numberOfBitsUsed \in Nat /\ readOffset \in Nat
  BY DEF IInv, Types
<1>3. Len(written) = numberOfBitsUsed + 0
  BY <1>1 DEF IInv, Lengths
<1> QED  BY <1>2, <1>3 DEF Types, Kept

LEMMA StillKept ==
  ASSUME Kept, numberOfBitsUsed \in Nat, data' = data, numberOfBitsUsed' = numberOfBitsUsed,
         \A k \in 1..numberOfBitsUsed : written'[k] = written[k]
  PROVE  Kept'
<1>1. Clear(data, numberOfBitsUsed)'  BY DEF Kept, Clear
<1>2. ASSUME NEW k \in 0..numberOfBitsUsed - 1 PROVE data'[k] = written'[k + 1]
  <2>1. k + 1 \in 1..numberOfBitsUsed  OBVIOUS
  <2> QED  BY <2>1 DEF Kept
<1> QED  BY <1>1, <1>2 DEF Kept

LEMMA BeginWriteBitsInv ==
  ASSUME IInv, NEW in \in Inputs, BeginWriteBits(in)
  PROVE  IInv'
<1>1. in \in Input /\ in.bits \in 1..8 * Len(in.bytes) /\ in.bits \in Nat
  BY DEF Input
<1>2. /\ call' = [op |-> "WriteBits", in |-> in, toGo |-> in.bits, from |-> numberOfBitsUsed]
      /\ numberOfBitsUsed + in.bits <= 8 * Room
      /\ written' = written \o MeantBits(in)
      /\ data' = data /\ numberOfBitsUsed' = numberOfBitsUsed /\ readOffset' = readOffset
      /\ ~Busy
  BY DEF BeginWriteBits
<1>3. /\ Types /\ Kept /\ numberOfBitsUsed \in Nat /\ written \in Seq(BIT)
      /\ Len(written) = numberOfBitsUsed
  BY <1>2 DEF IInv, Types, Lengths, Busy
<1>4. /\ written' \in Seq(BIT) /\ Len(written') = numberOfBitsUsed + in.bits
      /\ \A k \in 1..numberOfBitsUsed : written'[k] = written[k]
      /\ \A i \in 1..in.bits : written'[numberOfBitsUsed + i] = Meant(in, i - 1)
  <2> DEFINE t == MeantBits(in)
  <2>1. /\ t \in Seq(BIT) /\ Len(t) = in.bits
        /\ \A i \in 1..in.bits : t[i] = Meant(in, i - 1)
    BY MeantBitsAre
  <2>2. written' = written \o t  BY <1>2
  <2> HIDE DEF t
  <2>3. /\ written \o t \in Seq(BIT) /\ Len(written \o t) = Len(written) + Len(t)
        /\ \A k \in 1..Len(written) : (written \o t)[k] = written[k]
        /\ \A i \in 1..Len(t) : (written \o t)[Len(written) + i] = t[i]
    BY <2>1, <1>3, Written
  <2> QED  BY <2>1, <2>2, <2>3, <1>1, <1>3
<1>5. Types'
  BY <1>1, <1>2, <1>3, <1>4 DEF Types, Call
<1>6. Kept'
  BY <1>2, <1>3, <1>4, StillKept
<1>7. Lengths'
  BY <1>1, <1>2, <1>4 DEF Lengths, Busy
<1>8. InWriteBits'
  <2>1. (in.bits - in.bits) % 8 = 0  BY <1>1
  <2>2. ASSUME NEW i \in 0..in.bits - 1
        PROVE  written'[numberOfBitsUsed + 1 + i] = Meant(in, (in.bits - in.bits) + i)
    <3>1. /\ i + 1 \in 1..in.bits /\ (i + 1) - 1 = i /\ (in.bits - in.bits) + i = i
          /\ numberOfBitsUsed + (i + 1) = numberOfBitsUsed + 1 + i
      BY <1>1, <1>3
    <3> QED  BY <3>1, <1>4
  <2> QED  BY <2>1, <2>2, <1>1, <1>2 DEF InWriteBits
<1> QED  BY <1>2, <1>5, <1>6, <1>7, <1>8
            DEF IInv, InWriteStream, InReadBits, ReadsWhatWasWritten

LEMMA BeginWriteStreamInv ==
  ASSUME IInv, NEW in \in Inputs, NEW n \in Sizes, BeginWriteStream(in, n)
  PROVE  IInv'
<1> DEFINE m == Least(n, in.bits)
<1>1. in \in Input /\ in.bits \in Nat \ {0} /\ n \in Nat
  BY DEF Input
<1>2. m \in Nat \ {0} /\ m <= n /\ m <= in.bits
  BY <1>1 DEF Least
<1>3. /\ call' = [op |-> "WriteStream", in |-> in, toGo |-> m, from |-> numberOfBitsUsed]
      /\ numberOfBitsUsed + n <= 8 * Room
      /\ written' = written \o SubSeq(MeantBits(in), 1, m)
      /\ data' = data /\ numberOfBitsUsed' = numberOfBitsUsed /\ readOffset' = readOffset
      /\ ~Busy
  BY DEF BeginWriteStream
<1> HIDE DEF m
<1>4. /\ Types /\ Kept /\ numberOfBitsUsed \in Nat /\ written \in Seq(BIT)
      /\ Len(written) = numberOfBitsUsed
  BY <1>3 DEF IInv, Types, Lengths, Busy
<1>5. /\ SubSeq(MeantBits(in), 1, m) \in Seq(BIT) /\ Len(SubSeq(MeantBits(in), 1, m)) = m
      /\ \A i \in 1..m : SubSeq(MeantBits(in), 1, m)[i] = Meant(in, i - 1)
  <2> DEFINE t == MeantBits(in)
  <2>1. t \in Seq(BIT) /\ Len(t) = in.bits /\ \A i \in 1..in.bits : t[i] = Meant(in, i - 1)
    BY MeantBitsAre
  <2> HIDE DEF t
  <2>2. /\ SubSeq(t, 1, m) \in Seq(BIT) /\ Len(SubSeq(t, 1, m)) = m
        /\ \A i \in 1..m : SubSeq(t, 1, m)[i] = t[i] /\ i \in 1..in.bits
    BY <2>1, <1>1, <1>2
  <2> QED  BY <2>1, <2>2 DEF t
<1>6. /\ written' \in Seq(BIT) /\ Len(written') = numberOfBitsUsed + m
      /\ \A k \in 1..numberOfBitsUsed : written'[k] = written[k]
      /\ \A i \in 1..m : written'[numberOfBitsUsed + i] = Meant(in, i - 1)
  <2> DEFINE t == SubSeq(MeantBits(in), 1, m)
  <2>1. /\ t \in Seq(BIT) /\ Len(t) = m /\ \A i \in 1..m : t[i] = Meant(in, i - 1)
        /\ written' = written \o t
    BY <1>3, <1>5
  <2> HIDE DEF t
  <2>2. /\ written \o t \in Seq(BIT) /\ Len(written \o t) = Len(written) + Len(t)
        /\ \A k \in 1..Len(written) : (written \o t)[k] = written[k]
        /\ \A i \in 1..Len(t) : (written \o t)[Len(written) + i] = t[i]
    BY <2>1, <1>4, Written
  <2> QED  BY <2>1, <2>2, <1>2, <1>4
<1>7. Types'
  BY <1>1, <1>2, <1>3, <1>4, <1>6 DEF Types, Call
<1>8. Kept'
  BY <1>3, <1>4, <1>6, StillKept
<1>9. Lengths'
  BY <1>2, <1>3, <1>6 DEF Lengths, Busy
<1>10. InWriteStream'
  <2>1. ASSUME NEW i \in 0..m - 1
        PROVE  written'[numberOfBitsUsed + 1 + i]
                 = Meant(in, (numberOfBitsUsed - numberOfBitsUsed) + i)
    <3>1. /\ i + 1 \in 1..m /\ (i + 1) - 1 = i /\ (numberOfBitsUsed - numberOfBitsUsed) + i = i
          /\ numberOfBitsUsed + (i + 1) = numberOfBitsUsed + 1 + i
      BY <1>2, <1>4
    <3> QED  BY <3>1, <1>6
  <2>2. numberOfBitsUsed + m <= 8 * Room /\ (numberOfBitsUsed - numberOfBitsUsed) + m <= in.bits
    BY <1>1, <1>2, <1>3, <1>4
  <2>3. /\ call'.in = in /\ call'.toGo = m /\ call'.from = numberOfBitsUsed
        /\ numberOfBitsUsed <= numberOfBitsUsed
    BY <1>3, <1>4
  <2> QED  BY <2>1, <2>2, <2>3, <1>3 DEF InWriteStream
<1> QED  BY <1>3, <1>7, <1>8, <1>9, <1>10
            DEF IInv, InWriteBits, InReadBits, ReadsWhatWasWritten

LEMMA WriteByteInv ==
  ASSUME TidyCallers, IInv, WriteByte
  PROVE  IInv'
<1> DEFINE u == numberOfBitsUsed
           in == call.in
           toGo == call.toGo
           bits == call.in.bits
           n == Least(8, toGo)
           byte == DataByte(in, toGo)
<1>1. /\ call.op = "WriteBits" /\ data' = Put(data, u, byte, toGo)
      /\ u' = u + n
      /\ call' = IF toGo > 8 THEN [call EXCEPT !.toGo = @ - 8] ELSE Idle
      /\ readOffset' = readOffset /\ written' = written
  BY DEF WriteByte
<1>2. /\ call \in Call /\ toGo \in Nat \ {0} /\ toGo <= bits /\ bits \in Nat
      /\ u \in Nat /\ data \in [Bits(Room) -> BIT] /\ Clear(data, u)
      /\ written \in Seq(BIT) /\ Len(written) = u + toGo
      /\ \A k \in 0..u - 1 : data[k] = written[k + 1]
      /\ readOffset \in 0..8 * Room
  BY <1>1 DEF IInv, Types, Kept, Lengths, Busy, Call, Input
<1>3. /\ in \in Inputs /\ in \in Input /\ bits \in 1..8 * Len(in.bytes)
      /\ (bits - toGo) % 8 = 0 /\ u + toGo <= 8 * Room
      /\ \A i \in 0..toGo - 1 : written[u + 1 + i] = Meant(in, (bits - toGo) + i)
  BY <1>1 DEF IInv, InWriteBits
<1>4. n \in 1..8 /\ n <= toGo /\ (toGo > 8 => n = 8) /\ (~(toGo > 8) => n = toGo)
  <2>1. toGo \in Nat \ {0}  BY <1>2
  <2> HIDE DEF toGo
  <2> QED  BY <2>1 DEF Least
<1>5. /\ byte \in Byte
      /\ \A i \in 0..7 : i < n => byte[i] = Meant(in, (bits - toGo) + i)
      /\ Tidy(in) => \A j \in 0..7 : j >= n => byte[j] = 0
  <2>1. toGo \in 1..bits /\ bits <= 8 * Len(in.bytes)  BY <1>2, <1>3
  <2> QED  BY <2>1, <1>3, DataByteMeans
<1> HIDE DEF byte, n, bits, toGo, u
<1>a. /\ toGo \in Nat /\ toGo > 0 /\ bits \in Nat /\ u \in Nat
      /\ toGo <= bits /\ u + toGo <= 8 * Room
  BY <1>2, <1>3
<1>6. /\ data' \in [Bits(Room) -> BIT]
      /\ \A k \in Bits(Room) : k < u => data'[k] = data[k]
      /\ \A i \in 0..7 : i < n => data'[u + i] = byte[i]
      /\ (\A j \in 0..7 : j >= n => byte[j] = 0) => Clear(data', u + n)
  <2>1. LET e == Put(data, u, byte, toGo)
        IN  /\ e \in [Bits(Room) -> BIT]
            /\ \A k \in Bits(Room) : k < u => e[k] = data[k]
            /\ \A i \in 0..7 : i < n => e[u + i] = byte[i]
            /\ (\A j \in 0..7 : j >= n => byte[j] = 0) => Clear(e, u + n)
    BY <1>2, <1>3, <1>5, PutWrites DEF n
  <2> QED  BY <2>1, <1>1
<1>7. \A k \in 0..(u + n) - 1 : data'[k] = written'[k + 1]
  <2> SUFFICES ASSUME NEW k \in 0..(u + n) - 1 PROVE data'[k] = written[k + 1]
    BY <1>1
  <2>1. k \in Bits(Room)  BY <1>2, <1>3, <1>4 DEF Bits
  <2>2. CASE k < u
    BY <2>1, <2>2, <1>2, <1>6
  <2>3. CASE ~(k < u)
    <3> DEFINE i == k - u
    <3>1. i \in 0..7 /\ i < n /\ i \in 0..toGo - 1 /\ u + i = k /\ u + 1 + i = k + 1
      BY <2>3, <1>2, <1>4
    <3> HIDE DEF i
    <3>2. data'[u + i] = byte[i] /\ byte[i] = Meant(in, (bits - toGo) + i)
      BY <3>1, <1>5, <1>6
    <3>3. written[u + 1 + i] = Meant(in, (bits - toGo) + i)
      BY <3>1, <1>3
    <3> QED  BY <3>1, <3>2, <3>3
  <2> QED  BY <2>2, <2>3
<1>8. Clear(data', u + n) \/ ~Tidy(in)
  BY <1>5, <1>6
<1>9. ASSUME TidyCallers PROVE IInv'
  <2>1. Clear(data', u + n)  BY <1>3, <1>8, <1>9 DEF TidyCallers
  <2>2. Kept'  BY <2>1, <1>1, <1>7 DEF Kept, u
  <2>3. CASE ~(toGo > 8)
    <3>1. call' = Idle /\ Len(written') = u'  BY <2>3, <1>1, <1>2, <1>4
    <3>2. u' \in 0..8 * Room  BY <1>1, <1>4, <1>a
    <3>3. Types'  BY <3>1, <3>2, <1>1, <1>2, <1>6, IdleCall DEF Types, u
    <3> QED  BY <3>1, <3>3, <2>2, AtOnce DEF u
  <2>4. CASE toGo > 8
    <3>1. n = 8 /\ toGo - 8 \in Nat \ {0}  BY <2>4, <1>2, <1>4
    <3>2. /\ call' = [call EXCEPT !.toGo = toGo - 8] /\ call' \in Call
          /\ call'.op = "WriteBits" /\ call'.in = in /\ call'.toGo = toGo - 8
      BY <2>4, <3>1, <1>1, <1>2 DEF Call, toGo
    <3>3. Types'
      <4>1. u' \in 0..8 * Room
        <5> QED  BY <3>1, <1>1, <1>a
      <4> QED  BY <4>1, <3>2, <1>1, <1>2, <1>6 DEF Types, u
    <3>4. Lengths'
      <4>1. toGo - 8 <= bits /\ toGo - 8 > 0 /\ Len(written') = u' + (toGo - 8)
        <5> HIDE DEF toGo, u, in
        <5>1. Len(written') = u + toGo /\ u' = u + 8  BY <3>1, <1>1, <1>2
        <5> QED  BY <5>1, <3>1, <1>a
      <4>2. Busy'  BY <3>2 DEF Busy
      <4> QED  BY <4>1, <4>2, <3>2 DEF Lengths, u, toGo, bits
    <3>5. InWriteBits'
      <4>1. (bits - (toGo - 8)) % 8 = 0
        <5> DEFINE s == bits - toGo
        <5>1. s \in Nat /\ s % 8 = 0 /\ bits - (toGo - 8) = s + 8
          <6>1. s \in Nat /\ s % 8 = 0
            <7>1. s % 8 = 0  BY <1>3
            <7>2. s \in Nat  BY <1>a
            <7> QED  BY <7>1, <7>2
          <6>2. bits - (toGo - 8) = s + 8  BY <1>a
          <6> QED  BY <6>1, <6>2
        <5> HIDE DEF s
        <5>2. (s + 8) % 8 = 0  BY <5>1
        <5> QED  BY <5>1, <5>2
      <4>2. (u + 8) + (toGo - 8) <= 8 * Room
        BY <1>2, <1>3
      <4>3. ASSUME NEW i \in 0..(toGo - 8) - 1
            PROVE  written[(u + 8) + 1 + i] = Meant(in, (bits - (toGo - 8)) + i)
        <5>1. /\ i + 8 \in 0..toGo - 1 /\ u + 1 + (i + 8) = (u + 8) + 1 + i
              /\ (bits - toGo) + (i + 8) = (bits - (toGo - 8)) + i
          <6> QED  BY <1>a
        <5> QED  BY <5>1, <1>3
      <4> QED  BY <4>1, <4>2, <4>3, <3>1, <3>2, <1>1, <1>3 DEF InWriteBits, u, toGo, bits
    <3> QED  BY <2>2, <3>2, <3>3, <3>4, <3>5
                DEF IInv, InWriteStream, InReadBits, ReadsWhatWasWritten
  <2> QED  BY <2>3, <2>4
<1> QED  BY <1>9

LEMMA WriteStreamBitInv ==
  ASSUME IInv, WriteStreamBit
  PROVE  IInv'
<1> DEFINE u == numberOfBitsUsed
           in == call.in
           toGo == call.toGo
           from == call.from
           bits == call.in.bits
           v == Meant(in, u - from)
<1>1. /\ call.op = "WriteStream" /\ data' = PutBit(data, u, v)
      /\ u' = u + 1
      /\ call' = IF toGo > 1 THEN [call EXCEPT !.toGo = @ - 1] ELSE Idle
      /\ readOffset' = readOffset /\ written' = written
  BY DEF WriteStreamBit
<1>2. /\ call \in Call /\ toGo \in Nat \ {0} /\ from \in Nat /\ bits \in Nat
      /\ u \in Nat /\ data \in [Bits(Room) -> BIT] /\ Clear(data, u)
      /\ written \in Seq(BIT) /\ Len(written) = u + toGo
      /\ \A k \in 0..u - 1 : data[k] = written[k + 1]
      /\ readOffset \in 0..8 * Room
  BY <1>1 DEF IInv, Types, Kept, Lengths, Busy, Call, Input
<1>3. /\ in \in Inputs /\ from <= u /\ (u - from) + toGo <= bits /\ u + toGo <= 8 * Room
      /\ \A i \in 0..toGo - 1 : written[u + 1 + i] = Meant(in, (u - from) + i)
  BY <1>1 DEF IInv, InWriteStream
<1> HIDE DEF u, toGo, from, bits
<1>4. /\ toGo \in Nat /\ toGo > 0 /\ bits \in Nat /\ u \in Nat /\ from \in Nat
      /\ from <= u /\ (u - from) + toGo <= bits /\ u + toGo <= 8 * Room
  BY <1>2, <1>3
<1>5. v \in BIT /\ written[u + 1] = v
  <2>1. u - from \in 0..bits - 1 /\ 0 \in 0..toGo - 1 /\ u + 1 + 0 = u + 1
        /\ (u - from) + 0 = u - from
    BY <1>4
  <2>2. v \in BIT  BY <2>1, <1>3, MeantIsBit DEF bits
  <2>3. written[u + 1 + 0] = Meant(in, (u - from) + 0)  BY <2>1, <1>3
  <2> QED  BY <2>1, <2>2, <2>3
<1> HIDE DEF v
<1>6. /\ data' \in [Bits(Room) -> BIT]
      /\ \A k \in Bits(Room) : k < u => data'[k] = data[k]
      /\ data'[u] = v /\ Clear(data', u + 1)
  <2>1. u \in Bits(Room)  BY <1>4 DEF Bits
  <2>2. LET e == PutBit(data, u, v)
        IN  /\ e \in [Bits(Room) -> BIT]
            /\ \A k \in Bits(Room) : k < u => e[k] = data[k]
            /\ e[u] = v /\ Clear(e, u + 1)
    BY <2>1, <1>2, <1>5, PutBitWrites
  <2> QED  BY <2>2, <1>1
<1>7. Kept'
  <2>1. ASSUME NEW k \in 0..(u + 1) - 1 PROVE data'[k] = written[k + 1]
    <3>1. k \in Bits(Room) /\ (k = u \/ k \in 0..u - 1)  BY <1>4 DEF Bits
    <3>2. CASE k = u  BY <3>2, <1>5, <1>6
    <3>3. CASE k \in 0..u - 1
      <4>1. k < u  BY <3>3, <1>4
      <4> QED  BY <4>1, <3>1, <3>3, <1>2, <1>6
    <3> QED  BY <3>1, <3>2, <3>3
  <2> QED  BY <2>1, <1>1, <1>6 DEF Kept, u
<1>8. u' \in 0..8 * Room
  BY <1>1, <1>4
<1>9. CASE ~(toGo > 1)
  <2>1. call' = Idle /\ Len(written') = u'
    <3>1. toGo = 1  BY <1>9, <1>4
    <3> QED  BY <3>1, <1>9, <1>1, <1>2
  <2>2. Types'  BY <2>1, <1>8, <1>1, <1>2, <1>6, IdleCall DEF Types, u
  <2> QED  BY <2>1, <2>2, <1>7, AtOnce DEF u
<1>10. CASE toGo > 1
  <2>1. toGo - 1 \in Nat /\ toGo - 1 > 0  BY <1>10, <1>4
  <2>2. /\ call' = [call EXCEPT !.toGo = toGo - 1] /\ call' \in Call
        /\ call'.op = "WriteStream" /\ call'.in = in /\ call'.toGo = toGo - 1
        /\ call'.from = from
    BY <2>1, <1>10, <1>1, <1>2 DEF Call, toGo, from
  <2>3. Types'  BY <2>2, <1>8, <1>1, <1>2, <1>6 DEF Types, u
  <2>4. Lengths'
    <3>1. toGo - 1 <= bits /\ Len(written') = u' + (toGo - 1)
      BY <1>1, <1>2, <1>4
    <3>2. Busy'  BY <2>2 DEF Busy
    <3> QED  BY <2>1, <2>2, <3>1, <3>2 DEF Lengths, u, bits
  <2>5. InWriteStream'
    <3>1. from <= u + 1 /\ ((u + 1) - from) + (toGo - 1) <= bits /\ (u + 1) + (toGo - 1) <= 8 * Room
      BY <1>4
    <3>2. ASSUME NEW i \in 0..(toGo - 1) - 1
          PROVE  written[(u + 1) + 1 + i] = Meant(in, ((u + 1) - from) + i)
      <4>1. /\ i + 1 \in 0..toGo - 1 /\ u + 1 + (i + 1) = (u + 1) + 1 + i
            /\ (u - from) + (i + 1) = ((u + 1) - from) + i
        BY <1>4
      <4> QED  BY <4>1, <1>3
    <3> QED  BY <3>1, <3>2, <2>2, <1>1, <1>3 DEF InWriteStream, u, toGo, from, bits
  <2> QED  BY <2>2, <2>3, <2>4, <2>5, <1>7 DEF IInv, InWriteBits, InReadBits, ReadsWhatWasWritten
<1> QED  BY <1>9, <1>10

LEMMA WriteBitInv ==
  ASSUME IInv, NEW v \in BIT, WriteBit(v)
  PROVE  IInv'
<1> DEFINE u == numberOfBitsUsed
<1>1. /\ ~Busy /\ u < 8 * Room /\ data' = PutBit(data, u, v) /\ u' = u + 1
      /\ written' = Append(written, v) /\ call' = Idle /\ readOffset' = readOffset
  BY DEF WriteBit
<1>2. /\ u \in Nat /\ data \in [Bits(Room) -> BIT] /\ Clear(data, u)
      /\ written \in Seq(BIT) /\ Len(written) = u
      /\ \A k \in 0..u - 1 : data[k] = written[k + 1]
      /\ readOffset \in 0..8 * Room
  BY <1>1, NotBusy
<1>3. /\ data' \in [Bits(Room) -> BIT]
      /\ \A k \in Bits(Room) : k < u => data'[k] = data[k]
      /\ data'[u] = v /\ Clear(data', u + 1)
  <2>1. u \in Bits(Room)  BY <1>1, <1>2 DEF Bits
  <2>2. LET e == PutBit(data, u, v)
        IN  /\ e \in [Bits(Room) -> BIT]
            /\ \A k \in Bits(Room) : k < u => e[k] = data[k]
            /\ e[u] = v /\ Clear(e, u + 1)
    BY <2>1, <1>2, PutBitWrites
  <2> QED  BY <2>2, <1>1
<1>4. /\ written' \in Seq(BIT) /\ Len(written') = u + 1 /\ written'[u + 1] = v
      /\ \A k \in 1..u : written'[k] = written[k]
  BY <1>1, <1>2
<1> HIDE DEF u
<1>5. Kept'
  <2>1. ASSUME NEW k \in 0..(u + 1) - 1 PROVE data'[k] = written'[k + 1]
    <3>1. k \in Bits(Room) /\ (k = u \/ k \in 0..u - 1)  BY <1>1, <1>2 DEF Bits
    <3>2. CASE k = u  BY <3>2, <1>3, <1>4
    <3>3. CASE k \in 0..u - 1
      <4>1. k < u /\ k + 1 \in 1..u  BY <3>3, <1>2
      <4> QED  BY <4>1, <3>1, <3>3, <1>2, <1>3, <1>4
    <3> QED  BY <3>1, <3>2, <3>3
  <2> QED  BY <2>1, <1>1, <1>3 DEF Kept, u
<1>6. Types'
  <2>1. u' \in 0..8 * Room  BY <1>1, <1>2
  <2> QED  BY <2>1, <1>1, <1>2, <1>3, <1>4, IdleCall DEF Types, u
<1> QED  BY <1>1, <1>4, <1>5, <1>6, AtOnce DEF u

LEMMA AlignedIs ==
  ASSUME NEW p \in 0..8 * Room
  PROVE  /\ Aligned(p) \in p..8 * Room /\ Aligned(p) % 8 = 0
         /\ p % 8 = 0 => Aligned(p) = p
         /\ \A d : Clear(d, Aligned(p))
<1> DEFINE q == p \div 8
           r == p % 8
<1>1. p \in Nat /\ p <= 8 * Room  OBVIOUS
<1>2. q \in Nat /\ r \in 0..7 /\ p = 8 * q + r
  BY <1>1, Split
<1>3. Aligned(p) = p + ((8 - r) % 8)
  BY DEF Aligned
<1> HIDE DEF q, r
<1>4. CASE r = 0
  <2>1. Aligned(p) = p
    <3>1. (8 - r) % 8 = 0  BY <1>4
    <3> QED  BY <3>1, <1>3, <1>1
  <2>2. p = 8 * q + 0  BY <1>2, <1>4
  <2>3. p % 8 = 0  BY <2>2, <1>2, Eights
  <2>4. \A d : Clear(d, p)  BY <2>3, <1>1, ByteOfSplit DEF Clear
  <2> QED  BY <2>1, <2>3, <2>4, <1>1
<1>5. CASE r # 0
  <2>1. Aligned(p) = 8 * (q + 1)
    <3>1. 8 - r \in 1..7  BY <1>2, <1>5
    <3>2. (8 - r) % 8 = 8 - r  BY <3>1
    <3> QED  BY <3>2, <1>2, <1>3
  <2>2. q + 1 \in Nat /\ 8 * (q + 1) = 8 * (q + 1) + 0 /\ 8 * (q + 1) \in Nat
    BY <1>2
  <2>3. (8 * (q + 1)) % 8 = 0  BY <2>2, Eights
  <2>4. 8 * (q + 1) \in p..8 * Room
    BY <1>1, <1>2, <1>5
  <2>5. \A d : Clear(d, 8 * (q + 1))  BY <2>2, <2>3, ByteOfSplit DEF Clear
  <2>6. p % 8 # 0  BY <1>5 DEF r
  <2> QED  BY <2>1, <2>3, <2>4, <2>5, <2>6
<1> QED  BY <1>4, <1>5

(* The bits skipped are in the stream as they are in memory.                *)
LEMMA SkippedAre ==
  ASSUME data \in [Bits(Room) -> BIT], NEW p \in 0..8 * Room,
         NEW w \in Seq(BIT), Len(w) = p, \A k \in 0..p - 1 : data[k] = w[k + 1]
  PROVE  /\ w \o Skipped(p) \in Seq(BIT) /\ Len(w \o Skipped(p)) = Aligned(p)
         /\ \A k \in 0..Aligned(p) - 1 : data[k] = (w \o Skipped(p))[k + 1]
<1> DEFINE a == Aligned(p)
           t == Skipped(p)
<1>1. p \in Nat /\ a \in Nat /\ p <= a /\ a <= 8 * Room
  <2>1. a \in p..8 * Room  BY AlignedIs
  <2> HIDE DEF a
  <2> QED  BY <2>1
<1>2. t = [i \in 1..a - p |-> data[p + i - 1]]
  BY DEF Skipped
<1> HIDE DEF a, t
<1>3. t \in Seq(BIT) /\ Len(t) = a - p /\ \A i \in 1..a - p : t[i] = data[p + i - 1]
  <2>1. \A i \in 1..a - p : data[p + i - 1] \in BIT
    BY <1>1 DEF Bits
  <2>2. a - p \in Nat  BY <1>1
  <2> QED  BY <1>2, <2>1, <2>2
<1>4. /\ w \o t \in Seq(BIT) /\ Len(w \o t) = p + (a - p)
      /\ \A k \in 1..p : (w \o t)[k] = w[k]
      /\ \A i \in 1..a - p : (w \o t)[p + i] = t[i]
  <2>1. /\ w \o t \in Seq(BIT) /\ Len(w \o t) = Len(w) + Len(t)
        /\ \A k \in 1..Len(w) : (w \o t)[k] = w[k]
        /\ \A i \in 1..Len(t) : (w \o t)[Len(w) + i] = t[i]
    BY <1>3, Written
  <2> QED  BY <2>1, <1>1, <1>3
<1>5. ASSUME NEW k \in 0..a - 1 PROVE data[k] = (w \o t)[k + 1]
  <2>1. CASE k < p
    <3>1. k + 1 \in 1..p /\ k \in 0..p - 1  BY <2>1, <1>1
    <3> QED  BY <3>1, <1>4
  <2>2. CASE ~(k < p)
    <3> DEFINE i == k + 1 - p
    <3>1. i \in 1..a - p /\ p + i = k + 1 /\ p + i - 1 = k  BY <2>2, <1>1
    <3> HIDE DEF i
    <3> QED  BY <3>1, <1>3, <1>4
  <2> QED  BY <2>1, <2>2
<1> QED  BY <1>1, <1>4, <1>5 DEF a, t

LEMMA CopyInKeeps ==
  ASSUME data \in [Bits(Room) -> BIT], NEW p \in Nat, p % 8 = 0,
         NEW w \in Seq(BIT), Len(w) = p, \A k \in 0..p - 1 : data[k] = w[k + 1],
         NEW in \in Inputs, in.bits = 8 * Len(in.bytes), p + in.bits <= 8 * Room,
         CopyIn(p, in), written' = w \o MeantBits(in)
  PROVE  /\ data' \in [Bits(Room) -> BIT] /\ numberOfBitsUsed' \in 0..8 * Room
         /\ written' \in Seq(BIT) /\ Len(written') = numberOfBitsUsed'
         /\ Kept'
<1> DEFINE bits == in.bits
           L == Len(in.bytes)
           t == MeantBits(in)
<1>1. bits \in Nat /\ L \in Nat /\ bits = 8 * L
  BY DEF Input
<1>2. /\ data' = [k \in Bits(Room) |->
                    IF k \in p..p + bits - 1 THEN Meant(in, k - p) ELSE data[k]]
      /\ numberOfBitsUsed' = p + bits
  BY DEF CopyIn
<1>3. /\ t \in Seq(BIT) /\ Len(t) = bits
      /\ \A i \in 1..bits : t[i] = Meant(in, i - 1)
  BY MeantBitsAre
<1>4. /\ written' \in Seq(BIT) /\ Len(written') = p + bits
      /\ \A k \in 1..p : written'[k] = w[k]
      /\ \A i \in 1..bits : written'[p + i] = t[i]
  <2> HIDE DEF t, bits
  <2>1. /\ w \o t \in Seq(BIT) /\ Len(w \o t) = Len(w) + Len(t)
        /\ \A k \in 1..Len(w) : (w \o t)[k] = w[k]
        /\ \A i \in 1..Len(t) : (w \o t)[Len(w) + i] = t[i]
    BY <1>3, Written
  <2> QED  BY <2>1, <1>3 DEF t
<1>5. \A i \in 0..bits - 1 : Meant(in, i) \in BIT
  BY MeantIsBit
<1> HIDE DEF bits, L, t
<1>6. data' \in [Bits(Room) -> BIT]
  <2>1. ASSUME NEW k \in Bits(Room), k \in p..p + bits - 1
        PROVE  Meant(in, k - p) \in BIT
    <3>1. k - p \in 0..bits - 1  BY <2>1, <1>1
    <3> QED  BY <3>1, <1>5
  <2>2. \A k \in Bits(Room) : data[k] \in BIT  OBVIOUS
  <2> QED  BY <2>1, <2>2, <1>2
<1>7. Clear(data', p + bits)
  <2> DEFINE q == p \div 8
  <2>1. q \in Nat /\ p = 8 * q
    <3>1. q \in Nat /\ p = 8 * q + (p % 8)  BY Split
    <3> HIDE DEF q
    <3> QED  BY <3>1
  <2> HIDE DEF q
  <2>2. p + bits = 8 * (q + L) + 0 /\ q + L \in Nat /\ p + bits \in Nat  BY <2>1, <1>1
  <2>3. (p + bits) % 8 = 0  BY <2>2, Eights
  <2> QED  BY <2>2, <2>3, ByteOfSplit DEF Clear
<1>8. ASSUME NEW k \in 0..(p + bits) - 1 PROVE data'[k] = written'[k + 1]
  <2>1. k \in Bits(Room)  BY <1>1 DEF Bits, bits
  <2>2. CASE k < p
    <3>1. k + 1 \in 1..p /\ k \in 0..p - 1 /\ k \notin p..p + bits - 1  BY <2>2, <1>1
    <3> QED  BY <3>1, <2>1, <1>2, <1>4
  <2>3. CASE ~(k < p)
    <3> DEFINE i == (k + 1) - p
    <3>1. i \in 1..bits /\ p + i = k + 1 /\ i - 1 = k - p /\ k \in p..p + bits - 1
      BY <2>3, <1>1
    <3> HIDE DEF i
    <3>2. written'[k + 1] = Meant(in, k - p)
      <4>1. written'[p + i] = t[i]  BY <3>1, <1>4
      <4>2. t[i] = Meant(in, i - 1)  BY <3>1, <1>3
      <4> QED  BY <4>1, <4>2, <3>1
    <3> QED  BY <3>1, <3>2, <2>1, <1>2
  <2> QED  BY <2>2, <2>3
<1>9. p + bits \in 0..8 * Room
  BY <1>1 DEF bits
<1> QED  BY <1>2, <1>4, <1>6, <1>7, <1>8, <1>9 DEF Kept

LEMMA WriteBytesInv ==
  ASSUME IInv, NEW in \in Inputs, WriteBytes(in)
  PROVE  IInv'
<1> DEFINE u == numberOfBitsUsed
<1>1. CASE u % 8 # 0
  <2>1. BeginWriteBits(in)  BY <1>1 DEF WriteBytes
  <2> QED  BY <2>1, BeginWriteBitsInv
<1>2. CASE u % 8 = 0
  <2>1. /\ ~Busy /\ in.bits = 8 * Len(in.bytes) /\ u + in.bits <= 8 * Room
        /\ CopyIn(u, in) /\ written' = written \o MeantBits(in)
        /\ call' = Idle /\ readOffset' = readOffset
    BY <1>2 DEF WriteBytes
  <2>2. /\ u \in Nat /\ data \in [Bits(Room) -> BIT]
        /\ written \in Seq(BIT) /\ Len(written) = u
        /\ \A k \in 0..u - 1 : data[k] = written[k + 1]
        /\ readOffset \in 0..8 * Room
    BY <2>1, NotBusy
  <2>3. /\ data' \in [Bits(Room) -> BIT] /\ u' \in 0..8 * Room
        /\ written' \in Seq(BIT) /\ Len(written') = u' /\ Kept'
    BY <1>2, <2>1, <2>2, CopyInKeeps
  <2>4. Types'  BY <2>1, <2>2, <2>3, IdleCall DEF Types
  <2> QED  BY <2>1, <2>3, <2>4, AtOnce
<1> QED  BY <1>1, <1>2

LEMMA AlignWriteInv ==
  ASSUME IInv, AlignWriteToByteBoundary
  PROVE  IInv'
<1> DEFINE u == numberOfBitsUsed
<1>1. /\ ~Busy /\ u' = Aligned(u) /\ written' = written \o Skipped(u)
      /\ call' = Idle /\ readOffset' = readOffset /\ data' = data
  BY DEF AlignWriteToByteBoundary
<1>2. /\ u \in 0..8 * Room /\ u \in Nat /\ data \in [Bits(Room) -> BIT]
      /\ written \in Seq(BIT) /\ Len(written) = u
      /\ \A k \in 0..u - 1 : data[k] = written[k + 1]
      /\ readOffset \in 0..8 * Room
  BY <1>1, NotBusy
<1>3. /\ written' \in Seq(BIT) /\ Len(written') = u'
      /\ \A k \in 0..u' - 1 : data'[k] = written'[k + 1]
  BY <1>1, <1>2, SkippedAre
<1>4. u' \in 0..8 * Room /\ Clear(data', u')
  BY <1>1, <1>2, AlignedIs
<1>5. Types' /\ Kept'
  BY <1>1, <1>2, <1>3, <1>4, IdleCall DEF Types, Kept
<1> QED  BY <1>1, <1>3, <1>5, AtOnce

LEMMA WriteAlignedBytesInv ==
  ASSUME IInv, NEW in \in Inputs, WriteAlignedBytes(in)
  PROVE  IInv'
<1> DEFINE u == numberOfBitsUsed
           p == Aligned(u)
           w == written \o Skipped(u)
<1>1. /\ ~Busy /\ in.bits = 8 * Len(in.bytes) /\ p + in.bits <= 8 * Room
      /\ CopyIn(p, in) /\ written' = w \o MeantBits(in)
      /\ call' = Idle /\ readOffset' = readOffset
  BY DEF WriteAlignedBytes
<1>2. /\ u \in 0..8 * Room /\ data \in [Bits(Room) -> BIT]
      /\ written \in Seq(BIT) /\ Len(written) = u
      /\ \A k \in 0..u - 1 : data[k] = written[k + 1]
      /\ readOffset \in 0..8 * Room
  BY <1>1, NotBusy
<1>3. w \in Seq(BIT) /\ Len(w) = p /\ \A k \in 0..p - 1 : data[k] = w[k + 1]
  BY <1>2, SkippedAre
<1>4. p \in Nat /\ p % 8 = 0
  <2>1. p \in u..8 * Room /\ p % 8 = 0  BY <1>2, AlignedIs
  <2> HIDE DEF p
  <2> QED  BY <2>1, <1>2
<1> HIDE DEF p, w
<1>5. /\ data' \in [Bits(Room) -> BIT] /\ u' \in 0..8 * Room
      /\ written' \in Seq(BIT) /\ Len(written') = u' /\ Kept'
  BY <1>1, <1>2, <1>3, <1>4, CopyInKeeps
<1>6. Types'  BY <1>1, <1>2, <1>5, IdleCall DEF Types
<1> QED  BY <1>1, <1>5, <1>6, AtOnce

LEMMA SetWriteOffsetInv ==
  ASSUME IInv, NEW o \in Offsets, SetWriteOffset(o)
  PROVE  IInv'
<1> DEFINE u == numberOfBitsUsed
<1>1. /\ ~Busy /\ o <= u /\ o % 8 = 0 /\ u' = o /\ written' = SubSeq(written, 1, o)
      /\ call' = Idle /\ readOffset' = readOffset /\ data' = data
  BY DEF SetWriteOffset
<1>2. /\ u \in 0..8 * Room /\ u \in Nat /\ data \in [Bits(Room) -> BIT]
      /\ written \in Seq(BIT) /\ Len(written) = u
      /\ \A k \in 0..u - 1 : data[k] = written[k + 1]
      /\ readOffset \in 0..8 * Room
  BY <1>1, NotBusy
<1>3. o \in Nat /\ o \in 0..8 * Room  OBVIOUS
<1>4. /\ written' \in Seq(BIT) /\ Len(written') = o
      /\ \A i \in 1..o : written'[i] = written[i]
  BY <1>1, <1>2, <1>3
<1>5. Clear(data, o)
  BY <1>1, <1>3, ByteOfSplit DEF Clear
<1>6. \A k \in 0..o - 1 : data[k] = written'[k + 1]
  <2> SUFFICES ASSUME NEW k \in 0..o - 1 PROVE data[k] = written'[k + 1]  OBVIOUS
  <2>1. k + 1 \in 1..o /\ k \in 0..u - 1  BY <1>1, <1>2, <1>3
  <2> QED  BY <2>1, <1>2, <1>4
<1>7. Types' /\ Kept'
  BY <1>1, <1>2, <1>3, <1>4, <1>5, <1>6, IdleCall DEF Types, Kept
<1> QED  BY <1>1, <1>4, <1>7, AtOnce

LEMMA ResetInv ==
  ASSUME IInv, Reset
  PROVE  IInv'
<1>1. /\ numberOfBitsUsed' = 0 /\ readOffset' = 0 /\ written' = <<>>
      /\ call' = Idle /\ data' = data /\ data \in [Bits(Room) -> BIT]
  BY DEF Reset, IInv, Types
<1>2. Types' /\ Kept'
  BY <1>1, IdleCall, ClearAtZero DEF Types, Kept
<1> QED  BY <1>1, <1>2, AtOnce

-----------------------------------------------------------------------------
(* Reading: the stream stays as it is.                                      *)

LEMMA GotIsByte ==
  ASSUME data \in [Bits(Room) -> BIT], NEW p \in Nat, NEW toGo \in Nat \ {0},
         NEW right \in BOOLEAN, p + toGo <= 8 * Room
  PROVE  Got(p, toGo, right) \in Byte
<1> DEFINE m == p % 8
           byte == [j \in 0..7 |->
                      IF j < 8 - m \/ (m > 0 /\ toGo > 8 - m) THEN data[p + j] ELSE 0]
<1>1. m \in 0..7 /\ p \div 8 \in Nat /\ p = 8 * (p \div 8) + m  BY Split
<1> DEFINE q == p \div 8
<1> HIDE DEF q, m
<1>2. byte \in Byte
  <2>1. ASSUME NEW j \in 0..7, j < 8 - m \/ (m > 0 /\ toGo > 8 - m)
        PROVE  data[p + j] \in BIT
    <3>1. p + j < 8 * Room /\ p + j \in Nat
      <4>1. q \in Nat /\ p = 8 * q + m  BY <1>1 DEF q
      <4> QED  BY <4>1, <1>1, <2>1
    <3> QED  BY <3>1 DEF Bits
  <2> QED  BY <2>1 DEF Byte, BIT
<1> HIDE DEF byte
<1>3. ASSUME toGo < 8, NEW j \in 0..7, j >= 8 - toGo PROVE byte[j - (8 - toGo)] \in BIT
  <2>1. j - (8 - toGo) \in 0..7  BY <1>3
  <2> QED  BY <2>1, <1>2 DEF Byte
<1> QED  BY <1>2, <1>3 DEF Got, Byte, BIT, byte, m

LEMMA ReadingCall ==
  ASSUME NEW op \in {"ReadBits", "returned"}, NEW n \in Nat, NEW right \in BOOLEAN,
         NEW from \in Nat
  PROVE  LET c == Reading(op, n, right, from)
         IN  /\ c \in Call /\ c.op = op /\ c.toGo = n /\ c.from = from
             /\ c.in.bits = n /\ c.in.right = right
<1> DEFINE in == [bytes |-> <<>>, bits |-> n, right |-> right]
<1>1. in \in Input /\ in.bits = n /\ in.right = right
  <2>1. <<>> \in Seq(Byte)  OBVIOUS
  <2> QED  BY <2>1, Zenon DEF Input
<1>2. Reading(op, n, right, from) = [op |-> op, in |-> in, toGo |-> n, from |-> from]
  BY DEF Reading
<1> HIDE DEF in
<1> QED  BY <1>1, <1>2 DEF Call

LEMMA ReturnedCall ==
  ASSUME NEW n \in Nat, NEW right \in BOOLEAN, NEW from \in Nat
  PROVE  LET c == Returned(n, right, from)
         IN  /\ c \in Call /\ c.op = "returned" /\ c.toGo = 0 /\ c.from = from
             /\ c.in.bits = n
             /\ \A bytes : [c.in EXCEPT !.bytes = bytes]
                             = [bytes |-> bytes, bits |-> n, right |-> right]
<1> DEFINE r == Reading("returned", n, right, from)
           c == Returned(n, right, from)
<1>1. r \in Call /\ r.op = "returned" /\ r.from = from /\ r.in.bits = n
  BY ReadingCall
<1>2. c = [r EXCEPT !.toGo = 0]
  BY DEF Returned
<1>3. r.in = [bytes |-> <<>>, bits |-> n, right |-> right]
  BY DEF Reading
<1> HIDE DEF r
<1>4. c \in Call /\ c.op = "returned" /\ c.toGo = 0 /\ c.from = from /\ c.in = r.in
  BY <1>1, <1>2 DEF Call
<1> HIDE DEF c
<1> QED  BY <1>1, <1>3, <1>4 DEF c

(* A read that has returned is right if each bit of its output is.          *)
LEMMA ReturnedInv ==
  ASSUME Types, Kept, data' = data, numberOfBitsUsed' = numberOfBitsUsed,
         written' = written, Len(written) = numberOfBitsUsed,
         NEW n \in Nat, NEW right \in BOOLEAN, NEW from \in Nat,
         call' = Returned(n, right, from), from + n <= numberOfBitsUsed,
         readOffset' \in 0..8 * Room,
         \A i \in 0..n - 1 :
           Meant([bytes |-> output', bits |-> n, right |-> right], i) = data[from + i]
  PROVE  IInv'
<1> DEFINE r == [bytes |-> output', bits |-> n, right |-> right]
           u == numberOfBitsUsed
<1>1. /\ call' \in Call /\ call'.op = "returned" /\ call'.toGo = 0 /\ call'.from = from
      /\ call'.in.bits = n /\ Result' = r
  <2> DEFINE c == Returned(n, right, from)
  <2>1. /\ c \in Call /\ c.op = "returned" /\ c.toGo = 0 /\ c.from = from
        /\ c.in.bits = n
        /\ \A bytes : [c.in EXCEPT !.bytes = bytes]
                        = [bytes |-> bytes, bits |-> n, right |-> right]
    BY ReturnedCall
  <2>2. call' = c  OBVIOUS
  <2> HIDE DEF c
  <2>3. Result' = [c.in EXCEPT !.bytes = output']  BY <2>2 DEF Result
  <2> QED  BY <2>1, <2>2, <2>3
<1>2. u \in Nat /\ written \in Seq(BIT) /\ r.bits = n
  BY DEF Types
<1> HIDE DEF r, u
<1>3. MeantBits(r) = SubSeq(written, from + 1, from + n)
  <2>1. ASSUME NEW i \in 1..n PROVE Meant(r, i - 1) = written[from + i]
    <3>1. i - 1 \in 0..n - 1 /\ from + (i - 1) \in 0..u - 1 /\ (from + (i - 1)) + 1 = from + i
      BY <1>2 DEF u
    <3>2. Meant(r, i - 1) = data[from + (i - 1)]  BY <3>1 DEF r
    <3>3. data[from + (i - 1)] = written[(from + (i - 1)) + 1]  BY <3>1 DEF Kept, u
    <3> QED  BY <3>1, <3>2, <3>3
  <2>2. ASSUME NEW i \in 1..n PROVE written[from + i] \in BIT
    <3>1. from + i \in 1..Len(written)  BY <1>2 DEF u
    <3> QED  BY <3>1, <1>2
  <2>3. MeantBits(r) = [i \in 1..n |-> written[from + i]]
    BY <2>1, <1>2 DEF MeantBits
  <2>4. MeantBits(r) \in Seq(BIT) /\ Len(MeantBits(r)) = n
        /\ \A i \in 1..n : MeantBits(r)[i] = written[from + i]
    BY <2>2, <2>3
  <2>5. /\ SubSeq(written, from + 1, from + n) \in Seq(BIT)
        /\ Len(SubSeq(written, from + 1, from + n)) = n
        /\ \A i \in 1..n : SubSeq(written, from + 1, from + n)[i] = written[from + i]
    <3>1. \A i \in from + 1..from + n : written[i] \in BIT
      <4> SUFFICES ASSUME NEW i \in from + 1..from + n PROVE written[i] \in BIT  OBVIOUS
      <4>1. i \in 1..Len(written)  BY <1>2 DEF u
      <4> QED  BY <4>1, <1>2
    <3>2. /\ SubSeq(written, from + 1, from + n) \in Seq(BIT)
          /\ Len(SubSeq(written, from + 1, from + n))
               = IF from + 1 <= from + n THEN (from + n) - (from + 1) + 1 ELSE 0
          /\ \A i \in 1..(from + n) - (from + 1) + 1 :
               SubSeq(written, from + 1, from + n)[i] = written[(from + 1) + i - 1]
      BY <3>1, SubSeqProperties
    <3>3. (from + n) - (from + 1) + 1 = n /\ (from + 1 <= from + n <=> n > 0)
      OBVIOUS
    <3>4. ASSUME NEW i \in 1..n
          PROVE  SubSeq(written, from + 1, from + n)[i] = written[from + i]
      <4>1. (from + 1) + i - 1 = from + i /\ i \in 1..(from + n) - (from + 1) + 1
        BY <3>3
      <4>2. SubSeq(written, from + 1, from + n)[i] = written[(from + 1) + i - 1]
        BY <3>2, <4>1
      <4> QED  BY <4>1, <4>2
    <3>5. Len(SubSeq(written, from + 1, from + n)) = n
      <4>1. (IF from + 1 <= from + n THEN (from + n) - (from + 1) + 1 ELSE 0) = n
        BY <3>3
      <4> QED  BY <3>2, <4>1
    <3> QED  BY <3>2, <3>4, <3>5
  <2> QED  BY <2>4, <2>5, SeqEqual
<1>4. ReadsWhatWasWritten'
  BY <1>1, <1>3 DEF ReadsWhatWasWritten
<1>5. Types' /\ Kept'
  BY <1>1 DEF Types, Kept
<1>6. Lengths'
  <2>1. ~Busy' /\ call'.op \notin {"WriteBits", "WriteStream"}  BY <1>1 DEF Busy
  <2>2. Len(written') = u' + 0  BY <1>2 DEF u
  <2>3. (call.toGo <= call.in.bits)' /\ ~(call.toGo > 0)'  BY <1>1
  <2> QED  BY <2>1, <2>2, <2>3 DEF Lengths, u
<1> QED  BY <1>1, <1>4, <1>5, <1>6 DEF IInv, InWriteBits, InWriteStream, InReadBits

LEMMA BeginReadBitsInv ==
  ASSUME IInv, NEW n \in Nat \ {0}, NEW right \in BOOLEAN, BeginReadBits(n, right)
  PROVE  IInv'
<1>1. /\ ~Busy /\ readOffset + n <= numberOfBitsUsed
      /\ call' = Reading("ReadBits", n, right, readOffset)
      /\ output' = <<>> /\ data' = data /\ numberOfBitsUsed' = numberOfBitsUsed
      /\ readOffset' = readOffset /\ written' = written
  BY DEF BeginReadBits
<1>2. /\ numberOfBitsUsed \in Nat /\ readOffset \in Nat
      /\ Len(written) = numberOfBitsUsed /\ Types /\ Kept
  BY <1>1, NotBusy DEF IInv
<1>3. /\ call' \in Call /\ call'.op = "ReadBits" /\ call'.toGo = n
      /\ call'.from = readOffset /\ call'.in.bits = n
  BY <1>1, <1>2, ReadingCall
<1>4. Types' /\ Kept'
  BY <1>1, <1>2, <1>3 DEF Types, Kept
<1>5. Lengths'
  <2>1. Busy' /\ call'.op \notin {"WriteBits", "WriteStream"}  BY <1>3 DEF Busy
  <2>2. Len(written') = numberOfBitsUsed' + 0  BY <1>1, <1>2
  <2>3. (call.toGo <= call.in.bits)' /\ (call.toGo > 0)'  BY <1>3
  <2> QED  BY <2>1, <2>2, <2>3 DEF Lengths
<1>6. InReadBits'
  <2>1. (n - n) % 8 = 0 /\ (n - n) \div 8 = 0 /\ n - n = 0  OBVIOUS
  <2>2. output' \in Seq(Byte) /\ Len(output') = 0  BY <1>1
  <2>3. readOffset' = readOffset + (n - n)  BY <1>1, <1>2
  <2> QED  BY <2>1, <2>2, <2>3, <1>1, <1>3 DEF InReadBits
<1> QED  BY <1>3, <1>4, <1>5, <1>6 DEF IInv, InWriteBits, InWriteStream, ReadsWhatWasWritten

LEMMA ReadByteInv ==
  ASSUME IInv, ReadByte
  PROVE  IInv'
<1> DEFINE u == numberOfBitsUsed
           p == readOffset
           toGo == call.toGo
           from == call.from
           bits == call.in.bits
           right == call.in.right
           done == bits - toGo
           q == done \div 8
           g == Got(p, toGo, right)
<1>1. /\ call.op = "ReadBits" /\ output' = Append(output, g)
      /\ p' = p + Least(8, toGo)
      /\ call' = IF toGo > 8 THEN [call EXCEPT !.toGo = @ - 8] ELSE Returned(bits, right, from)
      /\ data' = data /\ u' = u /\ written' = written
  BY DEF ReadByte
<1>2. /\ Types /\ Kept /\ call \in Call /\ toGo \in Nat \ {0} /\ from \in Nat /\ bits \in Nat
      /\ toGo <= bits /\ right \in BOOLEAN /\ u \in Nat /\ p \in Nat /\ u <= 8 * Room
      /\ data \in [Bits(Room) -> BIT]
  BY <1>1 DEF IInv, Types, Kept, Lengths, Busy, Call, Input
<1>3. Len(written) = u
  <2>1. call.op \notin {"WriteBits", "WriteStream"}  BY <1>1
  <2>2. Len(written) = u + 0  BY <2>1 DEF IInv, Lengths
  <2> QED  BY <2>2, <1>2
<1>4. /\ done % 8 = 0 /\ p = from + done /\ p + toGo <= u
      /\ output \in Seq(Byte) /\ Len(output) = q
      /\ \A i \in 0..done - 1 : output[(i \div 8) + 1][i % 8] = data[from + i]
  BY <1>1 DEF IInv, InReadBits
<1>5. g \in Byte
  <2>1. p + toGo <= 8 * Room  BY <1>2, <1>4
  <2> QED  BY <2>1, <1>2, GotIsByte
<1>6. \A i \in 0..Least(8, toGo) - 1 :
        g[IF right /\ toGo < 8 THEN i + (8 - toGo) ELSE i] = data[p + i]
  BY <1>2, GotMeans
<1> HIDE DEF g, toGo, bits, from, right, u, p
<1>7. done \in Nat /\ done + toGo = bits
  BY <1>2
<1>8. q \in Nat /\ done = 8 * q
  <2> HIDE DEF done
  <2>1. q \in Nat /\ done = 8 * q + (done % 8)  BY <1>7, Split
  <2> HIDE DEF q
  <2> QED  BY <2>1, <1>4, <1>7
<1> HIDE DEF q, done
<1>a. /\ toGo \in Nat /\ toGo > 0 /\ bits \in Nat /\ from \in Nat /\ u \in Nat
      /\ p \in Nat /\ done \in Nat /\ q \in Nat /\ u <= 8 * Room /\ Room \in Nat
      /\ p = from + done /\ p + toGo <= u /\ done + toGo = bits /\ done = 8 * q
  BY <1>2, <1>4, <1>7, <1>8
<1>9. /\ output' \in Seq(Byte) /\ Len(output') = q + 1 /\ output'[q + 1] = g
      /\ \A k \in 1..q : output'[k] = output[k]
  BY <1>1, <1>4, <1>5, <1>8
<1>10. ASSUME NEW i \in 0..done - 1
       PROVE  output'[(i \div 8) + 1][i % 8] = data[from + i]
  <2>1. i \in Nat /\ i < 8 * q  BY <1>7, <1>8
  <2>2. i \div 8 \in Nat /\ i \div 8 < q  BY <2>1, <1>8
  <2>3. (i \div 8) + 1 \in 1..q  BY <2>2, <1>8
  <2> QED  BY <2>3, <1>4, <1>9
<1>11. CASE toGo > 8
  <2>1. toGo - 8 \in Nat /\ toGo - 8 > 0 /\ Least(8, toGo) = 8 /\ bits - (toGo - 8) = done + 8
    BY <1>11, <1>2, <1>7 DEF Least
  <2>2. /\ call' = [call EXCEPT !.toGo = toGo - 8] /\ call' \in Call
        /\ call'.op = "ReadBits" /\ call'.toGo = toGo - 8
        /\ call'.from = from /\ call'.in.bits = bits
    BY <2>1, <1>11, <1>1, <1>2 DEF Call, toGo, from, bits
  <2>3. p' = p + 8 /\ p' \in 0..8 * Room /\ p' = from + (done + 8) /\ p' + (toGo - 8) <= u
    <3>1. p' = p + 8  BY <2>1, <1>1
    <3> QED  BY <3>1, <1>a, <1>11
  <2>4. Types' /\ Kept'
    BY <2>2, <2>3, <1>1, <1>2 DEF Types, Kept, p, u
  <2>5. Lengths'
    <3>1. Busy' /\ call'.op \notin {"WriteBits", "WriteStream"}  BY <2>2 DEF Busy
    <3>2. Len(written') = u' + 0  BY <1>1, <1>2, <1>3
    <3>3. toGo - 8 <= bits /\ toGo - 8 > 0  BY <2>1, <1>2
    <3> QED  BY <3>1, <3>2, <3>3, <2>2 DEF Lengths, u
  <2>6. InReadBits'
    <3>1. (done + 8) % 8 = 0 /\ (done + 8) \div 8 = q + 1
      <4>1. done + 8 = 8 * (q + 1) + 0 /\ q + 1 \in Nat  BY <1>8
      <4> QED  BY <4>1, Eights
    <3>2. ASSUME NEW i \in 0..(done + 8) - 1
          PROVE  output'[(i \div 8) + 1][i % 8] = data[from + i]
      <4>1. CASE i < done
        <5>1. i \in 0..done - 1  BY <4>1, <1>7
        <5> QED  BY <5>1, <1>10
      <4>2. CASE ~(i < done)
        <5> DEFINE r == i - done
        <5>1. r \in 0..7 /\ i = 8 * q + r /\ from + i = p + r
          BY <4>2, <1>2, <1>4, <1>7, <1>8
        <5> HIDE DEF r
        <5>2. i \div 8 = q /\ i % 8 = r  BY <5>1, <1>8, Eights
        <5>3. g[r] = data[p + r]
          <6>1. r \in 0..Least(8, toGo) - 1 /\ ~(toGo < 8)  BY <5>1, <2>1, <1>11, <1>2
          <6> QED  BY <6>1, <1>6
        <5> QED  BY <5>1, <5>2, <5>3, <1>9
      <4> QED  BY <4>1, <4>2
    <3>3. bits - (toGo - 8) = done + 8  BY <2>1
    <3>4. /\ p' = from + (done + 8) /\ p' + (toGo - 8) <= u'
          /\ output' \in Seq(Byte) /\ Len(output') = q + 1
          /\ \A i \in 0..(done + 8) - 1 : output'[(i \div 8) + 1][i % 8] = data'[from + i]
      BY <3>2, <2>3, <1>1, <1>9
    <3> DEFINE d == bits - (toGo - 8)
    <3>5. /\ d % 8 = 0 /\ p' = from + d /\ Len(output') = d \div 8
          /\ \A i \in 0..d - 1 : output'[(i \div 8) + 1][i % 8] = data'[from + i]
      BY <3>1, <3>3, <3>4
    <3> QED  BY <3>4, <3>5, <2>2 DEF InReadBits, p, u
  <2> QED  BY <2>2, <2>4, <2>5, <2>6 DEF IInv, InWriteBits, InWriteStream, ReadsWhatWasWritten
<1>12. CASE ~(toGo > 8)
  <2>1. Least(8, toGo) = toGo /\ toGo \in 1..8
    BY <1>12, <1>2 DEF Least
  <2>2. call' = Returned(bits, right, from) /\ from + bits <= u /\ p' \in 0..8 * Room
    <3>1. p' = p + toGo /\ call' = Returned(bits, right, from)
      BY <2>1, <1>12, <1>1
    <3> QED  BY <3>1, <1>a
  <2> DEFINE r == [bytes |-> output', bits |-> bits, right |-> right]
  <2>3. ASSUME NEW i \in 0..bits - 1 PROVE Meant(r, i) = data[from + i]
    <3>1. CASE i < done
      <4>1. i \in 0..done - 1 /\ i \in Nat /\ i < 8 * q  BY <3>1, <1>7, <1>8
      <4>2. i \div 8 \in Nat /\ i \div 8 < q /\ i % 8 \in 0..7 /\ i = 8 * (i \div 8) + (i % 8)
        BY <4>1, <1>8, Split
      <4>3. ~(bits - (i - (i % 8)) < 8)
        <5> DEFINE a == i \div 8
                   b == i % 8
        <5>1. a \in Nat /\ a < q /\ b \in 0..7 /\ i = 8 * a + b  BY <4>2
        <5> HIDE DEF a, b
        <5>2. bits - (i - b) >= 8  BY <5>1, <1>7, <1>8, <1>2
        <5>3. bits - (i - b) \in Int  BY <5>1, <1>2
        <5> QED  BY <5>2, <5>3 DEF b
      <4>4. Meant(r, i) = output'[(i \div 8) + 1][i % 8]
        BY <4>3 DEF Meant
      <4> QED  BY <4>1, <4>4, <1>10
    <3>2. CASE ~(i < done)
      <4> DEFINE k == i - done
      <4>1. k \in 0..7 /\ k < toGo /\ i = 8 * q + k /\ from + i = p + k
            /\ bits - (i - k) = toGo
        BY <3>2, <2>1, <1>a
      <4> HIDE DEF k
      <4>2. i \div 8 = q /\ i % 8 = k  BY <4>1, <1>8, Eights
      <4>3. Meant(r, i) = output'[q + 1][IF right /\ toGo < 8 THEN k + (8 - toGo) ELSE k]
        BY <4>1, <4>2 DEF Meant
      <4>4. k \in 0..Least(8, toGo) - 1  BY <4>1, <2>1
      <4> QED  BY <4>1, <4>3, <4>4, <1>6, <1>9
    <3> QED  BY <3>1, <3>2
  <2> QED  BY <2>2, <2>3, <1>1, <1>2, <1>3, ReturnedInv DEF u, p
<1> QED  BY <1>11, <1>12

LEMMA CopyOutInv ==
  ASSUME IInv, ~Busy, NEW p \in Nat, NEW n \in Nat, CopyOut(p, n),
         data' = data, numberOfBitsUsed' = numberOfBitsUsed, written' = written
  PROVE  IInv'
<1> DEFINE u == numberOfBitsUsed
           out == [i \in 1..n |-> [j \in 0..7 |-> data[p + 8 * (i - 1) + j]]]
           r == [bytes |-> output', bits |-> 8 * n, right |-> TRUE]
<1>1. /\ p + 8 * n <= u /\ output' = out /\ call' = Returned(8 * n, TRUE, p)
      /\ readOffset' = p + 8 * n
  BY DEF CopyOut
<1>2. u \in Nat /\ u <= 8 * Room /\ Len(written) = u /\ Types /\ Kept
  BY NotBusy DEF IInv
<1>3. 8 * n \in Nat /\ readOffset' \in 0..8 * Room
  <2> HIDE DEF u
  <2> QED  BY <1>1, <1>2
<1>4. ASSUME NEW i \in 0..8 * n - 1 PROVE Meant(r, i) = data[p + i]
  <2> DEFINE a == i \div 8
             b == i % 8
  <2>1. a \in Nat /\ b \in 0..7 /\ i = 8 * a + b
    <3>1. i \in Nat  OBVIOUS
    <3> QED  BY <3>1, Split
  <2> HIDE DEF a, b
  <2>2. a + 1 \in 1..n /\ (a + 1) - 1 = a /\ ~(8 * n - (i - b) < 8)
    BY <2>1
  <2>3. Meant(r, i) = output'[a + 1][b]
    BY <2>2 DEF Meant, a, b
  <2>4. output'[a + 1][b] = data[p + 8 * ((a + 1) - 1) + b]
    BY <1>1, <2>1, <2>2
  <2>5. p + 8 * ((a + 1) - 1) + b = p + i
    BY <2>1
  <2> QED  BY <2>3, <2>4, <2>5
<1> HIDE DEF r, out
<1>5. 8 * n \in Nat /\ TRUE \in BOOLEAN /\ p + 8 * n <= u
  BY <1>1, <1>3
<1> QED  BY <1>1, <1>2, <1>3, <1>4, <1>5, ReturnedInv DEF r

LEMMA ReadBytesInv ==
  ASSUME IInv, NEW n \in Nat \ {0}, ReadBytes(n)
  PROVE  IInv'
<1>1. CASE readOffset % 8 # 0
  <2>1. BeginReadBits(8 * n, TRUE)  BY <1>1 DEF ReadBytes
  <2>2. 8 * n \in Nat \ {0}  OBVIOUS
  <2>3. TRUE \in BOOLEAN  BY Zenon
  <2> QED  BY <2>1, <2>2, <2>3, BeginReadBitsInv
<1>2. CASE readOffset % 8 = 0
  <2>1. /\ ~Busy /\ CopyOut(readOffset, n)
        /\ data' = data /\ numberOfBitsUsed' = numberOfBitsUsed /\ written' = written
    BY <1>2 DEF ReadBytes
  <2>2. readOffset \in Nat  BY <2>1, NotBusy
  <2> QED  BY <2>1, <2>2, CopyOutInv
<1> QED  BY <1>1, <1>2

LEMMA MovedInv ==
  ASSUME IInv, ~Busy, call' = Idle, readOffset' \in 0..8 * Room,
         data' = data, numberOfBitsUsed' = numberOfBitsUsed, written' = written
  PROVE  IInv'
<1>1. Types /\ Kept /\ Len(written) = numberOfBitsUsed
  BY NotBusy DEF IInv
<1>2. Types' /\ Kept'
  BY <1>1, IdleCall DEF Types, Kept
<1> QED  BY <1>1, <1>2, AtOnce

LEMMA ReadAlignedBytesInv ==
  ASSUME IInv, NEW n \in Nat \ {0}, ReadAlignedBytes(n)
  PROVE  IInv'
<1> DEFINE p == Aligned(readOffset)
<1>1. ~Busy /\ data' = data /\ numberOfBitsUsed' = numberOfBitsUsed /\ written' = written
  BY DEF ReadAlignedBytes
<1>2. p \in Nat /\ p \in 0..8 * Room
  <2>1. readOffset \in 0..8 * Room /\ readOffset \in Nat  BY <1>1, NotBusy
  <2>2. p \in readOffset..8 * Room  BY <2>1, AlignedIs
  <2> HIDE DEF p
  <2> QED  BY <2>1, <2>2
<1>3. CopyOut(p, n) \/ (readOffset' = p /\ call' = Idle)
  BY DEF ReadAlignedBytes
<1>4. CASE CopyOut(p, n)
  <2> HIDE DEF p
  <2> QED  BY <1>1, <1>2, <1>4, CopyOutInv
<1>5. CASE readOffset' = p /\ call' = Idle
  <2> HIDE DEF p
  <2> QED  BY <1>1, <1>2, <1>5, MovedInv
<1> QED  BY <1>3, <1>4, <1>5

LEMMA ReadBitInv ==
  ASSUME IInv, ReadBit
  PROVE  IInv'
<1> DEFINE byte == [Blank EXCEPT ![7] = data[readOffset]]
           r == [bytes |-> output', bits |-> 1, right |-> TRUE]
<1>1. /\ ~Busy /\ readOffset + 1 <= numberOfBitsUsed /\ output' = <<byte>>
      /\ call' = Returned(1, TRUE, readOffset) /\ readOffset' = readOffset + 1
      /\ data' = data /\ numberOfBitsUsed' = numberOfBitsUsed /\ written' = written
  BY DEF ReadBit
<1>2. /\ readOffset \in Nat /\ numberOfBitsUsed \in 0..8 * Room
      /\ Len(written) = numberOfBitsUsed /\ Types /\ Kept
  BY <1>1, NotBusy DEF IInv
<1>3. readOffset' \in 0..8 * Room
  BY <1>1, <1>2
<1>4. ASSUME NEW i \in 0..1 - 1 PROVE Meant(r, i) = data[readOffset + i]
  <2>1. i = 0 /\ readOffset + i = readOffset  BY <1>2
  <2>2. 0 \div 8 = 0 /\ 0 % 8 = 0  OBVIOUS
  <2>3. Meant(r, 0) = output'[0 + 1][0 + (8 - 1)]
    <3>1. 1 - (0 - 0) = 1 /\ 1 < 8  OBVIOUS
    <3> QED  BY <3>1, <2>2 DEF Meant
  <2>4. output'[0 + 1] = byte /\ 0 + (8 - 1) = 7  BY <1>1
  <2>5. byte[7] = data[readOffset]  BY DEF Blank
  <2> HIDE DEF byte, r
  <2> QED  BY <2>1, <2>3, <2>4, <2>5
<1> HIDE DEF r, byte
<1>5. 1 \in Nat /\ TRUE \in BOOLEAN  OBVIOUS
<1> QED  BY <1>1, <1>2, <1>3, <1>4, <1>5, ReturnedInv DEF r

LEMMA SetReadOffsetInv ==
  ASSUME IInv, NEW o \in Offsets, SetReadOffset(o)
  PROVE  IInv'
<1>1. /\ ~Busy /\ readOffset' = o /\ call' = Idle
      /\ data' = data /\ numberOfBitsUsed' = numberOfBitsUsed /\ written' = written
  BY DEF SetReadOffset
<1>2. readOffset' \in 0..8 * Room  BY <1>1
<1> QED  BY <1>1, <1>2, MovedInv

-----------------------------------------------------------------------------
LEMMA NextInv ==
  ASSUME TidyCallers, IInv, [Next]_vars
  PROVE  IInv'
<1>1. Writable = Inputs
  BY DEF TidyCallers, Writable
<1>2. CASE Write
  <2>1. ASSUME NEW in \in Inputs,
               BeginWriteBits(in) \/ WriteBytes(in) \/ WriteAlignedBytes(in)
               \/ \E n \in Sizes : BeginWriteStream(in, n)
        PROVE  IInv'
    BY <2>1, BeginWriteBitsInv, WriteBytesInv, WriteAlignedBytesInv, BeginWriteStreamInv
  <2>2. ASSUME NEW v \in BitValues, WriteBit(v) PROVE IInv'
    BY <2>2, WriteBitInv
  <2>3. CASE WriteByte \/ WriteStreamBit \/ AlignWriteToByteBoundary \/ Reset
    BY <2>3, WriteByteInv, WriteStreamBitInv, AlignWriteInv, ResetInv
  <2>4. ASSUME NEW o \in Offsets, SetWriteOffset(o) PROVE IInv'
    BY <2>4, SetWriteOffsetInv
  <2> QED  BY <1>1, <1>2, <2>1, <2>2, <2>3, <2>4 DEF Write
<1>3. CASE Read
  <2>1. ASSUME NEW n \in Sizes, NEW right \in BOOLEAN, BeginReadBits(n, right) PROVE IInv'
    BY <2>1, BeginReadBitsInv
  <2>2. ASSUME NEW n \in {m \in 1..Room : 8 * m \in Sizes},
               ReadBytes(n) \/ ReadAlignedBytes(n)
        PROVE  IInv'
    <3>1. n \in Nat \ {0}  OBVIOUS
    <3> QED  BY <2>2, <3>1, ReadBytesInv, ReadAlignedBytesInv
  <2>3. CASE ReadByte \/ ReadBit
    BY <2>3, ReadByteInv, ReadBitInv
  <2>4. ASSUME NEW o \in Offsets, SetReadOffset(o) PROVE IInv'
    BY <2>4, SetReadOffsetInv
  <2> QED  BY <1>3, <2>1, <2>2, <2>3, <2>4 DEF Read
<1>4. CASE UNCHANGED vars
  BY <1>4 DEF vars, IInv, Types, Kept, Lengths, Busy, InWriteBits, InWriteStream,
              InReadBits, ReadsWhatWasWritten, Result, Clear
<1> QED  BY <1>2, <1>3, <1>4 DEF Next

LEMMA Inductive == ASSUME TidyCallers PROVE Spec => []IInv
<1>1. Init => IInv  BY InitInv
<1>2. IInv /\ [Next]_vars => IInv'  BY NextInv
<1> QED  BY <1>1, <1>2, PTL DEF Spec

(* Offsets stay in the room there is, and a call that is running has bits   *)
(* to go.                                                                   *)
THEOREM TypeCorrect == ASSUME TidyCallers PROVE Spec => []TypeOK
<1>1. IInv => TypeOK
  <2> SUFFICES ASSUME IInv PROVE TypeOK  OBVIOUS
  <2>1. call.in.bits \in Nat /\ call.toGo \in 0..call.in.bits
    BY DEF IInv, Types, Call, Input, Lengths
  <2>2. Busy <=> call.toGo > 0  BY DEF IInv, Lengths
  <2> QED  BY <2>1, <2>2 DEF IInv, Types, Call, TypeOK
<1> QED  BY <1>1, Inductive, PTL

(* A stream holds the bits written to it, in order, however far a loop has  *)
(* got: BitStream.cpp:167-281, 333-392.                                     *)
THEOREM StreamHoldsWhatWasWritten == ASSUME TidyCallers PROVE Spec => []HoldsWhatWasWritten
<1>1. IInv => HoldsWhatWasWritten
  BY DEF IInv, Kept, Lengths, HoldsWhatWasWritten
<1> QED  BY <1>1, Inductive, PTL

(* Every read that returns, returns the bits that were written where it     *)
(* began: BitStream.cpp:224-242, 287-330, 464-512.                          *)
THEOREM StreamReadsWhatWasWritten == ASSUME TidyCallers PROVE Spec => []ReadsWhatWasWritten
<1>1. IInv => ReadsWhatWasWritten
  BY DEF IInv
<1> QED  BY <1>1, Inductive, PTL
=============================================================================
