------------------------------ MODULE BitStream ------------------------------
(***************************************************************************)
(* The bits of a RakNet::BitStream (BitStream.cpp): bytes filled from the  *)
(* left, written whole with `=' or merged with `|=', and read in pieces.   *)
(* data is the sequence of bits, byte after byte; a byte is a function on  *)
(* 0..7 from its leftmost bit.  The loops of WriteBits, of                 *)
(* Write(bitStream) and of ReadBits go one step an iteration.              *)
(*                                                                         *)
(* BitStreamMemory says where the bytes are and that growing loses none;   *)
(* here there are Room of them, with anything in them at first.            *)
(***************************************************************************)
EXTENDS Integers, Sequences

CONSTANTS
  Room,           \* bytes of data: bound on a stream
  Memory,         \* what they may hold before they are written
  Inputs,         \* what callers write: records [bytes, bits, right]
  BitValues,      \* and bit by bit
  Sizes,          \* bits read at a time, or copied from another stream
  Offsets,        \* where they move the write and the read pointer
  Recopy          \* callers write back what ReadBits(.., false) returned

Bits(bytes) == 0..8 * bytes - 1
BIT == {0, 1}
Byte == [0..7 -> BIT]

ASSUME RoomAssumption == Room \in Nat
ASSUME MemoryAssumption == Memory \subseteq [Bits(Room) -> BIT]
ASSUME SizesAssumption ==
  BitValues \subseteq BIT /\ Sizes \subseteq Nat \ {0} /\ Offsets \subseteq 0..8 * Room
ASSUME RecopyAssumption == Recopy \in BOOLEAN

(* bits of them from bytes, the last byte's from the right or from the left *)
Input == [bytes : Seq(Byte), bits : Nat, right : BOOLEAN]
ASSUME InputAssumption ==
  \A in \in Inputs : in \in Input /\ in.bits \in 1..8 * Len(in.bytes)

VARIABLES
  data, numberOfBitsUsed, readOffset,
  call,           \* the loop that is running, or the last one: its arguments,
                  \* bits to go, and where it started
  output,         \* what ReadBits has put into its output array
  written         \* history: the bits written and not taken back

vars == <<data, numberOfBitsUsed, readOffset, call, output, written>>

ByteOf(p) == p - (p % 8)                 \* the first bit of p's byte
Least(a, b) == IF a < b THEN a ELSE b
Or(x, y) == IF x = 1 THEN 1 ELSE y
Blank == [j \in 0..7 |-> 0]

(* Bit i of the bits meant by in: left to right, but the last byte of a     *)
(* right-aligned input counts from its right end.                           *)
Meant(in, i) ==
  LET left == in.bits - (i - (i % 8))     \* bits from this byte on
  IN  in.bytes[i \div 8 + 1][IF in.right /\ left < 8 THEN (i % 8) + (8 - left) ELSE i % 8]
MeantBits(in) == [i \in 1..in.bits |-> Meant(in, i - 1)]

(* The bits after the last one are clear, where a left-aligned input has    *)
(* any.  BitStream.h:389-394 does not ask for it.                           *)
Tidy(in) ==
  in.right \/ \A j \in 0..7 :
    in.bits % 8 # 0 /\ j >= in.bits % 8 => in.bytes[in.bits \div 8 + 1][j] = 0

Idle == [op |-> "none", in |-> [bytes |-> <<>>, bits |-> 0, right |-> TRUE], toGo |-> 0, from |-> 0]
Busy == call.op \in {"WriteBits", "WriteStream", "ReadBits"}

Init ==
  /\ data \in Memory
  /\ numberOfBitsUsed = 0 /\ readOffset = 0
  /\ call = Idle /\ output = <<>> /\ written = <<>>

-----------------------------------------------------------------------------
(* Writing.                                                                 *)

(* dataByte, lines 363-366.                                                 *)
DataByte(in, toGo) ==
  LET byte == in.bytes[(in.bits - toGo) \div 8 + 1] IN
  IF toGo < 8 /\ in.right
  THEN [j \in 0..7 |-> IF j < toGo THEN byte[j + (8 - toGo)] ELSE 0]
  ELSE byte

(* Mutant of Put: `|=' for a new byte too.                                  *)
PutMerging(d, p, byte, toGo) ==
  LET b == ByteOf(p) IN
  [k \in DOMAIN d |->
     IF k \in p..b + 7 THEN Or(d[k], byte[k - p])
     ELSE IF p # b /\ (p - b) + toGo > 8 /\ k \in b + 8..b + 15
     THEN IF k < p + 8 THEN byte[k - p] ELSE 0
     ELSE d[k]]

(* Lines 369-380: a byte of which toGo bits count, written at p.            *)
Put(d, p, byte, toGo) ==
  LET b == ByteOf(p) IN
  [k \in DOMAIN d |->
     IF k \in p..b + 7 THEN IF p = b THEN byte[k - p] ELSE Or(d[k], byte[k - p])
     ELSE IF p # b /\ (p - b) + toGo > 8 /\ k \in b + 8..b + 15
     THEN IF k < p + 8 THEN byte[k - p] ELSE 0
     ELSE d[k]]

(* Write0 and Write1, and an iteration of Write(bitStream).                 *)
PutBit(d, p, v) ==
  IF p % 8 = 0 THEN Put(d, p, [Blank EXCEPT ![0] = v], 8)
  ELSE [d EXCEPT ![p] = Or(@, v)]

CopyIn(p, in) ==
  /\ data' = [k \in DOMAIN data |->
                IF k \in p..p + in.bits - 1 THEN Meant(in, k - p) ELSE data[k]]
  /\ numberOfBitsUsed' = p + in.bits

BeginWriteBits(in) ==
  /\ ~Busy
  /\ numberOfBitsUsed + in.bits <= 8 * Room
  /\ call' = [op |-> "WriteBits", in |-> in, toGo |-> in.bits, from |-> numberOfBitsUsed]
  /\ output' = <<>>
  /\ written' = written \o MeantBits(in)
  /\ UNCHANGED <<data, numberOfBitsUsed, readOffset>>

WriteByte ==
  /\ call.op = "WriteBits"
  /\ data' = Put(data, numberOfBitsUsed, DataByte(call.in, call.toGo), call.toGo)
  /\ numberOfBitsUsed' = numberOfBitsUsed + Least(8, call.toGo)
  /\ call' = IF call.toGo > 8 THEN [call EXCEPT !.toGo = @ - 8] ELSE Idle
  /\ UNCHANGED <<readOffset, output, written>>

(* Write(bitStream, n), where bitStream holds in.bits unread bits, right    *)
(* or not as it may be: the bits are the ones meant.                        *)
BeginWriteStream(in, n) ==
  /\ ~Busy
  /\ n > 0 /\ numberOfBitsUsed + n <= 8 * Room
  /\ LET m == Least(n, in.bits) IN
       /\ call' = [op |-> "WriteStream", in |-> in, toGo |-> m, from |-> numberOfBitsUsed]
       /\ written' = written \o SubSeq(MeantBits(in), 1, m)
  /\ output' = <<>>
  /\ UNCHANGED <<data, numberOfBitsUsed, readOffset>>

WriteStreamBit ==
  /\ call.op = "WriteStream"
  /\ data' = PutBit(data, numberOfBitsUsed, Meant(call.in, numberOfBitsUsed - call.from))
  /\ numberOfBitsUsed' = numberOfBitsUsed + 1
  /\ call' = IF call.toGo > 1 THEN [call EXCEPT !.toGo = @ - 1] ELSE Idle
  /\ UNCHANGED <<readOffset, output, written>>

(* Write(char*, n) and Write of a type: a copy when aligned.                *)
WriteBytes(in) ==
  /\ ~Busy
  /\ in.bits = 8 * Len(in.bytes)
  /\ IF numberOfBitsUsed % 8 # 0 THEN BeginWriteBits(in)
     ELSE /\ numberOfBitsUsed + in.bits <= 8 * Room
          /\ CopyIn(numberOfBitsUsed, in)
          /\ written' = written \o MeantBits(in)
          /\ call' = Idle /\ output' = <<>>
          /\ UNCHANGED readOffset

Aligned(p) == p + ((8 - (p % 8)) % 8)
(* The bits skipped are whatever is there.                                  *)
Skipped(p) == [i \in 1..Aligned(p) - p |-> data[p + i - 1]]

AlignWriteToByteBoundary ==
  /\ ~Busy
  /\ numberOfBitsUsed' = Aligned(numberOfBitsUsed)
  /\ written' = written \o Skipped(numberOfBitsUsed)
  /\ call' = Idle /\ output' = <<>>
  /\ UNCHANGED <<data, readOffset>>

WriteAlignedBytes(in) ==
  /\ ~Busy
  /\ in.bits = 8 * Len(in.bytes)
  /\ LET p == Aligned(numberOfBitsUsed) IN
       /\ p + in.bits <= 8 * Room
       /\ CopyIn(p, in)
       /\ written' = written \o Skipped(numberOfBitsUsed) \o MeantBits(in)
  /\ call' = Idle /\ output' = <<>>
  /\ UNCHANGED readOffset

WriteBit(v) ==
  /\ ~Busy
  /\ numberOfBitsUsed < 8 * Room
  /\ data' = PutBit(data, numberOfBitsUsed, v)
  /\ numberOfBitsUsed' = numberOfBitsUsed + 1
  /\ written' = Append(written, v)
  /\ call' = Idle /\ output' = <<>>
  /\ UNCHANGED readOffset

(* SetWriteOffset, backwards and byte aligned as BitStream.h:354 asks;      *)
(* ResetWritePointer is SetWriteOffset(0).                                  *)
SetWriteOffset(o) ==
  /\ ~Busy
  /\ o <= numberOfBitsUsed /\ o % 8 = 0
  /\ numberOfBitsUsed' = o
  /\ written' = SubSeq(written, 1, o)
  /\ call' = Idle /\ output' = <<>>
  /\ UNCHANGED <<data, readOffset>>

Reset ==
  /\ ~Busy
  /\ numberOfBitsUsed' = 0 /\ readOffset' = 0
  /\ written' = <<>>
  /\ call' = Idle /\ output' = <<>>
  /\ UNCHANGED data

-----------------------------------------------------------------------------
(* Reading.  A read that fails changes nothing, but for the alignment in    *)
(* ReadAlignedBytes, and is not an action.                                  *)

Reading(op, n, right, from) ==
  [op |-> op, in |-> [bytes |-> <<>>, bits |-> n, right |-> right], toGo |-> n, from |-> from]
Returned(n, right, from) == [Reading("returned", n, right, from) EXCEPT !.toGo = 0]

(* What the output array means once a read has returned.                    *)
Result == [call.in EXCEPT !.bytes = output]

BeginReadBits(n, right) ==
  /\ ~Busy
  /\ readOffset + n <= numberOfBitsUsed
  /\ call' = Reading("ReadBits", n, right, readOffset)
  /\ output' = <<>>
  /\ UNCHANGED <<data, numberOfBitsUsed, readOffset, written>>

(* Mutant of Got: the second half of a byte is forgotten.                   *)
GotHalf(p, toGo, right) ==
  LET byte == [j \in 0..7 |-> IF j < 8 - (p % 8) THEN data[p + j] ELSE 0]
  IN  IF toGo < 8 /\ right
      THEN [j \in 0..7 |-> IF j >= 8 - toGo THEN byte[j - (8 - toGo)] ELSE 0]
      ELSE byte

(* Lines 487-498: the next byte of output, toGo bits from the end.          *)
Got(p, toGo, right) ==
  LET m == p % 8
      byte == [j \in 0..7 |->
                 IF j < 8 - m \/ (m > 0 /\ toGo > 8 - m) THEN data[p + j] ELSE 0]
  IN  IF toGo < 8 /\ right
      THEN [j \in 0..7 |-> IF j >= 8 - toGo THEN byte[j - (8 - toGo)] ELSE 0]
      ELSE byte

ReadByte ==
  /\ call.op = "ReadBits"
  /\ output' = Append(output, Got(readOffset, call.toGo, call.in.right))
  /\ readOffset' = readOffset + Least(8, call.toGo)
  /\ call' = IF call.toGo > 8 THEN [call EXCEPT !.toGo = @ - 8]
             ELSE Returned(call.in.bits, call.in.right, call.from)
  /\ UNCHANGED <<data, numberOfBitsUsed, written>>

CopyOut(p, n) ==
  /\ p + 8 * n <= numberOfBitsUsed
  /\ output' = [i \in 1..n |-> [j \in 0..7 |-> data[p + 8 * (i - 1) + j]]]
  /\ call' = Returned(8 * n, TRUE, p)
  /\ readOffset' = p + 8 * n

(* Read(char*, n) and Read of a type.                                       *)
ReadBytes(n) ==
  /\ ~Busy
  /\ IF readOffset % 8 # 0 THEN BeginReadBits(8 * n, TRUE)
     ELSE CopyOut(readOffset, n) /\ UNCHANGED <<data, numberOfBitsUsed, written>>

ReadAlignedBytes(n) ==
  /\ ~Busy
  /\ LET p == Aligned(readOffset) IN
       \/ CopyOut(p, n)
       \/ p + 8 * n > numberOfBitsUsed /\ readOffset' = p /\ call' = Idle /\ output' = <<>>
  /\ UNCHANGED <<data, numberOfBitsUsed, written>>

(* Read(bool&), and ReadBit, whose callers see to it that a bit is left.    *)
ReadBit ==
  /\ ~Busy
  /\ readOffset + 1 <= numberOfBitsUsed
  /\ output' = <<[Blank EXCEPT ![7] = data[readOffset]]>>
  /\ call' = Returned(1, TRUE, readOffset)
  /\ readOffset' = readOffset + 1
  /\ UNCHANGED <<data, numberOfBitsUsed, written>>

(* SetReadOffset, ResetReadPointer, IgnoreBits, AlignReadToByteBoundary.    *)
SetReadOffset(o) ==
  /\ ~Busy
  /\ readOffset' = o
  /\ call' = Idle /\ output' = <<>>
  /\ UNCHANGED <<data, numberOfBitsUsed, written>>

-----------------------------------------------------------------------------
(* What callers have to write.                                              *)
Writable ==
  Inputs \cup {in \in {Result} : Recopy /\ call.op = "returned" /\ ~in.right}

Write ==
  \/ \E in \in Writable :
       \/ BeginWriteBits(in) \/ WriteBytes(in) \/ WriteAlignedBytes(in)
       \/ \E n \in Sizes : BeginWriteStream(in, n)
  \/ \E v \in BitValues : WriteBit(v)
  \/ WriteByte \/ WriteStreamBit
  \/ AlignWriteToByteBoundary
  \/ \E o \in Offsets : SetWriteOffset(o)
  \/ Reset

Read ==
  \/ \E n \in Sizes, right \in BOOLEAN : BeginReadBits(n, right)
  \/ \E n \in {m \in 1..Room : 8 * m \in Sizes} : ReadBytes(n) \/ ReadAlignedBytes(n)
  \/ ReadByte \/ ReadBit
  \/ \E o \in Offsets : SetReadOffset(o)

Next == Write \/ Read

Spec == Init /\ [][Next]_vars

-----------------------------------------------------------------------------
TypeOK ==
  /\ data \in [Bits(Room) -> BIT]
  /\ numberOfBitsUsed \in 0..8 * Room /\ readOffset \in 0..8 * Room
  /\ call.op \in {"none", "WriteBits", "WriteStream", "ReadBits", "returned"}
  /\ call.toGo \in 0..call.in.bits
  /\ Busy <=> call.toGo > 0
  /\ written \in Seq(BIT)

(* The stream holds the bits written, in order, to the last one, whatever   *)
(* pieces they came in, whatever was in the memory, and however far a loop  *)
(* has got (lines 167-281, 333-392).                                        *)
HoldsWhatWasWritten ==
  /\ Len(written) = numberOfBitsUsed + (IF call.op \in {"WriteBits", "WriteStream"}
                                        THEN call.toGo ELSE 0)
  /\ \A k \in 0..numberOfBitsUsed - 1 : data[k] = written[k + 1]

(* Bits are read as they were written, whether they are read in the same    *)
(* pieces or in others (lines 224-242, 287-330, 464-512).                   *)
ReadsWhatWasWritten ==
  call.op = "returned" =>
    MeantBits(Result) = SubSeq(written, call.from + 1, call.from + call.in.bits)
=============================================================================
