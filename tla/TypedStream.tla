---------------------------- MODULE TypedStream ----------------------------
(***************************************************************************)
(* What BitStream's templates (BitStream.h:496-1257) and the compression   *)
(* of integers (BitStream.cpp:402-459, 515-588) write for a value, and     *)
(* what the matching reads make of the bits of a stream, long enough or    *)
(* not.  A word is the sequence of bits of a variable, byte after byte, as *)
(* WriteBits takes them; the empty sequence stands for a variable that was *)
(* not set.  A float or a double in -1..1 is a number of Grid-ths.         *)
(*                                                                         *)
(* A read is a record [ok, at, v]: what it returns, where it leaves        *)
(* readOffset, and the variables of its caller.  Reads that branch on an   *)
(* uninitialized bool have several outcomes, so a read gives a set.        *)
(***************************************************************************)
EXTENDS Integers, Sequences, FiniteSetsExt

CONSTANTS
  Short,          \* bits of an unsigned short (16)
  Long,           \* bits of an unsigned int and of a float (32)
  Grid            \* resolution of the numbers callers write

ASSUME WidthAssumption ==
  /\ Short \in Nat /\ Long \in Nat /\ 1 < Short /\ Short < Long
  /\ Grid \in Nat \ {0}

BIT == {0, 1}
Unset == <<>>
Yes == <<1>>
No == <<0>>
Steps == 2^Short - 1
Repeat(b, n) == [i \in 1..n |-> b]

(* The bits of a number below 2^n.                                          *)
Bits(q, n) == [i \in 1..n |-> (q \div 2^(n - i)) % 2]
Number(word) == CHOOSE q \in 0..2^Len(word) - 1 : Bits(q, Len(word)) = word
Magnitude(n) == IF n < 0 THEN -n ELSE n
Sign(n) == IF n < 0 THEN Yes ELSE No

-----------------------------------------------------------------------------
(* Writing.                                                                 *)

(* WriteCompressed of n bytes, the lowest first: a 1 for every zero byte    *)
(* from the top, then a 0 and the rest; of the lowest byte the upper half   *)
(* is left out in the same way.                                             *)
ByteAt(word, k) == SubSeq(word, 8 * k - 7, 8 * k)
Compressed(word) ==
  LET n == Len(word) \div 8
      significant == {k \in 2..n : ByteAt(word, k) # Repeat(0, 8)}
  IN  IF significant # {}
      THEN LET k == Max(significant)
           IN  Repeat(1, n - k) \o No \o SubSeq(word, 1, 8 * k)
      ELSE IF SubSeq(word, 1, 4) = Repeat(0, 4)
           THEN Repeat(1, n) \o SubSeq(word, 5, 8)
           ELSE Repeat(1, n - 1) \o No \o SubSeq(word, 1, 8)

(* WriteCompressed(float): (unsigned short)((var + 1.0f) * 32767.5f).       *)
(* Mutant of CompressedFloat: 1 is not added.                               *)
CompressedFloatPositive(n) == Bits((Magnitude(n) * Steps) \div (2 * Grid), Short)

CompressedFloat(n) == Bits(((n + Grid) * Steps) \div (2 * Grid), Short)

(* WriteCompressed(double): (unsigned long)((var + 1.0) * 2147483648.0).    *)
(* 1.0 itself, whose product is too large for the conversion, is left out.  *)
CompressedDouble(n) == Bits(((n + Grid) * 2^Long) \div (2 * Grid), Long)

(* A flag for zero, or a flag and the number.                               *)
FlaggedFloat(n) == IF n = 0 THEN Yes ELSE No \o CompressedFloat(n)
NormVector(x, y, z) == Sign(x) \o FlaggedFloat(y) \o FlaggedFloat(z)

(* The magnitude is written as it is, and what it divides unless it is 0.   *)
Vector(length, x, y, z) ==
  length \o IF length = Repeat(0, Long) THEN <<>>
            ELSE CompressedFloat(x) \o CompressedFloat(y) \o CompressedFloat(z)

(* (unsigned short)(fabs(x) * 65535.0).                                     *)
Fraction(n) == Bits((Magnitude(n) * Steps) \div Grid, Short)
NormQuat(w, x, y, z) ==
  Sign(w) \o Sign(x) \o Sign(y) \o Sign(z) \o Fraction(x) \o Fraction(y) \o Fraction(z)

(* The bits that Write and its relatives append for an item.                *)
Encode(item) ==
  CASE item.kind = "bool" -> item.v
    [] item.kind = "word" -> item.v
    [] item.kind = "player" -> item.address \o item.port
    [] item.kind = "delta" -> IF item.v = item.last THEN No ELSE Yes \o item.v
    [] item.kind = "compressed" -> Compressed(item.v)
    [] item.kind = "compressedDelta" ->
         IF item.v = item.last THEN No ELSE Yes \o Compressed(item.v)
    [] item.kind = "float" -> CompressedFloat(item.n)
    [] item.kind = "double" -> CompressedDouble(item.n)
    [] item.kind = "normVector" -> NormVector(item.x, item.y, item.z)
    [] item.kind = "vector" -> Vector(item.length, item.x, item.y, item.z)
    [] item.kind = "normQuat" -> NormQuat(item.w, item.x, item.y, item.z)

Kinds == {"bool", "word", "player", "delta", "compressed", "compressedDelta",
          "float", "double", "normVector", "vector", "normQuat"}

-----------------------------------------------------------------------------
(* Reading from the bits b of a stream, at readOffset at.                   *)

(* Read(var) of n bits, of a bool for n = 1: all of them or nothing.        *)
Take(b, at, n) ==
  IF at + n <= Len(b)
  THEN [ok |-> TRUE, at |-> at + n, v |-> SubSeq(b, at + 1, at + n)]
  ELSE [ok |-> FALSE, at |-> at, v |-> Unset]

(* The value a bool variable may have after a read.                         *)
Flag(read) == IF read.ok THEN {read.v} ELSE {Yes, No}

(* The next one behind a read.                                              *)
TakeNext(b, read, n) == Take(b, read.at, n)

(* Read(PlayerID): what the first Read returns is dropped.                  *)
ReadPlayer(b, at) ==
  LET address == Take(b, at, Long)
      port == TakeNext(b, address, Short)
  IN  [ok |-> port.ok, at |-> port.at, v |-> <<address.v, port.v>>]

(* ReadCompressed of n bytes: up to n - 1 flags, the first 0 among them     *)
(* announces the bytes that are left, the last flag half a byte or one.     *)
ReadCompressed(b, at, n) ==
  LET ones == Min({j \in 0..n - 1 :
                     j = n - 1 \/ Take(b, at + j, 1).v # Yes})
      flag == Take(b, at + ones, 1)
      size == IF ones < n - 1 THEN 8 * (n - ones) ELSE IF flag.v = Yes THEN 4 ELSE 8
      rest == TakeNext(b, flag, size)
  IN  IF flag.ok /\ rest.ok
      THEN [rest EXCEPT !.v = IF size = 4 THEN Repeat(0, 4) \o @ \o Repeat(0, 8 * (n - 1))
                              ELSE @ \o Repeat(0, 8 * n - size)]
      ELSE [ok |-> FALSE, at |-> rest.at, v |-> Unset]

(* ReadDelta and ReadCompressedDelta: the variable keeps its value old when *)
(* the flag is 0, else rest is read behind it.  Read(flag) may fail and     *)
(* leave the flag as it was.                                                *)
ReadFlagged(b, at, old, rest) ==
  LET flag == Take(b, at, 1) IN
  {IF f = Yes THEN [rest EXCEPT !.v = IF @ = Unset THEN <<old>> ELSE <<@>>]
   ELSE [ok |-> flag.ok, at |-> flag.at, v |-> <<old>>] : f \in Flag(flag)}

(* What ReadNormVector and ReadNormQuat take the root of for the number     *)
(* they do not find in the stream, x and w, times Steps^2.  ReadNormVector  *)
(* does not ask for its sign: less than 0 makes x no number (line 1143).    *)
Coordinate(word) == IF word = No THEN 0 ELSE 2 * Number(word) - Steps
SquareOfX(y, z) ==
  IF Unset \in {y, z} THEN Unset
  ELSE <<Steps * Steps - Coordinate(y) * Coordinate(y) - Coordinate(z) * Coordinate(z)>>
SquareOfW(x, y, z) ==
  <<Max({0, Steps * Steps - Number(x) * Number(x) - Number(y) * Number(y) - Number(z) * Number(z)})>>

(* ReadNormVector: the sign of x, then y and z, each behind a flag, then    *)
(* the square of x; of the first three reads no result is looked at, nor    *)
(* that of y.                                                               *)
ReadNormVector(b, at) ==
  LET sign == Take(b, at, 1)
      zeroY == TakeNext(b, sign, 1)
      Rest(y) ==
        LET zeroZ == TakeNext(b, y, 1)
            z == IF zeroZ.v = Yes THEN [zeroZ EXCEPT !.v = No]
                 ELSE TakeNext(b, zeroZ, Short)
        IN  IF zeroZ.ok
            THEN [ok |-> z.ok, at |-> z.at, v |-> <<sign.v, y.v, z.v, SquareOfX(y.v, z.v)>>]
            ELSE [ok |-> FALSE, at |-> y.at, v |-> <<sign.v, y.v, Unset, Unset>>]
  IN  {Rest(IF f = Yes THEN [ok |-> TRUE, at |-> zeroY.at, v |-> No]
            ELSE TakeNext(b, zeroY, Short)) : f \in Flag(zeroY)}

(* ReadVector: of the reads of x and y no result is looked at.              *)
(* Mutant of ReadVector: nor that of z.                                     *)
ReadVectorTrusting(b, at) ==
  LET length == Take(b, at, Long)
      x == TakeNext(b, length, Short)
      y == TakeNext(b, x, Short)
      z == TakeNext(b, y, Short)
  IN  IF ~length.ok THEN [ok |-> FALSE, at |-> at, v |-> <<Unset>>]
      ELSE IF length.v = Repeat(0, Long) THEN [length EXCEPT !.v = <<@>>]
      ELSE [ok |-> TRUE, at |-> z.at, v |-> <<length.v, x.v, y.v, z.v>>]

ReadVector(b, at) ==
  LET length == Take(b, at, Long)
      x == TakeNext(b, length, Short)
      y == TakeNext(b, x, Short)
      z == TakeNext(b, y, Short)
  IN  IF ~length.ok THEN [ok |-> FALSE, at |-> at, v |-> <<Unset>>]
      ELSE IF length.v = Repeat(0, Long) THEN [length EXCEPT !.v = <<@>>]
      ELSE [ok |-> z.ok, at |-> z.at, v |-> <<length.v, x.v, y.v, z.v>>]

(* ReadNormQuat: four signs and three numbers, of which w is made; only the *)
(* last read counts.                                                        *)
ReadNormQuat(b, at) ==
  LET w == Take(b, at, 1)
      x == TakeNext(b, w, 1)
      y == TakeNext(b, x, 1)
      z == TakeNext(b, y, 1)
      cx == TakeNext(b, z, Short)
      cy == TakeNext(b, cx, Short)
      cz == TakeNext(b, cy, Short)
  IN  [ok |-> cz.ok, at |-> cz.at,
       v |-> <<w.v, x.v, y.v, z.v, cx.v, cy.v, cz.v,
               IF cz.ok THEN SquareOfW(cx.v, cy.v, cz.v) ELSE Unset>>]

Single(read) == [read EXCEPT !.v = <<@>>]

(* What reading a value of a kind may come to; old is the caller's copy     *)
(* for a delta, bytes the size of an integer.                               *)
Decode(kind, b, at, old, bytes) ==
  LET behind == Take(b, at, 1).at
      Whole(p) == Take(b, p, 8 * bytes)
      Small(p) == ReadCompressed(b, p, bytes)
  IN  CASE kind = "bool" -> {Single(Take(b, at, 1))}
        [] kind = "word" -> {Single(Whole(at))}
        [] kind = "player" -> {ReadPlayer(b, at)}
        [] kind = "delta" -> ReadFlagged(b, at, old, Whole(behind))
        [] kind = "compressed" -> {Single(Small(at))}
        [] kind = "compressedDelta" -> ReadFlagged(b, at, old, Small(behind))
        [] kind = "float" -> {Single(Take(b, at, Short))}
        [] kind = "double" -> {Single(Take(b, at, Long))}
        [] kind = "normVector" -> ReadNormVector(b, at)
        [] kind = "vector" -> {ReadVector(b, at)}
        [] kind = "normQuat" -> {ReadNormQuat(b, at)}
=============================================================================
