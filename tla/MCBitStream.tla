----------------------------- MODULE MCBitStream -----------------------------
(***************************************************************************)
(* A behaviour is about the bits of a stream, or about its memory.         *)
(*                                                                         *)
(* Of the bits there are two patterns, one of them five bits from the      *)
(* left, a byte, and a byte and three bits of the other; memory that is    *)
(* all ones.                                                               *)
(***************************************************************************)
EXTENDS BitStream, BitStreamMemory

Pattern(a, b, c) == [j \in 0..7 |-> IF j \in {a, b, c} THEN 1 ELSE 0]
A == Pattern(0, 3, 6)
B == Pattern(2, 5, 7)
LeftOnly(byte, n) == [j \in 0..7 |-> IF j < n THEN byte[j] ELSE 0]
In(bytes, bits, right) == [bytes |-> bytes, bits |-> bits, right |-> right]

MCMemory == {[k \in Bits(Room) |-> 1]}
MCInputs == {In(<<LeftOnly(A, 5)>>, 5, FALSE), In(<<A>>, 8, TRUE), In(<<A, B>>, 11, TRUE)}

StreamInit == Init /\ MemoryInit
StreamNext ==
  \/ MemoryInit /\ Next /\ UNCHANGED memory_vars
  \/ Init /\ MemoryNext /\ UNCHANGED vars
StreamSpec == StreamInit /\ [][StreamNext]_<<vars, memory_vars>>
=============================================================================
