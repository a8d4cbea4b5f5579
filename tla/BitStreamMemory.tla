--------------------------- MODULE BitStreamMemory ---------------------------
(***************************************************************************)
(* Where a RakNet::BitStream keeps its bits (BitStream.h:481-493,          *)
(* BitStream.cpp): in stackData, in a heap block, or in a buffer of the    *)
(* caller, which it neither grows nor frees.  What the bits are is left    *)
(* out, and so are the reads: they touch bits below numberOfBitsUsed only  *)
(* (lines 229, 321, 472).                                                  *)
(*                                                                         *)
(* The counters are unbounded here; in the code they are ints, and line    *)
(* 607 doubles one, so the model stands for streams below 2^30 bits.       *)
(***************************************************************************)
EXTENDS Integers

CONSTANTS
  StackBytes,     \* BITSTREAM_STACK_ALLOCATION_SIZE, 256 in the code
  MaxBits         \* bound on the bits of a stream

ASSUME BitStreamAssumption == StackBytes \in Nat \ {0} /\ MaxBits \in Nat

VARIABLES
  alive,          \* constructed, not destroyed yet
  bitsUsed,       \* numberOfBitsUsed
  numberOfBitsAllocated, copyData,
  pointer,        \* what data points to
  size            \* the bytes there

memory_vars == <<alive, bitsUsed, numberOfBitsAllocated, copyData, pointer, size>>

Bytes(bits) == (bits + 7) \div 8
Larger(a, b) == IF a < b THEN b ELSE a
MaxBytes == Bytes(MaxBits)

MemoryInit ==
  /\ alive = FALSE
  /\ bitsUsed = 0 /\ numberOfBitsAllocated = 0
  /\ copyData = TRUE
  /\ pointer = "null" /\ size = 0

Buffer(d, n) == pointer' = d /\ size' = n

(* BitStream(n); BitStream() is BitStream(0).                               *)
(* Mutant of ConstructSized: the allocated bits are those of stackData.     *)
ConstructSizedWrongly(n) ==
  /\ ~alive /\ alive' = TRUE
  /\ bitsUsed' = 0
  /\ IF n <= StackBytes THEN Buffer("stack", StackBytes) ELSE Buffer("heap", n)
  /\ numberOfBitsAllocated' = 8 * StackBytes
  /\ copyData' = TRUE

ConstructSized(n) ==
  /\ ~alive /\ alive' = TRUE
  /\ bitsUsed' = 0
  /\ IF n <= StackBytes THEN Buffer("stack", StackBytes) ELSE Buffer("heap", n)
  /\ numberOfBitsAllocated' = 8 * size'
  /\ copyData' = TRUE

(* BitStream(_data, n, true).                                               *)
ConstructCopy(n) ==
  /\ ~alive /\ alive' = TRUE
  /\ bitsUsed' = 8 * n
  /\ \/ n = 0 /\ Buffer("null", 0)
     \/ 0 < n /\ n < StackBytes /\ Buffer("stack", StackBytes)
     \/ StackBytes <= n /\ Buffer("heap", n)
  /\ numberOfBitsAllocated' = 8 * size'
  /\ copyData' = TRUE

(* BitStream(_data, n, false), where _data has room for r bytes.            *)
ConstructOver(n, r) ==
  /\ ~alive /\ alive' = TRUE
  /\ n <= r
  /\ bitsUsed' = 8 * n
  /\ Buffer("user", r)
  /\ numberOfBitsAllocated' = 8 * n
  /\ copyData' = FALSE

(* "if you pass a pointer copy": the caller says how much room there is.    *)
SetNumberOfBitsAllocated(n) ==
  /\ alive /\ ~copyData
  /\ numberOfBitsAllocated <= n /\ n <= 8 * size
  /\ numberOfBitsAllocated' = n
  /\ UNCHANGED <<alive, bitsUsed, copyData, pointer, size>>

Frees == copyData /\ numberOfBitsAllocated > 8 * StackBytes

(* ~BitStream().  What it leaves is Init's state; LargeBlocksAreFreed and   *)
(* FreesOnlyHeap say what it does to the block.                             *)
Destruct ==
  /\ alive /\ alive' = FALSE
  /\ bitsUsed' = 0 /\ numberOfBitsAllocated' = 0 /\ copyData' = TRUE
  /\ Buffer("null", 0)

(* Mutants: the -1 of both sides forgotten; the bits in use forgotten; a    *)
(* number of bytes compared with a number of bits.                          *)
NeedsMoreOffByOne(k) == numberOfBitsAllocated \div 8 < (bitsUsed + k) \div 8
WantedForgettingUsed(k) == 2 * k
FitsStackInBits(n) == n <= 8 * StackBytes

NeedsMore(k) == (numberOfBitsAllocated - 1) \div 8 < (bitsUsed + k - 1) \div 8
Wanted(k) == 2 * (bitsUsed + k)
FitsStack(n) == n <= StackBytes

Reallocate(n) ==
  \/ /\ pointer = "stack"
     /\ IF FitsStack(n) THEN UNCHANGED <<pointer, size>> ELSE Buffer("heap", n)
     /\ UNCHANGED copyData
  \/ /\ pointer # "stack" /\ copyData
     /\ Buffer("heap", n)
     /\ UNCHANGED copyData
  \/ /\ pointer # "stack" /\ ~copyData
     /\ IF FitsStack(n) THEN Buffer("stack", StackBytes) ELSE Buffer("heap", n)
     /\ copyData' = TRUE

AddBitsAndReallocate(k) ==
  \/ /\ NeedsMore(k)
     /\ Reallocate(Bytes(Wanted(k)))
     /\ numberOfBitsAllocated' = Larger(numberOfBitsAllocated, Wanted(k))
  \/ /\ ~NeedsMore(k)
     /\ numberOfBitsAllocated' = Larger(numberOfBitsAllocated, bitsUsed + k)
     /\ UNCHANGED <<pointer, size, copyData>>

(* Write, WriteBits, Write0 and Write1 reserve and write k bits;            *)
(* Write(bitStream, k) writes those of them that bitStream has.             *)
WriteSome(k, written) ==
  /\ alive
  /\ k > 0 /\ written <= k /\ bitsUsed + k <= MaxBits
  /\ AddBitsAndReallocate(k)
  /\ bitsUsed' = bitsUsed + written
  /\ UNCHANGED alive

(* Nothing is allocated for the bits skipped.                               *)
AlignWrite ==
  /\ alive
  /\ bitsUsed' = 8 * Bytes(bitsUsed)
  /\ UNCHANGED <<alive, numberOfBitsAllocated, copyData, pointer, size>>

(* Reset, ResetWritePointer, and SetWriteOffset as handle_rpc_packet calls  *)
(* it, to go back.                                                          *)
GoBack(o) ==
  /\ alive
  /\ o <= bitsUsed
  /\ bitsUsed' = o
  /\ UNCHANGED <<alive, numberOfBitsAllocated, copyData, pointer, size>>

(* Mutant of AssertCopyData: copyData is left as it is.                     *)
AssertCopyDataSilently ==
  /\ alive /\ ~copyData
  /\ IF numberOfBitsAllocated > 0
     THEN Buffer("heap", Bytes(numberOfBitsAllocated)) ELSE Buffer("null", 0)
  /\ UNCHANGED <<alive, bitsUsed, numberOfBitsAllocated, copyData>>

AssertCopyData ==
  /\ alive /\ ~copyData
  /\ copyData' = TRUE
  /\ IF numberOfBitsAllocated > 0
     THEN Buffer("heap", Bytes(numberOfBitsAllocated)) ELSE Buffer("null", 0)
  /\ UNCHANGED <<alive, bitsUsed, numberOfBitsAllocated>>

MemoryNext ==
  \/ \E n \in 0..MaxBytes : \/ ConstructSized(n) \/ ConstructCopy(n)
                            \/ \E r \in 0..MaxBytes : ConstructOver(n, r)
  \/ \E n \in 0..8 * MaxBytes : SetNumberOfBitsAllocated(n) \/ GoBack(n)
  \/ \E k \in 1..MaxBits, m \in 0..MaxBits : WriteSome(k, m)
  \/ AlignWrite \/ AssertCopyData \/ Destruct

MemorySpec == MemoryInit /\ [][MemoryNext]_memory_vars

-----------------------------------------------------------------------------
(* copyData is off exactly while the caller's buffer is in use, and a       *)
(* pointer goes with the size of what it points to (BitStream.h:486-493).   *)
MemoryTypeOK ==
  /\ alive \in BOOLEAN /\ copyData \in BOOLEAN
  /\ bitsUsed \in Nat /\ numberOfBitsAllocated \in Nat /\ size \in Nat
  /\ pointer \in {"null", "stack", "heap", "user"}
  /\ copyData <=> pointer # "user"
  /\ pointer = "null" => size = 0
  /\ pointer = "stack" => size = StackBytes

(* Every bit written or skipped lies in the buffer (lines 167-281, 333-392):*)
(* in particular, AlignWriteToByteBoundary needs no room that is not there. *)
BitsAreInBuffer == bitsUsed <= 8 * size

(* The bytes a reallocation copies (lines 618, 640, 777) hold all the bits  *)
(* in use, and the old buffer has them all; hence BitsAreInBuffer.          *)
GrowthKeepsBits ==
  /\ bitsUsed <= 8 * Bytes(numberOfBitsAllocated)
  /\ Bytes(numberOfBitsAllocated) <= size

(* The destructor, which knows a heap block only by the number of bits      *)
(* allocated (line 139), never frees stackData or the caller's buffer...    *)
FreesOnlyHeap == Frees => pointer = "heap"

(* ... and frees every block larger than stackData.                         *)
LargeBlocksAreFreed == pointer = "heap" /\ size > StackBytes => Frees

(* Both.  No larger than stackData are the blocks of a copy of exactly its  *)
(* size (line 107 tests <, line 139 <=), of the first write after an empty  *)
(* copy (122) and of AssertCopyData (771): those it leaks, although         *)
(* BitStream.h:492 has streams switch to the heap only beyond that size.    *)
FreesWhatItOwns == FreesOnlyHeap /\ LargeBlocksAreFreed
=============================================================================
