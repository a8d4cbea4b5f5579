------------------------- MODULE BitStreamMemoryProofs -------------------------
(***************************************************************************)
(* The invariants of BitStreamMemory for any size of stackData and streams *)
(* of any length.  They are inductive together: the buffer must be big     *)
(* enough for the bits allocated, the bits allocated for those in use,     *)
(* stackData must never count as more than itself, and what is allocated   *)
(* beyond it must be a heap block.                                         *)
(***************************************************************************)
EXTENDS BitStreamMemory, TLAPS

USE BitStreamAssumption

IInv ==
  /\ MemoryTypeOK
  /\ pointer = "null" => numberOfBitsAllocated = 0
  /\ pointer = "stack" => numberOfBitsAllocated <= 8 * StackBytes
  /\ pointer = "heap" /\ size > StackBytes => numberOfBitsAllocated > 8 * StackBytes
  /\ GrowthKeepsBits

(* What BITS_TO_BYTES does: the least number of bytes that hold the bits.   *)
LEMMA BytesHold ==
  ASSUME NEW b \in Nat
  PROVE  /\ Bytes(b) \in Nat
         /\ b <= 8 * Bytes(b) /\ 8 * Bytes(b) < b + 8
  BY SMT DEF Bytes

LEMMA BytesOfBytes == ASSUME NEW n \in Nat PROVE Bytes(8 * n) = n
  BY SMT DEF Bytes

LEMMA BytesGrow ==
  ASSUME NEW a \in Nat, NEW b \in Nat, a <= b PROVE Bytes(a) <= Bytes(b)
  BY SMT DEF Bytes

(* The test of line 598 compares bytes.                                     *)
LEMMA NeedsMoreBytes ==
  ASSUME MemoryTypeOK, NEW k \in Nat, k > 0
  PROVE  NeedsMore(k) <=> Bytes(numberOfBitsAllocated) < Bytes(bitsUsed + k)
<1> DEFINE a == numberOfBitsAllocated
           u == bitsUsed + k
<1>1. a \in Nat /\ u \in Nat
  BY DEF MemoryTypeOK
<1>2. NeedsMore(k) <=> (a - 1) \div 8 < (u - 1) \div 8
  <2>1. bitsUsed + (k - 1) = u - 1
    BY DEF MemoryTypeOK
  <2> QED  BY <2>1, Zenon DEF NeedsMore
<1> HIDE DEF a, u
<1>3. /\ (a + 7) \div 8 = (a - 1) \div 8 + 1
      /\ (u + 7) \div 8 = (u - 1) \div 8 + 1
  BY <1>1, SMT
<1>4. (a - 1) \div 8 \in Int /\ (u - 1) \div 8 \in Int
  BY <1>1, SMT
<1>5. NeedsMore(k) <=> Bytes(a) < Bytes(u)
  BY <1>2, <1>3, <1>4 DEF Bytes
<1> QED  BY <1>5 DEF a, u

LEMMA InitInv == MemoryInit => IInv
<1>1. Bytes(0) = 0  BY SMT DEF Bytes
<1>2. MemoryInit => alive \in BOOLEAN /\ copyData \in BOOLEAN
  BY Zenon DEF MemoryInit
<1> QED  BY <1>1, <1>2 DEF MemoryInit, IInv, MemoryTypeOK, GrowthKeepsBits

-----------------------------------------------------------------------------
(* What a reallocation leaves, whichever way it goes.                       *)
LEMMA Reallocated ==
  ASSUME IInv, NEW n \in Nat, Bytes(numberOfBitsAllocated) <= n, n > 0,
         Reallocate(n)
  PROVE  /\ copyData' = TRUE
         /\ \/ pointer' = "heap" /\ size' = n
            \/ pointer' = "stack" /\ size' = StackBytes /\ n <= StackBytes
  BY DEF IInv, MemoryTypeOK, Reallocate, FitsStack, Buffer

LEMMA Reserved ==
  ASSUME IInv, NEW k \in Nat, k > 0, AddBitsAndReallocate(k)
  PROVE  /\ numberOfBitsAllocated' \in Nat /\ size' \in Nat
         /\ bitsUsed + k <= 8 * Bytes(numberOfBitsAllocated')
         /\ Bytes(numberOfBitsAllocated') <= size'
         /\ pointer' \in {"stack", "heap", "user"}
         /\ copyData' \in BOOLEAN /\ (copyData' <=> pointer' # "user")
         /\ pointer' = "stack" =>
              size' = StackBytes /\ numberOfBitsAllocated' <= 8 * StackBytes
         /\ pointer' = "heap" /\ size' > StackBytes =>
              numberOfBitsAllocated' > 8 * StackBytes
<1> DEFINE u == bitsUsed + k
           a == numberOfBitsAllocated
           a1 == numberOfBitsAllocated'
<1>1. u \in Nat /\ a \in Nat /\ size \in Nat /\ u > 0
  BY DEF IInv, MemoryTypeOK
<1>2. CASE NeedsMore(k)
  <2> DEFINE n == Bytes(2 * u)
  <2>1. /\ Reallocate(n)
        /\ a1 = Larger(a, 2 * u)
    BY <1>2 DEF AddBitsAndReallocate, Wanted
  <2>2. Bytes(a) < Bytes(u)
    BY <1>2, NeedsMoreBytes DEF IInv
  <2>3. a < u
    <3>1. CASE u <= a
      BY <3>1, <2>2, <1>1, BytesGrow, BytesHold
    <3> QED  BY <3>1, <1>1
  <2>4. a1 = 2 * u /\ 2 * u \in Nat
    BY <2>1, <2>3, <1>1 DEF Larger
  <2>5. n \in Nat /\ 2 * u <= 8 * n /\ 8 * n < 2 * u + 8
    BY <2>4, BytesHold
  <2>6. Bytes(a) <= n /\ n > 0
    <3>1. Bytes(a) <= n  BY <2>3, <2>4, <1>1, BytesGrow
    <3>2. n > 0  BY <2>5, <1>1
    <3> QED  BY <3>1, <3>2
  <2>7. /\ copyData' = TRUE
        /\ \/ pointer' = "heap" /\ size' = n
           \/ pointer' = "stack" /\ size' = StackBytes /\ n <= StackBytes
    <3> HIDE DEF n
    <3> QED  BY <2>1, <2>5, <2>6, Reallocated
  <2>8. Bytes(a1) = n
    BY <2>4
  <2>9. u <= 8 * n
    BY <2>5, <1>1
  <2> HIDE DEF n
  <2>10. CASE pointer' = "heap" /\ size' = n
    BY <2>10, <2>4, <2>5, <2>7, <2>8, <2>9
  <2>11. CASE pointer' = "stack" /\ size' = StackBytes /\ n <= StackBytes
    BY <2>11, <2>4, <2>5, <2>7, <2>8, <2>9
  <2> QED  BY <2>7, <2>10, <2>11
<1>3. CASE ~NeedsMore(k)
  <2>1. /\ a1 = Larger(a, u)
        /\ UNCHANGED <<pointer, size, copyData>>
    BY <1>3 DEF AddBitsAndReallocate
  <2>2. Bytes(u) <= Bytes(a)
    <3>1. Bytes(u) \in Nat /\ Bytes(a) \in Nat  BY <1>1, BytesHold
    <3>2. ~(Bytes(a) < Bytes(u))  BY <1>3, NeedsMoreBytes DEF IInv
    <3> QED  BY <3>1, <3>2
  <2>3. a1 \in Nat /\ a <= a1 /\ u <= a1 /\ Bytes(a1) = Bytes(a)
    <3>1. CASE a < u
      <4>1. a1 = u  BY <3>1, <2>1 DEF Larger
      <4>2. Bytes(a) <= Bytes(u)  BY <3>1, <1>1, BytesGrow
      <4>3. Bytes(u) \in Nat /\ Bytes(a) \in Nat  BY <1>1, BytesHold
      <4> QED  BY <4>1, <4>2, <4>3, <3>1, <2>2, <1>1
    <3>2. CASE ~(a < u)
      BY <3>2, <2>1, <1>1 DEF Larger
    <3> QED  BY <3>1, <3>2
  <2>4. Bytes(a) <= size
    BY DEF IInv, GrowthKeepsBits
  <2>5. u <= 8 * Bytes(a1)
    BY <2>3, <1>1, BytesHold
  <2>6. pointer # "null"
    <3>1. CASE pointer = "null"
      <4>1. a = 0  BY <3>1 DEF IInv
      <4>2. Bytes(a) = 0  BY <4>1 DEF Bytes
      <4>3. Bytes(u) > 0  BY <1>1, BytesHold
      <4> QED  BY <4>2, <4>3, <2>2, <1>1, BytesHold
    <3> QED  BY <3>1
  <2>7. pointer = "stack" => a1 <= 8 * StackBytes
    <3>1. pointer = "stack" => size = StackBytes  BY DEF IInv, MemoryTypeOK
    <3>2. 8 * Bytes(a1) >= a1 /\ Bytes(a1) \in Nat  BY <2>3, BytesHold
    <3> QED  BY <3>1, <3>2, <2>3, <2>4, <1>1
  <2>8. pointer = "heap" /\ size > StackBytes => a1 > 8 * StackBytes
    BY <2>3, <1>1 DEF IInv
  <2>9. pointer \in {"stack", "heap", "user"} /\ copyData \in BOOLEAN
        /\ (copyData <=> pointer # "user") /\ (pointer = "stack" => size = StackBytes)
    BY <2>6 DEF IInv, MemoryTypeOK
  <2> QED  BY <2>1, <2>3, <2>4, <2>5, <2>7, <2>8, <2>9, <1>1
<1> QED  BY <1>2, <1>3

-----------------------------------------------------------------------------
(* Each action preserves the invariant.                                     *)
LEMMA ConstructInv ==
  ASSUME IInv, NEW n \in Nat, NEW r \in Nat,
         ConstructSized(n) \/ ConstructCopy(n) \/ ConstructOver(n, r)
  PROVE  IInv'
<1>1. Bytes(8 * n) = n /\ Bytes(8 * StackBytes) = StackBytes /\ Bytes(0) = 0
  BY BytesOfBytes, SMT DEF Bytes
<1>2. CASE ConstructSized(n)
  BY <1>2, <1>1 DEF ConstructSized, Buffer, IInv, MemoryTypeOK, GrowthKeepsBits
<1>3. CASE ConstructCopy(n)
  BY <1>3, <1>1 DEF ConstructCopy, Buffer, IInv, MemoryTypeOK, GrowthKeepsBits
<1>4. CASE ConstructOver(n, r)
  <2>1. alive' \in BOOLEAN /\ copyData' \in BOOLEAN
    BY <1>4, Zenon DEF ConstructOver
  <2> QED
    BY <1>4, <1>1, <2>1 DEF ConstructOver, Buffer, IInv, MemoryTypeOK, GrowthKeepsBits
<1> QED  BY <1>2, <1>3, <1>4

LEMMA SetAllocatedInv ==
  ASSUME IInv, NEW n \in Nat, SetNumberOfBitsAllocated(n) PROVE IInv'
<1>1. pointer = "user" /\ numberOfBitsAllocated <= n /\ n <= 8 * size
  BY DEF IInv, MemoryTypeOK, SetNumberOfBitsAllocated
<1>2. Bytes(numberOfBitsAllocated) <= Bytes(n)
  BY <1>1, BytesGrow DEF IInv, MemoryTypeOK
<1>3. Bytes(n) <= size /\ Bytes(n) \in Nat
  <2>1. size \in Nat  BY DEF IInv, MemoryTypeOK
  <2>2. Bytes(n) <= Bytes(8 * size) /\ Bytes(8 * size) = size
    BY <1>1, <2>1, BytesGrow, BytesOfBytes
  <2> QED  BY <2>2, BytesHold
<1>4. Bytes(numberOfBitsAllocated) \in Nat
  BY BytesHold DEF IInv, MemoryTypeOK
<1> QED
  BY <1>1, <1>2, <1>3, <1>4
  DEF IInv, MemoryTypeOK, GrowthKeepsBits, SetNumberOfBitsAllocated

LEMMA DestructInv == ASSUME IInv, Destruct PROVE IInv'
<1>1. Bytes(0) = 0  BY SMT DEF Bytes
<1>2. alive' \in BOOLEAN /\ copyData' \in BOOLEAN
  BY Zenon DEF Destruct
<1> QED  BY <1>1, <1>2 DEF Destruct, Buffer, IInv, MemoryTypeOK, GrowthKeepsBits

LEMMA WriteInv ==
  ASSUME IInv, NEW k \in Nat, NEW m \in Nat, WriteSome(k, m) PROVE IInv'
<1>1. k > 0 /\ AddBitsAndReallocate(k) /\ m <= k
      /\ bitsUsed' = bitsUsed + m /\ alive' = alive
  BY DEF WriteSome
<1>2. bitsUsed' \in Nat /\ bitsUsed' <= bitsUsed + k
  BY <1>1 DEF IInv, MemoryTypeOK
<1>3. /\ numberOfBitsAllocated' \in Nat /\ size' \in Nat
      /\ bitsUsed + k <= 8 * Bytes(numberOfBitsAllocated')
      /\ Bytes(numberOfBitsAllocated') <= size'
      /\ pointer' \in {"stack", "heap", "user"}
      /\ copyData' \in BOOLEAN /\ (copyData' <=> pointer' # "user")
      /\ pointer' = "stack" =>
           size' = StackBytes /\ numberOfBitsAllocated' <= 8 * StackBytes
      /\ pointer' = "heap" /\ size' > StackBytes =>
           numberOfBitsAllocated' > 8 * StackBytes
  BY <1>1, Reserved
<1>4. Bytes(numberOfBitsAllocated') \in Nat /\ bitsUsed \in Nat
  BY <1>3, BytesHold DEF IInv, MemoryTypeOK
<1>5. bitsUsed' <= 8 * Bytes(numberOfBitsAllocated')
  BY <1>2, <1>3, <1>4
<1> QED
  BY <1>1, <1>2, <1>3, <1>5 DEF IInv, MemoryTypeOK, GrowthKeepsBits

(* Skipping to the byte boundary reaches no further than the byte in use.   *)
LEMMA AlignInv == ASSUME IInv, AlignWrite PROVE IInv'
<1>1. Bytes(bitsUsed) <= Bytes(numberOfBitsAllocated)
  <2>1. bitsUsed \in Nat /\ numberOfBitsAllocated \in Nat
    BY DEF IInv, MemoryTypeOK
  <2>2. bitsUsed <= 8 * Bytes(numberOfBitsAllocated)
    BY DEF IInv, GrowthKeepsBits
  <2>3. Bytes(bitsUsed) \in Nat /\ Bytes(numberOfBitsAllocated) \in Nat
        /\ 8 * Bytes(bitsUsed) < bitsUsed + 8
    BY <2>1, BytesHold
  <2> QED  BY <2>1, <2>2, <2>3
<1>2. Bytes(bitsUsed) \in Nat /\ Bytes(numberOfBitsAllocated) \in Nat
  BY BytesHold DEF IInv, MemoryTypeOK
<1> QED
  BY <1>1, <1>2 DEF AlignWrite, IInv, MemoryTypeOK, GrowthKeepsBits

LEMMA SetWriteOffsetInv ==
  ASSUME IInv, NEW o \in Nat, GoBack(o) PROVE IInv'
<1>1. Bytes(numberOfBitsAllocated) \in Nat
  BY BytesHold DEF IInv, MemoryTypeOK
<1> QED
  BY <1>1 DEF GoBack, IInv, MemoryTypeOK, GrowthKeepsBits

LEMMA AssertCopyInv == ASSUME IInv, AssertCopyData PROVE IInv'
<1> DEFINE a == numberOfBitsAllocated
<1>1. a \in Nat /\ Bytes(a) \in Nat /\ a <= 8 * Bytes(a) /\ 8 * Bytes(a) < a + 8
  BY BytesHold DEF IInv, MemoryTypeOK
<1>2. numberOfBitsAllocated' = a
  BY DEF AssertCopyData
<1>3. Bytes(0) = 0  BY SMT DEF Bytes
<1>4. CASE a > 0
  BY <1>1, <1>2, <1>4
  DEF AssertCopyData, Buffer, IInv, MemoryTypeOK, GrowthKeepsBits
<1>5. CASE a = 0
  BY <1>1, <1>2, <1>3, <1>5
  DEF AssertCopyData, Buffer, IInv, MemoryTypeOK, GrowthKeepsBits
<1> QED  BY <1>1, <1>4, <1>5

LEMMA StutterInv == ASSUME IInv, UNCHANGED memory_vars PROVE IInv'
  BY DEF memory_vars, IInv, MemoryTypeOK, GrowthKeepsBits

LEMMA NextInv == ASSUME IInv, [MemoryNext]_memory_vars PROVE IInv'
<1>1. MaxBytes \in Nat
  BY BytesHold DEF MaxBytes
<1>2. CASE \E n \in 0..MaxBytes :
             \/ ConstructSized(n) \/ ConstructCopy(n)
             \/ \E r \in 0..MaxBytes : ConstructOver(n, r)
  <2>1. PICK n \in 0..MaxBytes :
             \/ ConstructSized(n) \/ ConstructCopy(n)
             \/ \E r \in 0..MaxBytes : ConstructOver(n, r)
    BY <1>2
  <2>2. PICK r \in 0..MaxBytes :
             ConstructSized(n) \/ ConstructCopy(n) \/ ConstructOver(n, r)
    BY <2>1, <1>1
  <2> QED  BY <2>2, <1>1, ConstructInv
<1>3. CASE \E n \in 0..8 * MaxBytes : SetNumberOfBitsAllocated(n) \/ GoBack(n)
  BY <1>3, <1>1, SetAllocatedInv, SetWriteOffsetInv
<1>4. CASE \E k \in 1..MaxBits, m \in 0..MaxBits : WriteSome(k, m)
  BY <1>4, WriteInv
<1> QED
  BY <1>2, <1>3, <1>4, AlignInv, AssertCopyInv, DestructInv, StutterInv DEF MemoryNext

LEMMA Invariant == MemorySpec => []IInv
  BY InitInv, NextInv, PTL DEF MemorySpec

-----------------------------------------------------------------------------
(* copyData says whose buffer it is, and a pointer goes with its size.      *)
THEOREM TypeCorrect == MemorySpec => []MemoryTypeOK
<1>1. IInv => MemoryTypeOK  BY DEF IInv
<1> QED  BY <1>1, Invariant, PTL

(* Bits written, and bits skipped to a byte boundary without a call of      *)
(* AddBitsAndReallocate, lie in the buffer.                                 *)
THEOREM BitsStayInBuffer == MemorySpec => []BitsAreInBuffer
<1>1. IInv => BitsAreInBuffer
  <2> SUFFICES ASSUME IInv PROVE BitsAreInBuffer  OBVIOUS
  <2>1. Bytes(numberOfBitsAllocated) \in Nat  BY BytesHold DEF IInv, MemoryTypeOK
  <2> QED  BY <2>1 DEF IInv, MemoryTypeOK, GrowthKeepsBits, BitsAreInBuffer
<1> QED  BY <1>1, Invariant, PTL

(* A reallocation copies every bit in use, from bytes that are there.       *)
THEOREM GrowthIsLossless == MemorySpec => []GrowthKeepsBits
<1>1. IInv => GrowthKeepsBits  BY DEF IInv
<1> QED  BY <1>1, Invariant, PTL

(* The number of bits allocated tells the destructor what to free: never    *)
(* stackData or the caller's buffer.                                        *)
THEOREM DestructorFreesHeap == MemorySpec => []FreesOnlyHeap
<1>1. IInv => FreesOnlyHeap
  BY DEF IInv, MemoryTypeOK, FreesOnlyHeap, Frees
<1> QED  BY <1>1, Invariant, PTL

(* A heap block larger than stackData is always freed.                      *)
THEOREM DestructorFreesLargeBlocks == MemorySpec => []LargeBlocksAreFreed
<1>1. IInv => LargeBlocksAreFreed
  BY DEF IInv, MemoryTypeOK, LargeBlocksAreFreed, Frees
<1> QED  BY <1>1, Invariant, PTL

(* The destructor frees what is the stream's and large, and nothing else    *)
(* (BitStream.cpp:137-141).                                                 *)
THEOREM DestructorFreesWhatItOwns == MemorySpec => []FreesWhatItOwns
<1>1. FreesOnlyHeap /\ LargeBlocksAreFreed => FreesWhatItOwns
  BY DEF FreesWhatItOwns
<1> QED  BY <1>1, DestructorFreesHeap, DestructorFreesLargeBlocks, PTL
=============================================================================
