------------------------------ MODULE Huffman ------------------------------
(***************************************************************************)
(* HuffmanEncodingTree (DS_HuffmanEncodingTree.cpp): the tree for a table  *)
(* of frequencies, and coding with it.  A tree is its weight and the path  *)
(* from its root to each of its leaves, 0 for left and 1 for right: the    *)
(* paths are the encodingTable, and a node on the way is the path to it.   *)
(* The 256 characters of 8 bits are 2^CharBits of CharBits bits, and a     *)
(* byte has CharBits bits.                                                 *)
(*                                                                         *)
(* The LinkedList is the sequence of its items from the root on, which is  *)
(* where Beginning puts the position.  Weights do not wrap: they are the   *)
(* length of the input or less, plus one for each character without one.   *)
(***************************************************************************)
EXTENDS Integers, SequencesExt

CONSTANT CharBits

ASSUME CharAssumption == CharBits \in Nat \ {0}

Char == 0..2^CharBits - 1

-----------------------------------------------------------------------------
Leaf(value, frequency) ==
  [weight |-> IF frequency = 0 THEN 1 ELSE frequency, code |-> [c \in {value} |-> <<>>]]

Merge(lesser, greater) ==
  [weight |-> lesser.weight + greater.weight,
   code |-> [c \in DOMAIN lesser.code \cup DOMAIN greater.code |->
               IF c \in DOMAIN lesser.code THEN <<0>> \o lesser.code[c]
               ELSE <<1>> \o greater.code[c]]]

(* The circular list: Insert goes before the position, Add behind it, and   *)
(* two Pops from the beginning leave the position there.                    *)
Insert(list, position, node) == InsertAt(list, position, node)
Add(list, position, node) == InsertAt(list, position + 1, node)
PopTwo(list) == SubSeq(list, 3, Len(list))

(* Before the first tree that is not lighter, or at the end.                *)
(* Mutant of InsertNodeIntoSortedList: always at the end.                   *)
InsertNodeUnsorted(node, list) == Add(list, Len(list), node)

InsertNodeIntoSortedList(node, list) ==
  LET heavier == {i \in 1..Len(list) : list[i].weight >= node.weight}
  IN  IF heavier # {} THEN Insert(list, Min(heavier), node)
      ELSE Add(list, Len(list), node)

MergeSmallest(list) == InsertNodeIntoSortedList(Merge(list[1], list[2]), PopTwo(list))

GenerateFromFrequencyTable(frequencies) ==
  LET Grow(list, c) == InsertNodeIntoSortedList(Leaf(c, frequencies[c]), list)
      leaves == FoldLeft(Grow, <<>>, [i \in 1..2^CharBits |-> i - 1])
      Shrink(list, i) == MergeSmallest(list)
  IN  FoldLeft(Shrink, leaves, [i \in 1..2^CharBits - 1 |-> i])[1].code

-----------------------------------------------------------------------------
(* Up to a whole byte with the beginning of the first code that is longer   *)
(* than what is missing, so that no character is read from it.              *)
(* Mutant of Padding: zeros.                                                *)
PaddingZeros(table, bits) ==
  [i \in 1..(CharBits - (Len(bits) % CharBits)) % CharBits |-> 0]

Padding(table, bits) ==
  LET remaining == (CharBits - (Len(bits) % CharBits)) % CharBits
      longer == {c \in Char : Len(table[c]) > remaining}
  IN  IF remaining = 0 \/ longer = {} THEN <<>>
      ELSE SubSeq(table[Min(longer)], 1, remaining)

Codes(table, input) == FlattenSeq([i \in 1..Len(input) |-> table[input[i]]])

EncodeArray(table, input) ==
  LET bits == Codes(table, input) IN bits \o Padding(table, bits)

(* All characters that sizeInBits bits lead to; DecodeArray counts them and *)
(* stores as many as it may.                                                *)
DecodeArray(table, bits) ==
  LET Step(s, bit) ==
        LET node == Append(s.node, bit)
            leaf == {c \in Char : table[c] = node}
        IN  IF leaf = {} THEN [s EXCEPT !.node = node]
            ELSE [node |-> <<>>, output |-> Append(s.output, Min(leaf))]
  IN  FoldLeft(Step, [node |-> <<>>, output |-> <<>>], bits).output

-----------------------------------------------------------------------------
(* What the tree is to be.                                                  *)

IsPrefixCode(table) ==
  \A c, d \in Char : c # d => ~IsPrefix(table[c], table[d])

Cost(weight, length) == FoldSet(LAMBDA c, sum : sum + weight[c] * length[c], 0, Char)

(* The lengths a complete binary tree over the characters can have.         *)
Lengths ==
  LET n == 2^CharBits IN
  {l \in [Char -> 1..n - 1] : FoldSet(LAMBDA c, sum : sum + 2^(n - l[c]), 0, Char) = 2^n}

(* No other code is shorter for a text with these frequencies, in which an  *)
(* absent character counts once, as its leaf does.                          *)
IsOptimal(table, frequencies) ==
  LET weight == [c \in Char |-> IF frequencies[c] = 0 THEN 1 ELSE frequencies[c]]
      cost == Cost(weight, [c \in Char |-> Len(table[c])])
  IN  \A l \in Lengths : cost <= Cost(weight, l)
=============================================================================
