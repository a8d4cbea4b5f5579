------------------------- MODULE MCStringCompressor -------------------------
(* StringCompressor with the four characters of two bits.                   *)
EXTENDS StringCompressor

CONSTANTS t1, t2

(* A language whose tree goes in front of that of language 0.               *)
MCLanguages == {-1, 0}
MCEnglish == [c \in Char |-> IF c = 1 THEN 3 ELSE IF c = 2 THEN 2 ELSE 0]
MCSamples == {<<>>, <<3, 3, 2, 3, 1>>}
MCTexts == {<<1, 3, 3, 2>>}
MCSymmetry == Permutations(Threads)
=============================================================================
