-------------------------- MODULE RpcPacketProofs --------------------------
(***************************************************************************)
(* Theorems about the way of an RPC's bits for any values, any widths and  *)
(* any number of detours.                                                  *)
(***************************************************************************)
EXTENDS RpcPacket, SequenceTheorems, FiniteSetTheorems, FunctionTheorems,
        WellFoundedInduction, TLAPS

-----------------------------------------------------------------------------
(* Numbers: induction, stated of sets and not of operators so that its      *)
(* instances are first-order, division and bits.                            *)

(* Of some numbers there is a least one. *)
LEMMA LeastNumber ==
  ASSUME NEW T, T \subseteq Nat, T # {}
  PROVE  \E x \in T : \A y \in T : x <= y
<1> DEFINE R == {ss \in Nat \X Nat : ss[1] < ss[2]}
<1>0. IsWellFoundedOn(R, Nat)
  BY NatLessThanWellFounded DEF OpToRel
<1>h. HIDE DEF R
<1>1. PICK x \in T : \A y \in T : ~ (<<y, x>> \in R)
  BY <1>0, WFMin
<1>2. \A y \in T : ~(y < x)
  BY <1>1 DEF R
<1> QED BY <1>2

(* A set of numbers with 0 and the successors of its members has them all. *)
LEMMA NumberInduction ==
  ASSUME NEW T, 0 \in T, \A n \in Nat : n \in T => n + 1 \in T
  PROVE  \A n \in Nat : n \in T
<1> DEFINE U == Nat \ T
<1> SUFFICES ASSUME U # {} PROVE FALSE
  OBVIOUS
<1>1. PICK x \in U : \A y \in U : x <= y
  <2> U \subseteq Nat
    OBVIOUS
  <2> HIDE DEF U
  <2> QED BY LeastNumber
<1>2. x \in Nat /\ x # 0
  BY <1>1
<1>3. x - 1 \in Nat /\ x - 1 \notin U
  BY <1>1, <1>2
<1>4. x - 1 \in T
  BY <1>3
<1>5. x - 1 + 1 = x
  BY <1>2
<1> QED BY <1>1, <1>3, <1>4, <1>5

(* Powers of two, of which the provers only know values: a set of n + 1     *)
(* elements has twice the subsets of one of n.                              *)
LEMMA PowerOfTwo ==
  ASSUME NEW n \in Nat
  PROVE  2^n \in Nat \ {0} /\ 2^(n + 1) = 2 * 2^n
<1> DEFINE A == 1..n
           x == n + 1
           S == SUBSET A
           T == {B \cup {x} : B \in S}
<1>1. IsFiniteSet(A) /\ Cardinality(A) = n
  <2>1. /\ IsFiniteSet(1..n)
        /\ Cardinality(1..n) = IF 1 > n THEN 0 ELSE n - 1 + 1
    BY FS_Interval
  <2> QED BY <2>1
<1>2. x \notin A
  OBVIOUS
<1>3. A \cup {x} = 1..(n + 1)
  OBVIOUS
<1>4. IsFiniteSet(A \cup {x}) /\ Cardinality(A \cup {x}) = n + 1
  <2>1. /\ IsFiniteSet(1..(n + 1))
        /\ Cardinality(1..(n + 1)) = IF 1 > n + 1 THEN 0 ELSE n + 1 - 1 + 1
    BY FS_Interval
  <2>2. (IF 1 > n + 1 THEN 0 ELSE n + 1 - 1 + 1) = n + 1
    OBVIOUS
  <2> HIDE DEF A, x
  <2> QED BY ONLY <1>3, <2>1, <2>2
<1> HIDE DEF A, x
<1>5. IsFiniteSet(S) /\ Cardinality(S) = 2^n
  BY <1>1, FS_SUBSET
<1>6. Cardinality(SUBSET (A \cup {x})) = 2^(n + 1)
  BY <1>4, FS_SUBSET
<1>7. SUBSET (A \cup {x}) = S \cup T
  <2>1. ASSUME NEW B \in SUBSET (A \cup {x}) PROVE B \in S \cup T
    <3>1. CASE x \in B
      <4>1. B \ {x} \in S /\ B = (B \ {x}) \cup {x}
        BY <3>1
      <4>2. B \in T
        BY <4>1
      <4> QED BY <4>2
    <3>2. CASE x \notin B
      BY <3>2
    <3> QED BY <3>1, <3>2
  <2>2. ASSUME NEW B \in S \cup T PROVE B \in SUBSET (A \cup {x})
    BY <2>2
  <2> HIDE DEF S, T
  <2> QED BY <2>1, <2>2
<1>8. S \cap T = {}
  BY <1>2
<1>9. ExistsBijection(S, T)
  <2> DEFINE f == [B \in S |-> B \cup {x}]
  <2>1. f \in [S -> T]
    OBVIOUS
  <2>2. ASSUME NEW B \in S, NEW C \in S, f[B] = f[C] PROVE B = C
    BY <1>2, <2>2
  <2>3. \A C \in T : \E B \in S : f[B] = C
    OBVIOUS
  <2> HIDE DEF f, S, T
  <2>4. f \in Injection(S, T)
    BY <2>1, <2>2, Fun_IsInj
  <2>5. f \in Surjection(S, T)
    BY <2>1, <2>3, Fun_IsSurj
  <2> QED BY <2>4, <2>5 DEF Bijection, ExistsBijection
<1> HIDE DEF S, T
<1>10. IsFiniteSet(T) /\ Cardinality(T) = 2^n
  BY <1>5, <1>9, FS_Bijection
<1>11. Cardinality(S \cup T) = Cardinality(S) + Cardinality(T) - Cardinality(S \cap T)
  BY <1>5, <1>10, FS_Union
<1>12. Cardinality(S \cap T) = 0
  BY <1>8, FS_EmptySet
<1>13. 2^n \in Nat
  BY <1>5, FS_CardinalityType
<1>14. 2^(n + 1) = 2 * 2^n
  <2>1. 2^(n + 1) = Cardinality(S) + Cardinality(T) - Cardinality(S \cap T)
    BY <1>6, <1>7, <1>11
  <2>2. 2^(n + 1) = 2^n + 2^n - 0
    BY <1>5, <1>10, <1>12, <2>1
  <2> DEFINE p == 2^n
             q == 2^(n + 1)
  <2> HIDE DEF p, q
  <2>3. p \in Nat /\ q = p + p - 0
    BY <1>13, <2>2 DEF p, q
  <2>4. q = 2 * p
    BY <2>3
  <2> QED BY <2>4 DEF p, q
<1>15. 2^n # 0
  <2>1. {} \in S
    BY DEF S
  <2>2. S # {}
    BY <2>1
  <2> QED BY <1>5, <2>2, FS_EmptySet
<1> QED BY <1>13, <1>14, <1>15

(* Division, and the number of pairs in a number.                           *)
LEMMA Division ==
  ASSUME NEW x \in Nat, NEW d \in Nat \ {0}
  PROVE  /\ x \div d \in Nat /\ x % d \in 0..(d - 1)
         /\ x = d * (x \div d) + (x % d)
<1> DEFINE q == x \div d
<1>1. q \in Nat /\ x % d \in 0..(d - 1)
  OBVIOUS
<1>2. x % d = x - d * q
  OBVIOUS
<1> HIDE DEF q
<1>3. d * q \in Nat
  BY <1>1
<1>4. x = d * q + (x % d)
  <2> DEFINE m == d * q
             u == x % d
  <2>1. m \in Nat /\ u \in Nat /\ u = x - m
    BY <1>1, <1>2, <1>3
  <2> HIDE DEF m, u
  <2>2. x = m + u
    BY <2>1
  <2> QED BY <2>2 DEF m, u
<1> QED BY <1>1, <1>4 DEF q

LEMMA Quotient ==
  ASSUME NEW x \in Nat, NEW d \in Nat \ {0}, NEW c \in Nat, d * c <= x, x < d * c + d
  PROVE  x \div d = c
<1> DEFINE e == x \div d
<1>1. e \in Nat /\ d * e <= x /\ x < d * e + d
  <2>1. x % d \in 0..(d - 1) /\ x = d * e + (x % d) /\ e \in Nat
    BY Division
  <2>2. d * e \in Nat
    BY <2>1
  <2> QED BY <2>1, <2>2
<1> HIDE DEF e
<1>2. CASE e < c
  <2>1. PICK k \in Nat : c = e + 1 + k
    <3>1. c - e - 1 \in Nat /\ c = e + 1 + (c - e - 1)
      BY <1>1, <1>2
    <3> QED BY <3>1
  <2>2. d * c = d * e + d + d * k /\ d * k \in Nat /\ d * e \in Nat
    BY <1>1, <2>1
  <2> QED BY <1>1, <2>2
<1>3. CASE c < e
  <2>1. PICK k \in Nat : e = c + 1 + k
    <3>1. e - c - 1 \in Nat /\ e = c + 1 + (e - c - 1)
      BY <1>1, <1>3
    <3> QED BY <3>1
  <2>2. d * e = d * c + d + d * k /\ d * k \in Nat /\ d * c \in Nat
    BY <1>1, <2>1
  <2> QED BY <1>1, <2>2
<1> QED BY <1>1, <1>2, <1>3 DEF e

LEMMA DivideTwice ==
  ASSUME NEW x \in Nat, NEW d \in Nat \ {0}
  PROVE  x \div d = 2 * (x \div (2 * d)) + ((x \div d) % 2)
<1> DEFINE a == x \div d
           c == a \div 2
           b == a % 2
<1>1. a \in Nat /\ x % d \in 0..(d - 1) /\ x = d * a + (x % d)
  BY Division
<1> HIDE DEF a
<1>2. c \in Nat /\ b \in {0, 1} /\ a = 2 * c + b
  BY <1>1
<1> HIDE DEF c, b
<1>3. d * a = 2 * (d * c) + (IF b = 0 THEN 0 ELSE d) /\ d * c \in Nat /\ d * a \in Nat
  <2>1. CASE b = 0
    <3>1. d * (2 * c + 0) = 2 * (d * c)
      BY <1>2
    <3> QED BY <1>1, <1>2, <2>1, <3>1
  <2>2. CASE b = 1
    <3>1. d * (2 * c + 1) = 2 * (d * c) + d
      BY <1>2
    <3> QED BY <1>1, <1>2, <2>2, <3>1
  <2> QED BY <1>2, <2>1, <2>2
<1>4. 2 * d \in Nat \ {0} /\ (2 * d) * c = 2 * (d * c)
  BY <1>2
<1>5. (2 * d) * c <= x /\ x < (2 * d) * c + 2 * d
  <2> DEFINE m == d * c
             l == d * a
             w == (2 * d) * c
             u == x % d
  <2>1. m \in Nat /\ l \in Nat /\ w = 2 * m /\ l = 2 * m + (IF b = 0 THEN 0 ELSE d)
    BY ONLY <1>3, <1>4
  <2>2. u \in 0..(d - 1) /\ x = l + u
    BY <1>1
  <2> HIDE DEF m, l, w, u
  <2>3. w <= x /\ x < w + 2 * d
    BY <2>1, <2>2
  <2> QED BY <2>3 DEF w
<1>6. x \div (2 * d) = c
  <2> DEFINE dd == 2 * d
  <2>1. dd \in Nat \ {0} /\ dd * c <= x /\ x < dd * c + dd
    BY <1>4, <1>5
  <2> HIDE DEF dd
  <2>2. x \div dd = c
    BY ONLY <1>2, <2>1, Quotient, x \in Nat, Zenon
  <2> QED BY <2>2 DEF dd
<1> QED BY <1>2, <1>6 DEF a, b

(* A number is determined by its bits.                                      *)
LEMMA BitsDetermine ==
  ASSUME NEW n \in Nat, NEW q \in 0..(2^n - 1), NEW r \in 0..(2^n - 1),
         \A e \in 0..(n - 1) : (q \div 2^e) % 2 = (r \div 2^e) % 2
  PROVE  q = r
<1> DEFINE T == {k \in Nat : k <= n => q \div 2^(n - k) = r \div 2^(n - k)}
<1>0. 2^n \in Nat \ {0} /\ q \in Nat /\ r \in Nat
  <2>1. 2^n \in Nat \ {0}
    BY PowerOfTwo
  <2> QED BY <2>1
<1>1. 0 \in T
  <2>1. 2^n * 0 = 0 /\ n - 0 = n /\ q < 2^n /\ r < 2^n
    BY <1>0
  <2>2. q \div 2^n = 0 /\ r \div 2^n = 0
    BY <1>0, <2>1, Quotient
  <2> QED BY <2>1, <2>2
<1>2. ASSUME NEW k \in Nat, k \in T PROVE k + 1 \in T
  <2> SUFFICES ASSUME k + 1 <= n PROVE q \div 2^(n - (k + 1)) = r \div 2^(n - (k + 1))
    OBVIOUS
  <2> DEFINE e == n - (k + 1)
             d == 2^e
  <2>1. e \in Nat /\ e \in 0..(n - 1) /\ n - k = e + 1
    OBVIOUS
  <2>2. d \in Nat \ {0} /\ 2^(n - k) = 2 * d
    BY <2>1, PowerOfTwo
  <2>3. q \div (2 * d) = r \div (2 * d)
    <3>1. k <= n
      OBVIOUS
    <3>2. q \div 2^(n - k) = r \div 2^(n - k)
      BY <1>2, <3>1
    <3> QED BY <2>2, <3>2
  <2>4. (q \div d) % 2 = (r \div d) % 2
    BY <2>1
  <2> HIDE DEF d
  <2>5. /\ q \div d = 2 * (q \div (2 * d)) + ((q \div d) % 2)
        /\ r \div d = 2 * (r \div (2 * d)) + ((r \div d) % 2)
    BY <1>0, <2>2, DivideTwice
  <2>6. q \div d = r \div d
    <3> DEFINE qd == q \div d
               rd == r \div d
               qe == q \div (2 * d)
               re == r \div (2 * d)
               qb == qd % 2
               rb == rd % 2
    <3>1. qe = re /\ qb = rb /\ qd = 2 * qe + qb /\ rd = 2 * re + rb
      BY <2>3, <2>4, <2>5
    <3> HIDE DEF qd, rd, qe, re, qb, rb
    <3>2. qd = rd
      BY <3>1
    <3> QED BY <3>2 DEF qd, rd
  <2> QED BY <2>6 DEF d
<1> HIDE DEF T
<1>3. \A k \in Nat : k \in T
  BY <1>1, <1>2, NumberInduction
<1>4. q \div 2^(n - n) = r \div 2^(n - n)
  <2>1. n \in T /\ n <= n
    BY <1>3
  <2> QED BY <2>1 DEF T
<1>5. n - n = 0 /\ 2^0 = 1
  OBVIOUS
<1>6. q \div 1 = q /\ r \div 1 = r
  BY <1>0
<1> QED BY <1>4, <1>5, <1>6

-----------------------------------------------------------------------------
(* Bits at a place.                                                         *)

Holds(b, from, s) ==
  from + Len(s) <= Len(b) /\ \A i \in 1..Len(s) : b[from + i] = s[i]

(* b ends earlier than w, or not. *)
IsCut(b, w) == Len(b) <= Len(w) /\ \A i \in 1..Len(b) : b[i] = w[i]

LEMMA Slice ==
  ASSUME NEW b \in Seq(BIT), NEW from \in Nat, NEW n \in Nat, from + n <= Len(b)
  PROVE  /\ SubSeq(b, from + 1, from + n) \in Seq(BIT)
         /\ Len(SubSeq(b, from + 1, from + n)) = n
         /\ \A i \in 1..n : SubSeq(b, from + 1, from + n)[i] = b[from + i]
<1> DEFINE s == SubSeq(b, from + 1, from + n)
<1>1. \A i \in (from + 1)..(from + n) : b[i] \in BIT
  BY LenProperties
<1>2. /\ s \in Seq(BIT)
      /\ Len(s) = IF from + 1 <= from + n THEN from + n - (from + 1) + 1 ELSE 0
      /\ \A i \in 1..(from + n - (from + 1) + 1) : s[i] = b[from + 1 + i - 1]
  <2> DEFINE p == from + 1
             q == from + n
  <2>1. p \in Int /\ q \in Int /\ \A i \in p..q : b[i] \in BIT
    BY <1>1
  <2> HIDE DEF p, q
  <2>2. /\ SubSeq(b, p, q) \in Seq(BIT)
        /\ Len(SubSeq(b, p, q)) = IF p <= q THEN q - p + 1 ELSE 0
        /\ \A i \in 1..(q - p + 1) : SubSeq(b, p, q)[i] = b[p + i - 1]
    BY ONLY <2>1, SubSeqProperties
  <2> QED BY <2>2 DEF p, q
<1> HIDE DEF s
<1>3. from + n - (from + 1) + 1 = n /\ (from + 1 <= from + n \/ n = 0)
  OBVIOUS
<1>4. Len(s) = n
  BY <1>2, <1>3
<1>5. ASSUME NEW i \in 1..n PROVE s[i] = b[from + i]
  <2>1. i \in 1..(from + n - (from + 1) + 1) /\ from + 1 + i - 1 = from + i
    OBVIOUS
  <2> QED BY <1>2, <2>1
<1> QED BY <1>2, <1>4, <1>5 DEF s

LEMMA RepeatType ==
  ASSUME NEW c \in BIT, NEW n \in Nat
  PROVE  /\ Repeat(c, n) \in Seq(BIT) /\ Len(Repeat(c, n)) = n
         /\ \A i \in 1..n : Repeat(c, n)[i] = c
BY DEF Repeat

LEMMA FlagType == /\ Yes \in Seq(BIT) /\ Len(Yes) = 1 /\ Yes[1] = 1
                  /\ No \in Seq(BIT) /\ Len(No) = 1 /\ No[1] = 0
                  /\ Yes # No /\ Yes # Unset /\ No # Unset
<1>1. 0 \in BIT /\ 1 \in BIT
  BY DEF BIT
<1>2. Yes \in Seq(BIT) /\ Len(Yes) = 1 /\ Yes[1] = 1
  BY <1>1 DEF Yes
<1>3. No \in Seq(BIT) /\ Len(No) = 1 /\ No[1] = 0
  BY <1>1 DEF No
<1>4. Len(Unset) = 0
  BY DEF Unset
<1> QED BY <1>2, <1>3, <1>4

(* A sequence of one bit is a flag. *)
LEMMA OneBit ==
  ASSUME NEW s \in Seq(BIT), Len(s) = 1
  PROVE  /\ s = Yes <=> s[1] = 1
         /\ s = No <=> s[1] = 0
<1>1. s[1] \in BIT
  BY LenProperties
<1>2. s[1] = 1 => s = Yes
  BY FlagType, SeqEqual
<1>3. s[1] = 0 => s = No
  BY FlagType, SeqEqual
<1> QED BY <1>1, <1>2, <1>3, FlagType DEF BIT

(* What a concatenation consists of. *)
LEMMA Joined ==
  ASSUME NEW s \in Seq(BIT), NEW t \in Seq(BIT)
  PROVE  /\ s \o t \in Seq(BIT) /\ Len(s \o t) = Len(s) + Len(t)
         /\ \A i \in 1..Len(s) : (s \o t)[i] = s[i]
         /\ \A i \in 1..Len(t) : (s \o t)[Len(s) + i] = t[i]
<1> DEFINE c == s \o t
           m == Len(s)
           n == Len(t)
<1>1. /\ c \in Seq(BIT) /\ Len(c) = m + n
      /\ \A i \in 1..m + n : c[i] = IF i <= m THEN s[i] ELSE t[i - m]
  BY ConcatProperties
<1>2. m \in Nat /\ n \in Nat
  BY LenProperties
<1> HIDE DEF c, m, n
<1>3. \A i \in 1..m : c[i] = s[i]
  BY <1>1, <1>2
<1>4. ASSUME NEW i \in 1..n PROVE c[m + i] = t[i]
  <2>1. m + i \in 1..m + n /\ ~(m + i <= m) /\ (m + i) - m = i
    BY <1>2
  <2> QED BY <1>1, <2>1
<1> QED BY <1>1, <1>3, <1>4 DEF c, m, n

(* A concatenation of two parts of these lengths is a sequence, if it has   *)
(* its length and their bits.                                               *)
LEMMA JoinedIs ==
  ASSUME NEW s \in Seq(BIT), NEW t \in Seq(BIT), NEW w \in Seq(BIT), Len(w) = Len(s) + Len(t),
         \A i \in 1..Len(s) : w[i] = s[i], \A i \in 1..Len(t) : w[Len(s) + i] = t[i]
  PROVE  s \o t = w
<1> DEFINE c == s \o t
           m == Len(s)
           n == Len(t)
<1>1. /\ c \in Seq(BIT) /\ Len(c) = m + n
      /\ \A i \in 1..m : c[i] = s[i]
      /\ \A i \in 1..n : c[m + i] = t[i]
  BY Joined
<1>2. /\ Len(w) = m + n /\ \A i \in 1..m : w[i] = s[i]
      /\ \A i \in 1..n : w[m + i] = t[i]
  OBVIOUS
<1>3. m \in Nat /\ n \in Nat
  BY LenProperties
<1> HIDE DEF c, m, n
<1>4. ASSUME NEW i \in 1..m + n PROVE c[i] = w[i]
  <2>1. CASE i <= m
    <3>1. i \in 1..m
      BY <1>3, <2>1
    <3> QED BY <1>1, <1>2, <3>1
  <2>2. CASE m < i
    <3>1. i - m \in 1..n /\ m + (i - m) = i
      BY <1>3, <2>2
    <3>2. c[m + (i - m)] = t[i - m] /\ w[m + (i - m)] = t[i - m]
      BY <1>1, <1>2, <3>1
    <3> QED BY <3>1, <3>2
  <2> QED BY <1>3, <2>1, <2>2
<1>5. c = w
  BY <1>1, <1>2, <1>4, SeqEqual
<1> QED BY <1>5 DEF c

LEMMA Record ==
  ASSUME NEW ok, NEW at_, NEW v, NEW w
  PROVE  [[ok |-> ok, at |-> at_, v |-> v] EXCEPT !.v = w] = [ok |-> ok, at |-> at_, v |-> w]
OBVIOUS

(* Where a concatenation is, its parts are. *)
LEMMA HoldsConcat ==
  ASSUME NEW b \in Seq(BIT), NEW from \in Nat, NEW s \in Seq(BIT), NEW t \in Seq(BIT)
  PROVE  Holds(b, from, s \o t) <=> Holds(b, from, s) /\ Holds(b, from + Len(s), t)
<1> DEFINE c == s \o t
           m == Len(s)
           n == Len(t)
<1>1. /\ m \in Nat /\ n \in Nat /\ Len(c) = m + n
      /\ \A i \in 1..(m + n) : c[i] = IF i <= m THEN s[i] ELSE t[i - m]
  BY ConcatProperties, LenProperties
<1>2. Len(b) \in Nat
  BY LenProperties
<1> HIDE DEF c, m, n
<1>3. ASSUME from + (m + n) <= Len(b), \A i \in 1..(m + n) : b[from + i] = c[i]
      PROVE  /\ from + m <= Len(b) /\ \A i \in 1..m : b[from + i] = s[i]
             /\ from + m + n <= Len(b) /\ \A i \in 1..n : b[from + m + i] = t[i]
  <2>1. from + m <= Len(b) /\ from + m + n <= Len(b)
    BY <1>1, <1>2, <1>3
  <2>2. ASSUME NEW i \in 1..m PROVE b[from + i] = s[i]
    <3>1. i \in 1..(m + n) /\ i <= m
      BY <1>1
    <3> QED BY <1>1, <1>3, <3>1
  <2>3. ASSUME NEW i \in 1..n PROVE b[from + m + i] = t[i]
    <3>1. m + i \in 1..(m + n) /\ ~(m + i <= m) /\ m + i - m = i
          /\ from + (m + i) = from + m + i
      BY <1>1
    <3>2. c[m + i] = t[i]
      BY <1>1, <3>1
    <3>3. b[from + (m + i)] = c[m + i]
      BY <1>3, <3>1
    <3> QED BY <3>1, <3>2, <3>3
  <2> QED BY <2>1, <2>2, <2>3
<1>4. ASSUME from + m <= Len(b), \A i \in 1..m : b[from + i] = s[i],
             from + m + n <= Len(b), \A i \in 1..n : b[from + m + i] = t[i]
      PROVE  from + (m + n) <= Len(b) /\ \A i \in 1..(m + n) : b[from + i] = c[i]
  <2>1. from + (m + n) <= Len(b)
    BY <1>1, <1>2, <1>4
  <2>2. ASSUME NEW i \in 1..(m + n) PROVE b[from + i] = c[i]
    <3>1. CASE i <= m
      <4>1. i \in 1..m
        BY <3>1
      <4> QED BY <1>1, <1>4, <3>1, <4>1
    <3>2. CASE i > m
      <4>1. i - m \in 1..n /\ ~(i <= m) /\ from + m + (i - m) = from + i
        BY <1>1, <3>2
      <4>2. b[from + m + (i - m)] = t[i - m] /\ c[i] = t[i - m]
        BY <1>1, <1>4, <4>1
      <4> QED BY <4>1, <4>2
    <3> QED BY <1>1, <3>1, <3>2
  <2> QED BY <2>1, <2>2
<1>5. Holds(b, from, c) <=>
        from + (m + n) <= Len(b) /\ \A i \in 1..(m + n) : b[from + i] = c[i]
  BY <1>1 DEF Holds
<1>6. Holds(b, from, s) <=> from + m <= Len(b) /\ \A i \in 1..m : b[from + i] = s[i]
  BY DEF Holds, m
<1>7. Holds(b, from + m, t) <=> from + m + n <= Len(b) /\ \A i \in 1..n : b[from + m + i] = t[i]
  BY DEF Holds, n
<1>8. Holds(b, from, c) <=> Holds(b, from, s) /\ Holds(b, from + m, t)
  BY <1>3, <1>4, <1>5, <1>6, <1>7
<1> QED BY <1>8 DEF c, m

-----------------------------------------------------------------------------
(* Take.                                                                    *)

LEMMA TakeIf ==
  ASSUME NEW b, NEW p, NEW n
  PROVE  Take(b, p, n) = IF p + n <= Len(b)
                         THEN [ok |-> TRUE, at |-> p + n, v |-> SubSeq(b, p + 1, p + n)]
                         ELSE [ok |-> FALSE, at |-> p, v |-> Unset]
BY ONLY Zenon DEF Take

LEMMA TakeFits ==
  ASSUME NEW b, NEW p, NEW n, p + n <= Len(b)
  PROVE  /\ Take(b, p, n) = [ok |-> TRUE, at |-> p + n, v |-> SubSeq(b, p + 1, p + n)]
         /\ Take(b, p, n).ok = TRUE /\ Take(b, p, n).at = p + n
         /\ Take(b, p, n).v = SubSeq(b, p + 1, p + n)
BY TakeIf, Zenon

LEMMA TakeFails ==
  ASSUME NEW b, NEW p, NEW n, ~(p + n <= Len(b))
  PROVE  /\ Take(b, p, n) = [ok |-> FALSE, at |-> p, v |-> Unset]
         /\ Take(b, p, n).ok = FALSE /\ Take(b, p, n).at = p /\ Take(b, p, n).v = Unset
BY TakeIf, Zenon

LEMMA TakeType ==
  ASSUME NEW b \in Seq(BIT), NEW p \in 0..Len(b), NEW n \in Nat
  PROVE  /\ Take(b, p, n).ok \in BOOLEAN /\ Take(b, p, n).at \in p..Len(b)
         /\ Take(b, p, n).ok =>
              /\ p + n <= Len(b) /\ Take(b, p, n).at = p + n
              /\ Take(b, p, n).v \in Seq(BIT) /\ Len(Take(b, p, n).v) = n
              /\ \A i \in 1..n : Take(b, p, n).v[i] = b[p + i]
         /\ ~Take(b, p, n).ok =>
              p + n > Len(b) /\ Take(b, p, n).at = p /\ Take(b, p, n).v = Unset
<1> DEFINE r == Take(b, p, n)
           s == SubSeq(b, p + 1, p + n)
           l == Len(b)
<1>1. l \in Nat /\ p \in Nat /\ p <= l
  BY LenProperties
<1>2. p + n <= l => s \in Seq(BIT) /\ Len(s) = n /\ \A i \in 1..n : s[i] = b[p + i]
  BY <1>1, Slice
<1>3. p + n <= l => r.ok = TRUE /\ r.at = p + n /\ r.v = s
  BY TakeFits
<1>4. ~(p + n <= l) => r.ok = FALSE /\ r.at = p /\ r.v = Unset
  <2> SUFFICES ASSUME ~(p + n <= Len(b)) PROVE r.ok = FALSE /\ r.at = p /\ r.v = Unset
    BY DEF l
  <2>1. r = [ok |-> FALSE, at |-> p, v |-> Unset]
    BY Zenon DEF Take
  <2> HIDE DEF r
  <2> QED BY <2>1
<1> HIDE DEF r, s, l
<1>5. CASE p + n <= l
  <2>1. p + n \in p..l
    BY <1>1, <1>5
  <2> QED BY ONLY <1>2, <1>3, <1>5, <2>1, Zenon DEF r, l
<1>6. CASE ~(p + n <= l)
  <2>1. p \in p..l /\ p + n > l
    BY <1>1, <1>6
  <2> QED BY ONLY <1>4, <1>6, <2>1, Zenon DEF r, l
<1> QED BY <1>5, <1>6

LEMMA TakeHolds ==
  ASSUME NEW b \in Seq(BIT), NEW p \in Nat, NEW s \in Seq(BIT), Holds(b, p, s)
  PROVE  Take(b, p, Len(s)) = [ok |-> TRUE, at |-> p + Len(s), v |-> s]
<1>1. Len(s) \in Nat /\ p + Len(s) <= Len(b) /\ \A i \in 1..Len(s) : b[p + i] = s[i]
  BY LenProperties DEF Holds
<1> DEFINE r == SubSeq(b, p + 1, p + Len(s))
<1>2. r \in Seq(BIT) /\ Len(r) = Len(s) /\ \A i \in 1..Len(s) : r[i] = s[i]
  BY <1>1, Slice
<1> HIDE DEF r
<1>3. r = s
  BY <1>2, SeqEqual
<1> QED BY <1>1, <1>3 DEF Take, r

LEMMA TakeIs ==
  ASSUME NEW b \in Seq(BIT), NEW p \in Nat, NEW s \in Seq(BIT), Holds(b, p, s),
         NEW n, Len(s) = n
  PROVE  Take(b, p, n) = [ok |-> TRUE, at |-> p + n, v |-> s]
BY TakeHolds

LEMMA TakeFlag ==
  ASSUME NEW b \in Seq(BIT), NEW p \in Nat, NEW f \in {Yes, No}, Holds(b, p, f)
  PROVE  Take(b, p, 1) = [ok |-> TRUE, at |-> p + 1, v |-> f]
<1>1. f \in Seq(BIT) /\ Len(f) = 1
  BY FlagType
<1>2. Take(b, p, Len(f)) = [ok |-> TRUE, at |-> p + Len(f), v |-> f]
  BY <1>1, TakeHolds
<1> QED BY <1>1, <1>2

(* What is read of the beginning of a sequence is read of all of it. *)
LEMMA TakeCut ==
  ASSUME NEW b \in Seq(BIT), NEW w \in Seq(BIT), IsCut(b, w),
         NEW p \in 0..Len(b), NEW n \in Nat, Take(b, p, n).ok
  PROVE  Take(w, p, n) = Take(b, p, n)
<1> DEFINE s == SubSeq(b, p + 1, p + n)
<1>1. p + n <= Len(b) /\ p \in Nat /\ Len(b) \in Nat /\ Len(w) \in Nat /\ Len(b) <= Len(w)
  BY TakeType, LenProperties DEF IsCut
<1>2. Take(b, p, n) = [ok |-> TRUE, at |-> p + n, v |-> s]
  BY <1>1, TakeFits
<1>3. s \in Seq(BIT) /\ Len(s) = n /\ \A i \in 1..n : s[i] = b[p + i]
  BY <1>1, Slice
<1> HIDE DEF s
<1>4. Holds(w, p, s)
  <2>1. \A i \in 1..n : p + i \in 1..Len(b)
    BY <1>1
  <2>2. \A i \in 1..n : w[p + i] = s[i]
    BY <1>3, <2>1 DEF IsCut
  <2>3. p + n <= Len(w)
    BY <1>1
  <2> QED BY <1>3, <2>2, <2>3 DEF Holds
<1>5. Take(w, p, n) = [ok |-> TRUE, at |-> p + n, v |-> s]
  BY <1>1, <1>3, <1>4, TakeHolds
<1> QED BY <1>2, <1>5

-----------------------------------------------------------------------------
(* Compressed integers.                                                     *)

LEMMA MinIs ==
  ASSUME NEW T \in SUBSET Int, NEW x \in T, \A y \in T : x <= y
  PROVE  Min(T) = x
<1> DEFINE m == Min(T)
<1>1. m \in T /\ \A y \in T : m <= y
  BY Zenon DEF Min
<1> HIDE DEF m
<1>2. m \in Int /\ x \in Int /\ x <= m /\ m <= x
  BY <1>1
<1>3. m = x
  BY <1>2
<1> QED BY <1>3 DEF m

LEMMA MaxIs ==
  ASSUME NEW T \in SUBSET Int, NEW x \in T, \A y \in T : y <= x
  PROVE  Max(T) = x
<1> DEFINE m == Max(T)
<1>1. m \in T /\ \A y \in T : m >= y
  BY Zenon DEF Max
<1> HIDE DEF m
<1>2. m \in Int /\ x \in Int /\ x <= m /\ m <= x
  BY <1>1
<1>3. m = x
  BY <1>2
<1> QED BY <1>3 DEF m

LEMMA MaxType ==
  ASSUME NEW T \in SUBSET Nat, T # {}, NEW n \in Nat, \A y \in T : y <= n
  PROVE  Max(T) \in T /\ \A y \in T : y <= Max(T)
<1> DEFINE U == {n - y : y \in T}
<1>1. U \subseteq Nat /\ U # {}
  <2>1. \A y \in T : n - y \in Nat
    OBVIOUS
  <2>2. U # {}
    BY Zenon
  <2> QED BY <2>1, <2>2, Zenon
<1>2. PICK u \in U : \A z \in U : u <= z
  <2> HIDE DEF U
  <2> QED BY <1>1, LeastNumber
<1>3. PICK x \in T : u = n - x
  BY <1>2
<1>4. \A y \in T : y <= x
  <2> TAKE y \in T
  <2>1. n - y \in U
    OBVIOUS
  <2>2. n - x <= n - y
    BY <1>2, <1>3, <2>1
  <2> QED BY <2>2
<1> QED BY <1>4, MaxIs

(* A byte of a word. *)
LEMMA ByteIs ==
  ASSUME NEW w \in Seq(BIT), NEW n \in Nat, Len(w) = 8 * n, NEW k \in 1..n
  PROVE  /\ ByteAt(w, k) \in Seq(BIT) /\ Len(ByteAt(w, k)) = 8
         /\ \A i \in 1..8 : ByteAt(w, k)[i] = w[8 * k - 8 + i]
         /\ ByteAt(w, k) = Repeat(0, 8) <=> \A i \in 1..8 : w[8 * k - 8 + i] = 0
<1> DEFINE s == ByteAt(w, k)
<1>1. s \in Seq(BIT) /\ Len(s) = 8 /\ \A i \in 1..8 : s[i] = w[8 * k - 8 + i]
  <2>1. 8 * k - 8 \in Nat /\ 8 * k - 8 + 8 <= Len(w) /\ 8 * k - 7 = 8 * k - 8 + 1
        /\ 8 * k = 8 * k - 8 + 8
    OBVIOUS
  <2>2. s = SubSeq(w, 8 * k - 8 + 1, 8 * k - 8 + 8)
    BY <2>1 DEF ByteAt
  <2> DEFINE m == 8 * k - 8
  <2> HIDE DEF m, s
  <2>3. m \in Nat /\ m + 8 <= Len(w) /\ s = SubSeq(w, m + 1, m + 8)
    BY <2>1, <2>2 DEF m
  <2>4. s \in Seq(BIT) /\ Len(s) = 8 /\ \A i \in 1..8 : s[i] = w[m + i]
    BY <2>3, Slice
  <2> QED BY <2>4 DEF m
<1> HIDE DEF s
<1>2. /\ Repeat(0, 8) \in Seq(BIT) /\ Len(Repeat(0, 8)) = 8
      /\ \A i \in 1..8 : Repeat(0, 8)[i] = 0
  BY RepeatType DEF BIT
<1>3. s = Repeat(0, 8) <=> \A i \in 1..8 : s[i] = 0
  <2> DEFINE z == Repeat(0, 8)
  <2>1. z \in Seq(BIT) /\ Len(z) = 8 /\ \A i \in 1..8 : z[i] = 0
    BY <1>2
  <2> HIDE DEF z
  <2>2. ASSUME \A i \in 1..8 : s[i] = 0 PROVE s = z
    <3>1. Len(s) = Len(z) /\ \A i \in 1..Len(s) : s[i] = z[i]
      BY <1>1, <2>1, <2>2
    <3> QED BY ONLY <1>1, <2>1, <3>1, SeqEqual
  <2>3. s = z => \A i \in 1..8 : s[i] = 0
    BY <2>1
  <2> QED BY <2>2, <2>3 DEF z
<1> QED BY <1>1, <1>3 DEF s

(* The two forms of a compressed word of n bytes. *)
Shortened(c, w, n) ==
  \/ \E k \in 1..n : /\ c = Repeat(1, n - k) \o No \o SubSeq(w, 1, 8 * k)
                     /\ \A i \in 8 * k + 1..8 * n : w[i] = 0
  \/ /\ c = Repeat(1, n) \o SubSeq(w, 5, 8)
     /\ \A i \in 1..4 : w[i] = 0
     /\ \A i \in 9..8 * n : w[i] = 0

LEMMA CompressedForms ==
  ASSUME NEW n \in Nat \ {0}, NEW w \in Seq(BIT), Len(w) = 8 * n
  PROVE  Shortened(Compressed(w), w, n)
<1> DEFINE T == {k \in 2..n : ByteAt(w, k) # Repeat(0, 8)}
<1>0. Len(w) \div 8 = n
  <2> DEFINE l == Len(w)
  <2>1. l = 8 * n
    OBVIOUS
  <2> HIDE DEF l
  <2>2. l \div 8 = n
    BY <2>1
  <2> QED BY <2>2 DEF l
<1>1. Compressed(w) =
        IF T # {}
        THEN Repeat(1, n - Max(T)) \o No \o SubSeq(w, 1, 8 * Max(T))
        ELSE IF SubSeq(w, 1, 4) = Repeat(0, 4)
             THEN Repeat(1, n) \o SubSeq(w, 5, 8)
             ELSE Repeat(1, n - 1) \o No \o SubSeq(w, 1, 8)
  BY <1>0, Zenon DEF Compressed
<1>2. ASSUME NEW m \in 1..n, \A k \in 2..n : k > m => ByteAt(w, k) = Repeat(0, 8)
      PROVE  \A i \in 8 * m + 1..8 * n : w[i] = 0
  <2> TAKE i \in 8 * m + 1..8 * n
  <2> DEFINE k == (i - 1) \div 8 + 1
             r == i - (8 * k - 8)
  <2>1. k \in 2..n /\ k > m /\ r \in 1..8 /\ 8 * k - 8 + r = i
    OBVIOUS
  <2> HIDE DEF k, r
  <2>2. ByteAt(w, k) = Repeat(0, 8) /\ k \in 1..n
    BY <1>2, <2>1
  <2>3. w[8 * k - 8 + r] = 0
    <3>1. \A j \in 1..8 : w[8 * k - 8 + j] = 0
      BY <2>2, ByteIs
    <3> QED BY <2>1, <3>1
  <2> QED BY <2>1, <2>3
<1>3. CASE T # {}
  <2>1. Max(T) \in T /\ \A k \in T : k <= Max(T)
    <3>1. T \in SUBSET Nat /\ \A k \in T : k <= n
      OBVIOUS
    <3> HIDE DEF T
    <3> QED BY <1>3, <3>1, MaxType
  <2> DEFINE m == Max(T)
  <2>2. m \in 1..n /\ \A k \in 2..n : k > m => ByteAt(w, k) = Repeat(0, 8)
    <3> HIDE DEF m
    <3>1. m \in 2..n /\ \A k \in T : k <= m
      BY <2>1 DEF m
    <3>2. ASSUME NEW k \in 2..n, k > m PROVE ByteAt(w, k) = Repeat(0, 8)
      <4>1. k \notin T
        <5> HIDE DEF T
        <5> QED BY <3>1, <3>2
      <4> QED BY <4>1
    <3> QED BY <3>1, <3>2
  <2>3. Compressed(w) = Repeat(1, n - m) \o No \o SubSeq(w, 1, 8 * m)
    BY <1>1, <1>3
  <2> HIDE DEF m
  <2>4. \A i \in 8 * m + 1..8 * n : w[i] = 0
    BY <1>2, <2>2
  <2> QED BY <2>2, <2>3, <2>4 DEF Shortened
<1>4. CASE T = {}
  <2>1. \A k \in 2..n : k > 1 => ByteAt(w, k) = Repeat(0, 8)
    BY <1>4
  <2> HIDE DEF T
  <2>2. \A i \in 9..8 * n : w[i] = 0
    <3>1. 1 \in 1..n /\ 8 * 1 + 1 = 9
      OBVIOUS
    <3>2. \A i \in 8 * 1 + 1..8 * n : w[i] = 0
      BY <1>2, <2>1, <3>1
    <3> QED BY <3>1, <3>2
  <2>3. CASE SubSeq(w, 1, 4) = Repeat(0, 4)
    <3>1. Compressed(w) = Repeat(1, n) \o SubSeq(w, 5, 8)
      BY <1>1, <1>4, <2>3
    <3>2. \A i \in 1..4 : SubSeq(w, 0 + 1, 0 + 4)[i] = w[0 + i]
      <4>1. 0 + 4 <= Len(w)
        OBVIOUS
      <4> QED BY <4>1, Slice
    <3>3. \A i \in 1..4 : w[i] = 0
      BY <2>3, <3>2 DEF Repeat
    <3> QED BY <2>2, <3>1, <3>3 DEF Shortened
  <2>4. CASE SubSeq(w, 1, 4) # Repeat(0, 4)
    <3>1. Compressed(w) = Repeat(1, n - 1) \o No \o SubSeq(w, 1, 8 * 1)
      <4>1. 8 * 1 = 8
        OBVIOUS
      <4>2. Compressed(w) = Repeat(1, n - 1) \o No \o SubSeq(w, 1, 8)
        BY <1>1, <1>4, <2>4, Zenon
      <4> QED BY <4>1, <4>2, Zenon
    <3>2. 1 \in 1..n /\ \A i \in 8 * 1 + 1..8 * n : w[i] = 0
      BY <2>2
    <3> QED BY <3>1, <3>2 DEF Shortened
  <2> QED BY <2>3, <2>4
<1> QED BY <1>3, <1>4

(* The flags ReadCompressed passes over, and what it reads behind them. *)
Ones(b, p, n) == Min({j \in 0..n - 1 : j = n - 1 \/ Take(b, p + j, 1).v # Yes})
Size(b, p, n) == IF Ones(b, p, n) < n - 1 THEN 8 * (n - Ones(b, p, n))
                 ELSE IF Take(b, p + Ones(b, p, n), 1).v = Yes THEN 4 ELSE 8
Rest(b, p, n) == Take(b, Take(b, p + Ones(b, p, n), 1).at, Size(b, p, n))
Grown(v, size, n) ==
  IF size = 4 THEN Repeat(0, 4) \o v \o Repeat(0, 8 * (n - 1)) ELSE v \o Repeat(0, 8 * n - size)

LEMMA ReadCompressedIs ==
  ASSUME NEW b, NEW p, NEW n
  PROVE  ReadCompressed(b, p, n) =
           IF Take(b, p + Ones(b, p, n), 1).ok /\ Rest(b, p, n).ok
           THEN [Rest(b, p, n) EXCEPT !.v = Grown(Rest(b, p, n).v, Size(b, p, n), n)]
           ELSE [ok |-> FALSE, at |-> Rest(b, p, n).at, v |-> Unset]
<1> DEFINE o == Ones(b, p, n)
           flag == Take(b, p + o, 1)
           size == Size(b, p, n)
           rest == Rest(b, p, n)
<1>1. size = (IF o < n - 1 THEN 8 * (n - o) ELSE IF flag.v = Yes THEN 4 ELSE 8)
  BY Zenon DEF Size
<1>2. rest = Take(b, flag.at, size)
  BY Zenon DEF Rest
<1>3. ReadCompressed(b, p, n) =
        IF flag.ok /\ rest.ok
        THEN [rest EXCEPT !.v = IF size = 4 THEN Repeat(0, 4) \o rest.v \o Repeat(0, 8 * (n - 1))
                                ELSE rest.v \o Repeat(0, 8 * n - size)]
        ELSE [ok |-> FALSE, at |-> rest.at, v |-> Unset]
  BY <1>1, <1>2, Zenon DEF ReadCompressed, TakeNext, Ones
<1> QED BY <1>3, Zenon DEF Grown

LEMMA OnesType ==
  ASSUME NEW b \in Seq(BIT), NEW p \in 0..Len(b), NEW n \in Nat \ {0}
  PROVE  /\ Ones(b, p, n) \in 0..n - 1 /\ p + Ones(b, p, n) <= Len(b)
         /\ \A j \in 0..n - 1 : j < Ones(b, p, n) =>
              Take(b, p + j, 1).ok /\ Take(b, p + j, 1).v = Yes
         /\ Ones(b, p, n) = n - 1 \/ Take(b, p + Ones(b, p, n), 1).v # Yes
<1> DEFINE T == {j \in 0..n - 1 : j = n - 1 \/ Take(b, p + j, 1).v # Yes}
<1>0. Len(b) \in Nat
  BY LenProperties
<1>1. n - 1 \in T /\ T \in SUBSET Nat
  OBVIOUS
<1>2. PICK x \in T : \A y \in T : x <= y
  <2>1. T \subseteq Nat /\ T # {}
    BY <1>1
  <2> HIDE DEF T
  <2> QED BY <2>1, LeastNumber
<1>3. Ones(b, p, n) = x
  <2>1. Min(T) = x
    <3>1. T \in SUBSET Int
      OBVIOUS
    <3> HIDE DEF T
    <3> QED BY <1>2, <3>1, MinIs
  <2> QED BY <2>1 DEF Ones
<1>4. \A j \in 0..n - 1 : j < x => Take(b, p + j, 1).v = Yes
  <2> TAKE j \in 0..n - 1
  <2> HAVE j < x
  <2>1. j \notin T
    <3> HIDE DEF T
    <3>1. x \in Nat
      BY <1>1
    <3> QED BY <1>2, <3>1
  <2> QED BY <2>1
<1>5. \A j \in 0..n - 1 : j < x => Take(b, p + j, 1).ok
  <2> TAKE j \in 0..n - 1
  <2> HAVE j < x
  <2>1. Take(b, p + j, 1).v # Unset
    BY <1>4, FlagType
  <2> DEFINE q == p + j
  <2>q. q \in Nat
    OBVIOUS
  <2> HIDE DEF q
  <2>2. q + 1 <= Len(b)
    <3>1. Take(b, q, 1).v # Unset
      BY <2>1 DEF q
    <3>2. CASE ~(q + 1 <= Len(b))
      <4>1. Take(b, q, 1) = [ok |-> FALSE, at |-> q, v |-> Unset]
        BY <3>2, Zenon DEF Take
      <4> QED BY <3>1, <4>1
    <3> QED BY <3>2
  <2>3. Take(b, q, 1).ok
    BY <2>2, TakeFits
  <2> QED BY <2>3 DEF q
<1>6. x \in 0..n - 1 /\ (x = n - 1 \/ Take(b, p + x, 1).v # Yes)
  OBVIOUS
<1>7. p + x <= Len(b)
  <2>1. CASE x = 0
    BY <2>1
  <2>2. CASE x > 0
    <3>1. x - 1 \in 0..n - 1 /\ x - 1 < x
      BY <1>6, <2>2
    <3>2. Take(b, p + (x - 1), 1).ok
      BY <1>5, <3>1
    <3>3. p + (x - 1) + 1 <= Len(b)
      BY <3>2, TakeFails
    <3> QED BY <1>0, <1>6, <3>3
  <2> QED BY <1>6, <2>1, <2>2
<1> QED BY <1>3, <1>4, <1>5, <1>6, <1>7

LEMMA SizeType ==
  ASSUME NEW b \in Seq(BIT), NEW p \in 0..Len(b), NEW n \in Nat \ {0}
  PROVE  /\ Size(b, p, n) \in Nat \ {0} /\ Size(b, p, n) <= 8 * n
         /\ Size(b, p, n) = 4 \/ Size(b, p, n) >= 8
<1> DEFINE o == Ones(b, p, n)
<1>1. o \in 0..n - 1
  BY OnesType
<1>2. Size(b, p, n) \in {8 * (n - o), 4, 8}
  BY Zenon DEF Size
<1> HIDE DEF o
<1>3. 8 * (n - o) \in Nat /\ 8 <= 8 * (n - o) /\ 8 * (n - o) <= 8 * n
  BY <1>1
<1> QED BY <1>2, <1>3

LEMMA GrownType ==
  ASSUME NEW n \in Nat \ {0}, NEW size \in Nat, size <= 8 * n, NEW v \in Seq(BIT), Len(v) = size
  PROVE  Grown(v, size, n) \in Seq(BIT) /\ Len(Grown(v, size, n)) = 8 * n
<1>0. 0 \in BIT
  BY DEF BIT
<1>1. CASE size = 4
  <2>1. Repeat(0, 4) \in Seq(BIT) /\ Len(Repeat(0, 4)) = 4
    BY <1>0, RepeatType
  <2>2. Repeat(0, 8 * (n - 1)) \in Seq(BIT) /\ Len(Repeat(0, 8 * (n - 1))) = 8 * (n - 1)
    BY <1>0, RepeatType
  <2>3. Repeat(0, 4) \o v \in Seq(BIT) /\ Len(Repeat(0, 4) \o v) = 4 + size
    <3>1. /\ Repeat(0, 4) \o v \in Seq(BIT)
          /\ Len(Repeat(0, 4) \o v) = Len(Repeat(0, 4)) + Len(v)
      BY <2>1, Joined
    <3> QED BY <2>1, <3>1
  <2>4. /\ (Repeat(0, 4) \o v) \o Repeat(0, 8 * (n - 1)) \in Seq(BIT)
        /\ Len((Repeat(0, 4) \o v) \o Repeat(0, 8 * (n - 1))) = 4 + size + 8 * (n - 1)
    <3> DEFINE a == Repeat(0, 4) \o v
               z == Repeat(0, 8 * (n - 1))
    <3> HIDE DEF a, z
    <3>1. a \o z \in Seq(BIT) /\ Len(a \o z) = Len(a) + Len(z)
      BY <2>2, <2>3, Joined DEF a, z
    <3> QED BY <2>2, <2>3, <3>1 DEF a, z
  <2>5. 4 + size + 8 * (n - 1) = 8 * n
    BY <1>1
  <2> QED BY <1>1, <2>4, <2>5 DEF Grown
<1>2. CASE size # 4
  <2>1. 8 * n - size \in Nat
    OBVIOUS
  <2>2. Repeat(0, 8 * n - size) \in Seq(BIT) /\ Len(Repeat(0, 8 * n - size)) = 8 * n - size
    BY <1>0, <2>1, RepeatType
  <2>3. v \o Repeat(0, 8 * n - size) \in Seq(BIT) /\ Len(v \o Repeat(0, 8 * n - size)) = size + (8 * n - size)
    <3> DEFINE z == Repeat(0, 8 * n - size)
    <3> HIDE DEF z
    <3>1. v \o z \in Seq(BIT) /\ Len(v \o z) = Len(v) + Len(z)
      BY <2>2, Joined DEF z
    <3> QED BY <2>2, <3>1 DEF z
  <2>4. size + (8 * n - size) = 8 * n
    OBVIOUS
  <2> QED BY <1>2, <2>3, <2>4 DEF Grown
<1> QED BY <1>1, <1>2

LEMMA ReadCompressedType ==
  ASSUME NEW b \in Seq(BIT), NEW p \in 0..Len(b), NEW n \in Nat \ {0}
  PROVE  LET r == ReadCompressed(b, p, n) IN
         /\ r.ok \in BOOLEAN /\ r.at \in p..Len(b)
         /\ r.ok => /\ Take(b, p + Ones(b, p, n), 1).ok /\ Rest(b, p, n).ok
                    /\ r.at = p + Ones(b, p, n) + 1 + Size(b, p, n)
                    /\ r.v \in Seq(BIT) /\ Len(r.v) = 8 * n
         /\ ~r.ok => r.v = Unset
<1> DEFINE o == Ones(b, p, n)
           flag == Take(b, p + o, 1)
           size == Size(b, p, n)
           rest == Rest(b, p, n)
           r == ReadCompressed(b, p, n)
           l == Len(b)
<1>1. r = IF flag.ok /\ rest.ok THEN [rest EXCEPT !.v = Grown(rest.v, size, n)]
          ELSE [ok |-> FALSE, at |-> rest.at, v |-> Unset]
  BY ReadCompressedIs
<1>2. o \in Nat /\ p + o \in 0..l /\ p \in 0..l /\ l \in Nat
  BY OnesType, LenProperties
<1>3. flag.ok \in BOOLEAN /\ flag.at \in p + o..l /\ (flag.ok => flag.at = p + o + 1)
  BY <1>2, TakeType
<1>4. size \in Nat /\ size <= 8 * n
  BY SizeType
<1>5. rest = Take(b, flag.at, size)
  BY Zenon DEF Rest
<1> HIDE DEF flag, size
<1>6. flag.at \in 0..l
  BY <1>2, <1>3
<1>7. /\ rest.ok \in BOOLEAN /\ rest.at \in flag.at..l
      /\ rest.ok => rest.at = flag.at + size /\ rest.v \in Seq(BIT) /\ Len(rest.v) = size
  BY <1>4, <1>5, <1>6, TakeType DEF l
<1>8. rest = [ok |-> rest.ok, at |-> rest.at, v |-> rest.v]
  <2>1. CASE flag.at + size <= Len(b)
    <3> DEFINE q == flag.at
               s == SubSeq(b, q + 1, q + size)
    <3>1. rest = [ok |-> TRUE, at |-> q + size, v |-> s]
      <4>1. rest = Take(b, q, size) /\ q + size <= Len(b)
        BY <1>5, <2>1
      <4> HIDE DEF q, rest
      <4> QED BY <4>1, TakeFits
    <3> HIDE DEF rest, s, q
    <3> QED BY <3>1
  <2>2. CASE ~(flag.at + size <= Len(b))
    <3>1. rest = [ok |-> FALSE, at |-> flag.at, v |-> Unset]
      BY <1>5, <2>2, Zenon DEF Take
    <3> HIDE DEF rest
    <3> QED BY <3>1
  <2> QED BY <2>1, <2>2
<1>9. rest.ok => Grown(rest.v, size, n) \in Seq(BIT) /\ Len(Grown(rest.v, size, n)) = 8 * n
  BY <1>4, <1>7, GrownType
<1> HIDE DEF rest, r, o
<1>10. CASE flag.ok /\ rest.ok
  <2>1. r = [rest EXCEPT !.v = Grown(rest.v, size, n)]
    BY <1>1, <1>10
  <2>2. r.ok = rest.ok /\ r.at = rest.at /\ r.v = Grown(rest.v, size, n)
    BY <1>8, <2>1
  <2>3. r.at = p + o + 1 + size /\ r.at \in p..l
    BY <1>2, <1>3, <1>4, <1>7, <1>10, <2>2
  <2> QED BY <1>9, <1>10, <2>2, <2>3 DEF r, rest, flag, o, size, l
<1>11. CASE ~(flag.ok /\ rest.ok)
  <2>1. r = [ok |-> FALSE, at |-> rest.at, v |-> Unset]
    BY <1>1, <1>11
  <2>2. r.ok = FALSE /\ r.at = rest.at /\ r.v = Unset
    BY <2>1
  <2>3. r.at \in p..l
    BY <1>2, <1>3, <1>7, <2>2
  <2> QED BY <2>2, <2>3 DEF r, l
<1> QED BY <1>10, <1>11

(* What decides the number of flags. *)
LEMMA OnesIs ==
  ASSUME NEW b, NEW p, NEW n \in Nat \ {0}, NEW x \in 0..n - 1,
         \A j \in 0..n - 1 : j < x => Take(b, p + j, 1).v = Yes,
         x = n - 1 \/ Take(b, p + x, 1).v # Yes
  PROVE  Ones(b, p, n) = x
<1> DEFINE T == {j \in 0..n - 1 : j = n - 1 \/ Take(b, p + j, 1).v # Yes}
<1>1. T \in SUBSET Int /\ x \in T
  OBVIOUS
<1>2. \A y \in T : x <= y
  <2> TAKE y \in T
  <2>1. y \in 0..n - 1 /\ (y = n - 1 \/ Take(b, p + y, 1).v # Yes)
    OBVIOUS
  <2>2. CASE y < x
    <3>1. Take(b, p + y, 1).v = Yes /\ y # n - 1
      BY <2>1, <2>2
    <3> QED BY <2>1, <3>1
  <2> QED BY <2>1, <2>2
<1> HIDE DEF T
<1>3. Min(T) = x
  BY <1>1, <1>2, MinIs
<1> QED BY <1>3, Zenon DEF Ones, T

LEMMA ReadCompressedCut ==
  ASSUME NEW b \in Seq(BIT), NEW w \in Seq(BIT), IsCut(b, w),
         NEW p \in 0..Len(b), NEW n \in Nat \ {0}, ReadCompressed(b, p, n).ok
  PROVE  ReadCompressed(w, p, n) = ReadCompressed(b, p, n)
<1> DEFINE o == Ones(b, p, n)
           flag == Take(b, p + o, 1)
           size == Size(b, p, n)
<1>1. flag.ok /\ Rest(b, p, n).ok
  BY ReadCompressedType
<1>2. o \in 0..n - 1 /\ p + o \in 0..Len(b)
  BY OnesType, LenProperties
<1>3. Take(w, p + o, 1) = flag
  <2> DEFINE q == p + o
  <2>1. q \in 0..Len(b) /\ Take(b, q, 1).ok
    BY <1>1, <1>2
  <2> HIDE DEF q
  <2>2. Take(w, q, 1) = Take(b, q, 1)
    BY <2>1, TakeCut
  <2> QED BY <2>2 DEF q
<1>4. \A j \in 0..n - 1 : j < o => Take(w, p + j, 1).v = Yes
  <2> TAKE j \in 0..n - 1
  <2> HAVE j < o
  <2> DEFINE q == p + j
  <2>1. Take(b, q, 1).ok /\ Take(b, q, 1).v = Yes
    BY OnesType
  <2>2. q \in 0..Len(b)
    BY <1>2, LenProperties
  <2> HIDE DEF q
  <2>3. Take(w, q, 1) = Take(b, q, 1)
    BY <2>1, <2>2, TakeCut
  <2> QED BY <2>1, <2>3 DEF q
<1>5. o = n - 1 \/ Take(w, p + o, 1).v # Yes
  <2>1. o = n - 1 \/ flag.v # Yes
    BY OnesType
  <2> QED BY <1>3, <2>1
<1>6. Ones(w, p, n) = o
  <2> HIDE DEF o
  <2> QED BY <1>2, <1>4, <1>5, OnesIs
<1>7. Size(w, p, n) = size
  BY <1>3, <1>6, Zenon DEF Size
<1>8. Rest(w, p, n) = Rest(b, p, n)
  <2>1. Rest(w, p, n) = Take(w, flag.at, size)
    BY <1>3, <1>6, <1>7, Zenon DEF Rest
  <2>2. Rest(b, p, n) = Take(b, flag.at, size)
    BY Zenon DEF Rest
  <2> DEFINE q == flag.at
  <2>3. q \in 0..Len(b)
    <3>1. flag.at \in p + o..Len(b)
      BY <1>2, TakeType
    <3> HIDE DEF flag
    <3> QED BY <1>2, <3>1
  <2>4. size \in Nat
    BY SizeType
  <2> HIDE DEF q, size
  <2>5. Take(b, q, size).ok
    BY <1>1, <2>2 DEF q
  <2>6. Take(w, q, size) = Take(b, q, size)
    BY <2>3, <2>4, <2>5, TakeCut
  <2> QED BY <2>1, <2>2, <2>6 DEF q
<1> QED BY <1>1, <1>3, <1>6, <1>7, <1>8, ReadCompressedIs, Zenon

(* A compressed word is read as it was. *)
LEMMA GrowsBack ==
  ASSUME NEW n \in Nat \ {0}, NEW w \in Seq(BIT), Len(w) = 8 * n
  PROVE  /\ \A k \in 1..n : (\A i \in 8 * k + 1..8 * n : w[i] = 0) =>
              Grown(SubSeq(w, 1, 8 * k), 8 * k, n) = w
         /\ (\A i \in 1..4 : w[i] = 0) /\ (\A i \in 9..8 * n : w[i] = 0) =>
              Grown(SubSeq(w, 5, 8), 4, n) = w
<1>0. 0 \in BIT
  BY DEF BIT
<1>1. ASSUME NEW k \in 1..n, \A i \in 8 * k + 1..8 * n : w[i] = 0
      PROVE  Grown(SubSeq(w, 1, 8 * k), 8 * k, n) = w
  <2> DEFINE m == 8 * k
             r == 8 * n - m
             s == SubSeq(w, 1, m)
             z == Repeat(0, r)
  <2>1. m \in Nat /\ m # 4 /\ r \in Nat /\ m + r = 8 * n
    OBVIOUS
  <2>2. s \in Seq(BIT) /\ Len(s) = m /\ \A i \in 1..m : s[i] = w[i]
    <3> HIDE DEF m
    <3>1. 0 + m <= Len(w) /\ 0 + m = m /\ 0 + 1 = 1
      BY <2>1
    <3>2. /\ SubSeq(w, 0 + 1, 0 + m) \in Seq(BIT) /\ Len(SubSeq(w, 0 + 1, 0 + m)) = m
          /\ \A i \in 1..m : SubSeq(w, 0 + 1, 0 + m)[i] = w[0 + i]
      BY <2>1, <3>1, Slice
    <3>3. \A i \in 1..m : 0 + i = i
      BY <2>1
    <3> QED BY <3>1, <3>2, <3>3
  <2>3. z \in Seq(BIT) /\ Len(z) = r /\ \A i \in 1..r : z[i] = 0
    <3> HIDE DEF r
    <3> QED BY <1>0, <2>1, RepeatType
  <2>4. \A i \in m + 1..8 * n : w[i] = 0
    BY <1>1
  <2>5. Grown(s, m, n) = s \o z
    BY <2>1 DEF Grown
  <2> HIDE DEF m, r, s, z
  <2>6. \A i \in 1..m : w[i] = s[i]
    BY <2>2
  <2>7. ASSUME NEW i \in 1..r PROVE w[m + i] = z[i]
    <3>1. m + i \in m + 1..8 * n
      BY <2>1
    <3> QED BY <2>3, <2>4, <3>1
  <2>8. s \o z = w
    <3>1. Len(w) = Len(s) + Len(z)
      BY <2>1, <2>2, <2>3
    <3>2. (\A i \in 1..Len(s) : w[i] = s[i]) /\ \A i \in 1..Len(z) : w[Len(s) + i] = z[i]
      BY <2>2, <2>3, <2>6, <2>7, Zenon
    <3> QED BY <2>2, <2>3, <3>1, <3>2, JoinedIs
  <2> QED BY <2>5, <2>8 DEF m, s
<1>2. ASSUME \A i \in 1..4 : w[i] = 0, \A i \in 9..8 * n : w[i] = 0
      PROVE  Grown(SubSeq(w, 5, 8), 4, n) = w
  <2> DEFINE r == 8 * (n - 1)
             a == Repeat(0, 4)
             s == SubSeq(w, 5, 8)
             z == Repeat(0, r)
             c == (a \o s) \o z
  <2>1. r \in Nat /\ 8 + r = 8 * n
    OBVIOUS
  <2>2. s \in Seq(BIT) /\ Len(s) = 4 /\ \A i \in 1..4 : s[i] = w[4 + i]
    <3>1. 4 + 4 <= Len(w) /\ 4 + 4 = 8 /\ 4 + 1 = 5
      OBVIOUS
    <3>2. /\ SubSeq(w, 4 + 1, 4 + 4) \in Seq(BIT) /\ Len(SubSeq(w, 4 + 1, 4 + 4)) = 4
          /\ \A i \in 1..4 : SubSeq(w, 4 + 1, 4 + 4)[i] = w[4 + i]
      BY <3>1, Slice
    <3> QED BY <3>1, <3>2
  <2>3. z \in Seq(BIT) /\ Len(z) = r /\ \A i \in 1..r : z[i] = 0
    <3> HIDE DEF r
    <3> QED BY <1>0, <2>1, RepeatType
  <2>4. a \in Seq(BIT) /\ Len(a) = 4 /\ \A i \in 1..4 : a[i] = 0
    BY <1>0, RepeatType
  <2>5. Grown(s, 4, n) = c
    BY DEF Grown
  <2> HIDE DEF a, s, z, r
  <2>6. /\ a \o s \in Seq(BIT) /\ Len(a \o s) = 8
        /\ \A i \in 1..8 : w[i] = (a \o s)[i]
    <3> DEFINE e == a \o s
    <3>1. /\ e \in Seq(BIT) /\ Len(e) = Len(a) + Len(s)
          /\ \A i \in 1..Len(a) : e[i] = a[i]
          /\ \A i \in 1..Len(s) : e[Len(a) + i] = s[i]
      BY <2>2, <2>4, Joined
    <3> HIDE DEF e
    <3>2. /\ Len(e) = 8 /\ (\A i \in 1..4 : e[i] = a[i])
          /\ \A i \in 1..4 : e[4 + i] = s[i]
      BY <2>2, <2>4, <3>1
    <3>3. ASSUME NEW i \in 1..8 PROVE w[i] = e[i]
      <4>1. CASE i <= 4
        <5>1. i \in 1..4
          BY <4>1
        <5> QED BY <1>2, <2>4, <3>2, <5>1
      <4>2. CASE 4 < i
        <5>1. i - 4 \in 1..4 /\ 4 + (i - 4) = i
          BY <4>2
        <5>2. e[4 + (i - 4)] = s[i - 4] /\ s[i - 4] = w[4 + (i - 4)]
          BY <2>2, <3>2, <5>1
        <5> QED BY <5>1, <5>2
      <4> QED BY <4>1, <4>2
    <3> QED BY <3>1, <3>2, <3>3 DEF e
  <2>7. ASSUME NEW i \in 1..r PROVE w[8 + i] = z[i]
    <3>1. 8 + i \in 9..8 * n
      BY <2>1
    <3> QED BY <1>2, <2>3, <3>1
  <2>9. c = w
    <3> DEFINE e == a \o s
    <3> HIDE DEF e
    <3>1. e \in Seq(BIT) /\ Len(e) = 8 /\ \A i \in 1..8 : w[i] = e[i]
      BY <2>6 DEF e
    <3>2. Len(w) = Len(e) + Len(z)
      BY <2>1, <2>3, <3>1
    <3>3. (\A i \in 1..Len(e) : w[i] = e[i]) /\ \A i \in 1..Len(z) : w[Len(e) + i] = z[i]
      BY <2>3, <2>7, <3>1, Zenon
    <3>4. e \o z = w
      BY <2>3, <3>1, <3>2, <3>3, JoinedIs
    <3> QED BY <3>4 DEF e
  <2> QED BY ONLY <2>5, <2>9, Zenon DEF s
<1> QED BY <1>1, <1>2

LEMMA CompressedFacts ==
  ASSUME NEW n \in Nat \ {0}, NEW w \in Seq(BIT), Len(w) = 8 * n
  PROVE  /\ Compressed(w) \in Seq(BIT) /\ Len(Compressed(w)) <= 9 * n
         /\ \A b \in Seq(BIT), p \in Nat :
              Holds(b, p, Compressed(w)) =>
                ReadCompressed(b, p, n) = [ok |-> TRUE, at |-> p + Len(Compressed(w)), v |-> w]
<1>0. 0 \in BIT /\ 1 \in BIT
  BY DEF BIT
<1> DEFINE c == Compressed(w)
<1>1. ASSUME NEW k \in 1..n, c = Repeat(1, n - k) \o No \o SubSeq(w, 1, 8 * k),
             \A i \in 8 * k + 1..8 * n : w[i] = 0
      PROVE  /\ c \in Seq(BIT) /\ Len(c) <= 9 * n
             /\ \A b \in Seq(BIT), p \in Nat : Holds(b, p, c) =>
                  ReadCompressed(b, p, n) = [ok |-> TRUE, at |-> p + Len(c), v |-> w]
  <2> DEFINE o == n - k
             ones == Repeat(1, o)
             m == 8 * k
             s == SubSeq(w, 1, m)
  <2>1. o \in Nat /\ o \in 0..n - 1 /\ m \in Nat \ {0} /\ m <= 8 * n
    OBVIOUS
  <2>2. ones \in Seq(BIT) /\ Len(ones) = o /\ \A i \in 1..o : ones[i] = 1
    <3> HIDE DEF o
    <3> QED BY <1>0, <2>1, RepeatType
  <2>3. s \in Seq(BIT) /\ Len(s) = m
    <3> HIDE DEF m
    <3>1. 0 + m <= Len(w) /\ 0 + m = m /\ 0 + 1 = 1
      BY <2>1
    <3>2. SubSeq(w, 0 + 1, 0 + m) \in Seq(BIT) /\ Len(SubSeq(w, 0 + 1, 0 + m)) = m
      BY <2>1, <3>1, Slice
    <3> QED BY <3>1, <3>2
  <2>4. c = (ones \o No) \o s
    BY <1>1
  <2>5. Grown(s, m, n) = w
    BY <1>1, GrowsBack
  <2>r. o + 1 + m <= 9 * n
    OBVIOUS
  <2>s. (o < n - 1 => m = 8 * (n - o)) /\ (~(o < n - 1) => m = 8)
    OBVIOUS
  <2> HIDE DEF o, ones, m, s, c
  <2>6. ones \o No \in Seq(BIT) /\ Len(ones \o No) = o + 1
    <3>1. ones \o No \in Seq(BIT) /\ Len(ones \o No) = Len(ones) + Len(No)
      BY <2>2, FlagType, Joined
    <3> QED BY <2>2, <3>1, FlagType
  <2>7. c \in Seq(BIT) /\ Len(c) = o + 1 + m
    BY <2>3, <2>4, <2>6, Joined
  <2>8. ASSUME NEW b \in Seq(BIT), NEW p \in Nat, Holds(b, p, c)
        PROVE  ReadCompressed(b, p, n) = [ok |-> TRUE, at |-> p + Len(c), v |-> w]
    <3>1. Holds(b, p, ones \o No) /\ Holds(b, p + (o + 1), s)
      BY <2>3, <2>4, <2>6, <2>8, HoldsConcat
    <3>2. Holds(b, p, ones) /\ Holds(b, p + o, No)
      BY <2>2, <3>1, FlagType, HoldsConcat
    <3>3. Take(b, p + o, 1) = [ok |-> TRUE, at |-> p + o + 1, v |-> No]
      <4> DEFINE q == p + o
      <4>1. q \in Nat /\ Holds(b, q, No)
        BY <2>1, <3>2
      <4> HIDE DEF q
      <4>2. Take(b, q, 1) = [ok |-> TRUE, at |-> q + 1, v |-> No]
        BY <4>1, TakeFlag
      <4> QED BY <4>2 DEF q
    <3>4. \A j \in 0..n - 1 : j < o => Take(b, p + j, 1).v = Yes
      <4> TAKE j \in 0..n - 1
      <4> HAVE j < o
      <4> DEFINE q == p + j
      <4>1. b[q + 1] = 1 /\ q + 1 <= Len(b) /\ q \in Nat
        <5>1. j + 1 \in 1..o /\ p + (j + 1) = q + 1
          BY <2>1
        <5>2. b[p + (j + 1)] = ones[j + 1] /\ p + o <= Len(b)
          BY <2>2, <3>2, <5>1 DEF Holds
        <5>3. q + 1 <= Len(b)
          BY <2>1, <5>1, <5>2, LenProperties
        <5> QED BY <2>2, <5>1, <5>2, <5>3
      <4> HIDE DEF q
      <4>2. Holds(b, q, Yes)
        <5>1. \A i \in 1..1 : b[q + i] = Yes[i]
          BY <4>1, FlagType
        <5> QED BY <4>1, <5>1, FlagType DEF Holds
      <4>3. Take(b, q, 1) = [ok |-> TRUE, at |-> q + 1, v |-> Yes]
        BY <4>1, <4>2, TakeFlag
      <4> QED BY <4>3 DEF q
    <3>5. Ones(b, p, n) = o
      <4>1. Take(b, p + o, 1).v # Yes
        BY <3>3, FlagType
      <4>2. o = n - 1 \/ Take(b, p + o, 1).v # Yes
        BY <4>1
      <4> QED BY ONLY n \in Nat \ {0}, <2>1, <3>4, <4>2, OnesIs
    <3>6. Size(b, p, n) = m
      <4>1. Size(b, p, n) = IF o < n - 1 THEN 8 * (n - o)
                            ELSE IF Take(b, p + o, 1).v = Yes THEN 4 ELSE 8
        BY <3>5, Zenon DEF Size
      <4>2. Take(b, p + o, 1).v # Yes
        BY <3>3, FlagType
      <4> QED BY <2>s, <4>1, <4>2
    <3>7. Rest(b, p, n) = [ok |-> TRUE, at |-> p + (o + 1) + m, v |-> s]
      <4> DEFINE q == p + (o + 1)
      <4>1. Take(b, p + o, 1).at = q /\ q \in Nat
        BY <2>1, <3>3
      <4>2. Rest(b, p, n) = Take(b, q, m)
        BY <3>5, <3>6, <4>1, Zenon DEF Rest
      <4>3. Holds(b, q, s)
        BY <3>1
      <4> HIDE DEF q
      <4>4. Take(b, q, m) = [ok |-> TRUE, at |-> q + m, v |-> s]
        BY <2>3, <4>1, <4>3, TakeIs
      <4> QED BY <4>2, <4>4 DEF q
    <3>8. ReadCompressed(b, p, n) = [Rest(b, p, n) EXCEPT !.v = Grown(s, m, n)]
      <4>1. Take(b, p + o, 1).ok /\ Rest(b, p, n).ok /\ Rest(b, p, n).v = s
        BY <3>3, <3>7
      <4> QED BY <3>5, <3>6, <4>1, ReadCompressedIs, Zenon
    <3>9. ReadCompressed(b, p, n) = [ok |-> TRUE, at |-> p + (o + 1) + m, v |-> w]
      <4> DEFINE g == Grown(s, m, n)
                 rest == Rest(b, p, n)
      <4>1. ReadCompressed(b, p, n) = [rest EXCEPT !.v = g] /\ g = w
        BY <2>5, <3>8
      <4> HIDE DEF g, rest
      <4>2. rest = [ok |-> TRUE, at |-> p + (o + 1) + m, v |-> s]
        BY <3>7 DEF rest
      <4> QED BY ONLY <4>1, <4>2, Record, Zenon
    <3>10. p + (o + 1) + m = p + Len(c)
      BY <2>1, <2>7
    <3> QED BY <3>9, <3>10
  <2>9. Len(c) <= 9 * n
    BY <2>7, <2>r
  <2> QED BY <2>7, <2>8, <2>9
<1>2. ASSUME c = Repeat(1, n) \o SubSeq(w, 5, 8),
             \A i \in 1..4 : w[i] = 0, \A i \in 9..8 * n : w[i] = 0
      PROVE  /\ c \in Seq(BIT) /\ Len(c) <= 9 * n
             /\ \A b \in Seq(BIT), p \in Nat : Holds(b, p, c) =>
                  ReadCompressed(b, p, n) = [ok |-> TRUE, at |-> p + Len(c), v |-> w]
  <2> DEFINE ones == Repeat(1, n)
             s == SubSeq(w, 5, 8)
  <2>2. ones \in Seq(BIT) /\ Len(ones) = n /\ \A i \in 1..n : ones[i] = 1
    BY <1>0, RepeatType
  <2>3. s \in Seq(BIT) /\ Len(s) = 4
    <3>1. 4 + 4 <= Len(w) /\ 4 + 4 = 8 /\ 4 + 1 = 5
      OBVIOUS
    <3>2. SubSeq(w, 4 + 1, 4 + 4) \in Seq(BIT) /\ Len(SubSeq(w, 4 + 1, 4 + 4)) = 4
      BY <3>1, Slice
    <3> QED BY <3>1, <3>2
  <2>4. c = ones \o s
    BY <1>2
  <2>5. Grown(s, 4, n) = w
    BY <1>2, GrowsBack
  <2> HIDE DEF ones, s, c
  <2>7. c \in Seq(BIT) /\ Len(c) = n + 4
    <3>1. ones \o s \in Seq(BIT) /\ Len(ones \o s) = Len(ones) + Len(s)
      BY <2>2, <2>3, Joined
    <3> QED BY <2>2, <2>3, <2>4, <3>1
  <2>r. n + 4 <= 9 * n
    OBVIOUS
  <2>8. ASSUME NEW b \in Seq(BIT), NEW p \in Nat, Holds(b, p, c)
        PROVE  ReadCompressed(b, p, n) = [ok |-> TRUE, at |-> p + Len(c), v |-> w]
    <3>1. Holds(b, p, ones) /\ Holds(b, p + n, s)
      BY <2>2, <2>3, <2>4, <2>8, HoldsConcat
    <3>4. \A j \in 0..n - 1 : Take(b, p + j, 1) = [ok |-> TRUE, at |-> p + j + 1, v |-> Yes]
      <4> TAKE j \in 0..n - 1
      <4> DEFINE q == p + j
      <4>1. b[q + 1] = 1 /\ q + 1 <= Len(b) /\ q \in Nat
        <5>1. j + 1 \in 1..n /\ p + (j + 1) = q + 1
          OBVIOUS
        <5>2. b[p + (j + 1)] = ones[j + 1] /\ p + n <= Len(b)
          BY <2>2, <3>1, <5>1 DEF Holds
        <5>3. q + 1 <= Len(b)
          BY <5>1, <5>2, LenProperties
        <5> QED BY <2>2, <5>1, <5>2, <5>3
      <4> HIDE DEF q
      <4>2. Holds(b, q, Yes)
        <5>1. \A i \in 1..1 : b[q + i] = Yes[i]
          BY <4>1, FlagType
        <5> QED BY <4>1, <5>1, FlagType DEF Holds
      <4>3. Take(b, q, 1) = [ok |-> TRUE, at |-> q + 1, v |-> Yes]
        BY <4>1, <4>2, TakeFlag
      <4> QED BY <4>3 DEF q
    <3> DEFINE o == n - 1
    <3>o. o \in 0..n - 1 /\ p + o + 1 = p + n /\ ~(o < n - 1)
      OBVIOUS
    <3>5. Ones(b, p, n) = o
      <4>1. \A j \in 0..n - 1 : j < o => Take(b, p + j, 1).v = Yes
        <5>1. \A j \in 0..n - 1 : Take(b, p + j, 1).v = Yes
          <6> TAKE j \in 0..n - 1
          <6>1. Take(b, p + j, 1) = [ok |-> TRUE, at |-> p + j + 1, v |-> Yes]
            BY <3>4
          <6> QED BY <6>1
        <5> QED BY <5>1
      <4>2. o = n - 1
        OBVIOUS
      <4> HIDE DEF o
      <4> QED BY <3>o, <4>1, <4>2, OnesIs
    <3> HIDE DEF o
    <3>3. Take(b, p + o, 1) = [ok |-> TRUE, at |-> p + n, v |-> Yes]
      BY <3>4, <3>o
    <3>6. Size(b, p, n) = 4
      <4>1. Size(b, p, n) = IF o < n - 1 THEN 8 * (n - o)
                            ELSE IF Take(b, p + o, 1).v = Yes THEN 4 ELSE 8
        BY <3>5, Zenon DEF Size
      <4> QED BY <3>o, <3>3, <4>1
    <3>7. Rest(b, p, n) = [ok |-> TRUE, at |-> p + n + 4, v |-> s]
      <4> DEFINE q == p + n
      <4>1. Take(b, p + o, 1).at = q /\ q \in Nat
        BY <3>3
      <4>2. Rest(b, p, n) = Take(b, q, 4)
        BY <3>5, <3>6, <4>1, Zenon DEF Rest
      <4>3. Holds(b, q, s)
        BY <3>1
      <4> HIDE DEF q
      <4>4. Take(b, q, 4) = [ok |-> TRUE, at |-> q + 4, v |-> s]
        <5>1. Take(b, q, Len(s)) = [ok |-> TRUE, at |-> q + Len(s), v |-> s]
          BY <2>3, <4>1, <4>3, TakeHolds
        <5> QED BY <2>3, <5>1
      <4> QED BY <4>2, <4>4 DEF q
    <3>8. ReadCompressed(b, p, n) = [Rest(b, p, n) EXCEPT !.v = Grown(s, 4, n)]
      <4>1. Take(b, p + o, 1).ok /\ Rest(b, p, n).ok /\ Rest(b, p, n).v = s
        BY <3>3, <3>7
      <4> QED BY <3>5, <3>6, <4>1, ReadCompressedIs, Zenon
    <3>9. ReadCompressed(b, p, n) = [ok |-> TRUE, at |-> p + n + 4, v |-> w]
      <4> DEFINE g == Grown(s, 4, n)
                 rest == Rest(b, p, n)
      <4>1. ReadCompressed(b, p, n) = [rest EXCEPT !.v = g] /\ g = w
        BY <2>5, <3>8
      <4> HIDE DEF g, rest
      <4>2. rest = [ok |-> TRUE, at |-> p + n + 4, v |-> s]
        BY <3>7 DEF rest
      <4> QED BY ONLY <4>1, <4>2, Record, Zenon
    <3>10. p + n + 4 = p + Len(c)
      BY <2>7
    <3> QED BY <3>9, <3>10
  <2>9. Len(c) <= 9 * n
    BY <2>7, <2>r
  <2> QED BY <2>7, <2>8, <2>9
<1> HIDE DEF c
<1>3. Shortened(c, w, n)
  BY CompressedForms DEF c
<1>4. CASE \E k \in 1..n : /\ c = Repeat(1, n - k) \o No \o SubSeq(w, 1, 8 * k)
                          /\ \A i \in 8 * k + 1..8 * n : w[i] = 0
  BY <1>1, <1>4 DEF c
<1>5. CASE /\ c = Repeat(1, n) \o SubSeq(w, 5, 8)
           /\ \A i \in 1..4 : w[i] = 0
           /\ \A i \in 9..8 * n : w[i] = 0
  BY <1>2, <1>5 DEF c
<1> QED BY <1>3, <1>4, <1>5 DEF Shortened

LEMMA ReadsCompressed ==
  ASSUME NEW n \in Nat \ {0}, NEW w \in Seq(BIT), Len(w) = 8 * n
  PROVE  /\ Compressed(w) \in Seq(BIT)
         /\ \A b \in Seq(BIT), p \in Nat :
              Holds(b, p, Compressed(w)) =>
                ReadCompressed(b, p, n) = [ok |-> TRUE, at |-> p + Len(Compressed(w)), v |-> w]
BY CompressedFacts, Zenon

LEMMA CompressedLength ==
  ASSUME NEW n \in Nat \ {0}, NEW w \in Seq(BIT), Len(w) = 8 * n
  PROVE  Compressed(w) \in Seq(BIT) /\ Len(Compressed(w)) <= 9 * n
BY CompressedFacts, Zenon

-----------------------------------------------------------------------------
(* The number of bits, and whole bytes.                                     *)

LEMMA CountWordType ==
  ASSUME NEW n \in Nat
  PROVE  CountWord(n) \in Seq(BIT) /\ Len(CountWord(n)) = 8 * CountBytes
<1>1. Wide \in Nat
  BY CountAssumption DEF Wide
<1> DEFINE e(i) == 8 * ((i - 1) \div 8) + 7 - ((i - 1) % 8)
           d(i) == 2^e(i)
           f == [i \in 1..Wide |-> (n \div d(i)) % 2]
<1>2. ASSUME NEW i \in 1..Wide PROVE (n \div d(i)) % 2 \in BIT
  <2>1. e(i) \in Nat
    <3> DEFINE q == (i - 1) \div 8
               r == (i - 1) % 8
    <3>1. q \in Nat /\ r \in 0..7
      BY <1>1
    <3> HIDE DEF q, r
    <3>2. 8 * q + 7 - r \in Nat
      BY <3>1
    <3> QED BY <3>2 DEF q, r
  <2> HIDE DEF e
  <2>2. d(i) \in Nat \ {0}
    BY <2>1, PowerOfTwo
  <2> HIDE DEF d
  <2>3. n \div d(i) \in Nat
    BY <2>2, Division
  <2>4. (n \div d(i)) % 2 \in {0, 1}
    BY <2>3
  <2> QED BY <2>4 DEF BIT
<1>3. CountWord(n) = f
  BY DEF CountWord, Wide
<1> HIDE DEF d
<1>4. f \in [1..Wide -> BIT]
  BY <1>2
<1> HIDE DEF f
<1>5. f \in Seq(BIT) /\ Len(f) = Wide
  BY <1>1, <1>4
<1> QED BY <1>3, <1>5 DEF Wide

(* No two numbers of this width are the same word. *)
LEMMA CountWordDiffers ==
  ASSUME NEW q \in 0..(2^Wide - 1), NEW r \in 0..(2^Wide - 1), CountWord(q) = CountWord(r)
  PROVE  q = r
<1>0. Wide \in Nat /\ CountBytes \in Nat /\ Wide = 8 * CountBytes
  BY CountAssumption DEF Wide
<1>1. ASSUME NEW e \in 0..(Wide - 1) PROVE (q \div 2^e) % 2 = (r \div 2^e) % 2
  <2> DEFINE c == e \div 8
             k == e % 8
             i == 8 * c + 8 - k
  <2>1. c \in Nat /\ k \in 0..7 /\ e = 8 * c + k
    BY <1>0
  <2>2. c + 1 <= CountBytes
    <3> HIDE DEF c, k
    <3> QED BY <1>0, <2>1
  <2>3. i \in 1..Wide /\ (i - 1) \div 8 = c /\ (i - 1) % 8 = 7 - k
    <3> HIDE DEF c, k
    <3>1. i \in 1..Wide /\ i - 1 = 8 * c + (7 - k)
      BY <1>0, <2>1, <2>2
    <3> QED BY <2>1, <3>1
  <2>4. 8 * c + 7 - (7 - k) = e
    <3> HIDE DEF c, k
    <3> QED BY <2>1
  <2> HIDE DEF c, k, i
  <2>5. \A n \in {q, r} : CountWord(n)[i] = (n \div 2^e) % 2
    <3> TAKE n \in {q, r}
    <3>1. CountWord(n)[i] = (n \div 2^(8 * ((i - 1) \div 8) + 7 - ((i - 1) % 8))) % 2
      <4>1. i \in 1..8 * CountBytes
        BY <1>0, <2>3
      <4> QED BY <4>1, Zenon DEF CountWord
    <3>2. 8 * ((i - 1) \div 8) + 7 - ((i - 1) % 8) = e
      BY <2>3, <2>4
    <3> QED BY <3>1, <3>2
  <2> QED BY <2>5
<1> HIDE DEF Wide
<1> QED BY <1>0, <1>1, BitsDetermine

LEMMA WideType ==
  /\ Wide \in Nat \ {0} /\ 2^Wide = 2 * 2^(Wide - 1)
  /\ 2^(Wide - 1) \in Nat /\ 2^Wide \in Nat
<1>1. Wide \in Nat \ {0}
  BY CountAssumption DEF Wide
<1> DEFINE k == Wide - 1
<1>2. k \in Nat /\ Wide = k + 1
  BY <1>1
<1> HIDE DEF k
<1>3. 2^k \in Nat /\ 2^(k + 1) = 2 * 2^k
  BY <1>2, PowerOfTwo
<1>4. 2^Wide = 2 * 2^k /\ 2^Wide \in Nat
  BY <1>2, <1>3
<1> QED BY <1>1, <1>3, <1>4 DEF k

(* A number an int can hold is read back, and an int.                       *)
LEMMA Claimable ==
  ASSUME NEW n \in Nat, n < 2^(Wide - 1)
  PROVE  Claim(CountWord(n)) = n /\ AsInt(n) = n
<1> DEFINE h == 2^(Wide - 1)
           e == 2^Wide
<1>1. h \in Nat /\ e = 2 * h /\ n < h
  BY WideType
<1> HIDE DEF h, e
<1>2. n \in 0..e - 1 /\ n % e = n
  BY <1>1
<1> DEFINE c == Claim(CountWord(n))
<1>3. c \in 0..e - 1 /\ CountWord(c) = CountWord(n)
  BY <1>2 DEF Claim, e
<1> HIDE DEF c
<1>4. c = n
  BY <1>2, <1>3, CountWordDiffers DEF e
<1>5. AsInt(n) = n
  BY <1>1, <1>2 DEF AsInt, e, h
<1> QED BY <1>4, <1>5 DEF c

LEMMA RoundedType ==
  ASSUME NEW n \in Nat
  PROVE  /\ Rounded(n) \in Nat /\ n <= Rounded(n) /\ Rounded(n) < n + 8
         /\ Rounded(n) % 8 = 0 /\ Rounded(Rounded(n)) = Rounded(n)
         /\ \E m \in Nat : Rounded(n) = 8 * m
<1> DEFINE q == (n + 7) \div 8
<1>1. q \in Nat /\ n <= 8 * q /\ 8 * q < n + 8 /\ Rounded(n) = 8 * q
  BY DEF Rounded
<1>2. (8 * q) % 8 = 0 /\ (8 * q + 7) \div 8 = q
  <2> HIDE DEF q
  <2> QED BY <1>1
<1>3. Rounded(8 * q) = 8 * q
  <2> HIDE DEF q
  <2> QED BY <1>2 DEF Rounded
<1> HIDE DEF q
<1> QED BY <1>1, <1>2, <1>3

LEMMA RoundedIs ==
  ASSUME NEW n \in Nat, NEW m \in {n, Rounded(n)}
  PROVE  m \in Nat /\ n <= m /\ m < n + 8 /\ Rounded(m) = Rounded(n)
BY RoundedType

LEMMA PaddedType ==
  ASSUME NEW b \in Seq(BIT)
  PROVE  /\ Padded(b) \in Seq(BIT) /\ Len(Padded(b)) = Rounded(Len(b))
         /\ \A i \in 1..Len(b) : Padded(b)[i] = b[i]
<1> DEFINE l == Len(b)
           r == Rounded(l) - l
           z == Repeat(0, r)
<1>1. l \in Nat /\ r \in Nat /\ Rounded(l) \in Nat
  <2>1. l \in Nat
    BY LenProperties
  <2> HIDE DEF l
  <2>2. Rounded(l) \in Nat /\ l <= Rounded(l)
    BY <2>1, RoundedType
  <2> QED BY <2>1, <2>2
<1>2. z \in Seq(BIT) /\ Len(z) = r
  <2>1. 0 \in BIT
    BY DEF BIT
  <2> HIDE DEF r
  <2> QED BY <1>1, <2>1, RepeatType
<1>3. Padded(b) = b \o z
  BY DEF Padded
<1> HIDE DEF z
<1>4. /\ b \o z \in Seq(BIT) /\ Len(b \o z) = Len(b) + Len(z)
      /\ \A i \in 1..Len(b) : (b \o z)[i] = b[i]
  BY <1>2, Joined
<1>5. Len(b) + Len(z) = Rounded(Len(b))
  <2> HIDE DEF l
  <2>1. Len(b) + Len(z) = l + r
    BY <1>2 DEF l
  <2>2. l + r = Rounded(l)
    BY <1>1
  <2> QED BY <2>1, <2>2 DEF l
<1> QED BY <1>3, <1>4, <1>5

-----------------------------------------------------------------------------
(* An RPC in a packet, and what is parsed of it.                            *)

Headers == {Plain, Stamp \o Repeat(0, Long) \o Plain}
Length(bits) == Compressed(CountWord(Len(bits)))
From(h, bits) == Len(h) + 8 + Len(Length(bits))

(* An int can count them, and what may stand before them. *)
Counted(bits) == Long + 9 * CountBytes + 24 + Len(bits) < 2^(Wide - 1)

(* b holds an RPC from its beginning on, whole or not, and at most fifteen  *)
(* bits more.                                                               *)
Carries(b, h, number, bits) ==
  /\ b \in Seq(BIT) /\ 8 <= Len(b)
  /\ \E w \in Seq(BIT) : IsCut(b, w) /\ Holds(w, 0, Rpc(h, number, bits))
  /\ Len(b) <= From(h, bits) + Len(bits) + 15

LEMMA HoldsCut ==
  ASSUME NEW b \in Seq(BIT), NEW w \in Seq(BIT), IsCut(b, w), NEW p \in Nat, NEW s \in Seq(BIT),
         Holds(w, p, s), p + Len(s) <= Len(b)
  PROVE  Holds(b, p, s)
<1> DEFINE n == Len(s)
           l == Len(b)
<1>1. n \in Nat /\ l \in Nat /\ p + n <= l
  BY LenProperties
<1>2. \A i \in 1..n : w[p + i] = s[i]
  BY DEF Holds
<1>3. \A i \in 1..l : b[i] = w[i]
  BY DEF IsCut
<1> HIDE DEF n, l
<1>4. ASSUME NEW i \in 1..n PROVE b[p + i] = s[i]
  <2>1. p + i \in 1..l
    BY <1>1
  <2>2. b[p + i] = w[p + i]
    BY <1>3, <2>1
  <2> QED BY <1>2, <2>2
<1> QED BY <1>1, <1>4 DEF Holds, n, l

LEMMA HeadersType ==
  ASSUME NEW h \in Headers
  PROVE  /\ h \in Seq(BIT) /\ Len(h) \in Nat /\ 8 <= Len(h) /\ Len(h) % 8 = 0
         /\ Len(h) <= Long + 16
         /\ \A b \in Seq(BIT) : 8 <= Len(b) /\ (\A i \in 1..8 : b[i] = h[i]) => Header(b) = Len(h)
<1>1. 0 \in BIT /\ 1 \in BIT /\ Long \in Nat /\ Long % 8 = 0
  BY WidthAssumption, CountAssumption DEF BIT
<1> DEFINE z == Repeat(0, Long)
<1>2. /\ Plain \in Seq(BIT) /\ Len(Plain) = 8 /\ \A i \in 1..8 : Plain[i] = 0
      /\ Stamp \in Seq(BIT) /\ Len(Stamp) = 8 /\ \A i \in 1..8 : Stamp[i] = 1
      /\ z \in Seq(BIT) /\ Len(z) = Long
  BY <1>1, RepeatType DEF Plain, Stamp
<1> HIDE DEF z
<1>3. ASSUME NEW b \in Seq(BIT), 8 <= Len(b)
      PROVE  /\ (\A i \in 1..8 : b[i] = 0) => Header(b) = 8
             /\ (\A i \in 1..8 : b[i] = 1) => Header(b) = 8 + Long + 8
  <2> DEFINE s == SubSeq(b, 1, 8)
  <2>1. s \in Seq(BIT) /\ Len(s) = 8 /\ \A i \in 1..8 : s[i] = b[i]
    <3>1. 0 + 8 <= Len(b) /\ 0 + 8 = 8 /\ 0 + 1 = 1
      BY <1>3
    <3>2. /\ SubSeq(b, 0 + 1, 0 + 8) \in Seq(BIT) /\ Len(SubSeq(b, 0 + 1, 0 + 8)) = 8
          /\ \A i \in 1..8 : SubSeq(b, 0 + 1, 0 + 8)[i] = b[0 + i]
      BY <3>1, Slice
    <3>3. \A i \in 1..8 : 0 + i = i
      OBVIOUS
    <3> QED BY <3>1, <3>2, <3>3
  <2>2. Header(b) = IF s = Stamp THEN 8 + Long + 8 ELSE 8
    BY DEF Header
  <2> HIDE DEF s
  <2>3. ASSUME \A i \in 1..8 : b[i] = 0 PROVE s # Stamp
    <3>1. 1 \in 1..8
      OBVIOUS
    <3>2. s[1] = 0 /\ Stamp[1] = 1
      BY <1>2, <2>1, <2>3, <3>1
    <3> QED BY <3>2
  <2>4. ASSUME \A i \in 1..8 : b[i] = 1 PROVE s = Stamp
    <3>1. \A i \in 1..8 : s[i] = Stamp[i]
      BY <1>2, <2>1, <2>4
    <3> QED BY <1>2, <2>1, <3>1, SeqEqual
  <2> QED BY <2>2, <2>3, <2>4
<1>4. CASE h = Plain
  <2>0. 8 \in Nat /\ 8 <= 8 /\ 8 % 8 = 0 /\ 8 <= Long + 16
    BY <1>1
  <2>1. Len(h) \in Nat /\ 8 <= Len(h) /\ Len(h) % 8 = 0 /\ Len(h) <= Long + 16
    BY <1>2, <1>4, <2>0, Zenon
  <2>2. \A b \in Seq(BIT) : 8 <= Len(b) /\ (\A i \in 1..8 : b[i] = h[i]) => Header(b) = Len(h)
    BY <1>2, <1>3, <1>4
  <2> QED BY <1>2, <1>4, <2>1, <2>2
<1>5. CASE h = Stamp \o z \o Plain
  <2> DEFINE a == Stamp \o z
  <2>1. /\ a \in Seq(BIT) /\ Len(a) = Len(Stamp) + Len(z)
        /\ \A i \in 1..Len(Stamp) : a[i] = Stamp[i]
    BY <1>2, Joined
  <2>2. h = a \o Plain
    BY <1>5
  <2> HIDE DEF a
  <2>3. /\ h \in Seq(BIT) /\ Len(h) = Len(a) + Len(Plain)
        /\ \A i \in 1..Len(a) : h[i] = a[i]
    <3>1. /\ a \o Plain \in Seq(BIT) /\ Len(a \o Plain) = Len(a) + Len(Plain)
          /\ \A i \in 1..Len(a) : (a \o Plain)[i] = a[i]
      BY <1>2, <2>1, Joined
    <3> QED BY ONLY <2>2, <3>1
  <2>4. Len(h) = 8 + Long + 8 /\ Len(a) = 8 + Long
    BY <1>1, <1>2, <2>1, <2>3
  <2>5. \A i \in 1..8 : h[i] = 1
    <3> TAKE i \in 1..8
    <3>1. i \in 1..Len(Stamp) /\ i \in 1..Len(a)
      BY <1>1, <1>2, <2>4
    <3> QED BY <1>2, <2>1, <2>3, <3>1
  <2>6. Len(h) \in Nat /\ 8 <= Len(h) /\ Len(h) % 8 = 0 /\ Len(h) <= Long + 16
    BY <1>1, <2>4
  <2>7. \A b \in Seq(BIT) : 8 <= Len(b) /\ (\A i \in 1..8 : b[i] = h[i]) => Header(b) = Len(h)
    BY <1>3, <2>4, <2>5
  <2> QED BY <2>3, <2>6, <2>7
<1> QED BY <1>4, <1>5 DEF Headers, z

LEMMA LengthType ==
  ASSUME NEW bits \in Seq(BIT)
  PROVE  /\ Length(bits) \in Seq(BIT) /\ Len(Length(bits)) \in Nat
         /\ Len(Length(bits)) <= 9 * CountBytes
<1>1. Len(bits) \in Nat /\ CountBytes \in Nat \ {0}
  BY LenProperties, CountAssumption
<1>2. CountWord(Len(bits)) \in Seq(BIT) /\ Len(CountWord(Len(bits))) = 8 * CountBytes
  BY <1>1, CountWordType
<1>3. Length(bits) \in Seq(BIT) /\ Len(Length(bits)) <= 9 * CountBytes
  BY <1>1, <1>2, CompressedLength DEF Length
<1> QED BY <1>3, LenProperties

(* The parts of an RPC. *)
LEMMA RpcParts ==
  ASSUME NEW h \in Headers, NEW number \in Words(8), NEW bits \in Seq(BIT)
  PROVE  /\ Rpc(h, number, bits) \in Seq(BIT)
         /\ Len(Rpc(h, number, bits)) = From(h, bits) + Len(bits)
         /\ From(h, bits) \in Nat /\ Len(h) + 8 <= From(h, bits)
         /\ From(h, bits) <= Long + 9 * CountBytes + 24
         /\ \A w \in Seq(BIT) : Holds(w, 0, Rpc(h, number, bits)) =>
              /\ Holds(w, 0, h) /\ Holds(w, Len(h), number)
              /\ Holds(w, Len(h) + 8, Length(bits)) /\ Holds(w, From(h, bits), bits)
<1> DEFINE c == Length(bits)
           x == h \o number
           y == x \o c
<1>1. /\ h \in Seq(BIT) /\ Len(h) \in Nat /\ number \in Seq(BIT) /\ Len(number) = 8
      /\ Len(h) <= Long + 16 /\ Long \in Nat /\ CountBytes \in Nat
  BY HeadersType, WidthAssumption, CountAssumption DEF Words
<1>2. c \in Seq(BIT) /\ Len(c) \in Nat /\ Len(c) <= 9 * CountBytes
  BY LengthType
<1>3. Rpc(h, number, bits) = y \o bits /\ From(h, bits) = Len(h) + 8 + Len(c)
  BY DEF Rpc, From, Length
<1> HIDE DEF c
<1>4. x \in Seq(BIT) /\ Len(x) = Len(h) + Len(number)
  BY <1>1, Joined
<1>5. Len(x) = Len(h) + 8
  BY <1>1, <1>4
<1> HIDE DEF x
<1>6. y \in Seq(BIT) /\ Len(y) = Len(x) + Len(c)
  BY <1>2, <1>4, Joined
<1>7. Len(y) = Len(h) + 8 + Len(c)
  BY <1>1, <1>2, <1>5, <1>6
<1> HIDE DEF y
<1>8. y \o bits \in Seq(BIT) /\ Len(y \o bits) = Len(y) + Len(bits)
  BY <1>6, Joined
<1>9. ASSUME NEW w \in Seq(BIT), Holds(w, 0, y \o bits)
      PROVE  /\ Holds(w, 0, h) /\ Holds(w, Len(h), number)
             /\ Holds(w, Len(h) + 8, c) /\ Holds(w, Len(h) + 8 + Len(c), bits)
  <2>1. Holds(w, 0, y) /\ Holds(w, 0 + Len(y), bits)
    BY <1>6, <1>9, HoldsConcat
  <2>2. Holds(w, 0, x) /\ Holds(w, 0 + Len(x), c)
    BY <1>2, <1>4, <2>1, HoldsConcat DEF y
  <2>3. Holds(w, 0, h) /\ Holds(w, 0 + Len(h), number)
    BY <1>1, <2>2, HoldsConcat DEF x
  <2>4. 0 + Len(y) = Len(h) + 8 + Len(c) /\ 0 + Len(x) = Len(h) + 8 /\ 0 + Len(h) = Len(h)
    BY <1>1, <1>2, <1>5, <1>7
  <2> QED BY <2>1, <2>2, <2>3, <2>4
<1>10. /\ From(h, bits) \in Nat /\ Len(h) + 8 <= From(h, bits)
       /\ From(h, bits) <= Long + 9 * CountBytes + 24
  BY <1>1, <1>2, <1>3
<1> QED BY <1>3, <1>7, <1>8, <1>9, <1>10 DEF c

(* What Parse reads. *)
NumberRead(b) == Take(b, Header(b), 8)
CountRead(b) == ReadCompressed(b, NumberRead(b).at, CountBytes)
Claimed(b) == IF CountRead(b).ok THEN Claim(CountRead(b).v) ELSE 0
Passes(b) ==
  Claimed(b) = 0 \/ (0 < AsInt(Claimed(b)) /\ AsInt(CountRead(b).at + Claimed(b)) <= Len(b))

LEMMA ParseIs ==
  ASSUME NEW b
  PROVE  /\ Parse(b).ok = (NumberRead(b).ok /\ CountRead(b).ok /\ Passes(b))
         /\ Parse(b).number = NumberRead(b).v /\ Parse(b).from = CountRead(b).at
         /\ Parse(b).bits = Claimed(b)
<1> DEFINE number == NumberRead(b)
           count == CountRead(b)
           bits == Claimed(b)
           ok == number.ok /\ count.ok /\ Passes(b)
<1>1. Parse(b) = [ok |-> ok, number |-> number.v, from |-> count.at, bits |-> bits]
  BY Zenon DEF Parse, NumberRead, CountRead, Claimed, Passes
<1> HIDE DEF number, count, ok, bits
<1>2. Parse(b).ok = ok /\ Parse(b).number = number.v /\ Parse(b).from = count.at /\ Parse(b).bits = bits
  BY <1>1
<1> QED BY <1>2, Zenon DEF ok, number, count, bits

(* Of an RPC that is there in part Parse has the right values or fails, and *)
(* of one that is there as a whole it has them.                             *)
IsParsed(b, h, number, bits) ==
  /\ Header(b) = Len(h)
  /\ Parse(b).ok => /\ Parse(b).number = number /\ Parse(b).from = From(h, bits)
                    /\ Parse(b).bits = Len(bits)
                    /\ Holds(b, 0, h) /\ Holds(b, From(h, bits), bits)
  /\ Len(b) >= From(h, bits) + Len(bits) => Parse(b).ok = TRUE

LEMMA ParseCarried ==
  ASSUME NEW h \in Headers, NEW number \in Words(8), NEW bits \in Seq(BIT),
         Counted(bits), NEW b, Carries(b, h, number, bits)
  PROVE  IsParsed(b, h, number, bits)
<1>0. /\ b \in Seq(BIT) /\ 8 <= Len(b) /\ Len(b) <= From(h, bits) + Len(bits) + 15
      /\ Len(b) \in Nat /\ Len(bits) \in Nat /\ CountBytes \in Nat \ {0}
  BY LenProperties, CountAssumption DEF Carries
<1>1. PICK w \in Seq(BIT) : IsCut(b, w) /\ Holds(w, 0, Rpc(h, number, bits))
  BY DEF Carries
<1> DEFINE n == Len(h)
           f == From(h, bits)
           l == Len(b)
           m == Len(bits)
           c == Length(bits)
           v == CountWord(m)
<1>2. /\ Holds(w, 0, h) /\ Holds(w, n, number) /\ Holds(w, n + 8, c) /\ Holds(w, f, bits)
      /\ f \in Nat /\ n + 8 <= f
  BY <1>1, RpcParts
<1>3. h \in Seq(BIT) /\ n \in Nat /\ 8 <= n /\ number \in Seq(BIT) /\ Len(number) = 8
  BY HeadersType DEF Words
<1>4. Header(b) = n
  <2>1. \A i \in 1..8 : b[i] = h[i]
    <3> TAKE i \in 1..8
    <3>1. i \in 1..l /\ i \in 1..n /\ 0 + i = i
      BY <1>0, <1>3
    <3>2. w[0 + i] = h[i]
      BY <1>2, <3>1 DEF Holds
    <3>3. b[i] = w[i]
      BY <1>1, <3>1 DEF IsCut
    <3> QED BY <3>1, <3>2, <3>3
  <2> QED BY <1>0, <2>1, HeadersType
<1>5. v \in Seq(BIT) /\ Len(v) = 8 * CountBytes
  BY <1>0, CountWordType
<1>6. c \in Seq(BIT) /\ Len(c) \in Nat /\ f = n + 8 + Len(c)
  BY LengthType DEF From
<1>7. ReadCompressed(w, n + 8, CountBytes) = [ok |-> TRUE, at |-> f, v |-> v]
  <2> DEFINE q == n + 8
  <2>1. q \in Nat /\ Holds(w, q, Compressed(v)) /\ f = q + Len(Compressed(v))
    BY <1>2, <1>3, <1>6 DEF Length
  <2> HIDE DEF q, v, f
  <2>2. ReadCompressed(w, q, CountBytes) = [ok |-> TRUE, at |-> q + Len(Compressed(v)), v |-> v]
    BY <1>0, <1>5, <2>1, ReadsCompressed
  <2> QED BY <2>1, <2>2 DEF q
<1>8. f + m < 2^(Wide - 1) /\ m < 2^(Wide - 1)
  <2> DEFINE limit == 2^(Wide - 1)
  <2>1. limit \in Nat /\ Long \in Nat /\ CountBytes \in Nat /\ f <= Long + 9 * CountBytes + 24
    BY WideType, WidthAssumption, CountAssumption, RpcParts
  <2>2. Long + 9 * CountBytes + 24 + m < limit
    BY DEF Counted
  <2>3. f \in Nat /\ m \in Nat
    BY <1>0, <1>2
  <2> HIDE DEF limit, f, m
  <2>4. f + m < limit /\ m < limit
    BY ONLY <2>1, <2>2, <2>3
  <2> QED BY <2>4 DEF limit
<1>9. NumberRead(b) = Take(b, n, 8)
  BY <1>4 DEF NumberRead
<1>10. CountRead(b) = ReadCompressed(b, NumberRead(b).at, CountBytes)
  BY DEF CountRead
<1> HIDE DEF n, f, l, m, c, v
<1>11. Claim(v) = m /\ AsInt(m) = m /\ AsInt(f + m) = f + m
  <2> DEFINE x == f + m
  <2>1. m \in Nat /\ x \in Nat /\ m < 2^(Wide - 1) /\ x < 2^(Wide - 1)
    BY <1>0, <1>2, <1>8 DEF m
  <2> HIDE DEF x
  <2>2. Claim(CountWord(m)) = m /\ AsInt(m) = m /\ AsInt(x) = x
    BY <2>1, Claimable
  <2> QED BY <2>2 DEF v, x
<1>12. ASSUME CountRead(b).ok = TRUE, CountRead(b).at = f, CountRead(b).v = v, f <= l
       PROVE  Claimed(b) = m /\ (Passes(b) <=> f + m <= l)
  <2>1. Claimed(b) = m
    BY <1>11, <1>12 DEF Claimed
  <2>2. Passes(b) <=> (m = 0 \/ (0 < m /\ f + m <= l))
    BY <1>11, <1>12, <2>1 DEF Passes, l
  <2>3. m \in Nat /\ l \in Nat /\ f \in Nat
    BY <1>0, <1>2 DEF m, l
  <2> QED BY <1>12, <2>1, <2>2, <2>3
<1>13. ASSUME Parse(b).ok
       PROVE  /\ Parse(b).number = number /\ Parse(b).from = f /\ Parse(b).bits = m
              /\ Holds(b, 0, h) /\ Holds(b, f, bits)
  <2>1. NumberRead(b).ok /\ CountRead(b).ok /\ Passes(b)
    BY <1>13, ParseIs
  <2>2. n + 8 <= l /\ n \in 0..l
    <3>1. CASE ~(n + 8 <= Len(b))
      <4> DEFINE q == n
                 r == Take(b, q, 8)
      <4>1. ~(q + 8 <= Len(b)) /\ r.ok
        BY <1>9, <2>1, <3>1
      <4> HIDE DEF q
      <4>2. r = [ok |-> FALSE, at |-> q, v |-> Unset]
        BY <4>1, Zenon DEF Take
      <4> HIDE DEF r
      <4> QED BY <4>1, <4>2
    <3>2. n \in Nat /\ l \in Nat
      BY <1>0, <1>3 DEF l, n
    <3>3. n + 8 <= l
      BY <3>1 DEF l
    <3> QED BY <3>2, <3>3
  <2>3. NumberRead(b) = [ok |-> TRUE, at |-> n + 8, v |-> number]
    <3>1. Holds(b, n, number)
      <4>1. n \in Nat /\ n + Len(number) <= Len(b)
        BY <1>3, <2>2 DEF l, n
      <4> QED BY <1>0, <1>1, <1>2, <1>3, <4>1, HoldsCut DEF n
    <3>2. Take(b, n, Len(number)) = [ok |-> TRUE, at |-> n + Len(number), v |-> number]
      BY <1>0, <1>3, <2>2, <3>1, TakeHolds
    <3> QED BY <1>3, <1>9, <3>2
  <2>4. CountRead(b) = [ok |-> TRUE, at |-> f, v |-> v]
    <3> DEFINE q == n + 8
    <3>1. q \in 0..Len(b)
      BY <1>0, <2>2 DEF l
    <3>2. CountRead(b) = ReadCompressed(b, q, CountBytes)
      BY <1>10, <2>3
    <3>3. ReadCompressed(w, q, CountBytes) = [ok |-> TRUE, at |-> f, v |-> v]
      BY <1>7 DEF n
    <3> HIDE DEF q
    <3>4. ReadCompressed(w, q, CountBytes) = ReadCompressed(b, q, CountBytes)
      BY <1>0, <1>1, <2>1, <3>1, <3>2, ReadCompressedCut
    <3> QED BY <3>2, <3>3, <3>4
  <2>5. CountRead(b).ok = TRUE /\ CountRead(b).at = f /\ CountRead(b).v = v /\ f <= l
    <3> DEFINE q == n + 8
               r == ReadCompressed(b, q, CountBytes)
    <3>0. q \in 0..Len(b)
      BY <1>0, <2>2 DEF l
    <3>a. r = CountRead(b)
      BY <1>10, <2>3
    <3>1. q \in 0..Len(b) /\ r = [ok |-> TRUE, at |-> f, v |-> v]
      BY <2>4, <3>0, <3>a
    <3> HIDE DEF q
    <3>2. r.at \in q..Len(b)
      BY <1>0, <3>1, ReadCompressedType
    <3> HIDE DEF r
    <3>3. r.at = f /\ q \in Nat /\ Len(b) \in Nat
      BY <1>0, <3>1
    <3>4. f <= l
      BY ONLY <3>2, <3>3 DEF l
    <3> QED BY <2>4, <3>4
  <2>6. f + m <= l /\ Claimed(b) = m
    BY <1>12, <2>1, <2>5
  <2>7. Parse(b).number = number /\ Parse(b).from = f /\ Parse(b).bits = m
    BY <2>1, <2>3, <2>5, <2>6, ParseIs
  <2>8. Holds(b, f, bits)
    BY <1>0, <1>1, <1>2, <2>6, HoldsCut DEF m, l, f
  <2>9. Holds(b, 0, h)
    <3>1. 0 \in Nat /\ 0 + Len(h) <= Len(b)
      BY <1>0, <2>2 DEF n, l
    <3> QED BY <1>0, <1>1, <1>2, <1>3, <3>1, HoldsCut
  <2> QED BY <2>7, <2>8, <2>9
<1>14. ASSUME f + m <= l PROVE Parse(b).ok = TRUE
  <2>1. /\ n \in Nat /\ f \in Nat /\ m \in Nat /\ l \in Nat
        /\ Len(c) \in Nat /\ f = n + 8 + Len(c)
    BY <1>0, <1>2, <1>3, <1>6 DEF n, m, l
  <2>2. Holds(b, n, number) /\ Holds(b, n + 8, c)
    <3>1. n + 8 <= l /\ n + 8 + Len(c) <= l /\ n + 8 \in Nat
      BY <1>14, <2>1
    <3>2. Holds(b, n, number)
      <4>1. n \in Nat /\ n + Len(number) <= Len(b)
        BY <1>3, <2>1, <3>1 DEF l, n
      <4> QED BY <1>0, <1>1, <1>2, <1>3, <4>1, HoldsCut DEF n
    <3> DEFINE q == n + 8
    <3>3. q \in Nat /\ q + Len(c) <= Len(b) /\ Holds(w, q, c)
      BY <1>2, <3>1 DEF l, n, c
    <3> HIDE DEF q
    <3>4. Holds(b, q, c)
      BY <1>0, <1>1, <1>6, <3>3, HoldsCut DEF c
    <3> QED BY <3>2, <3>4 DEF q
  <2>3. NumberRead(b) = [ok |-> TRUE, at |-> n + 8, v |-> number]
    <3>2. Take(b, n, Len(number)) = [ok |-> TRUE, at |-> n + Len(number), v |-> number]
      BY <1>0, <1>3, <2>1, <2>2, TakeHolds
    <3> QED BY <1>3, <1>9, <3>2
  <2>4. CountRead(b) = [ok |-> TRUE, at |-> f, v |-> v]
    <3> DEFINE q == n + 8
    <3>1. q \in Nat /\ Holds(b, q, Compressed(v)) /\ c = Compressed(v)
      BY <2>1, <2>2 DEF c, v, m, Length
    <3>2. CountRead(b) = ReadCompressed(b, q, CountBytes)
      BY <1>10, <2>3
    <3>3. f = q + Len(c)
      BY <2>1
    <3> HIDE DEF q
    <3>4. ReadCompressed(b, q, CountBytes) = [ok |-> TRUE, at |-> q + Len(Compressed(v)), v |-> v]
      BY <1>0, <1>5, <3>1, ReadsCompressed
    <3> QED BY <3>1, <3>2, <3>3, <3>4
  <2>5. CountRead(b).at = f /\ CountRead(b).v = v /\ CountRead(b).ok = TRUE /\ NumberRead(b).ok = TRUE
    BY <2>3, <2>4
  <2>6. Passes(b)
    <3>1. f <= l
      BY ONLY <1>14, <2>1
    <3> QED BY <1>12, <1>14, <2>5, <3>1
  <2> QED BY <2>5, <2>6, ParseIs, Zenon
<1>15. Len(b) >= From(h, bits) + Len(bits) <=> f + m <= l
  BY <1>0, <1>2 DEF f, m, l
<1> QED BY <1>4, <1>13, <1>14, <1>15 DEF n, f, m, IsParsed

(* What a callback gets of the bits of an RPC. *)
LEMMA ReceivedType ==
  ASSUME NEW b \in Seq(BIT), Len(b) % 8 = 0, NEW p, p.from \in Nat, p.bits \in Nat,
         p.from + p.bits <= Len(b)
  PROVE  /\ Received(b, p) \in Seq(BIT) /\ Len(Received(b, p)) = Rounded(p.bits)
         /\ \A i \in 1..p.bits : Received(b, p)[i] = b[p.from + i]
<1> DEFINE from == p.from
           bits == p.bits
           l == Len(b)
           a == from \div 8
           f == from % 8
           c == bits \div 8
           last == bits % 8
           m == l \div 8
           r == Rounded(bits)
           Direct(i) == i <= bits \/ last > 8 - f \/ i <= bits - last + (8 - f)
           s == [i \in 1..r |-> IF Direct(i) THEN b[from + i] ELSE 0]
<1>0. l \in Nat /\ from \in Nat /\ bits \in Nat /\ from + bits <= l /\ l % 8 = 0
  BY LenProperties
<1>1. Received(b, p) = s
  <2>1. bits - 8 * (bits \div 8) = last
    <3> HIDE DEF bits
    <3> QED BY <1>0
  <2>2. Received(b, p) = [i \in 1..Rounded(p.bits) |->
           IF i <= p.bits \/ p.bits - 8 * (p.bits \div 8) > 8 - (p.from % 8)
              \/ i <= p.bits - (p.bits - 8 * (p.bits \div 8)) + (8 - (p.from % 8))
           THEN b[p.from + i] ELSE 0]
    BY DEF Received
  <2> QED BY <2>1, <2>2
<1> HIDE DEF from, bits, l, s
<1>2. /\ a \in Nat /\ f \in 0..7 /\ from = 8 * a + f
      /\ c \in Nat /\ last \in 0..7 /\ bits = 8 * c + last
      /\ m \in Nat /\ l = 8 * m
  BY <1>0
<1>3. r \in Nat /\ bits <= r /\ r < bits + 8 /\ (last = 0 => r = bits) /\ (last # 0 => r = 8 * c + 8)
  <2>1. r \in Nat /\ bits <= r /\ r < bits + 8 /\ \E q \in Nat : r = 8 * q
    BY <1>0, RoundedType
  <2> HIDE DEF r, c, last
  <2> QED BY <1>2, <2>1
<1> HIDE DEF a, f, c, last, m, r
<1>4. ASSUME NEW i \in 1..r, Direct(i) PROVE from + i \in 1..l
  <2>1. CASE i <= bits
    BY <1>0, <1>3, <2>1
  <2>2. CASE last > 8 - f /\ i > bits
    <3>1. last # 0 /\ r = 8 * c + 8 /\ m >= a + c + 2
      BY <1>0, <1>2, <1>3, <2>2
    <3> QED BY <1>2, <1>3, <2>2, <3>1
  <2>3. CASE i <= bits - last + (8 - f) /\ i > bits
    <3>1. last # 0 /\ m >= a + c + 1
      BY <1>0, <1>2, <1>3, <2>3
    <3> QED BY <1>2, <1>3, <2>3, <3>1
  <2> QED BY <1>0, <1>2, <1>3, <1>4, <2>1, <2>2, <2>3
<1>5. \A i \in 1..l : b[i] \in BIT
  BY LenProperties DEF l
<1>6. s \in [1..r -> BIT]
  <2>1. ASSUME NEW i \in 1..r PROVE (IF Direct(i) THEN b[from + i] ELSE 0) \in BIT
    <3> HIDE DEF Direct
    <3>1. CASE Direct(i)
      BY <1>4, <1>5, <3>1
    <3>2. CASE ~Direct(i)
      BY <3>2 DEF BIT
    <3> QED BY <3>1, <3>2
  <2> HIDE DEF Direct
  <2> QED BY <2>1 DEF s
<1>7. \A i \in 1..bits : s[i] = b[from + i]
  <2> TAKE i \in 1..bits
  <2>1. i \in 1..r /\ Direct(i)
    BY <1>0, <1>3
  <2> HIDE DEF Direct
  <2> QED BY <2>1 DEF s
<1>8. s \in Seq(BIT) /\ Len(s) = r
  BY <1>3, <1>6
<1> QED BY <1>1, <1>7, <1>8 DEF r, bits, from

(* What the server sends, and what is passed on. *)
LEMMA Carried ==
  ASSUME NEW h \in Headers, NEW number \in Words(8), NEW bits \in Seq(BIT),
         NEW trailing \in Seq(BIT), Len(trailing) \in {0, 8}
  PROVE  LET rpc == Padded(Rpc(h, number, bits))
             whole == rpc \o trailing IN
         /\ Carries(rpc, h, number, bits) /\ Len(rpc) % 8 = 0
         /\ From(h, bits) + Len(bits) <= Len(rpc)
         /\ whole \in Seq(BIT) /\ Len(whole) % 8 = 0 /\ 16 <= Len(whole)
         /\ \A n \in 8..Len(whole) : /\ Carries(SubSeq(whole, 1, n), h, number, bits)
                                     /\ Len(SubSeq(whole, 1, n)) = n
<1> DEFINE x == Rpc(h, number, bits)
           k == From(h, bits) + Len(bits)
           rpc == Padded(x)
           whole == rpc \o trailing
<1>1. x \in Seq(BIT) /\ Len(x) = k /\ k \in Nat /\ 16 <= k
  <2>1. /\ x \in Seq(BIT) /\ Len(x) = k /\ From(h, bits) \in Nat
        /\ Len(h) + 8 <= From(h, bits)
    BY RpcParts
  <2>2. Len(bits) \in Nat /\ Len(h) \in Nat /\ 8 <= Len(h)
    BY HeadersType, LenProperties
  <2> QED BY <2>1, <2>2
<1> HIDE DEF x, k
<1>2. /\ rpc \in Seq(BIT) /\ Len(rpc) = Rounded(k)
      /\ \A i \in 1..k : rpc[i] = x[i]
  BY <1>1, PaddedType
<1>3. Rounded(k) \in Nat /\ k <= Rounded(k) /\ Rounded(k) < k + 8 /\ Rounded(k) % 8 = 0
  BY <1>1, RoundedType
<1> HIDE DEF rpc
<1>4. /\ whole \in Seq(BIT) /\ Len(whole) = Len(rpc) + Len(trailing)
      /\ \A i \in 1..Len(rpc) : whole[i] = rpc[i]
  BY <1>2, Joined
<1> HIDE DEF whole
<1>5. Len(whole) \in Nat /\ Len(whole) <= k + 15 /\ k <= Len(whole) /\ Len(whole) % 8 = 0
  <2> DEFINE r == Rounded(k)
  <2>1. Len(whole) \in {r, r + 8} /\ r \in Nat /\ k <= r /\ r < k + 8 /\ r % 8 = 0
    <3> DEFINE n == Len(trailing)
    <3>1. Len(whole) = r + n /\ n \in {0, 8}
      BY <1>2, <1>4
    <3> HIDE DEF n, r
    <3>2. r \in Nat /\ k <= r /\ r < k + 8 /\ r % 8 = 0
      BY <1>3 DEF r
    <3> QED BY <3>1, <3>2
  <2> HIDE DEF r
  <2>2. (r + 8) % 8 = 0
    BY <2>1
  <2> DEFINE n == Len(whole)
  <2>3. n \in {r, r + 8}
    BY <2>1
  <2> HIDE DEF n
  <2>4. n \in Nat /\ n <= k + 15 /\ k <= n /\ n % 8 = 0
    <3>1. n % 8 = 0
      BY <2>1, <2>2, <2>3, Zenon
    <3>2. r \in Nat /\ k <= r /\ r < k + 8
      BY <2>1
    <3>3. n = r \/ n = r + 8
      BY <2>3
    <3>4. n \in Nat /\ n <= k + 15 /\ k <= n
      BY ONLY <1>1, <3>2, <3>3
    <3> QED BY <3>1, <3>4
  <2> QED BY <2>4 DEF n
<1>6. Holds(whole, 0, x) /\ Holds(rpc, 0, x)
  <2>1. \A i \in 1..k : i \in 1..Len(rpc) /\ 0 + i = i
    BY <1>1, <1>2, <1>3
  <2>2. \A i \in 1..k : rpc[0 + i] = x[i] /\ whole[0 + i] = x[i]
    BY <1>2, <1>4, <2>1
  <2>3. 0 + Len(x) <= Len(whole) /\ 0 + Len(x) <= Len(rpc)
    BY <1>1, <1>2, <1>3, <1>5
  <2> QED BY <1>1, <2>2, <2>3 DEF Holds
<1>7. IsCut(rpc, rpc)
  BY <1>2, <1>3 DEF IsCut
<1>8. Carries(rpc, h, number, bits)
  <2>1. 8 <= Len(rpc) /\ Len(rpc) <= k + 15
    BY <1>1, <1>2, <1>3
  <2> QED BY <1>2, <1>6, <1>7, <2>1 DEF Carries, x, k
<1>9. ASSUME NEW n \in 8..Len(whole)
      PROVE  Carries(SubSeq(whole, 1, n), h, number, bits) /\ Len(SubSeq(whole, 1, n)) = n
  <2> DEFINE s == SubSeq(whole, 1, n)
  <2>1. s \in Seq(BIT) /\ Len(s) = n /\ \A i \in 1..n : s[i] = whole[i]
    <3>1. 0 + n <= Len(whole) /\ 0 + n = n /\ 0 + 1 = 1 /\ n \in Nat
      BY <1>5
    <3>2. /\ SubSeq(whole, 0 + 1, 0 + n) \in Seq(BIT) /\ Len(SubSeq(whole, 0 + 1, 0 + n)) = n
          /\ \A i \in 1..n : SubSeq(whole, 0 + 1, 0 + n)[i] = whole[0 + i]
      BY <1>4, <3>1, Slice
    <3>3. \A i \in 1..n : 0 + i = i
      OBVIOUS
    <3> QED BY <3>1, <3>2, <3>3
  <2> HIDE DEF s
  <2>2. IsCut(s, whole)
    <3>1. n <= Len(whole)
      BY <1>5
    <3> QED BY <2>1, <3>1 DEF IsCut
  <2>3. 8 <= Len(s) /\ Len(s) <= k + 15
    <3>1. 8 <= n /\ n <= Len(whole) /\ n \in Int
      BY <1>5
    <3> DEFINE z == Len(whole)
    <3>2. z \in Nat /\ z <= k + 15 /\ n <= z
      BY <1>5, <3>1
    <3> HIDE DEF z
    <3> QED BY <1>1, <2>1, <3>1, <3>2
  <2>4. Carries(s, h, number, bits)
    BY <1>4, <1>6, <2>1, <2>2, <2>3 DEF Carries, x, k
  <2> QED BY <2>1, <2>4 DEF s
<1>10. Len(rpc) % 8 = 0 /\ k <= Len(rpc) /\ 16 <= Len(whole)
  <2>1. \A n \in Nat : k <= n => 16 <= n
    BY <1>1
  <2> QED BY <1>2, <1>3, <1>5, <2>1
<1> QED BY <1>4, <1>5, <1>8, <1>9, <1>10 DEF rpc, whole, x, k

-----------------------------------------------------------------------------
(* What is written.                                                         *)

LEMMA BitsType ==
  ASSUME NEW q \in Nat, NEW n \in Nat
  PROVE  Bits(q, n) \in Seq(BIT) /\ Len(Bits(q, n)) = n
<1> DEFINE f == [i \in 1..n |-> (q \div 2^(n - i)) % 2]
<1>1. ASSUME NEW i \in 1..n PROVE (q \div 2^(n - i)) % 2 \in BIT
  <2>1. n - i \in Nat
    OBVIOUS
  <2> DEFINE d == 2^(n - i)
  <2>2. d \in Nat \ {0}
    BY <2>1, PowerOfTwo
  <2> HIDE DEF d
  <2>3. q \div d \in Nat
    BY <2>2, Division
  <2>4. (q \div d) % 2 \in {0, 1}
    BY <2>3
  <2> QED BY <2>4 DEF BIT, d
<1>2. f \in [1..n -> BIT]
  BY <1>1
<1>3. Bits(q, n) = f
  BY DEF Bits
<1> HIDE DEF f
<1> QED BY <1>2, <1>3

LEMMA StepsType == Steps \in Nat \ {0} /\ Short \in Nat /\ 1 < Short /\ Long \in Nat /\ Short < Long
<1>1. Short \in Nat /\ 1 < Short /\ Long \in Nat /\ Short < Long
  BY WidthAssumption
<1>2. PICK k \in Nat : Short = k + 1
  <2>1. Short - 1 \in Nat /\ Short = (Short - 1) + 1
    BY <1>1
  <2> QED BY <2>1
<1> DEFINE p == 2^k
<1>3. p \in Nat \ {0} /\ 2^(k + 1) = 2 * p
  BY PowerOfTwo
<1> HIDE DEF p
<1>4. Steps = 2 * p - 1
  BY <1>2, <1>3 DEF Steps
<1>5. 2 * p - 1 \in Nat \ {0}
  BY <1>3
<1> QED BY <1>1, <1>4, <1>5

(* A number in -1..1 in the bits of an int, scaled to all of them. *)
LEMMA DoubleType ==
  ASSUME NEW n \in Fractions
  PROVE  CompressedDouble(n) \in Seq(BIT) /\ Len(CompressedDouble(n)) = Long
<1>1. Grid \in Nat \ {0} /\ n + Grid \in Nat /\ 2 * Grid \in Nat \ {0}
  BY WidthAssumption DEF Fractions
<1> DEFINE power == 2^Long
           d == 2 * Grid
           y == (n + Grid) * power
<1>2. power \in Nat
  BY StepsType, PowerOfTwo
<1> HIDE DEF power
<1>3. y \in Nat
  BY <1>1, <1>2
<1>4. d \in Nat \ {0}
  BY <1>1
<1> HIDE DEF y, d
<1>5. y \div d \in Nat
  BY <1>3, <1>4, Division
<1>6. Bits(y \div d, Long) \in Seq(BIT) /\ Len(Bits(y \div d, Long)) = Long
  BY <1>5, StepsType, BitsType
<1> QED BY <1>6 DEF CompressedDouble, y, d, power

(* A number in -1..1, and its magnitude, in the bits of a short. *)
LEMMA FloatType ==
  ASSUME NEW n \in Fractions
  PROVE  /\ CompressedFloat(n) \in Seq(BIT) /\ Len(CompressedFloat(n)) = Short
         /\ Fraction(n) \in Seq(BIT) /\ Len(Fraction(n)) = Short
<1>1. Grid \in Nat \ {0} /\ n \in Int /\ n + Grid \in Nat /\ Magnitude(n) \in Nat
  BY WidthAssumption DEF Fractions, Magnitude
<1>2. ASSUME NEW x \in Nat, NEW d \in Nat \ {0}
      PROVE  Bits((x * Steps) \div d, Short) \in Seq(BIT) /\ Len(Bits((x * Steps) \div d, Short)) = Short
  <2> DEFINE y == x * Steps
  <2>1. y \in Nat
    BY StepsType
  <2> HIDE DEF y
  <2>2. y \div d \in Nat
    BY <1>2, <2>1, Division
  <2>3. Bits(y \div d, Short) \in Seq(BIT) /\ Len(Bits(y \div d, Short)) = Short
    BY <2>2, StepsType, BitsType
  <2> QED BY <2>3 DEF y
<1>3. 2 * Grid \in Nat \ {0}
  BY <1>1
<1>4. CompressedFloat(n) \in Seq(BIT) /\ Len(CompressedFloat(n)) = Short
  BY <1>1, <1>2, <1>3 DEF CompressedFloat
<1>5. Fraction(n) \in Seq(BIT) /\ Len(Fraction(n)) = Short
  BY <1>1, <1>2 DEF Fraction
<1> QED BY <1>4, <1>5

LEMMA IntegerType ==
  ASSUME NEW w \in Integer
  PROVE  /\ w \in Seq(BIT) /\ Len(w) \div 8 \in Nat \ {0} /\ Len(w) = 8 * (Len(w) \div 8)
         /\ Compressed(w) \in Seq(BIT) /\ w # Unset
<1>1. w \in Seq(BIT) /\ Len(w) > 0 /\ Len(w) % 8 = 0 /\ Len(w) \in Nat
  BY LenProperties DEF Integer
<1> DEFINE n == Len(w) \div 8
<1>2. n \in Nat \ {0} /\ Len(w) = 8 * n
  <2> DEFINE l == Len(w)
  <2> HIDE DEF l
  <2>1. l \in Nat /\ l > 0 /\ l % 8 = 0
    BY <1>1 DEF l
  <2>2. l \div 8 \in Nat \ {0} /\ l = 8 * (l \div 8)
    BY <2>1
  <2> QED BY <2>2 DEF l
<1> HIDE DEF n
<1>3. Compressed(w) \in Seq(BIT)
  BY <1>1, <1>2, ReadsCompressed
<1>4. w # Unset
  BY <1>1 DEF Unset
<1> QED BY <1>1, <1>2, <1>3, <1>4 DEF n

(* The signs, and numbers behind a flag. *)
LEMMA FlaggedType ==
  ASSUME NEW n \in Fractions
  PROVE  Sign(n) \in {Yes, No} /\ Sign(n) \in Seq(BIT) /\ FlaggedFloat(n) \in Seq(BIT)
<1>1. No \o CompressedFloat(n) \in Seq(BIT)
  BY FlagType, FloatType, Joined
<1> QED BY <1>1, FlagType DEF Sign, FlaggedFloat

LEMMA EncodeType ==
  ASSUME NEW item \in Item
  PROVE  Encode(item) \in Seq(BIT)
<1>1. CASE item \in [kind : {"bool"}, v : {Yes, No}]
  <2>1. item.kind = "bool" /\ item.v \in {Yes, No}
    BY <1>1
  <2>2. Encode(item) = item.v
    BY <2>1 DEF Encode
  <2> QED BY <2>1, <2>2, FlagType
<1>2. CASE item \in [kind : {"word", "compressed"}, v : Integer]
  <2>1. item.kind \in {"word", "compressed"} /\ item.v \in Integer
    BY <1>2
  <2>2. Encode(item) \in {item.v, Compressed(item.v)}
    BY <2>1 DEF Encode
  <2> QED BY <2>1, <2>2, IntegerType
<1>3. CASE item \in [kind : {"player"}, address : Words(Long), port : Words(Short)]
  <2>1. item.kind = "player" /\ item.address \in Seq(BIT) /\ item.port \in Seq(BIT)
    BY <1>3 DEF Words
  <2>2. Encode(item) = item.address \o item.port
    BY <2>1 DEF Encode
  <2> QED BY <2>1, <2>2, Joined
<1>4. CASE item \in [kind : {"delta", "compressedDelta"}, v : Integer, last : Integer]
  <2>1. item.kind \in {"delta", "compressedDelta"} /\ item.v \in Integer
    BY <1>4
  <2>2. Encode(item) \in {No, Yes \o item.v, Yes \o Compressed(item.v)}
    BY <2>1 DEF Encode
  <2>3. Yes \o item.v \in Seq(BIT) /\ Yes \o Compressed(item.v) \in Seq(BIT)
    BY <2>1, FlagType, IntegerType, Joined
  <2> QED BY <2>2, <2>3, FlagType
<1>5. CASE item \in [kind : {"float"}, n : Fractions]
  <2>1. item.kind = "float" /\ item.n \in Fractions
    BY <1>5
  <2>2. Encode(item) = CompressedFloat(item.n)
    BY <2>1 DEF Encode
  <2> QED BY <2>1, <2>2, FloatType
<1>6. CASE item \in NormVectors
  <2>1. item.kind = "normVector" /\ item.x \in Fractions /\ item.y \in Fractions /\ item.z \in Fractions
    BY <1>6 DEF NormVectors
  <2>2. Encode(item) = (Sign(item.x) \o FlaggedFloat(item.y)) \o FlaggedFloat(item.z)
    BY <2>1 DEF Encode, NormVector
  <2>3. Sign(item.x) \o FlaggedFloat(item.y) \in Seq(BIT)
    BY <2>1, FlaggedType, Joined
  <2> QED BY <2>1, <2>2, <2>3, FlaggedType, Joined
<1>7. CASE item \in [kind : {"vector"}, length : Words(Long), x : Fractions, y : Fractions, z : Fractions]
  <2>1. /\ item.kind = "vector" /\ item.length \in Seq(BIT)
        /\ item.x \in Fractions /\ item.y \in Fractions /\ item.z \in Fractions
    BY <1>7 DEF Words
  <2> DEFINE f == CompressedFloat(item.x) \o CompressedFloat(item.y)
             g == f \o CompressedFloat(item.z)
  <2>2. Encode(item) = item.length \o (IF item.length = Repeat(0, Long) THEN <<>> ELSE g)
    BY <2>1 DEF Encode, Vector
  <2>3. f \in Seq(BIT)
    BY <2>1, FloatType, Joined
  <2> HIDE DEF f
  <2>4. g \in Seq(BIT)
    BY <2>1, <2>3, FloatType, Joined
  <2> HIDE DEF g
  <2>5. <<>> \in Seq(BIT)
    OBVIOUS
  <2> DEFINE e == IF item.length = Repeat(0, Long) THEN <<>> ELSE g
  <2>6. e \in Seq(BIT)
    BY <2>4, <2>5
  <2> HIDE DEF e
  <2>7. item.length \o e \in Seq(BIT)
    BY <2>1, <2>6, Joined
  <2> QED BY <2>2, <2>7 DEF e
<1>8. CASE item \in NormQuats
  <2>1. /\ item.kind = "normQuat" /\ item.w \in Fractions
        /\ item.x \in Fractions /\ item.y \in Fractions /\ item.z \in Fractions
    BY <1>8 DEF NormQuats
  <2> DEFINE a == Sign(item.w) \o Sign(item.x)
             b == a \o Sign(item.y)
             c == b \o Sign(item.z)
             d == c \o Fraction(item.x)
             e == d \o Fraction(item.y)
             f == e \o Fraction(item.z)
  <2>2. Encode(item) = f
    BY <2>1 DEF Encode, NormQuat
  <2>3. a \in Seq(BIT)
    BY <2>1, FlaggedType, Joined
  <2> HIDE DEF a
  <2>4. b \in Seq(BIT)
    BY <2>1, <2>3, FlaggedType, Joined
  <2> HIDE DEF b
  <2>5. c \in Seq(BIT)
    BY <2>1, <2>4, FlaggedType, Joined
  <2> HIDE DEF c
  <2>6. d \in Seq(BIT)
    BY <2>1, <2>5, FloatType, Joined
  <2> HIDE DEF d
  <2>7. e \in Seq(BIT)
    BY <2>1, <2>6, FloatType, Joined
  <2> HIDE DEF e
  <2>8. f \in Seq(BIT)
    BY <2>1, <2>7, FloatType, Joined
  <2> QED BY <2>2, <2>8
<1>9. CASE item \in [kind : {"double"}, n : Fractions \ {Grid}]
  <2>1. item.kind = "double" /\ item.n \in Fractions
    BY <1>9
  <2>2. Encode(item) = CompressedDouble(item.n)
    BY <2>1 DEF Encode
  <2> QED BY <2>1, <2>2, DoubleType
<1> QED BY <1>1, <1>2, <1>3, <1>4, <1>5, <1>6, <1>7, <1>8, <1>9 DEF Item

-----------------------------------------------------------------------------
(* What is read.                                                            *)

(* A part of a value that is read at p or behind it. *)
IsRead(r, b, p) ==
  /\ r = [ok |-> r.ok, at |-> r.at, v |-> r.v]
  /\ r.ok \in BOOLEAN /\ r.at \in p..Len(b) /\ r.v \in Seq(BIT)
  /\ r.ok => r.v # Unset

LEMMA UnsetType == Unset \in Seq(BIT) /\ Len(Unset) = 0
BY DEF Unset

(* What a part of a value may be: bits of the stream, or a square.          *)
SquaresOfX == {SquareOfX(y, z) : y \in Seq(BIT), z \in Seq(BIT)}
SquaresOfW == {SquareOfW(x, y, z) : x \in Seq(BIT), y \in Seq(BIT), z \in Seq(BIT)}
Part == Seq(BIT) \cup SquaresOfX \cup SquaresOfW

LEMMA PartType ==
  /\ \A w \in Seq(BIT) : w \in Part
  /\ Unset \in Part
  /\ \A y, z \in Seq(BIT) : SquareOfX(y, z) \in Part
  /\ \A x, y, z \in Seq(BIT) : SquareOfW(x, y, z) \in Part /\ SquareOfW(x, y, z) # Unset
<1>1. \A x, y, z \in Seq(BIT) : SquareOfW(x, y, z) # Unset
  BY DEF SquareOfW, Unset
<1>2. \A y, z \in Seq(BIT) : SquareOfX(y, z) \in SquaresOfX
  BY DEF SquaresOfX
<1>3. \A x, y, z \in Seq(BIT) : SquareOfW(x, y, z) \in SquaresOfW
  BY DEF SquaresOfW
<1>4. Unset \in Seq(BIT)
  BY UnsetType
<1> QED BY <1>1, <1>2, <1>3, <1>4, Zenon DEF Part

(* A value, and whether no part of it is missing if the read returns true. *)
IsDecoded(r, b, p) ==
  /\ r.ok \in BOOLEAN /\ r.at \in p..Len(b) /\ r.v \in Seq(Part)
IsWholeRead(r) == r.ok => \A j \in 1..Len(r.v) : r.v[j] # Unset

LEMMA TakeReads ==
  ASSUME NEW b \in Seq(BIT), NEW p \in 0..Len(b), NEW n \in Nat \ {0}
  PROVE  /\ IsRead(Take(b, p, n), b, p) /\ Take(b, p, n).at \in 0..Len(b)
         /\ Take(b, p, n).ok \/ Len(b) < Take(b, p, n).at + n
<1> DEFINE r == Take(b, p, n)
           l == Len(b)
<1>0. l \in Nat /\ p \in 0..l
  BY LenProperties
<1>1. /\ r.ok \in BOOLEAN /\ r.at \in p..l
      /\ r.ok => r.v \in Seq(BIT) /\ Len(r.v) = n
      /\ ~r.ok => p + n > l /\ r.at = p /\ r.v = Unset
  BY TakeType
<1>2. r = [ok |-> r.ok, at |-> r.at, v |-> r.v]
  <2>1. r \in {[ok |-> TRUE, at |-> p + n, v |-> SubSeq(b, p + 1, p + n)],
               [ok |-> FALSE, at |-> p, v |-> Unset]}
    BY Zenon DEF Take
  <2> DEFINE s == SubSeq(b, p + 1, p + n)
  <2>2. r = [ok |-> TRUE, at |-> p + n, v |-> s] \/ r = [ok |-> FALSE, at |-> p, v |-> Unset]
    BY <2>1
  <2> HIDE DEF r, s
  <2> QED BY <2>2
<1> HIDE DEF r, l
<1>3. r.v \in Seq(BIT) /\ (r.ok => r.v # Unset)
  BY <1>1, UnsetType
<1>4. r.at \in 0..l /\ (r.ok \/ l < r.at + n)
  BY <1>0, <1>1
<1> QED BY <1>1, <1>2, <1>3, <1>4 DEF IsRead, r, l

LEMMA CompressedReads ==
  ASSUME NEW b \in Seq(BIT), NEW p \in 0..Len(b), NEW n \in Nat \ {0}
  PROVE  IsRead(ReadCompressed(b, p, n), b, p)
<1> DEFINE r == ReadCompressed(b, p, n)
           o == Ones(b, p, n)
           rest == Rest(b, p, n)
<1>1. /\ r.ok \in BOOLEAN /\ r.at \in p..Len(b)
      /\ r.ok => r.v \in Seq(BIT) /\ Len(r.v) = 8 * n
      /\ ~r.ok => r.v = Unset
  BY ReadCompressedType
<1>2. r = [ok |-> r.ok, at |-> r.at, v |-> r.v]
  <2> DEFINE flag == Take(b, p + o, 1)
             g == Grown(rest.v, Size(b, p, n), n)
  <2>1. r = IF flag.ok /\ rest.ok THEN [rest EXCEPT !.v = g]
            ELSE [ok |-> FALSE, at |-> rest.at, v |-> Unset]
    BY ReadCompressedIs
  <2>2. p + o \in 0..Len(b)
    BY OnesType, LenProperties
  <2>3. flag.at \in 0..Len(b) /\ Size(b, p, n) \in Nat \ {0}
    <3> DEFINE q == p + o
    <3>1. q \in 0..Len(b) /\ 1 \in Nat \ {0}
      BY <2>2
    <3> HIDE DEF q
    <3>2. Take(b, q, 1).at \in 0..Len(b)
      BY <3>1, TakeReads
    <3> QED BY <3>2, SizeType DEF q
  <2>4. rest = [ok |-> rest.ok, at |-> rest.at, v |-> rest.v]
    <3>1. rest = Take(b, flag.at, Size(b, p, n))
      BY Zenon DEF Rest
    <3> DEFINE q == flag.at
               m == Size(b, p, n)
    <3>2. q \in 0..Len(b) /\ m \in Nat \ {0}
      BY <2>3
    <3> HIDE DEF q, m
    <3>3. IsRead(Take(b, q, m), b, q)
      BY <3>2, TakeReads
    <3> QED BY <3>1, <3>3 DEF IsRead, q, m
  <2> HIDE DEF rest, g, flag, r
  <2>5. CASE flag.ok /\ rest.ok
    <3>1. r = [[ok |-> rest.ok, at |-> rest.at, v |-> rest.v] EXCEPT !.v = g]
      BY <2>1, <2>4, <2>5
    <3>2. r = [ok |-> rest.ok, at |-> rest.at, v |-> g]
      BY ONLY <3>1, Record, Zenon
    <3> QED BY <3>2
  <2>6. CASE ~(flag.ok /\ rest.ok)
    <3>1. r = [ok |-> FALSE, at |-> rest.at, v |-> Unset]
      BY <2>1, <2>6
    <3> QED BY <3>1
  <2> QED BY <2>5, <2>6
<1> HIDE DEF r
<1>3. r.v \in Seq(BIT) /\ (r.ok => r.v # Unset)
  <2>1. 8 * n # 0
    OBVIOUS
  <2> QED BY <1>1, <2>1, UnsetType
<1> QED BY <1>1, <1>2, <1>3 DEF IsRead, r

LEMMA SingleType ==
  ASSUME NEW b, NEW p, NEW r, IsRead(r, b, p)
  PROVE  /\ Single(r) = [ok |-> r.ok, at |-> r.at, v |-> <<r.v>>]
         /\ IsDecoded(Single(r), b, p) /\ IsWholeRead(Single(r))
<1> DEFINE s == Single(r)
           ok == r.ok
           a == r.at
           v == r.v
<1>1. r = [ok |-> ok, at |-> a, v |-> v] /\ ok \in BOOLEAN /\ a \in p..Len(b) /\ v \in Seq(BIT) /\ (ok => v # Unset)
  BY DEF IsRead
<1>2. s = [r EXCEPT !.v = <<v>>]
  BY DEF Single
<1> HIDE DEF s, ok, a, v
<1>3. s = [ok |-> ok, at |-> a, v |-> <<v>>]
  BY ONLY <1>1, <1>2, Record, Zenon
<1>4. s.ok = ok /\ s.at = a /\ s.v = <<v>>
  BY <1>3
<1>5. <<v>> \in Seq(Part) /\ Len(<<v>>) = 1 /\ <<v>>[1] = v
  BY <1>1, PartType
<1>6. s.v \in Seq(Part) /\ (s.ok => \A j \in 1..Len(s.v) : s.v[j] # Unset)
  BY <1>1, <1>4, <1>5
<1> QED BY <1>1, <1>3, <1>4, <1>6 DEF IsDecoded, IsWholeRead, s, ok, a, v

(* The value behind a flag, or the caller's. *)
LEMMA FlaggedReads ==
  ASSUME NEW b \in Seq(BIT), NEW p \in 0..Len(b), NEW old \in Seq(BIT) \ {Unset},
         NEW rest, IsRead(rest, b, Take(b, p, 1).at), NEW r \in ReadFlagged(b, p, old, rest)
  PROVE  IsDecoded(r, b, p) /\ IsWholeRead(r)
<1> DEFINE flag == Take(b, p, 1)
<1>1. flag.ok \in BOOLEAN /\ flag.at \in p..Len(b) /\ p \in Nat /\ Len(b) \in Nat
  BY TakeReads, LenProperties DEF IsRead
<1> DEFINE other == [ok |-> flag.ok, at |-> flag.at, v |-> <<old>>]
           value == IF rest.v = Unset THEN <<old>> ELSE <<rest.v>>
<1>2. r = [rest EXCEPT !.v = value] \/ r = other
  BY Zenon DEF ReadFlagged
<1>3. /\ rest = [ok |-> rest.ok, at |-> rest.at, v |-> rest.v]
      /\ rest.ok \in BOOLEAN /\ rest.at \in flag.at..Len(b) /\ rest.v \in Seq(BIT)
      /\ rest.ok => rest.v # Unset
  BY DEF IsRead
<1> HIDE DEF flag
<1>4. value \in {<<old>>, <<rest.v>>} /\ (rest.v = Unset => value = <<old>>)
  OBVIOUS
<1>5. \A x \in Seq(BIT) : <<x>> \in Seq(Part) /\ Len(<<x>>) = 1 /\ <<x>>[1] = x
  BY PartType
<1>6. value \in Seq(Part) /\ \A j \in 1..Len(value) : value[j] # Unset
  <2>1. CASE rest.v = Unset
    <3>1. value = <<old>>
      BY <2>1
    <3> QED BY <1>5, <3>1
  <2>2. CASE rest.v # Unset
    <3>1. value = <<rest.v>>
      BY <2>2
    <3> QED BY <1>3, <1>5, <2>2, <3>1
  <2> QED BY <2>1, <2>2
<1> HIDE DEF value
<1>7. CASE r = [rest EXCEPT !.v = value]
  <2>1. r = [ok |-> rest.ok, at |-> rest.at, v |-> value]
    BY ONLY <1>3, <1>7, Record, Zenon
  <2>2. r.ok = rest.ok /\ r.at = rest.at /\ r.v = value
    BY <2>1
  <2>3. rest.at \in p..Len(b)
    BY <1>1, <1>3
  <2> QED BY <1>3, <1>6, <2>2, <2>3 DEF IsDecoded, IsWholeRead
<1>8. CASE r = other
  <2>1. r.ok = flag.ok /\ r.at = flag.at /\ r.v = <<old>>
    BY <1>8
  <2>2. <<old>> \in Seq(Part) /\ \A j \in 1..Len(<<old>>) : <<old>>[j] # Unset
    BY <1>5
  <2> QED BY <1>1, <2>1, <2>2 DEF IsDecoded, IsWholeRead
<1> QED BY <1>2, <1>7, <1>8

(* A read that fails leaves too little for one of as many bits behind it. *)
LEMMA FailsFromThere ==
  ASSUME NEW b \in Seq(BIT), NEW p \in 0..Len(b), NEW n \in Nat \ {0}, ~Take(b, p, n).ok,
         NEW q \in Nat, Take(b, p, n).at <= q, NEW m \in Nat, n <= m
  PROVE  ~Take(b, q, m).ok
<1>1. Take(b, p, n).at \in Nat /\ Len(b) < Take(b, p, n).at + n /\ Len(b) \in Nat
  BY TakeReads, LenProperties
<1>2. ~(q + m <= Len(b))
  BY <1>1
<1>3. Take(b, q, m) = [ok |-> FALSE, at |-> q, v |-> Unset]
  BY <1>2, Zenon DEF Take
<1> QED BY <1>3

LEMMA ReadPlayerType ==
  ASSUME NEW b \in Seq(BIT), NEW p \in 0..Len(b)
  PROVE  IsDecoded(ReadPlayer(b, p), b, p)
<1> DEFINE address == Take(b, p, Long)
           port == Take(b, address.at, Short)
           r == ReadPlayer(b, p)
<1>0. Short \in Nat \ {0} /\ Long \in Nat \ {0} /\ Len(b) \in Nat
  BY StepsType, LenProperties
<1>1. IsRead(address, b, p) /\ address.at \in 0..Len(b)
  BY <1>0, TakeReads
<1> DEFINE q == address.at
<1>2. IsRead(port, b, q)
  <2>1. q \in 0..Len(b)
    BY <1>1
  <2> HIDE DEF q
  <2>2. IsRead(Take(b, q, Short), b, q)
    BY <1>0, <2>1, TakeReads
  <2> QED BY <2>2 DEF q
<1>3. r = [ok |-> port.ok, at |-> port.at, v |-> <<address.v, port.v>>]
  BY Zenon DEF ReadPlayer, TakeNext
<1> HIDE DEF address, port, r
<1>4. r.ok = port.ok /\ r.at = port.at /\ r.v = <<address.v, port.v>>
  BY <1>3
<1>5. /\ port.ok \in BOOLEAN /\ port.at \in q..Len(b) /\ q \in p..Len(b)
      /\ address.v \in Seq(BIT) /\ port.v \in Seq(BIT)
  BY <1>1, <1>2 DEF IsRead
<1>6. port.at \in p..Len(b)
  BY <1>0, <1>5
<1>7. <<address.v, port.v>> \in Seq(Part)
  BY <1>5, PartType
<1>8. IsDecoded(r, b, p)
  BY <1>4, <1>5, <1>6, <1>7 DEF IsDecoded
<1> QED BY <1>8 DEF r

LEMMA ReadNormVectorType ==
  ASSUME NEW b \in Seq(BIT), NEW p \in 0..Len(b), NEW r \in ReadNormVector(b, p)
  PROVE  IsDecoded(r, b, p)
<1> DEFINE sign == Take(b, p, 1)
           zeroY == Take(b, sign.at, 1)
           Last(y) ==
             LET zeroZ == Take(b, y.at, 1)
                 z == IF zeroZ.v = Yes THEN [zeroZ EXCEPT !.v = No] ELSE Take(b, zeroZ.at, Short)
             IN  IF zeroZ.ok
                 THEN [ok |-> z.ok, at |-> z.at, v |-> <<sign.v, y.v, z.v, SquareOfX(y.v, z.v)>>]
                 ELSE [ok |-> FALSE, at |-> y.at, v |-> <<sign.v, y.v, Unset, Unset>>]
           zero == [ok |-> TRUE, at |-> zeroY.at, v |-> No]
           number == Take(b, zeroY.at, Short)
<1>0. Short \in Nat \ {0} /\ 1 \in Nat \ {0} /\ Len(b) \in Nat /\ p \in Nat
  BY StepsType, LenProperties
<1>1. IsRead(sign, b, p) /\ sign.at \in 0..Len(b)
  BY <1>0, TakeReads
<1>2. IsRead(zeroY, b, sign.at) /\ zeroY.at \in 0..Len(b)
  <2> DEFINE q == sign.at
  <2>1. q \in 0..Len(b)
    BY <1>1
  <2> HIDE DEF q
  <2>2. IsRead(Take(b, q, 1), b, q) /\ Take(b, q, 1).at \in 0..Len(b)
    BY <1>0, <2>1, TakeReads
  <2> QED BY <2>2 DEF q
<1>3. IsRead(number, b, zeroY.at)
  <2> DEFINE q == zeroY.at
  <2>1. q \in 0..Len(b)
    BY <1>2
  <2> HIDE DEF q
  <2>2. IsRead(Take(b, q, Short), b, q)
    BY <1>0, <2>1, TakeReads
  <2> QED BY <2>2 DEF q
<1>4. r = Last(zero) \/ r = Last(number)
  BY Zenon DEF ReadNormVector, TakeNext
<1>5. sign.v \in Seq(BIT) /\ sign.at \in p..Len(b) /\ zeroY.at \in sign.at..Len(b)
  BY <1>1, <1>2 DEF IsRead
<1> HIDE DEF sign, zeroY, number, zero, Last
<1>6. ASSUME NEW y, y.v \in Seq(BIT), y.at \in p..Len(b) PROVE IsDecoded(Last(y), b, p)
  <2> DEFINE q == y.at
             zeroZ == Take(b, q, 1)
             z == IF zeroZ.v = Yes THEN [zeroZ EXCEPT !.v = No] ELSE Take(b, zeroZ.at, Short)
             e == Last(y)
  <2>1. q \in 0..Len(b) /\ q \in p..Len(b)
    BY <1>0, <1>6
  <2>2. e = IF zeroZ.ok
            THEN [ok |-> z.ok, at |-> z.at, v |-> <<sign.v, y.v, z.v, SquareOfX(y.v, z.v)>>]
            ELSE [ok |-> FALSE, at |-> q, v |-> <<sign.v, y.v, Unset, Unset>>]
    BY Zenon DEF Last
  <2>3. /\ zeroZ.at \in 0..Len(b) /\ zeroZ.ok \in BOOLEAN /\ zeroZ.at \in q..Len(b)
        /\ zeroZ = [ok |-> zeroZ.ok, at |-> zeroZ.at, v |-> zeroZ.v]
    <3> HIDE DEF q
    <3> QED BY <1>0, <2>1, TakeReads DEF IsRead
  <2> HIDE DEF zeroZ, e
  <2>4. z.ok \in BOOLEAN /\ z.at \in q..Len(b) /\ z.v \in Seq(BIT)
    <3>1. CASE zeroZ.v = Yes
      <4>1. z = [ok |-> zeroZ.ok, at |-> zeroZ.at, v |-> No]
        <5>1. z = [zeroZ EXCEPT !.v = No]
          BY <3>1
        <5> HIDE DEF z
        <5> QED BY ONLY <2>3, <5>1, Record, Zenon
      <4> HIDE DEF z
      <4>2. z.ok = zeroZ.ok /\ z.at = zeroZ.at /\ z.v = No
        BY <4>1
      <4> QED BY <2>3, <4>2, FlagType
    <3>2. CASE zeroZ.v # Yes
      <4> DEFINE k == zeroZ.at
      <4>1. z = Take(b, k, Short) /\ k \in 0..Len(b) /\ k \in q..Len(b)
        BY <2>3, <3>2
      <4> HIDE DEF k, z
      <4>2. IsRead(z, b, k)
        BY <1>0, <4>1, TakeReads
      <4>3. z.ok \in BOOLEAN /\ z.at \in k..Len(b) /\ z.v \in Seq(BIT)
        BY <4>2 DEF IsRead
      <4> HIDE DEF q
      <4> QED BY <1>0, <2>1, <4>1, <4>3
    <3> QED BY <3>1, <3>2
  <2> HIDE DEF z
  <2>5. CASE zeroZ.ok
    <3> DEFINE square == SquareOfX(y.v, z.v)
    <3>1. e.ok = z.ok /\ e.at = z.at /\ e.v = <<sign.v, y.v, z.v, square>>
      BY <2>2, <2>5
    <3>2. <<sign.v, y.v, z.v, square>> \in Seq(Part)
      <4>1. sign.v \in Part /\ y.v \in Part /\ z.v \in Part /\ square \in Part
        BY <1>5, <1>6, <2>4, PartType
      <4> HIDE DEF square
      <4> QED BY <4>1
    <3>3. z.at \in p..Len(b)
      <4> HIDE DEF q
      <4> QED BY <1>0, <2>1, <2>4
    <3>4. IsDecoded(e, b, p)
      BY <2>4, <3>1, <3>2, <3>3 DEF IsDecoded
    <3> QED BY <3>4 DEF e
  <2>6. CASE ~zeroZ.ok
    <3>1. e.ok = FALSE /\ e.at = q /\ e.v = <<sign.v, y.v, Unset, Unset>>
      BY <2>2, <2>6
    <3>2. <<sign.v, y.v, Unset, Unset>> \in Seq(Part)
      BY <1>5, <1>6, PartType
    <3>3. IsDecoded(e, b, p)
      BY <2>1, <3>1, <3>2 DEF IsDecoded
    <3> QED BY <3>3 DEF e
  <2> QED BY <2>5, <2>6
<1>7. zero.v \in Seq(BIT) /\ zero.at \in p..Len(b)
  BY <1>0, <1>5, FlagType DEF zero
<1>8. number.v \in Seq(BIT) /\ number.at \in p..Len(b)
  <2>1. number.v \in Seq(BIT) /\ number.at \in zeroY.at..Len(b)
    BY <1>3 DEF IsRead
  <2> QED BY <1>0, <1>5, <2>1
<1> QED BY <1>4, <1>6, <1>7, <1>8

LEMMA ReadVectorType ==
  ASSUME NEW b \in Seq(BIT), NEW p \in 0..Len(b)
  PROVE  IsDecoded(ReadVector(b, p), b, p) /\ IsWholeRead(ReadVector(b, p))
<1> DEFINE r == ReadVector(b, p)
           length == Take(b, p, Long)
           x == Take(b, length.at, Short)
           y == Take(b, x.at, Short)
           z == Take(b, y.at, Short)
<1>0. Short \in Nat \ {0} /\ Long \in Nat \ {0} /\ Len(b) \in Nat /\ p \in 0..Len(b)
  BY StepsType, LenProperties
<1>1. r = IF ~length.ok THEN [ok |-> FALSE, at |-> p, v |-> <<Unset>>]
          ELSE IF length.v = Repeat(0, Long) THEN Single(length)
          ELSE [ok |-> z.ok, at |-> z.at, v |-> <<length.v, x.v, y.v, z.v>>]
  BY Zenon DEF ReadVector, TakeNext, Single
<1>2. ASSUME NEW q \in 0..Len(b)
      PROVE  /\ IsRead(Take(b, q, Short), b, q) /\ Take(b, q, Short).at \in 0..Len(b)
             /\ Take(b, q, Short).ok \in BOOLEAN
             /\ \A k \in Nat : ~Take(b, q, Short).ok /\ Take(b, q, Short).at <= k => ~Take(b, k, Short).ok
  <2>1. IsRead(Take(b, q, Short), b, q) /\ Take(b, q, Short).at \in 0..Len(b)
    BY <1>0, TakeReads
  <2>2. ASSUME NEW k \in Nat, ~Take(b, q, Short).ok, Take(b, q, Short).at <= k
        PROVE  ~Take(b, k, Short).ok
    BY <1>0, <2>2, FailsFromThere
  <2> QED BY <2>1, <2>2 DEF IsRead
<1>3. IsRead(length, b, p) /\ length.at \in 0..Len(b)
  BY <1>0, TakeReads
<1> DEFINE ql == length.at
           qx == x.at
           qy == y.at
<1>4. x = Take(b, ql, Short) /\ y = Take(b, qx, Short) /\ z = Take(b, qy, Short) /\ ql \in 0..Len(b)
  BY <1>3
<1> HIDE DEF r, length, x, y, z
<1>5. IsRead(x, b, ql) /\ qx \in 0..Len(b) /\ qx \in ql..Len(b)
  BY <1>2, <1>4 DEF IsRead
<1>6. IsRead(y, b, qx) /\ qy \in 0..Len(b) /\ qy \in qx..Len(b)
  BY <1>2, <1>4, <1>5 DEF IsRead
<1>7. IsRead(z, b, qy) /\ z.at \in qy..Len(b)
  BY <1>2, <1>4, <1>6 DEF IsRead
<1>8. z.ok => x.ok /\ y.ok
  <2>1. ~x.ok => ~z.ok
    <3>1. qy \in Nat /\ qx <= qy
      BY <1>5, <1>6
    <3> QED BY <1>2, <1>4, <3>1
  <2>2. ~y.ok => ~z.ok
    <3>1. qy \in Nat /\ qy <= qy
      BY <1>6
    <3> QED BY <1>2, <1>4, <1>5, <3>1
  <2> QED BY <2>1, <2>2
<1>9. CASE ~length.ok
  <2>1. r.ok = FALSE /\ r.at = p /\ r.v = <<Unset>>
    BY <1>1, <1>9
  <2>2. <<Unset>> \in Seq(Part) /\ p \in p..Len(b)
    BY <1>0, PartType
  <2>3. IsDecoded(r, b, p) /\ IsWholeRead(r)
    BY <2>1, <2>2 DEF IsDecoded, IsWholeRead
  <2> QED BY <2>3 DEF r
<1>10. CASE length.ok /\ length.v = Repeat(0, Long)
  <2>1. r = Single(length)
    BY <1>1, <1>10
  <2> QED BY <1>3, <2>1, SingleType DEF r
<1>11. CASE length.ok /\ length.v # Repeat(0, Long)
  <2>1. r.ok = z.ok /\ r.at = z.at /\ r.v = <<length.v, x.v, y.v, z.v>>
    BY <1>1, <1>11
  <2>2. length.v \in Seq(BIT) /\ x.v \in Seq(BIT) /\ y.v \in Seq(BIT) /\ z.v \in Seq(BIT)
    BY <1>3, <1>5, <1>6, <1>7 DEF IsRead
  <2>3. z.ok \in BOOLEAN
    BY <1>7 DEF IsRead
  <2>4. z.at \in p..Len(b)
    <3>1. ql \in p..Len(b)
      BY <1>3 DEF IsRead
    <3> HIDE DEF ql, qx, qy
    <3> QED BY <1>0, <1>5, <1>6, <1>7, <3>1
  <2>5. <<length.v, x.v, y.v, z.v>> \in Seq(Part)
    BY <2>2, PartType
  <2>6. z.ok => length.v # Unset /\ x.v # Unset /\ y.v # Unset /\ z.v # Unset
    BY <1>3, <1>5, <1>6, <1>7, <1>8, <1>11 DEF IsRead
  <2>7. z.ok => \A j \in 1..4 : <<length.v, x.v, y.v, z.v>>[j] # Unset
    BY <2>6
  <2>8. IsDecoded(r, b, p)
    BY <2>1, <2>3, <2>4, <2>5 DEF IsDecoded
  <2>9. IsWholeRead(r)
    BY <2>1, <2>7 DEF IsWholeRead
  <2> QED BY <2>8, <2>9 DEF r
<1> QED BY <1>9, <1>10, <1>11

LEMMA ReadNormQuatType ==
  ASSUME NEW b \in Seq(BIT), NEW p \in 0..Len(b)
  PROVE  IsDecoded(ReadNormQuat(b, p), b, p) /\ IsWholeRead(ReadNormQuat(b, p))
<1> DEFINE r == ReadNormQuat(b, p)
           w == Take(b, p, 1)
           x == Take(b, w.at, 1)
           y == Take(b, x.at, 1)
           z == Take(b, y.at, 1)
           cx == Take(b, z.at, Short)
           cy == Take(b, cx.at, Short)
           cz == Take(b, cy.at, Short)
           square == IF cz.ok THEN SquareOfW(cx.v, cy.v, cz.v) ELSE Unset
           l == Len(b)
<1>0. Short \in Nat \ {0} /\ l \in Nat /\ p \in 0..l
  BY StepsType, LenProperties
<1>1. r = [ok |-> cz.ok, at |-> cz.at, v |-> <<w.v, x.v, y.v, z.v, cx.v, cy.v, cz.v, square>>]
  BY Zenon DEF ReadNormQuat, TakeNext
<1> HIDE DEF square
<1>2. ASSUME NEW q \in 0..l, NEW n \in {1, Short}
      PROVE  /\ Take(b, q, n).ok \in BOOLEAN /\ Take(b, q, n).v \in Seq(BIT)
             /\ Take(b, q, n).at \in 0..l /\ Take(b, q, n).at \in q..l
             /\ Take(b, q, n).ok => Take(b, q, n).v # Unset
             /\ \A k \in Nat : ~Take(b, q, n).ok /\ Take(b, q, n).at <= k => ~Take(b, k, Short).ok
  <2>0. n \in Nat \ {0} /\ n <= Short
    BY <1>0
  <2>1. IsRead(Take(b, q, n), b, q) /\ Take(b, q, n).at \in 0..l
    BY <2>0, TakeReads
  <2>2. ASSUME NEW k \in Nat, ~Take(b, q, n).ok, Take(b, q, n).at <= k
        PROVE  ~Take(b, k, Short).ok
    <3>1. Short \in Nat
      BY <1>0
    <3> QED BY <2>0, <2>2, <3>1, FailsFromThere
  <2> QED BY <2>1, <2>2 DEF IsRead
<1> DEFINE qw == w.at
           qx == x.at
           qy == y.at
           qz == z.at
           rx == cx.at
           ry == cy.at
<1>3. /\ w = Take(b, p, 1) /\ x = Take(b, qw, 1) /\ y = Take(b, qx, 1) /\ z = Take(b, qy, 1)
      /\ cx = Take(b, qz, Short) /\ cy = Take(b, rx, Short) /\ cz = Take(b, ry, Short)
  OBVIOUS
<1> HIDE DEF r, w, x, y, z, cx, cy, cz, l
<1>4. /\ w.ok \in BOOLEAN /\ w.v \in Seq(BIT) /\ qw \in 0..l /\ qw \in p..l /\ (w.ok => w.v # Unset)
      /\ \A k \in Nat : ~w.ok /\ qw <= k => ~Take(b, k, Short).ok
  BY <1>0, <1>2, <1>3
<1>5. /\ x.ok \in BOOLEAN /\ x.v \in Seq(BIT) /\ qx \in 0..l /\ qx \in qw..l /\ (x.ok => x.v # Unset)
      /\ \A k \in Nat : ~x.ok /\ qx <= k => ~Take(b, k, Short).ok
  BY <1>2, <1>3, <1>4
<1>6. /\ y.ok \in BOOLEAN /\ y.v \in Seq(BIT) /\ qy \in 0..l /\ qy \in qx..l /\ (y.ok => y.v # Unset)
      /\ \A k \in Nat : ~y.ok /\ qy <= k => ~Take(b, k, Short).ok
  BY <1>2, <1>3, <1>5
<1>7. /\ z.ok \in BOOLEAN /\ z.v \in Seq(BIT) /\ qz \in 0..l /\ qz \in qy..l /\ (z.ok => z.v # Unset)
      /\ \A k \in Nat : ~z.ok /\ qz <= k => ~Take(b, k, Short).ok
  BY <1>2, <1>3, <1>6
<1>8. /\ cx.ok \in BOOLEAN /\ cx.v \in Seq(BIT) /\ rx \in 0..l /\ rx \in qz..l /\ (cx.ok => cx.v # Unset)
      /\ \A k \in Nat : ~cx.ok /\ rx <= k => ~Take(b, k, Short).ok
  BY <1>2, <1>3, <1>7
<1>9. /\ cy.ok \in BOOLEAN /\ cy.v \in Seq(BIT) /\ ry \in 0..l /\ ry \in rx..l /\ (cy.ok => cy.v # Unset)
      /\ \A k \in Nat : ~cy.ok /\ ry <= k => ~Take(b, k, Short).ok
  BY <1>2, <1>3, <1>8
<1>10. cz.ok \in BOOLEAN /\ cz.v \in Seq(BIT) /\ cz.at \in ry..l /\ (cz.ok => cz.v # Unset)
  BY <1>2, <1>3, <1>9
<1> HIDE DEF qw, qx, qy, qz, rx, ry
<1>11. cz.at \in p..l /\ ry \in Nat /\ qw <= ry /\ qx <= ry /\ qy <= ry /\ qz <= ry /\ rx <= ry
  BY <1>0, <1>4, <1>5, <1>6, <1>7, <1>8, <1>9, <1>10
<1>12. cz.ok => w.ok /\ x.ok /\ y.ok /\ z.ok /\ cx.ok /\ cy.ok
  BY <1>3, <1>4, <1>5, <1>6, <1>7, <1>8, <1>9, <1>11
<1>20. square \in Part /\ (cz.ok => square # Unset)
  BY <1>8, <1>9, <1>10, PartType DEF square
<1> DEFINE v == <<w.v, x.v, y.v, z.v, cx.v, cy.v, cz.v, square>>
<1>13. r.ok = cz.ok /\ r.at = cz.at /\ r.v = v
  BY <1>1
<1>14. v \in Seq(Part)
  <2>1. /\ w.v \in Part /\ x.v \in Part /\ y.v \in Part /\ z.v \in Part
        /\ cx.v \in Part /\ cy.v \in Part /\ cz.v \in Part
    BY <1>4, <1>5, <1>6, <1>7, <1>8, <1>9, <1>10, PartType
  <2> QED BY <1>20, <2>1
<1>15. cz.ok => \A j \in 1..8 : v[j] # Unset
  <2>1. cz.ok => /\ w.v # Unset /\ x.v # Unset /\ y.v # Unset /\ z.v # Unset
                 /\ cx.v # Unset /\ cy.v # Unset /\ cz.v # Unset /\ square # Unset
    BY <1>4, <1>5, <1>6, <1>7, <1>8, <1>9, <1>10, <1>12, <1>20
  <2>2. /\ v[1] = w.v /\ v[2] = x.v /\ v[3] = y.v /\ v[4] = z.v
        /\ v[5] = cx.v /\ v[6] = cy.v /\ v[7] = cz.v /\ v[8] = square
    OBVIOUS
  <2>3. \A j \in 1..8 : j = 1 \/ j = 2 \/ j = 3 \/ j = 4 \/ j = 5 \/ j = 6 \/ j = 7 \/ j = 8
    OBVIOUS
  <2> HIDE DEF v
  <2> SUFFICES ASSUME cz.ok, NEW j \in 1..8 PROVE v[j] # Unset
    OBVIOUS
  <2> QED BY <2>1, <2>2, <2>3
<1>16. Len(v) = 8
  OBVIOUS
<1> HIDE DEF v
<1>17. IsDecoded(r, b, p)
  BY <1>10, <1>11, <1>13, <1>14 DEF IsDecoded, l
<1>18. IsWholeRead(r)
  BY <1>13, <1>15, <1>16 DEF IsWholeRead
<1> QED BY <1>17, <1>18 DEF r

LEMMA DecodeType ==
  ASSUME NEW kind \in Kinds, NEW b \in Seq(BIT), NEW p \in 0..Len(b),
         NEW old \in Seq(BIT) \ {Unset}, NEW bytes \in Nat \ {0},
         NEW r \in Decode(kind, b, p, old, bytes)
  PROVE  IsDecoded(r, b, p) /\ (kind \notin {"player", "normVector"} => IsWholeRead(r))
<1> DEFINE q == Take(b, p, 1).at
           n == 8 * bytes
<1>0. Short \in Nat \ {0} /\ Long \in Nat \ {0} /\ n \in Nat \ {0} /\ 1 \in Nat \ {0}
  BY StepsType
<1>1. q \in 0..Len(b)
  BY <1>0, TakeReads
<1> HIDE DEF n
<1>2. /\ IsRead(Take(b, p, 1), b, p) /\ IsRead(Take(b, p, n), b, p)
      /\ IsRead(Take(b, p, Short), b, p) /\ IsRead(Take(b, p, Long), b, p)
  BY <1>0, TakeReads
<1>3. IsRead(ReadCompressed(b, p, bytes), b, p)
  BY CompressedReads
<1>4. IsRead(Take(b, q, n), b, q) /\ IsRead(ReadCompressed(b, q, bytes), b, q)
  <2> HIDE DEF q
  <2> QED BY <1>0, <1>1, TakeReads, CompressedReads
<1>5. CASE kind = "bool"
  <2>1. r = Single(Take(b, p, 1))
    BY <1>5 DEF Decode
  <2> QED BY <1>2, <2>1, SingleType
<1>6. CASE kind = "word"
  <2>1. r = Single(Take(b, p, n))
    BY <1>6 DEF Decode, n
  <2> QED BY <1>2, <2>1, SingleType
<1>7. CASE kind = "player"
  <2>1. r = ReadPlayer(b, p)
    BY <1>7 DEF Decode
  <2> QED BY <1>7, <2>1, ReadPlayerType
<1>8. CASE kind = "delta"
  <2>1. r \in ReadFlagged(b, p, old, Take(b, q, n))
    BY <1>8 DEF Decode, n
  <2> DEFINE rest == Take(b, q, n)
  <2>2. IsRead(rest, b, q) /\ r \in ReadFlagged(b, p, old, rest)
    BY <1>4, <2>1
  <2> HIDE DEF rest
  <2> QED BY <2>2, FlaggedReads
<1>9. CASE kind = "compressed"
  <2>1. r = Single(ReadCompressed(b, p, bytes))
    BY <1>9 DEF Decode
  <2> QED BY <1>3, <2>1, SingleType
<1>10. CASE kind = "compressedDelta"
  <2>1. r \in ReadFlagged(b, p, old, ReadCompressed(b, q, bytes))
    BY <1>10 DEF Decode
  <2> DEFINE rest == ReadCompressed(b, q, bytes)
  <2>2. IsRead(rest, b, q) /\ r \in ReadFlagged(b, p, old, rest)
    BY <1>4, <2>1
  <2> HIDE DEF rest
  <2> QED BY <2>2, FlaggedReads
<1>11. CASE kind = "float"
  <2>1. r = Single(Take(b, p, Short))
    BY <1>11 DEF Decode
  <2> QED BY <1>2, <2>1, SingleType
<1>12. CASE kind = "normVector"
  <2>1. r \in ReadNormVector(b, p)
    BY <1>12 DEF Decode
  <2> QED BY <1>12, <2>1, ReadNormVectorType
<1>13. CASE kind = "vector"
  <2>1. r = ReadVector(b, p)
    BY <1>13 DEF Decode
  <2> QED BY <2>1, ReadVectorType
<1>14. CASE kind = "normQuat"
  <2>1. r = ReadNormQuat(b, p)
    BY <1>14 DEF Decode
  <2> QED BY <2>1, ReadNormQuatType
<1>15. CASE kind = "double"
  <2>1. r = Single(Take(b, p, Long))
    BY <1>15 DEF Decode
  <2> QED BY <1>2, <2>1, SingleType
<1> QED BY <1>5, <1>6, <1>7, <1>8, <1>9, <1>10, <1>11, <1>12, <1>13, <1>14, <1>15 DEF Kinds

-----------------------------------------------------------------------------
(* The invariant.                                                           *)

(* More than any value takes. *)
Longest == CHOOSE longest \in 0..2^Wide : Countable(longest)

(* The bits that were written, alone or to the end of a byte. *)
Filled(written, bits) ==
  /\ bits \in Seq(BIT) /\ IsCut(written, bits)
  /\ Len(bits) \in {Len(written), Rounded(Len(written))}

Known(values, written) == values = <<>> => written = <<>>

Outcome ==
  {r \in [kind : Kinds, ok : BOOLEAN, v : Seq(Part)] :
     r.kind \notin {"player", "normVector"} => IsWholeRead(r)}

(* The values do not take more room than there is for their number.  They   *)
(* may be one longer than expected values explain only after a gap.         *)
RoomFor(values, written) ==
  /\ Len(written) <= MaxItems * Longest + 7
  /\ Known(values, written) => Len(written) <= Len(values) * Longest

(* A packet has the header, the number and the bits that were written, or a *)
(* part of them; one that was passed on has them all.                       *)
InPacket(b, number, written, passedOn) ==
  \E h \in Headers, bits \in Seq(BIT) :
    /\ Filled(written, bits) /\ Carries(b, h, number, bits)
    /\ passedOn => /\ From(h, bits) + Len(bits) <= Len(b)
                   /\ Len(bits) = Rounded(Len(written))

Inv ==
  /\ TypeOK
  /\ reads \in Seq(Outcome)
  /\ RoomFor(items, payload)
  /\ who = "sender" => Known(items, payload) /\ passes = 0
  /\ Reading => Filled(payload, stream)
  /\ who = "callback" => packet \in Headers /\ passes < MaxPasses
  /\ who = "HandleRPCPacket" => InPacket(packet, id, payload, passes > 0)

LEMMA LongestIs ==
  /\ Longest \in Nat /\ MaxItems \in Nat /\ MaxItems * Longest \in Nat
  /\ Long + 9 * CountBytes + MaxItems * Longest + 64 < 2^(Wide - 1)
  /\ \A item \in Items : /\ Encode(item) \in Seq(BIT) /\ Len(Encode(item)) \in Nat
                         /\ Len(Encode(item)) <= Longest
<1> DEFINE limit == 2^Wide
<1>1. Longest \in 0..limit /\ Countable(Longest)
  BY LengthAssumption DEF Longest
<1>2. Longest \in Nat /\ MaxItems \in Nat
  <2> HIDE DEF limit
  <2> QED BY <1>1, BoundAssumption
<1> DEFINE room == MaxItems * Longest
<1>3. room \in Nat
  BY <1>2
<1>4. \A item \in Items : Len(Encode(item)) <= Longest
  BY <1>1 DEF Countable
<1>5. Long + 9 * CountBytes + room + 64 < 2^(Wide - 1)
  BY <1>1 DEF Countable
<1>6. \A item \in Items : Encode(item) \in Seq(BIT) /\ Len(Encode(item)) \in Nat
  BY ItemsAssumption, EncodeType, LenProperties
<1> QED BY <1>2, <1>3, <1>4, <1>5, <1>6

LEMMA Times ==
  ASSUME NEW k \in Nat, NEW m \in Nat, NEW n \in Nat, k <= m
  PROVE  /\ k * n \in Nat /\ m * n \in Nat /\ k * n <= m * n
         /\ (k + 1) * n = k * n + n
<1>1. PICK d \in Nat : m = k + d
  <2>1. m - k \in Nat /\ m = k + (m - k)
    OBVIOUS
  <2> QED BY <2>1
<1>2. m * n = k * n + d * n /\ d * n \in Nat /\ k * n \in Nat
  BY <1>1
<1> QED BY <1>2

(* What is filled up can be counted. *)
LEMMA FilledFits ==
  ASSUME NEW values, NEW written \in Seq(BIT), RoomFor(values, written),
         NEW bits, Filled(written, bits)
  PROVE  /\ bits \in Seq(BIT) /\ Counted(bits)
         /\ Len(written) \in Nat /\ Len(bits) \in Nat
         /\ Len(written) <= Len(bits) /\ Len(bits) < Len(written) + 8
         /\ Rounded(Len(bits)) = Rounded(Len(written))
<1> DEFINE n == Len(written)
           m == Len(bits)
           room == MaxItems * Longest
           limit == 2^(Wide - 1)
           around == Long + 9 * CountBytes
<1>1. /\ n \in Nat /\ m \in {n, Rounded(n)} /\ n <= room + 7 /\ room \in Nat
      /\ around + room + 64 < limit
  BY LongestIs, LenProperties DEF Filled, RoomFor
<1>a. around \in Nat /\ limit \in Nat
  BY WidthAssumption, CountAssumption, WideType
<1> HIDE DEF n, m, room
<1>2. m \in Nat /\ n <= m /\ m < n + 8 /\ Rounded(m) = Rounded(n)
  BY <1>1, RoundedIs
<1>3. around + 24 + m < limit
  <2> HIDE DEF limit, around
  <2> QED BY <1>1, <1>a, <1>2
<1> QED BY <1>1, <1>2, <1>3 DEF Filled, Counted, n, m

(* Written bits, padded. *)
LEMMA FilledUp ==
  ASSUME NEW written \in Seq(BIT), NEW bits, Filled(written, bits)
  PROVE  /\ Filled(written, Padded(bits))
         /\ Len(Padded(bits)) = Rounded(Len(written))
<1> DEFINE n == Len(written)
           m == Len(bits)
           p == Padded(bits)
<1>1. n \in Nat /\ m \in {n, Rounded(n)} /\ bits \in Seq(BIT) /\ \A i \in 1..n : written[i] = bits[i]
  BY LenProperties DEF Filled, IsCut
<1>2. /\ p \in Seq(BIT) /\ Len(p) = Rounded(m) /\ \A i \in 1..m : p[i] = bits[i]
  BY <1>1, PaddedType
<1> HIDE DEF n, m, p
<1>3. m \in Nat /\ n <= m /\ Rounded(m) = Rounded(n) /\ n <= Rounded(n)
  BY <1>1, RoundedIs, RoundedType
<1>4. \A i \in 1..n : written[i] = p[i]
  BY <1>1, <1>2, <1>3
<1> QED BY <1>2, <1>3, <1>4 DEF Filled, IsCut, n, p

(* What is not padded is filled, too. *)
LEMMA FilledSame ==
  ASSUME NEW written \in Seq(BIT)
  PROVE  Filled(written, written)
<1>1. Len(written) <= Len(written)
  BY LenProperties
<1> QED BY <1>1 DEF Filled, IsCut

LEMMA NumbersAre == ASSUME NEW number \in Ids PROVE number \in Words(8)
BY IdsAssumption

LEMMA NothingRead == <<>> \in Seq(Outcome) /\ <<>> \in Seq(BIT) /\ Len(<<>>) = 0
OBVIOUS

-----------------------------------------------------------------------------
(* What is written, and what it makes of the room.                          *)

LEMMA OneMore ==
  ASSUME NEW values \in Seq(Items), Len(values) < MaxItems, NEW written \in Seq(BIT),
         RoomFor(values, written), Known(values, written), NEW item \in Items
  PROVE  /\ Append(values, item) \in Seq(Items) /\ Len(Append(values, item)) <= MaxItems
         /\ written \o Encode(item) \in Seq(BIT)
         /\ Known(Append(values, item), written \o Encode(item))
         /\ RoomFor(Append(values, item), written \o Encode(item))
<1> DEFINE e == Encode(item)
           more == Append(values, item)
           w == written \o e
           n == Len(values)
           room == MaxItems * Longest
<1>1. /\ Longest \in Nat /\ MaxItems \in Nat /\ room \in Nat
      /\ e \in Seq(BIT) /\ Len(e) \in Nat /\ Len(e) <= Longest
  BY LongestIs
<1>2. n \in Nat /\ n < MaxItems /\ Len(written) \in Nat /\ Len(written) <= n * Longest
  BY LenProperties DEF RoomFor
<1>3. more \in Seq(Items) /\ Len(more) = n + 1 /\ more # <<>>
  BY AppendProperties
<1>4. w \in Seq(BIT) /\ Len(w) = Len(written) + Len(e)
  BY <1>1, Joined
<1> HIDE DEF e, more, w, n, room
<1>5. /\ n * Longest \in Nat /\ (n + 1) * Longest = n * Longest + Longest
      /\ (n + 1) * Longest \in Nat /\ (n + 1) * Longest <= room
  <2>1. n + 1 \in Nat /\ n + 1 <= MaxItems /\ n <= n
    BY <1>1, <1>2
  <2> QED BY <1>1, <1>2, <2>1, Times DEF room
<1>6. Len(w) <= (n + 1) * Longest /\ Len(w) <= room + 7
  <2> DEFINE x == n * Longest
             y == (n + 1) * Longest
             z == Len(w)
  <2>1. x \in Nat /\ y \in Nat /\ y = x + Longest /\ y <= room /\ z = Len(written) + Len(e) /\ Len(written) <= x
    BY <1>2, <1>4, <1>5
  <2> HIDE DEF x, y, z
  <2>2. z <= y /\ z <= room + 7
    BY <1>1, <1>2, <2>1
  <2> QED BY <2>2 DEF y, z
<1>7. RoomFor(more, w)
  BY <1>3, <1>6 DEF RoomFor, room
<1>8. Known(more, w)
  BY <1>3 DEF Known
<1>9. Len(more) <= MaxItems
  BY <1>1, <1>2, <1>3
<1> QED BY <1>3, <1>4, <1>7, <1>8, <1>9 DEF more, w, e

LEMMA Alone ==
  ASSUME NEW item \in Items
  PROVE  /\ <<item>> \in Seq(Items) /\ Len(<<item>>) <= MaxItems
         /\ Encode(item) \in Seq(BIT) /\ RoomFor(<<item>>, Encode(item))
<1> DEFINE e == Encode(item)
<1>1. /\ Longest \in Nat /\ MaxItems \in Nat /\ e \in Seq(BIT) /\ Len(e) \in Nat /\ Len(e) <= Longest
  BY LongestIs
<1>2. 1 \in Nat /\ 1 <= MaxItems
  BY BoundAssumption
<1> HIDE DEF e
<1>3. MaxItems * Longest \in Nat /\ 1 * Longest \in Nat /\ 1 * Longest <= MaxItems * Longest /\ 1 * Longest = Longest
  BY <1>1, <1>2, Times
<1>4. Len(e) <= MaxItems * Longest + 7 /\ Len(e) <= 1 * Longest
  BY <1>1, <1>3
<1>5. <<item>> \in Seq(Items) /\ Len(<<item>>) = 1
  OBVIOUS
<1>6. RoomFor(<<item>>, e)
  BY <1>4, <1>5 DEF RoomFor
<1> QED BY <1>1, <1>2, <1>5, <1>6 DEF e

LEMMA BehindAGap ==
  ASSUME NEW values \in Seq(Items), Len(values) < MaxItems, NEW written \in Seq(BIT),
         RoomFor(values, written), Known(values, written), NEW item \in Items,
         NEW bits, Filled(written, bits)
  PROVE  /\ <<>> \in Seq(Items) /\ Len(<<>>) <= MaxItems
         /\ bits \o Encode(item) \in Seq(BIT) /\ RoomFor(<<>>, bits \o Encode(item))
<1> DEFINE e == Encode(item)
           w == bits \o e
           n == Len(values)
           room == MaxItems * Longest
<1>1. /\ Longest \in Nat /\ MaxItems \in Nat /\ room \in Nat
      /\ e \in Seq(BIT) /\ Len(e) \in Nat /\ Len(e) <= Longest
  BY LongestIs
<1>2. n \in Nat /\ n < MaxItems /\ Len(written) <= n * Longest
  BY LenProperties DEF RoomFor
<1>3. /\ bits \in Seq(BIT) /\ Len(written) \in Nat /\ Len(bits) \in Nat
      /\ Len(bits) < Len(written) + 8
  BY FilledFits
<1>4. w \in Seq(BIT) /\ Len(w) = Len(bits) + Len(e)
  BY <1>1, <1>3, Joined
<1> HIDE DEF e, w, n, room
<1>5. /\ n * Longest \in Nat /\ (n + 1) * Longest = n * Longest + Longest
      /\ (n + 1) * Longest \in Nat /\ (n + 1) * Longest <= room
  <2>1. n + 1 \in Nat /\ n + 1 <= MaxItems /\ n <= n
    BY <1>1, <1>2
  <2> QED BY <1>1, <1>2, <2>1, Times DEF room
<1>6. Len(w) <= room + 7
  <2> DEFINE x == n * Longest
             y == (n + 1) * Longest
             z == Len(w)
  <2>1. x \in Nat /\ y \in Nat /\ y = x + Longest /\ y <= room /\ z = Len(bits) + Len(e) /\ Len(written) <= x
    BY <1>2, <1>4, <1>5
  <2> HIDE DEF x, y, z
  <2>2. z <= room + 7
    BY <1>1, <1>3, <2>1
  <2> QED BY <2>2 DEF z
<1>7. Known(<<>>, w) => Len(w) <= Len(<<>>) * Longest
  <2>1. Len(<<>>) = 0 /\ 0 * Longest = 0
    BY <1>1
  <2> QED BY <2>1 DEF Known
<1>8. RoomFor(<<>>, w)
  BY <1>6, <1>7 DEF RoomFor, room
<1>9. <<>> \in Seq(Items) /\ Len(<<>>) <= MaxItems
  BY <1>1
<1> QED BY <1>4, <1>8, <1>9 DEF w, e

(* What is taken out of a packet. *)
LEMMA HandedOn ==
  ASSUME NEW b \in Seq(BIT), Len(b) % 8 = 0, NEW number \in Words(8), NEW values,
         NEW written \in Seq(BIT), RoomFor(values, written), NEW passedOn,
         InPacket(b, number, written, passedOn)
  PROVE  LET p == Parse(b) IN
         /\ p.ok => /\ IsThere(b, p) /\ p.number = number
                    /\ SubSeq(b, 1, Header(b)) \in Headers
                    /\ Filled(written, Received(b, p))
                    /\ Filled(written, SubSeq(b, p.from + 1, p.from + p.bits))
         /\ passedOn => /\ p.ok /\ p.number = number /\ p.bits = Rounded(Len(written))
<1> DEFINE p == Parse(b)
<1>1. PICK h \in Headers, bits \in Seq(BIT) :
        /\ Filled(written, bits) /\ Carries(b, h, number, bits)
        /\ passedOn => /\ From(h, bits) + Len(bits) <= Len(b)
                       /\ Len(bits) = Rounded(Len(written))
  BY DEF InPacket
<1> DEFINE f == From(h, bits)
           m == Len(bits)
           n == Len(written)
           l == Len(b)
<1>2. /\ Counted(bits) /\ n \in Nat /\ m \in Nat
      /\ n <= m /\ m < n + 8 /\ Rounded(m) = Rounded(n)
  BY <1>1, FilledFits
<1>3. /\ Header(b) = Len(h)
      /\ p.ok => /\ p.number = number /\ p.from = f /\ p.bits = m
                 /\ Holds(b, 0, h) /\ Holds(b, f, bits)
      /\ l >= f + m => p.ok = TRUE
  <2>1. number \in Words(8) /\ Counted(bits) /\ Carries(b, h, number, bits)
    BY <1>1, <1>2
  <2>2. IsParsed(b, h, number, bits)
    BY <2>1, ParseCarried
  <2> QED BY <2>2 DEF IsParsed
<1>4. f \in Nat /\ l \in Nat
  BY RpcParts, LenProperties
<1>5. \A i \in 1..n : written[i] = bits[i]
  BY <1>1 DEF Filled, IsCut
<1>6. m \in {n, Rounded(n)} /\ Rounded(n) \in {n, Rounded(n)}
  BY <1>1 DEF Filled
<1> HIDE DEF p, f, m, n, l
<1>7. ASSUME passedOn
      PROVE  p.ok /\ p.number = number /\ p.bits = Rounded(n)
  <2>1. f + m <= l /\ m = Rounded(n)
    BY <1>1, <1>7 DEF f, m, n, l
  <2>2. l >= f + m
    BY <1>2, <1>4, <2>1
  <2> QED BY <1>3, <2>1, <2>2
<1>8. ASSUME p.ok
      PROVE  /\ IsThere(b, p)
             /\ SubSeq(b, 1, Header(b)) \in Headers
             /\ Filled(written, Received(b, p))
             /\ Filled(written, SubSeq(b, p.from + 1, p.from + p.bits))
  <2>1. /\ p.from = f /\ p.bits = m /\ Holds(b, 0, h) /\ Holds(b, f, bits)
    BY <1>3, <1>8
  <2>2. f + m <= l /\ \A i \in 1..m : b[f + i] = bits[i]
    BY <2>1 DEF Holds, m, l
  <2>3. SubSeq(b, 1, Header(b)) \in Headers
    <3> DEFINE k == Len(h)
               s == SubSeq(b, 1, k)
    <3>1. k \in Nat /\ h \in Seq(BIT)
      BY HeadersType
    <3>2. 0 + k <= Len(b) /\ \A i \in 1..k : b[0 + i] = h[i]
      BY <2>1 DEF Holds
    <3>3. 0 + k = k /\ 0 + 1 = 1
      BY <3>1
    <3> HIDE DEF k
    <3>4. /\ SubSeq(b, 0 + 1, 0 + k) \in Seq(BIT) /\ Len(SubSeq(b, 0 + 1, 0 + k)) = k
          /\ \A i \in 1..k : SubSeq(b, 0 + 1, 0 + k)[i] = b[0 + i]
      BY <3>1, <3>2, Slice
    <3>5. s \in Seq(BIT) /\ Len(s) = k /\ \A i \in 1..k : s[i] = h[i]
      BY <3>2, <3>3, <3>4
    <3>6. Len(h) = k
      BY DEF k
    <3> HIDE DEF s
    <3>7. s = h
      BY <3>1, <3>5, <3>6, SeqEqual
    <3> QED BY <1>3, <3>7 DEF s, k
  <2>4. Filled(written, Received(b, p))
    <3> DEFINE r == Received(b, p)
    <3>1. p.from \in Nat /\ p.bits \in Nat /\ p.from + p.bits <= Len(b)
      BY <1>2, <1>4, <2>1, <2>2 DEF l
    <3>2. /\ r \in Seq(BIT) /\ Len(r) = Rounded(m)
          /\ \A i \in 1..m : r[i] = b[f + i]
      <4>1. /\ r \in Seq(BIT) /\ Len(r) = Rounded(p.bits)
            /\ \A i \in 1..p.bits : r[i] = b[p.from + i]
        BY <3>1, ReceivedType
      <4> QED BY <2>1, <4>1
    <3> HIDE DEF r
    <3>3. \A i \in 1..n : written[i] = r[i]
      <4> TAKE i \in 1..n
      <4>1. i \in 1..m
        BY <1>2
      <4> QED BY <1>5, <2>2, <3>2, <4>1
    <3>4. n <= Len(r) /\ Len(r) = Rounded(n)
      BY <1>2, <3>2, RoundedType
    <3> QED BY <3>2, <3>3, <3>4 DEF Filled, IsCut, r, n
  <2>5. Filled(written, SubSeq(b, p.from + 1, p.from + p.bits))
    <3> DEFINE s == SubSeq(b, f + 1, f + m)
    <3>1. f + m <= Len(b)
      BY <2>2 DEF l
    <3>2. s \in Seq(BIT) /\ Len(s) = m /\ \A i \in 1..m : s[i] = b[f + i]
      BY <1>2, <1>4, <3>1, Slice
    <3> HIDE DEF s
    <3>3. \A i \in 1..n : written[i] = s[i]
      <4> TAKE i \in 1..n
      <4>1. i \in 1..m
        BY <1>2
      <4> QED BY <1>5, <2>2, <3>2, <4>1
    <3>4. Filled(written, s)
      BY <1>2, <1>6, <3>2, <3>3 DEF Filled, IsCut, n
    <3> QED BY <2>1, <3>4 DEF s
  <2>6. IsThere(b, p)
    BY <1>8, <2>1, <2>2 DEF IsThere, l
  <2> QED BY <2>3, <2>4, <2>5, <2>6
<1> QED BY <1>3, <1>7, <1>8 DEF p, n

(* What is passed on, and what the server sends, whole or in part. *)
IsPassedOn(b, number, written, bits) ==
  /\ b \in Seq(BIT) /\ Len(b) % 8 = 0
  /\ InPacket(b, number, written, Len(bits) = Rounded(Len(written)))
IsSent(whole, number, written) ==
  /\ whole \in Seq(BIT) /\ Len(whole) % 8 = 0 /\ 16 <= Len(whole)
  /\ \A n \in 8..Len(whole) : /\ InPacket(SubSeq(whole, 1, n), number, written, FALSE)
                              /\ SubSeq(whole, 1, n) \in Seq(BIT)
                              /\ Len(SubSeq(whole, 1, n)) = n

LEMMA PutIn ==
  ASSUME NEW h \in Headers, NEW number \in Ids, NEW written \in Seq(BIT), NEW bits, Filled(written, bits)
  PROVE  /\ IsPassedOn(Padded(Rpc(h, number, bits)), number, written, bits)
         /\ \A trailing \in Seq(BIT) : Len(trailing) \in {0, 8} =>
              IsSent(Padded(Rpc(h, number, bits)) \o trailing, number, written)
<1> DEFINE rpc == Padded(Rpc(h, number, bits))
<1>0. bits \in Seq(BIT) /\ number \in Words(8)
  BY NumbersAre DEF Filled
<1>1. ASSUME NEW trailing \in Seq(BIT), Len(trailing) \in {0, 8}
      PROVE  IsPassedOn(rpc, number, written, bits) /\ IsSent(rpc \o trailing, number, written)
  <2> DEFINE whole == rpc \o trailing
  <2>1. /\ Carries(rpc, h, number, bits) /\ Len(rpc) % 8 = 0
        /\ From(h, bits) + Len(bits) <= Len(rpc)
        /\ whole \in Seq(BIT) /\ Len(whole) % 8 = 0 /\ 16 <= Len(whole)
        /\ \A n \in 8..Len(whole) : /\ Carries(SubSeq(whole, 1, n), h, number, bits)
                                    /\ Len(SubSeq(whole, 1, n)) = n
    BY <1>0, <1>1, Carried
  <2> HIDE DEF rpc, whole
  <2>2. rpc \in Seq(BIT) /\ InPacket(rpc, number, written, Len(bits) = Rounded(Len(written)))
    BY <1>0, <2>1 DEF InPacket, Carries
  <2>3. ASSUME NEW n \in 8..Len(whole)
        PROVE  /\ InPacket(SubSeq(whole, 1, n), number, written, FALSE)
               /\ SubSeq(whole, 1, n) \in Seq(BIT) /\ Len(SubSeq(whole, 1, n)) = n
    BY <1>0, <2>1 DEF InPacket, Carries
  <2>4. IsPassedOn(rpc, number, written, bits)
    BY <2>1, <2>2 DEF IsPassedOn
  <2>5. IsSent(whole, number, written)
    BY <2>1, <2>3 DEF IsSent
  <2> QED BY <2>4, <2>5 DEF whole
<1>2. <<>> \in Seq(BIT) /\ Len(<<>>) \in {0, 8}
  BY NothingRead
<1> QED BY <1>1, <1>2

-----------------------------------------------------------------------------
(* The steps.                                                               *)

LEMMA InitInv ==
  ASSUME Init
  PROVE  Inv
<1>1. id \in Ids /\ <<>> \in Seq(Items) /\ 0 <= MaxItems /\ 0 <= MaxReads /\ 0 \in 0..MaxPasses /\ 0 \in 0..0 /\ 0 % 8 = 0
  BY BoundAssumption DEF Init
<1>2. TypeOK
  BY <1>1, NothingRead DEF Init, TypeOK
<1>3. RoomFor(items, payload)
  <2>1. MaxItems * Longest \in Nat /\ Longest \in Nat
    BY LongestIs
  <2>2. 0 <= MaxItems * Longest + 7 /\ 0 <= 0 * Longest
    BY <2>1
  <2> QED BY <2>2, NothingRead DEF RoomFor, Init
<1>4. Known(items, payload)
  BY DEF Known, Init
<1> QED BY <1>2, <1>3, <1>4, NothingRead DEF Inv, Init, Reading

LEMMA WriteInv ==
  ASSUME Inv, NEW item \in Items, Write(item)
  PROVE  Inv'
<1>1. /\ who = "sender" /\ who' = who /\ Len(items) < MaxItems /\ items' = Append(items, item)
      /\ payload' = payload \o Encode(item)
      /\ UNCHANGED <<id, packet, passes, stream, at, reads>>
  BY DEF Write
<1>2. /\ items \in Seq(Items) /\ payload \in Seq(BIT) /\ Known(items, payload) /\ RoomFor(items, payload)
      /\ passes = 0
  BY <1>1 DEF Inv, TypeOK
<1>3. /\ items' \in Seq(Items) /\ Len(items') <= MaxItems /\ payload' \in Seq(BIT)
      /\ Known(items', payload') /\ RoomFor(items', payload')
  BY <1>1, <1>2, OneMore
<1>4. TypeOK'
  BY <1>1, <1>3 DEF Inv, TypeOK
<1> QED BY <1>1, <1>2, <1>3, <1>4 DEF Inv, Reading

LEMMA ServerSendsInv ==
  ASSUME Inv, NEW stamped \in BOOLEAN, NEW trailing \in {<<>>, Repeat(1, 8)},
         ServerSends(stamped, trailing)
  PROVE  Inv'
<1> DEFINE header == IF stamped THEN Stamp \o Repeat(0, Long) \o Plain ELSE Plain
           whole == Padded(Rpc(header, id, payload)) \o trailing
           l == Len(whole)
<1>1. /\ who = "sender" /\ who' = "HandleRPCPacket"
      /\ \E bytes \in {1, 2} \cup l \div 8 - 1..l \div 8 : packet' = SubSeq(whole, 1, 8 * bytes)
      /\ UNCHANGED <<items, payload, id, passes, stream, at, reads>>
  BY DEF ServerSends
<1>2. header \in Headers
  BY DEF Headers
<1>3. trailing \in Seq(BIT) /\ Len(trailing) \in {0, 8}
  <2>1. 1 \in BIT /\ 8 \in Nat
    BY DEF BIT
  <2>2. Repeat(1, 8) \in Seq(BIT) /\ Len(Repeat(1, 8)) = 8
    BY <2>1, RepeatType
  <2> QED BY <2>2, NothingRead
<1>4. /\ payload \in Seq(BIT) /\ id \in Ids /\ RoomFor(items, payload) /\ passes = 0
  BY <1>1 DEF Inv, TypeOK
<1>5. Filled(payload, payload)
  BY <1>4, FilledSame
<1> HIDE DEF header
<1>6. /\ whole \in Seq(BIT) /\ l % 8 = 0 /\ 16 <= l
      /\ \A n \in 8..l : /\ InPacket(SubSeq(whole, 1, n), id, payload, FALSE)
                         /\ SubSeq(whole, 1, n) \in Seq(BIT)
                         /\ Len(SubSeq(whole, 1, n)) = n
  <2>1. IsSent(whole, id, payload)
    BY <1>2, <1>3, <1>4, <1>5, PutIn
  <2> HIDE DEF whole
  <2> QED BY <2>1 DEF IsSent
<1>7. l \in Nat
  BY <1>6, LenProperties
<1> HIDE DEF whole, l
<1>8. PICK bytes \in {1, 2} \cup l \div 8 - 1..l \div 8 : packet' = SubSeq(whole, 1, 8 * bytes)
  BY <1>1
<1>9. 8 * bytes \in 8..l /\ (8 * bytes) % 8 = 0
  BY <1>6, <1>7
<1>10. /\ InPacket(packet', id, payload, FALSE) /\ packet' \in Seq(BIT)
       /\ Len(packet') % 8 = 0
  BY <1>6, <1>8, <1>9
<1>11. TypeOK'
  BY <1>1, <1>10 DEF Inv, TypeOK
<1>12. ~(passes > 0)
  BY <1>4
<1>13. InPacket(packet', id', payload', passes' > 0)
  BY <1>1, <1>10, <1>12 DEF InPacket
<1> QED BY <1>1, <1>11, <1>13 DEF Inv, Reading

LEMMA emul_rpcInv ==
  ASSUME Inv, emul_rpc
  PROVE  Inv'
<1>1. /\ who = "sender" /\ who' = "HandleRPCPacket"
      /\ packet' = Padded(Rpc(Plain, id, Padded(payload)))
      /\ UNCHANGED <<items, payload, id, passes, stream, at, reads>>
  BY DEF emul_rpc
<1>2. payload \in Seq(BIT) /\ id \in Ids /\ RoomFor(items, payload)
  BY DEF Inv, TypeOK
<1> DEFINE bits == Padded(payload)
<1>3. Filled(payload, bits) /\ Len(bits) = Rounded(Len(payload))
  BY <1>2, FilledSame, FilledUp
<1>4. Plain \in Headers
  BY DEF Headers
<1> HIDE DEF bits
<1>5. /\ packet' \in Seq(BIT) /\ Len(packet') % 8 = 0
      /\ InPacket(packet', id, payload, Len(bits) = Rounded(Len(payload)))
  <2>1. packet' = Padded(Rpc(Plain, id, bits))
    BY <1>1 DEF bits
  <2>2. IsPassedOn(Padded(Rpc(Plain, id, bits)), id, payload, bits)
    BY <1>2, <1>3, <1>4, PutIn
  <2> QED BY <2>1, <2>2 DEF IsPassedOn
<1>6. InPacket(packet', id', payload', passes' > 0)
  BY <1>1, <1>3, <1>5 DEF InPacket
<1>7. TypeOK'
  BY <1>1, <1>5 DEF Inv, TypeOK
<1> QED BY <1>1, <1>6, <1>7 DEF Inv, Reading

LEMMA OverInv ==
  ASSUME Inv, Over, UNCHANGED <<items, payload, id, packet, passes>>
  PROVE  Inv'
<1>1. who' = "nobody" /\ stream' = <<>> /\ at' = 0 /\ reads' = <<>>
  BY DEF Over, Nobody
<1>2. 0 \in 0..0 /\ 0 <= MaxReads
  BY BoundAssumption
<1>3. TypeOK'
  BY <1>1, <1>2, NothingRead DEF Inv, TypeOK
<1> QED BY <1>1, <1>3, NothingRead DEF Inv, Reading

LEMMA handle_rpc_packetInv ==
  ASSUME Inv, handle_rpc_packet
  PROVE  Inv'
<1> DEFINE p == Parse(packet)
<1>1. CASE ~p.ok
  <2>1. Over /\ UNCHANGED <<items, payload, id, packet, passes>>
    BY <1>1 DEF handle_rpc_packet, IsThere, Refuses, Over
  <2> QED BY <2>1, OverInv
<1>2. CASE p.ok
  <2>0. who = "HandleRPCPacket"
    BY DEF handle_rpc_packet
  <2>2. /\ packet \in Seq(BIT) /\ Len(packet) % 8 = 0 /\ id \in Ids /\ payload \in Seq(BIT)
        /\ RoomFor(items, payload) /\ InPacket(packet, id, payload, passes > 0)
    BY <2>0 DEF Inv, TypeOK
  <2>3. id \in Words(8)
    BY <2>2, NumbersAre
  <2>4. IsThere(packet, p) /\ p.number = id /\ SubSeq(packet, 1, Header(packet)) \in Headers /\ Filled(payload, Received(packet, p))
    BY <1>2, <2>2, <2>3, HandedOn
  <2>1. /\ who = "HandleRPCPacket" /\ who' = "callback" /\ passes < MaxPasses
        /\ id' = p.number /\ stream' = Received(packet, p)
        /\ at' = 0 /\ reads' = <<>> /\ packet' = SubSeq(packet, 1, Header(packet))
        /\ UNCHANGED <<items, payload, passes>>
    BY <2>4 DEF handle_rpc_packet
  <2> HIDE DEF p
  <2>5. id' = id /\ packet' \in Headers /\ Filled(payload', stream')
    BY <2>1, <2>4
  <2>6. packet' \in Seq(BIT) /\ Len(packet') % 8 = 0
    BY <2>5, HeadersType
  <2>7. stream' \in Seq(BIT) /\ Len(stream') \in Nat
    BY <2>5, LenProperties DEF Filled
  <2>8. 0 \in 0..Len(stream') /\ 0 <= MaxReads
    BY <2>7, BoundAssumption
  <2>9. TypeOK'
    BY <2>1, <2>5, <2>6, <2>7, <2>8, NothingRead DEF Inv, TypeOK
  <2> QED BY <2>1, <2>5, <2>9, NothingRead DEF Inv, Reading
<1> QED BY <1>1, <1>2

LEMMA OriginalHandlesInv ==
  ASSUME Inv, OriginalHandles
  PROVE  Inv'
<1> DEFINE p == Parse(packet)
<1>1. CASE ~p.ok
  <2>1. Over /\ UNCHANGED <<items, payload, id, packet, passes>>
    BY <1>1 DEF OriginalHandles, IsThere, Refuses, Over
  <2> QED BY <2>1, OverInv
<1>2. CASE p.ok
  <2>0. who = "HandleRPCPacket"
    BY DEF OriginalHandles
  <2>2. /\ packet \in Seq(BIT) /\ Len(packet) % 8 = 0 /\ id \in Ids /\ payload \in Seq(BIT)
        /\ RoomFor(items, payload) /\ InPacket(packet, id, payload, passes > 0)
    BY <2>0 DEF Inv, TypeOK
  <2>3. id \in Words(8)
    BY <2>2, NumbersAre
  <2>4. IsThere(packet, p) /\ p.number = id /\ Filled(payload, SubSeq(packet, p.from + 1, p.from + p.bits))
    BY <1>2, <2>2, <2>3, HandedOn
  <2>1. /\ who = "HandleRPCPacket" /\ who' = "game"
        /\ id' = p.number /\ stream' = SubSeq(packet, p.from + 1, p.from + p.bits)
        /\ at' = 0 /\ reads' = <<>>
        /\ UNCHANGED <<items, payload, packet, passes>>
    BY <2>4 DEF OriginalHandles
  <2> HIDE DEF p
  <2>5. id' = id /\ Filled(payload', stream')
    BY <2>1, <2>4
  <2>7. stream' \in Seq(BIT) /\ Len(stream') \in Nat
    BY <2>5, LenProperties DEF Filled
  <2>8. 0 \in 0..Len(stream') /\ 0 <= MaxReads
    BY <2>7, BoundAssumption
  <2>9. TypeOK'
    BY <2>1, <2>5, <2>7, <2>8, NothingRead DEF Inv, TypeOK
  <2> QED BY <2>1, <2>5, <2>9, NothingRead DEF Inv, Reading
<1> QED BY <1>1, <1>2

(* What the reader passes to a read: the size of the value it expects, and  *)
(* its copy of a delta's.                                                   *)
LEMMA PassedIn ==
  ASSUME items \in Seq(Items), NEW k \in Nat \ {0}
  PROVE  OldOf(k) \in Seq(BIT) \ {Unset} /\ BytesOf(k) \in Nat \ {0}
<1>1. ASSUME k <= Len(items) PROVE items[k] \in Item
  <2>1. Len(items) \in Nat /\ \A i \in 1..Len(items) : items[i] \in Items
    BY LenProperties
  <2> QED BY <1>1, <2>1, ItemsAssumption
<1> DEFINE item == items[k]
<1>2. ASSUME k <= Len(items), "last" \in DOMAIN item PROVE item.last \in Integer
  <2>1. item \in Item
    BY <1>1, <1>2
  <2> HIDE DEF item
  <2> QED BY <1>2, <2>1 DEF Item, NormVectors, NormQuats
<1>3. ASSUME k <= Len(items), "v" \in DOMAIN item, item.kind # "bool" PROVE item.v \in Integer
  <2>1. item \in Item
    BY <1>1, <1>3
  <2> HIDE DEF item
  <2> QED BY <1>3, <2>1 DEF Item, NormVectors, NormQuats
<1>4. OldOf(k) \in Seq(BIT) \ {Unset}
  <2>1. ASSUME NEW w \in Integer PROVE w \in Seq(BIT) \ {Unset}
    BY IntegerType
  <2>2. Yes \in Seq(BIT) \ {Unset}
    BY FlagType
  <2>3. CASE k <= Len(items) /\ "last" \in DOMAIN item
    <3>1. OldOf(k) = item.last
      BY <2>3 DEF OldOf
    <3> QED BY <1>2, <2>1, <2>3, <3>1
  <2>4. CASE ~(k <= Len(items) /\ "last" \in DOMAIN item)
    <3>1. OldOf(k) = Yes
      BY <2>4 DEF OldOf
    <3> QED BY <2>2, <3>1
  <2> QED BY <2>3, <2>4
<1>5. BytesOf(k) \in Nat \ {0}
  <2>1. ASSUME NEW w \in Integer PROVE Len(w) \div 8 \in Nat \ {0}
    BY IntegerType
  <2>2. CASE k <= Len(items) /\ "v" \in DOMAIN item /\ item.kind # "bool"
    <3>1. BytesOf(k) = Len(item.v) \div 8
      BY <2>2 DEF BytesOf
    <3> QED BY <1>3, <2>1, <2>2, <3>1
  <2>3. CASE ~(k <= Len(items) /\ "v" \in DOMAIN item /\ item.kind # "bool")
    <3>1. BytesOf(k) = 1
      BY <2>3 DEF BytesOf
    <3> QED BY <3>1
  <2> QED BY <2>2, <2>3
<1> QED BY <1>4, <1>5

LEMMA ReadInv ==
  ASSUME Inv, NEW kind \in Kinds, Read(kind)
  PROVE  Inv'
<1> DEFINE next == Len(reads) + 1
<1>1. reads \in Seq(Outcome) /\ items \in Seq(Items) /\ stream \in Seq(BIT) /\ at \in 0..Len(stream)
  BY DEF Inv, TypeOK
<1>2. next \in Nat \ {0} /\ Len(reads) \in Nat /\ Len(stream) \in Nat
  BY <1>1, LenProperties
<1>3. PICK r \in Decode(kind, stream, at, OldOf(next), BytesOf(next)) :
        /\ at' = r.at
        /\ reads' = Append(reads, [kind |-> kind, ok |-> r.ok, v |-> r.v])
  BY DEF Read
<1>4. Reading /\ Len(reads) < MaxReads /\ UNCHANGED <<items, payload, id, packet, passes, who, stream>>
  BY DEF Read
<1> HIDE DEF next
<1> DEFINE old == OldOf(next)
           bytes == BytesOf(next)
<1>5. old \in Seq(BIT) \ {Unset} /\ bytes \in Nat \ {0} /\ r \in Decode(kind, stream, at, old, bytes)
  BY <1>1, <1>2, <1>3, PassedIn
<1> HIDE DEF old, bytes
<1>6. IsDecoded(r, stream, at) /\ (kind \notin {"player", "normVector"} => IsWholeRead(r))
  BY <1>1, <1>5, DecodeType
<1> DEFINE o == [kind |-> kind, ok |-> r.ok, v |-> r.v]
<1>7. o \in Outcome
  <2>1. r.ok \in BOOLEAN /\ r.v \in Seq(Part)
    BY <1>6 DEF IsDecoded
  <2>2. o \in [kind : Kinds, ok : BOOLEAN, v : Seq(Part)]
    BY <2>1
  <2>3. o.kind = kind /\ o.ok = r.ok /\ o.v = r.v
    OBVIOUS
  <2> HIDE DEF o
  <2>4. o.kind \notin {"player", "normVector"} => IsWholeRead(o)
    BY <1>6, <2>3 DEF IsWholeRead
  <2> QED BY <2>2, <2>4 DEF Outcome
<1> HIDE DEF o
<1>8. reads' \in Seq(Outcome) /\ Len(reads') = Len(reads) + 1
  BY <1>1, <1>3, <1>7, AppendProperties DEF o
<1>9. at' \in 0..Len(stream)
  <2>1. r.at \in at..Len(stream)
    BY <1>6 DEF IsDecoded
  <2> QED BY <1>1, <1>2, <1>3, <2>1
<1>10. Len(reads') <= MaxReads
  BY <1>2, <1>4, <1>8, BoundAssumption
<1>11. TypeOK'
  BY <1>4, <1>9, <1>10 DEF Inv, TypeOK
<1> QED BY <1>4, <1>8, <1>11 DEF Inv, Reading

LEMMA CallbackRewritesInv ==
  ASSUME Inv, NEW item \in Items, CallbackRewrites(item)
  PROVE  Inv'
<1>1. /\ who = "callback" /\ who' = who /\ items' = <<item>> /\ stream' = Encode(item)
      /\ payload' = Encode(item) /\ at' = 0 /\ reads' = <<>>
      /\ UNCHANGED <<id, packet, passes>>
  BY DEF CallbackRewrites
<1>2. /\ items' \in Seq(Items) /\ Len(items') <= MaxItems
      /\ payload' \in Seq(BIT) /\ RoomFor(items', payload') /\ stream' = payload'
  BY <1>1, Alone
<1>3. Filled(payload', stream')
  BY <1>2, FilledSame
<1>4. 0 \in 0..Len(stream') /\ 0 <= MaxReads
  <2>1. Len(stream') \in Nat
    BY <1>2, LenProperties
  <2> QED BY <2>1, BoundAssumption
<1>5. TypeOK'
  BY <1>1, <1>2, <1>4, NothingRead DEF Inv, TypeOK
<1> QED BY <1>1, <1>2, <1>3, <1>5, NothingRead DEF Inv, Reading

LEMMA CallbackAddsInv ==
  ASSUME Inv, NEW item \in Items, CallbackAdds(item)
  PROVE  Inv'
<1>1. /\ who = "callback" /\ who' = who /\ Len(items) < MaxItems /\ (items = <<>> => payload = <<>>)
      /\ items' = IF stream = payload THEN Append(items, item) ELSE <<>>
      /\ stream' = stream \o Encode(item) /\ payload' = stream \o Encode(item)
      /\ at' = 0 /\ reads' = <<>> /\ UNCHANGED <<id, packet, passes>>
  BY DEF CallbackAdds
<1>2. /\ items \in Seq(Items) /\ payload \in Seq(BIT) /\ RoomFor(items, payload)
      /\ Known(items, payload) /\ Filled(payload, stream)
  BY <1>1 DEF Inv, TypeOK, Reading, Known
<1>3. /\ items' \in Seq(Items) /\ Len(items') <= MaxItems
      /\ payload' \in Seq(BIT) /\ RoomFor(items', payload') /\ stream' = payload'
  <2>1. CASE stream = payload
    <3>1. items' = Append(items, item) /\ payload' = payload \o Encode(item)
      BY <1>1, <2>1
    <3> QED BY <1>1, <1>2, <3>1, OneMore
  <2>2. CASE stream # payload
    <3>1. items' = <<>>
      BY <1>1, <2>2
    <3> QED BY <1>1, <1>2, <3>1, BehindAGap
  <2> QED BY <2>1, <2>2
<1>4. Filled(payload', stream')
  BY <1>3, FilledSame
<1>5. 0 \in 0..Len(stream') /\ 0 <= MaxReads
  <2>1. Len(stream') \in Nat
    BY <1>3, LenProperties
  <2> QED BY <2>1, BoundAssumption
<1>6. TypeOK'
  BY <1>1, <1>3, <1>5, NothingRead DEF Inv, TypeOK
<1> QED BY <1>1, <1>3, <1>4, <1>6, NothingRead DEF Inv, Reading

LEMMA CallbackRefusesInv ==
  ASSUME Inv, CallbackRefuses
  PROVE  Inv'
BY OverInv DEF CallbackRefuses

LEMMA CallbackApprovesInv ==
  ASSUME Inv, NEW number \in Ids, CallbackApproves(number)
  PROVE  Inv'
<1>1. /\ who = "callback" /\ id' = number /\ packet' = Padded(Rpc(packet, number, Padded(stream)))
      /\ passes' = passes + 1 /\ who' = "HandleRPCPacket"
      /\ stream' = <<>> /\ at' = 0 /\ reads' = <<>>
      /\ UNCHANGED <<items, payload>>
  BY DEF CallbackApproves, Nobody
<1>2. /\ payload \in Seq(BIT) /\ Filled(payload, stream) /\ packet \in Headers
      /\ passes \in 0..MaxPasses /\ passes < MaxPasses
  BY <1>1 DEF Inv, TypeOK, Reading
<1> DEFINE bits == Padded(stream)
<1>3. Filled(payload, bits) /\ Len(bits) = Rounded(Len(payload))
  BY <1>2, FilledUp
<1> HIDE DEF bits
<1>4. /\ packet' \in Seq(BIT) /\ Len(packet') % 8 = 0
      /\ InPacket(packet', number, payload, Len(bits) = Rounded(Len(payload)))
  <2>1. packet' = Padded(Rpc(packet, number, bits))
    BY <1>1 DEF bits
  <2>2. IsPassedOn(Padded(Rpc(packet, number, bits)), number, payload, bits)
    BY <1>2, <1>3, PutIn
  <2> QED BY <2>1, <2>2 DEF IsPassedOn
<1>5. InPacket(packet', id', payload', passes' > 0)
  BY <1>1, <1>3, <1>4 DEF InPacket
<1>6. passes' \in 0..MaxPasses /\ 0 \in 0..0 /\ 0 <= MaxReads
  BY <1>1, <1>2, BoundAssumption
<1>7. TypeOK'
  BY <1>1, <1>4, <1>6, NothingRead DEF Inv, TypeOK
<1> QED BY <1>1, <1>5, <1>7, NothingRead DEF Inv, Reading

LEMMA StutterInv ==
  ASSUME Inv, UNCHANGED vars
  PROVE  Inv'
BY DEF Inv, TypeOK, Reading, vars

(* The invariant of every behaviour. *)
THEOREM Invariance == Spec => []Inv
<1>1. ASSUME Inv, [Next]_vars PROVE Inv'
  <2>1. ASSUME NEW item \in Items, Write(item) PROVE Inv'
    BY <1>1, <2>1, WriteInv
  <2>2. ASSUME NEW stamped \in BOOLEAN, NEW trailing \in {<<>>, Repeat(1, 8)}, ServerSends(stamped, trailing)
        PROVE  Inv'
    BY <1>1, <2>2, ServerSendsInv
  <2>3. ASSUME emul_rpc PROVE Inv'
    BY <1>1, <2>3, emul_rpcInv
  <2>4. ASSUME handle_rpc_packet PROVE Inv'
    BY <1>1, <2>4, handle_rpc_packetInv
  <2>5. ASSUME NEW kind \in Kinds, Read(kind) PROVE Inv'
    BY <1>1, <2>5, ReadInv
  <2>6. ASSUME NEW item \in Replacements, CallbackRewrites(item) \/ CallbackAdds(item) PROVE Inv'
    BY <1>1, <2>6, CallbackRewritesInv, CallbackAddsInv, ItemsAssumption
  <2>7. ASSUME CallbackRefuses PROVE Inv'
    BY <1>1, <2>7, CallbackRefusesInv
  <2>8. ASSUME NEW number \in Ids, CallbackApproves(number) PROVE Inv'
    BY <1>1, <2>8, CallbackApprovesInv
  <2>9. ASSUME OriginalHandles PROVE Inv'
    BY <1>1, <2>9, OriginalHandlesInv
  <2>10. ASSUME UNCHANGED vars PROVE Inv'
    BY <1>1, <2>10, StutterInv
  <2> QED BY <1>1, <2>1, <2>2, <2>3, <2>4, <2>5, <2>6, <2>7, <2>8, <2>9, <2>10 DEF Next
<1> QED BY InitInv, <1>1, PTL DEF Spec

(* Callbacks and the game see the bits that were written last, all of them  *)
(* and fewer than eight more, after any number of detours, for values,      *)
(* widths and bounds of any kind (SeesWhatWasWritten, rakhook.hpp:232-258   *)
(* and 272-280).                                                            *)
THEOREM BitsArrive == Spec => []SeesWhatWasWritten
<1>1. ASSUME Inv PROVE SeesWhatWasWritten
  <2>1. TypeOK /\ payload \in Seq(BIT) /\ RoomFor(items, payload)
    BY <1>1 DEF Inv, TypeOK
  <2>2. ASSUME Reading
        PROVE  /\ Len(payload) <= Len(stream) /\ Len(stream) < Len(payload) + 8
               /\ \A i \in 1..Len(payload) : stream[i] = payload[i]
    <3>1. Filled(payload, stream)
      BY <1>1, <2>2 DEF Inv
    <3>2. Len(payload) <= Len(stream) /\ Len(stream) < Len(payload) + 8
      BY <2>1, <3>1, FilledFits
    <3> QED BY <3>1, <3>2 DEF Filled, IsCut
  <2> QED BY <2>1, <2>2 DEF SeesWhatWasWritten
<1> QED BY Invariance, <1>1, PTL

(* What handle_rpc_packet passes on can be parsed, and has the number and   *)
(* the bits that the callbacks left (PassedOnInOrder, rakhook.hpp:272-280). *)
THEOREM PassesOn == Spec => []PassedOnInOrder
<1>1. ASSUME Inv PROVE PassedOnInOrder
  <2> SUFFICES ASSUME who = "HandleRPCPacket", passes > 0
               PROVE  LET p == Parse(packet)
                      IN  p.ok /\ p.number = id /\ p.bits = Rounded(Len(payload))
    BY DEF PassedOnInOrder
  <2>1. /\ packet \in Seq(BIT) /\ Len(packet) % 8 = 0 /\ id \in Words(8) /\ payload \in Seq(BIT)
        /\ RoomFor(items, payload) /\ InPacket(packet, id, payload, passes > 0)
    BY <1>1, NumbersAre DEF Inv, TypeOK
  <2> QED BY <2>1, HandedOn
<1> QED BY Invariance, <1>1, PTL

(* A read that returns true has read every part of its value, wherever the  *)
(* stream ends, of every kind but two (ShortReadsAreRefused,                *)
(* BitStream.h:1149-1214, 880-889).                                         *)
THEOREM NoPartIsMissing == Spec => []ShortReadsAreRefused
<1>1. ASSUME Inv PROVE ShortReadsAreRefused
  <2>1. reads \in Seq(Outcome)
    BY <1>1 DEF Inv
  <2>2. ASSUME NEW k \in 1..Len(reads), reads[k].kind \notin {"player", "normVector"}
        PROVE  IsWhole(k)
    <3>1. reads[k] \in Outcome
      BY <2>1, LenProperties
    <3>2. IsWholeRead(reads[k])
      BY <2>2, <3>1 DEF Outcome
    <3> QED BY <3>2 DEF IsWholeRead, IsWhole
  <2> QED BY <2>2 DEF ShortReadsAreRefused
<1> QED BY Invariance, <1>1, PTL

-----------------------------------------------------------------------------
(* What readers get.                                                        *)

(* The bits of a number stand for it. *)
LEMMA NumberIs ==
  ASSUME NEW n \in Nat, NEW q \in 0..(2^n - 1)
  PROVE  Number(Bits(q, n)) = q
<1> DEFINE w == Bits(q, n)
           limit == 2^n
<1>0. limit \in Nat \ {0}
  BY PowerOfTwo
<1>1. q \in Nat
  <2> HIDE DEF limit
  <2>1. q \in 0..(limit - 1)
    BY DEF limit
  <2> QED BY <1>0, <2>1
<1>2. w \in Seq(BIT) /\ Len(w) = n
  BY <1>1, BitsType
<1>3. Number(w) \in 0..(limit - 1) /\ Bits(Number(w), n) = w
  <2> HIDE DEF w
  <2>1. \E k \in 0..(2^Len(w) - 1) : Bits(k, Len(w)) = w
    BY <1>2 DEF w
  <2>2. Number(w) \in 0..(2^Len(w) - 1) /\ Bits(Number(w), Len(w)) = w
    BY <2>1 DEF Number
  <2> QED BY <1>2, <2>2
<1> DEFINE r == Number(w)
<1> HIDE DEF r
<1>4. r \in 0..(limit - 1) /\ Bits(r, n) = Bits(q, n)
  BY <1>3 DEF r
<1>5. ASSUME NEW e \in 0..(n - 1) PROVE (q \div 2^e) % 2 = (r \div 2^e) % 2
  <2> DEFINE i == n - e
  <2>1. i \in 1..n /\ n - i = e
    OBVIOUS
  <2> HIDE DEF i
  <2>2. Bits(r, n)[i] = (r \div 2^(n - i)) % 2 /\ Bits(q, n)[i] = (q \div 2^(n - i)) % 2
    BY <2>1 DEF Bits
  <2> QED BY <1>4, <2>1, <2>2
<1>6. q = r
  BY <1>4, <1>5, BitsDetermine
<1> QED BY <1>6 DEF r

(* x d-ths of s. *)
LEMMA Scaled ==
  ASSUME NEW s \in Nat, NEW d \in Nat \ {0}, NEW x \in Nat, x <= d
  PROVE  /\ (x * s) \div d \in 0..s /\ d * ((x * s) \div d) \in Nat
         /\ d * ((x * s) \div d) <= x * s /\ x * s < d * ((x * s) \div d) + d
<1> DEFINE y == x * s
           q == y \div d
           m == d * q
<1>1. y \in Nat /\ d * s \in Nat /\ y <= d * s
  BY Times
<1> HIDE DEF y
<1>2. q \in Nat /\ y % d \in 0..(d - 1) /\ y = d * q + (y % d)
  BY <1>1, Division
<1> HIDE DEF q
<1>3. m \in Nat /\ m <= y /\ y < m + d
  <2>1. m \in Nat
    BY <1>2
  <2> DEFINE u == y % d
  <2>2. u \in 0..(d - 1) /\ y = m + u
    BY <1>2
  <2> HIDE DEF m, u
  <2> QED BY <2>1, <2>2
<1>4. q <= s
  <2> SUFFICES ASSUME s < q PROVE FALSE
    BY <1>2
  <2>1. s + 1 \in Nat /\ s + 1 <= q
    BY <1>2
  <2>2. d * (s + 1) <= d * q
    <3>1. (s + 1) * d <= q * d
      BY <1>2, <2>1, Times
    <3>2. (s + 1) * d = d * (s + 1) /\ q * d = d * q
      BY <1>2
    <3> QED BY <3>1, <3>2
  <2> DEFINE ds == d * s
  <2>3. d * (s + 1) = ds + d /\ ds \in Nat
    BY <1>1
  <2>4. ds + d <= m /\ m <= y /\ y <= ds
    BY <1>1, <1>3, <2>2, <2>3
  <2> HIDE DEF ds, m
  <2> QED BY <1>1, <1>3, <2>3, <2>4
<1> QED BY <1>2, <1>3, <1>4 DEF q, y

LEMMA FloatsAreNear ==
  ASSUME NEW n \in Fractions
  PROVE  /\ Near(CompressedFloat(n), n) /\ NearFraction(Fraction(n), n)
         /\ Number(CompressedFloat(n)) \in 0..Steps /\ Number(Fraction(n)) \in 0..Steps
<1>1. /\ Grid \in Nat \ {0} /\ n \in Int /\ n + Grid \in Nat /\ n + Grid <= 2 * Grid /\ 2 * Grid \in Nat \ {0}
      /\ Magnitude(n) \in Nat /\ Magnitude(n) <= Grid
  BY WidthAssumption DEF Fractions, Magnitude
<1>2. Steps \in Nat
  BY StepsType
<1>3. ASSUME NEW q \in 0..Steps PROVE Number(Bits(q, Short)) = q
  BY StepsType, NumberIs DEF Steps
<1> DEFINE x == n + Grid
           q == (x * Steps) \div (2 * Grid)
           f == (Magnitude(n) * Steps) \div Grid
<1>4. q \in 0..Steps /\ (2 * Grid) * q <= x * Steps /\ x * Steps < (2 * Grid) * q + 2 * Grid
  <2> DEFINE d == 2 * Grid
  <2>1. x \in Nat /\ d \in Nat \ {0} /\ x <= d
    BY <1>1
  <2> HIDE DEF x, d
  <2>2. /\ (x * Steps) \div d \in 0..Steps
        /\ d * ((x * Steps) \div d) <= x * Steps /\ x * Steps < d * ((x * Steps) \div d) + d
    BY <1>2, <2>1, Scaled
  <2> QED BY <2>2 DEF d
<1>5. f \in 0..Steps /\ Grid * f <= Magnitude(n) * Steps /\ Magnitude(n) * Steps < Grid * f + Grid
  <2> DEFINE y == Magnitude(n)
  <2>1. y \in Nat /\ y <= Grid
    BY <1>1
  <2> HIDE DEF y
  <2>2. /\ (y * Steps) \div Grid \in 0..Steps
        /\ Grid * ((y * Steps) \div Grid) <= y * Steps /\ y * Steps < Grid * ((y * Steps) \div Grid) + Grid
    BY <1>1, <1>2, <2>1, Scaled
  <2> QED BY <2>2 DEF y
<1>6. CompressedFloat(n) = Bits(q, Short) /\ Fraction(n) = Bits(f, Short)
  BY DEF CompressedFloat, Fraction
<1> HIDE DEF q, f
<1>7. Number(CompressedFloat(n)) = q /\ Number(Fraction(n)) = f
  BY <1>3, <1>4, <1>5, <1>6
<1>8. Near(CompressedFloat(n), n)
  <2> DEFINE a == q * Grid
             s == Grid * Steps
             t == n * Steps
             z == (2 * q - Steps) * Grid - n * Steps
  <2>1. a \in Int /\ s \in Int /\ t \in Int
    BY <1>1, <1>2, <1>4
  <2>2. (2 * Grid) * q = 2 * a /\ x * Steps = t + s
    BY <1>1, <1>2, <1>4
  <2>3. z = 2 * a - s - t
    BY <1>1, <1>2, <1>4
  <2>4. 2 * a <= t + s /\ t + s < 2 * a + 2 * Grid
    BY <1>4, <2>2
  <2> HIDE DEF a, s, t, z
  <2>5. z \in Int /\ z <= 0 /\ -z <= 2 * Grid
    BY <1>1, <2>1, <2>3, <2>4
  <2>6. Magnitude(z) <= 2 * Grid
    BY <1>1, <2>5 DEF Magnitude
  <2> QED BY <1>7, <2>6 DEF Near, z
<1>9. NearFraction(Fraction(n), n)
  <2> DEFINE a == f * Grid
             t == Magnitude(n) * Steps
             z == a - t
  <2>1. a \in Int /\ t \in Int
    BY <1>1, <1>2, <1>5
  <2>2. Grid * f = a
    BY <1>1, <1>5
  <2>4. a <= t /\ t < a + Grid
    BY <1>5, <2>2
  <2> HIDE DEF a, t
  <2>5. z \in Int /\ z <= 0 /\ -z <= Grid
    BY <1>1, <2>1, <2>4
  <2>6. Magnitude(z) <= Grid
    BY <1>1, <2>5 DEF Magnitude
  <2> QED BY <1>7, <2>6 DEF NearFraction, a, t
<1> QED BY <1>4, <1>5, <1>7, <1>8, <1>9

(* The same for a double, which is not 1. *)
LEMMA DoublesAreNear ==
  ASSUME NEW n \in Fractions \ {Grid}
  PROVE  NearDouble(CompressedDouble(n), n)
<1> DEFINE x == n + Grid
           power == 2^Long
           d == 2 * Grid
           q == (x * power) \div d
<1>1. Grid \in Nat \ {0} /\ n \in Int /\ x \in Nat /\ x + 1 <= d /\ d \in Nat \ {0}
  BY WidthAssumption DEF Fractions
<1>2. power \in Nat \ {0} /\ Long \in Nat
  BY StepsType, PowerOfTwo
<1>3. ASSUME NEW i \in 0..power - 1 PROVE Number(Bits(i, Long)) = i
  BY <1>2, NumberIs
<1>4. CompressedDouble(n) = Bits(q, Long)
  BY DEF CompressedDouble
<1> HIDE DEF power
<1>5. /\ q \in 0..power /\ d * q \in Nat /\ d * q <= x * power /\ x * power < d * q + d
  <2> HIDE DEF x, d
  <2>1. x <= d
    BY <1>1
  <2> QED BY <1>1, <1>2, <2>1, Scaled
<1>6. q # power
  <2> HIDE DEF x, d, q
  <2> SUFFICES ASSUME q = power PROVE FALSE
    OBVIOUS
  <2>1. (x + 1) * power <= d * power /\ (x + 1) * power = x * power + power /\ x * power \in Nat
    BY <1>1, <1>2, Times
  <2>2. d * power <= x * power
    BY <1>5
  <2> DEFINE xp == x * power
             dp == d * power
  <2>3. dp \in Nat
    BY <1>1, <1>2
  <2> HIDE DEF xp, dp
  <2>4. xp + power <= dp /\ dp <= xp /\ xp \in Nat
    BY <2>1, <2>2 DEF xp, dp
  <2> QED BY <1>2, <2>3, <2>4
<1>7. q \in 0..power - 1
  <2> HIDE DEF q
  <2> QED BY <1>2, <1>5, <1>6
<1> HIDE DEF q
<1>8. Number(CompressedDouble(n)) = q
  BY <1>3, <1>4, <1>7
<1> DEFINE a == q * Grid
           s == Grid * power
           t == n * power
           z == (2 * q - power) * Grid - n * power
<1>9. a \in Int /\ s \in Int /\ t \in Int
  BY <1>1, <1>2, <1>7
<1>10. d * q = 2 * a /\ x * power = t + s
  BY <1>1, <1>2, <1>7
<1>11. z = 2 * a - s - t
  BY <1>1, <1>2, <1>7
<1>12. 2 * a <= t + s /\ t + s < 2 * a + 2 * Grid
  BY <1>5, <1>10
<1> HIDE DEF a, s, t, z
<1>13. z \in Int /\ z <= 0 /\ -z <= 2 * Grid
  BY <1>1, <1>9, <1>11, <1>12
<1>14. Magnitude(z) <= 2 * Grid
  BY <1>1, <1>13 DEF Magnitude
<1> QED BY <1>8, <1>14 DEF NearDouble, z, power

(* Squares of numbers that are near to each other are near, too. *)
LEMMA ProductBound ==
  ASSUME NEW a \in Int, NEW b \in Int, NEW m \in Nat, NEW n \in Nat,
         -m <= a, a <= m, -n <= b, b <= n
  PROVE  -(m * n) <= a * b /\ a * b <= m * n
<1>1. ASSUME NEW i \in Nat, NEW j \in Nat PROVE i * j \in Nat
  BY <1>1
<1>2. (m - a) * (n + b) \in Nat /\ (m + a) * (n - b) \in Nat /\ (m - a) * (n - b) \in Nat /\ (m + a) * (n + b) \in Nat
  <2>1. m - a \in Nat /\ m + a \in Nat /\ n - b \in Nat /\ n + b \in Nat
    OBVIOUS
  <2> QED BY <1>1, <2>1
<1> DEFINE u == a * b
           v == m * n
           an == a * n
           mb == m * b
<1>3. /\ (m - a) * (n + b) = v + mb - an - u /\ (m + a) * (n - b) = v - mb + an - u
      /\ (m - a) * (n - b) = v - mb - an + u /\ (m + a) * (n + b) = v + mb + an + u
  OBVIOUS
<1>4. u \in Int /\ v \in Int /\ an \in Int /\ mb \in Int
  OBVIOUS
<1> HIDE DEF u, v, an, mb
<1>5. v + mb - an - u >= 0 /\ v - mb + an - u >= 0 /\ v - mb - an + u >= 0 /\ v + mb + an + u >= 0
  BY <1>2, <1>3
<1>6. -v <= u /\ u <= v
  BY <1>4, <1>5
<1> QED BY <1>6 DEF u, v

LEMMA SquaresAreNear ==
  ASSUME NEW g \in Nat, NEW s \in Nat, NEW k \in Nat, NEW c \in Int, NEW n \in Int,
         -g <= n, n <= g, -s <= c, c <= s, -(k * g) <= c * g - n * s, c * g - n * s <= k * g
  PROVE  /\ (c * c) * (g * g) - (n * n) * (s * s) <= (2 * k) * ((g * g) * s)
         /\ -((2 * k) * ((g * g) * s)) <= (c * c) * (g * g) - (n * n) * (s * s)
<1> DEFINE cg == c * g
           ns == n * s
           gs == g * s
           a == cg - ns
           b == cg + ns
           m == k * g
<1>1. cg \in Int /\ ns \in Int /\ gs \in Nat /\ m \in Nat
  OBVIOUS
<1>2. -gs <= cg /\ cg <= gs
  <2>1. -(s * g) <= c * g /\ c * g <= s * g
    BY ProductBound
  <2> QED BY <2>1
<1>3. -gs <= ns /\ ns <= gs
  <2>1. -(g * s) <= n * s /\ n * s <= g * s
    BY ProductBound
  <2> QED BY <2>1
<1>4. a * b = (c * c) * (g * g) - (n * n) * (s * s)
  OBVIOUS
<1>5. m * (2 * gs) = (2 * k) * ((g * g) * s)
  OBVIOUS
<1>6. a \in Int /\ b \in Int /\ -m <= a /\ a <= m
  BY <1>1
<1> HIDE DEF cg, ns, gs, m
<1>7. -(2 * gs) <= b /\ b <= 2 * gs /\ 2 * gs \in Nat
  BY <1>1, <1>2, <1>3
<1> DEFINE d == 2 * gs
<1> HIDE DEF a, b, d
<1>8. d \in Nat /\ -d <= b /\ b <= d /\ m * d = (2 * k) * ((g * g) * s)
  BY <1>5, <1>7 DEF d
<1>9. -(m * d) <= a * b /\ a * b <= m * d
  BY <1>1, <1>6, <1>8, ProductBound
<1> QED BY <1>4, <1>8, <1>9

(* What is behind a flag for zero, or stands for it. *)
FlaggedWord(n) == IF n = 0 THEN No ELSE CompressedFloat(n)

LEMMA FlaggedWordIs ==
  ASSUME NEW n \in Fractions
  PROVE  /\ FlaggedWord(n) # Unset /\ NearOrZero(FlaggedWord(n), n)
         /\ Coordinate(FlaggedWord(n)) \in Int
         /\ -Steps <= Coordinate(FlaggedWord(n)) /\ Coordinate(FlaggedWord(n)) <= Steps
         /\ -(2 * Grid) <= Coordinate(FlaggedWord(n)) * Grid - n * Steps
         /\ Coordinate(FlaggedWord(n)) * Grid - n * Steps <= 2 * Grid
<1>1. Grid \in Nat \ {0} /\ n \in Int /\ Steps \in Nat /\ Short \in Nat /\ 1 < Short
  BY WidthAssumption, StepsType DEF Fractions
<1>2. CASE n = 0
  <2>1. FlaggedWord(n) = No
    BY <1>2 DEF FlaggedWord
  <2>2. Coordinate(No) = 0
    BY DEF Coordinate
  <2>3. No # Unset
    BY DEF No, Unset
  <2>4. 0 * Grid - 0 * Steps = 0
    BY <1>1
  <2> QED BY <1>1, <1>2, <2>1, <2>2, <2>3, <2>4 DEF NearOrZero
<1>3. CASE n # 0
  <2> DEFINE w == CompressedFloat(n)
             q == Number(w)
  <2>1. FlaggedWord(n) = w
    BY <1>3 DEF FlaggedWord
  <2>2. Len(w) = Short /\ Near(w, n) /\ q \in 0..Steps
    BY FloatType, FloatsAreNear
  <2> HIDE DEF w
  <2>3. w # No /\ w # Unset
    <3>1. Len(No) = 1 /\ Len(Unset) = 0
      BY DEF No, Unset
    <3>2. Len(w) # 1 /\ Len(w) # 0
      BY <1>1, <2>2
    <3> QED BY <3>1, <3>2
  <2>4. Coordinate(w) = 2 * q - Steps
    BY <2>3 DEF Coordinate
  <2> DEFINE d == (2 * q - Steps) * Grid - n * Steps
  <2>5. Magnitude(d) <= 2 * Grid
    BY <2>2 DEF Near
  <2>6. d \in Int
    <3>1. q \in Int /\ Grid \in Int /\ Steps \in Int /\ n \in Int
      BY <1>1, <2>2
    <3> HIDE DEF q
    <3> QED BY <3>1
  <2>7. -(2 * Grid) <= d /\ d <= 2 * Grid
    <3> HIDE DEF d
    <3> QED BY <1>1, <2>5, <2>6 DEF Magnitude
  <2>8. NearOrZero(w, n)
    BY <1>3, <2>2 DEF NearOrZero
  <2> HIDE DEF q
  <2>9. Coordinate(w) \in Int /\ -Steps <= Coordinate(w) /\ Coordinate(w) <= Steps
    BY <1>1, <2>2, <2>4
  <2> QED BY <2>1, <2>3, <2>4, <2>7, <2>8, <2>9
<1> QED BY <1>2, <1>3

(* The square of x, made of those of y and z. *)
LEMMA SquareOfXIsNear ==
  ASSUME NEW x \in Fractions, NEW y \in Fractions, NEW z \in Fractions,
         x * x + y * y + z * z = Grid * Grid
  PROVE  NearSquare(SquareOfX(FlaggedWord(y), FlaggedWord(z)), x, 8)
<1> DEFINE c == Coordinate(FlaggedWord(y))
           d == Coordinate(FlaggedWord(z))
           g == Grid
           s == Steps
           part == Steps * Steps - c * c - d * d
<1>1. /\ g \in Nat /\ s \in Nat /\ x \in Int /\ y \in Int /\ z \in Int
      /\ -g <= y /\ y <= g /\ -g <= z /\ z <= g
  BY WidthAssumption, StepsType DEF Fractions
<1>2. SquareOfX(FlaggedWord(y), FlaggedWord(z))[1] = part
  BY FlaggedWordIs DEF SquareOfX
<1>3. /\ c \in Int /\ -s <= c /\ c <= s /\ -(2 * g) <= c * g - y * s /\ c * g - y * s <= 2 * g
      /\ d \in Int /\ -s <= d /\ d <= s /\ -(2 * g) <= d * g - z * s /\ d * g - z * s <= 2 * g
  BY FlaggedWordIs
<1>4. x * x + y * y + z * z = g * g
  OBVIOUS
<1> HIDE DEF c, d, g, s
<1> DEFINE yy == (c * c) * (g * g) - (y * y) * (s * s)
           zz == (d * d) * (g * g) - (z * z) * (s * s)
           e == (g * g) * s
<1>5. -((2 * 2) * e) <= yy /\ yy <= (2 * 2) * e
  BY <1>1, <1>3, SquaresAreNear
<1>6. -((2 * 2) * e) <= zz /\ zz <= (2 * 2) * e
  BY <1>1, <1>3, SquaresAreNear
<1> DEFINE off == (s * s - c * c - d * d) * g * g - x * x * s * s
<1>7. off = -yy - zz
  <2>1. x * x = g * g - y * y - z * z
    BY <1>1, <1>4
  <2>2. off = (s * s - c * c - d * d) * (g * g) - (x * x) * (s * s)
    BY <1>1, <1>3
  <2>3. off = (s * s - c * c - d * d) * (g * g) - (g * g - y * y - z * z) * (s * s)
    BY <2>1, <2>2
  <2> HIDE DEF off
  <2> QED BY <1>1, <1>3, <2>3
<1>8. yy \in Int /\ zz \in Int /\ e \in Int /\ off \in Int
  BY <1>1, <1>3
<1>9. 8 * g * g * s = 8 * e
  BY <1>1
<1> HIDE DEF yy, zz, e, off
<1>10. off \in Int /\ -(8 * e) <= off /\ off <= 8 * e
  BY <1>5, <1>6, <1>7, <1>8
<1>11. Magnitude(off) <= 8 * e
  BY <1>8, <1>10 DEF Magnitude
<1>12. Magnitude(off) <= 8 * g * g * s
  BY <1>9, <1>11
<1> QED BY <1>2, <1>12 DEF NearSquare, off, g, s

(* The square of w, made of those of x, y and z, or 0 if they make less. *)
LEMMA SquareOfWIsNear ==
  ASSUME NEW w \in Fractions, NEW x \in Fractions, NEW y \in Fractions, NEW z \in Fractions,
         w * w + x * x + y * y + z * z = Grid * Grid
  PROVE  NearSquare(SquareOfW(Fraction(x), Fraction(y), Fraction(z)), w, 6)
<1> DEFINE b == Number(Fraction(x))
           c == Number(Fraction(y))
           d == Number(Fraction(z))
           g == Grid
           s == Steps
           t == s * s - b * b - c * c - d * d
           part == Max({0, t})
           e == (g * g) * s
<1>1. /\ g \in Nat /\ s \in Nat /\ w \in Int /\ x \in Int /\ y \in Int /\ z \in Int
  BY WidthAssumption, StepsType DEF Fractions
<1>2. SquareOfW(Fraction(x), Fraction(y), Fraction(z))[1] = part
  BY DEF SquareOfW
<1>3. ASSUME NEW n \in Fractions
      PROVE  LET q == Number(Fraction(n))
             IN  /\ q \in Int /\ (q * q) * (g * g) - (n * n) * (s * s) <= 2 * e
                 /\ -(2 * e) <= (q * q) * (g * g) - (n * n) * (s * s)
  <2> DEFINE q == Number(Fraction(n))
             m == Magnitude(n)
             off == q * g - m * s
  <2>1. m \in Int /\ -g <= m /\ m <= g /\ m * m = n * n
    BY <1>1 DEF Fractions, Magnitude
  <2>2. q \in 0..s /\ Magnitude(off) <= g
    BY FloatsAreNear DEF NearFraction
  <2>3. off \in Int
    BY <1>1, <2>1, <2>2
  <2>4. -g <= off /\ off <= g
    <3> HIDE DEF off
    <3> QED BY <1>1, <2>2, <2>3 DEF Magnitude
  <2> HIDE DEF q, m, g, s
  <2>5. q \in Int /\ -s <= q /\ q <= s
    BY <1>1, <2>2
  <2>6. -(1 * g) <= q * g - m * s /\ q * g - m * s <= 1 * g
    BY <1>1, <2>4
  <2>7. /\ (q * q) * (g * g) - (m * m) * (s * s) <= (2 * 1) * e
        /\ -((2 * 1) * e) <= (q * q) * (g * g) - (m * m) * (s * s)
    BY <1>1, <2>1, <2>5, <2>6, SquaresAreNear
  <2>8. (2 * 1) * e = 2 * e
    BY <1>1
  <2>9. /\ (q * q) * (g * g) - (n * n) * (s * s) <= 2 * e
        /\ -(2 * e) <= (q * q) * (g * g) - (n * n) * (s * s)
    BY <2>1, <2>7, <2>8
  <2> QED BY <2>5, <2>9 DEF q
<1>4. w * w + x * x + y * y + z * z = g * g
  OBVIOUS
<1> DEFINE xx == (b * b) * (g * g) - (x * x) * (s * s)
           yy == (c * c) * (g * g) - (y * y) * (s * s)
           zz == (d * d) * (g * g) - (z * z) * (s * s)
<1>5. /\ b \in Int /\ -(2 * e) <= xx /\ xx <= 2 * e
      /\ c \in Int /\ -(2 * e) <= yy /\ yy <= 2 * e
      /\ d \in Int /\ -(2 * e) <= zz /\ zz <= 2 * e
  BY <1>3
<1> HIDE DEF b, c, d, g, s
<1> DEFINE tt == t * (g * g)
           ww == (w * w) * (s * s)
<1>6. tt - ww = -xx - yy - zz
  <2>1. w * w = g * g - x * x - y * y - z * z
    BY <1>1, <1>4
  <2>2. ww = (g * g - x * x - y * y - z * z) * (s * s)
    BY <2>1
  <2> HIDE DEF ww
  <2> QED BY <1>1, <1>5, <2>2
<1>7. xx \in Int /\ yy \in Int /\ zz \in Int /\ e \in Nat /\ t \in Int /\ tt \in Int /\ ww \in Nat
  <2>1. \A i \in Int : i * i \in Nat
    OBVIOUS
  <2>2. (w * w) \in Nat /\ (s * s) \in Nat
    BY <1>1, <2>1
  <2>3. \A i, j \in Nat : i * j \in Nat
    OBVIOUS
  <2>4. ww \in Nat /\ e \in Nat
    BY <1>1, <2>2, <2>3
  <2> QED BY <1>1, <1>5, <2>4
<1>8. part = (IF t < 0 THEN 0 ELSE t)
  <2> DEFINE T == {0, t}
             i == IF t < 0 THEN 0 ELSE t
  <2> HIDE DEF t
  <2>1. T \in SUBSET Int /\ i \in T /\ \A j \in T : j <= i
    BY <1>7
  <2> HIDE DEF T, i
  <2>2. Max(T) = i
    BY <2>1, MaxIs
  <2> QED BY <2>2 DEF T, i
<1> DEFINE off == part * g * g - w * w * s * s
<1>9. off = (IF t < 0 THEN 0 ELSE tt) - ww
  <2>1. CASE t < 0
    <3>1. part = 0
      BY <1>8, <2>1
    <3> HIDE DEF part, t
    <3>2. off = -ww
      BY <1>1, <3>1
    <3> HIDE DEF off, ww
    <3> QED BY <1>7, <2>1, <3>2
  <2>2. CASE ~(t < 0)
    <3>1. part = t
      BY <1>8, <2>2
    <3> HIDE DEF part, t
    <3>2. off = tt - ww
      BY <1>1, <1>7, <3>1
    <3> HIDE DEF off, ww, tt
    <3> QED BY <2>2, <3>2
  <2> QED BY <2>1, <2>2
<1>10. t < 0 => tt <= 0
  <2> HIDE DEF t
  <2> SUFFICES ASSUME t < 0 PROVE tt <= 0
    OBVIOUS
  <2> DEFINE gg == g * g
             u == -t
  <2>1. gg \in Nat /\ u \in Nat
    BY <1>1, <1>7
  <2>2. tt = -(u * gg)
    BY <1>1, <1>7
  <2> HIDE DEF gg, u, tt
  <2>3. u * gg \in Nat
    BY <2>1
  <2> QED BY <2>2, <2>3
<1>11. 6 * g * g * s = 6 * e
  BY <1>1
<1> HIDE DEF xx, yy, zz, e, off, tt, ww, t
<1>12. off \in Int /\ -(6 * e) <= off /\ off <= 6 * e
  BY <1>5, <1>6, <1>7, <1>9, <1>10
<1>13. Magnitude(off) <= 6 * e
  BY <1>7, <1>12 DEF Magnitude
<1>14. Magnitude(off) <= 6 * g * g * s
  BY <1>11, <1>13
<1> QED BY <1>2, <1>14 DEF NearSquare, off, g, s

(* A value that was written and read again, and where the reader is then. *)
IsBack(r, end, item) == r.ok = TRUE /\ r.at = end /\ IsValue(r.v, item)

LEMMA SingleBack ==
  ASSUME NEW end, NEW w
  PROVE  Single([ok |-> TRUE, at |-> end, v |-> w]) = [ok |-> TRUE, at |-> end, v |-> <<w>>]
<1> DEFINE r == [ok |-> TRUE, at |-> end, v |-> w]
<1>1. Single(r) = [r EXCEPT !.v = <<w>>]
  <2>1. r.v = w
    OBVIOUS
  <2> HIDE DEF r
  <2> QED BY <2>1, Zenon DEF Single
<1>2. [r EXCEPT !.v = <<w>>] = [ok |-> TRUE, at |-> end, v |-> <<w>>]
  BY ONLY Record, Zenon
<1> QED BY <1>1, <1>2

(* The values that are a variable and nothing else. *)
LEMMA WordsBack ==
  ASSUME NEW b \in Seq(BIT), NEW p \in Nat, NEW w \in Seq(BIT), Holds(b, p, w)
  PROVE  Single(Take(b, p, Len(w))) = [ok |-> TRUE, at |-> p + Len(w), v |-> <<w>>]
BY TakeHolds, SingleBack

LEMMA CompressedBack ==
  ASSUME NEW b \in Seq(BIT), NEW p \in Nat, NEW n \in Nat \ {0}, NEW w \in Seq(BIT), Len(w) = 8 * n,
         Holds(b, p, Compressed(w))
  PROVE  Single(ReadCompressed(b, p, n)) = [ok |-> TRUE, at |-> p + Len(Compressed(w)), v |-> <<w>>]
<1>1. ReadCompressed(b, p, n) = [ok |-> TRUE, at |-> p + Len(Compressed(w)), v |-> w]
  BY ReadsCompressed
<1> QED BY <1>1, SingleBack

LEMMA PlayerBack ==
  ASSUME NEW b \in Seq(BIT), NEW p \in Nat, NEW address \in Words(Long), NEW port \in Words(Short),
         Holds(b, p, address \o port)
  PROVE  ReadPlayer(b, p) = [ok |-> TRUE, at |-> p + Len(address \o port), v |-> <<address, port>>]
<1>1. /\ address \in Seq(BIT) /\ Len(address) = Long /\ port \in Seq(BIT) /\ Len(port) = Short
      /\ Long \in Nat /\ Short \in Nat
  BY StepsType DEF Words
<1>2. Holds(b, p, address) /\ Holds(b, p + Long, port)
  BY <1>1, HoldsConcat
<1>3. Take(b, p, Long) = [ok |-> TRUE, at |-> p + Long, v |-> address]
  BY <1>1, <1>2, TakeIs
<1> DEFINE q == p + Long
<1>4. Take(b, q, Short) = [ok |-> TRUE, at |-> q + Short, v |-> port]
  <2>1. q \in Nat /\ Holds(b, q, port)
    BY <1>1, <1>2
  <2> HIDE DEF q
  <2> QED BY <1>1, <2>1, TakeIs
<1>5. ReadPlayer(b, p) = [ok |-> TRUE, at |-> q + Short, v |-> <<address, port>>]
  <2> HIDE DEF q
  <2>1. Take(b, p, Long).at = q /\ Take(b, p, Long).v = address
    BY <1>3 DEF q
  <2>2. Take(b, q, Short).at = q + Short /\ Take(b, q, Short).v = port /\ Take(b, q, Short).ok = TRUE
    BY <1>4
  <2> QED BY <2>1, <2>2, Zenon DEF ReadPlayer, TakeNext
<1>6. p + Len(address \o port) = q + Short
  <2>1. Len(address \o port) = Len(address) + Len(port)
    BY <1>1, Joined
  <2> QED BY <1>1, <2>1
<1> QED BY <1>5, <1>6

(* A flag that says whether the value is behind it or is the caller's. *)
LEMMA NoFlagBack ==
  ASSUME NEW b \in Seq(BIT), NEW p \in Nat, Holds(b, p, No), NEW old, NEW rest,
         NEW r \in ReadFlagged(b, p, old, rest)
  PROVE  r = [ok |-> TRUE, at |-> p + 1, v |-> <<old>>]
<1> DEFINE flag == Take(b, p, 1)
<1>1. flag = [ok |-> TRUE, at |-> p + 1, v |-> No]
  BY TakeFlag
<1>2. flag.ok = TRUE /\ flag.at = p + 1 /\ flag.v = No
  BY <1>1
<1>3. Flag(flag) = {No}
  <2> HIDE DEF flag
  <2> QED BY <1>2 DEF Flag
<1>4. r = IF No = Yes THEN [rest EXCEPT !.v = IF rest.v = Unset THEN <<old>> ELSE <<rest.v>>]
          ELSE [ok |-> flag.ok, at |-> flag.at, v |-> <<old>>]
  BY <1>3, Zenon DEF ReadFlagged
<1> HIDE DEF flag
<1> QED BY <1>2, <1>4, FlagType

LEMMA FlagBack ==
  ASSUME NEW b \in Seq(BIT), NEW p \in Nat, Holds(b, p, Yes), NEW old, NEW end, NEW w, w # Unset,
         NEW rest, rest = [ok |-> TRUE, at |-> end, v |-> w],
         NEW r \in ReadFlagged(b, p, old, rest)
  PROVE  r = [ok |-> TRUE, at |-> end, v |-> <<w>>]
<1> DEFINE flag == Take(b, p, 1)
<1>1. flag = [ok |-> TRUE, at |-> p + 1, v |-> Yes]
  BY TakeFlag
<1>2. flag.ok = TRUE /\ flag.v = Yes
  BY <1>1
<1>3. Flag(flag) = {Yes}
  <2> HIDE DEF flag
  <2> QED BY <1>2 DEF Flag
<1> DEFINE value == IF rest.v = Unset THEN <<old>> ELSE <<rest.v>>
<1>4. r = [rest EXCEPT !.v = value]
  <2>1. Yes = Yes
    OBVIOUS
  <2> QED BY <1>3, <2>1, Zenon DEF ReadFlagged
<1>5. rest.v = w
  OBVIOUS
<1>6. value = <<w>>
  BY <1>5
<1> HIDE DEF value
<1>7. r = [[ok |-> TRUE, at |-> end, v |-> w] EXCEPT !.v = <<w>>]
  BY <1>4, <1>6
<1> QED BY ONLY <1>7, Record, Zenon

(* The same for a delta, which is word behind the flag, if it is there. *)
LEMMA DeltaBack ==
  ASSUME NEW b \in Seq(BIT), NEW p \in Nat, NEW w \in Integer, NEW last, NEW word \in Seq(BIT),
         NEW rest, NEW r \in ReadFlagged(b, p, last, rest),
         Holds(b, p, IF w = last THEN No ELSE Yes \o word),
         Holds(b, p + 1, word) => rest = [ok |-> TRUE, at |-> p + 1 + Len(word), v |-> w]
  PROVE  r = [ok |-> TRUE, at |-> p + Len(IF w = last THEN No ELSE Yes \o word), v |-> <<w>>]
<1>1. /\ Yes \in Seq(BIT) /\ Len(Yes) = 1 /\ Len(No) = 1 /\ Yes \in {Yes, No} /\ No \in {Yes, No}
      /\ w # Unset /\ Yes # No
  BY FlagType, IntegerType
<1>2. CASE w = last
  <2>1. Holds(b, p, No)
    BY <1>2
  <2>2. r = [ok |-> TRUE, at |-> p + 1, v |-> <<last>>]
    BY <2>1, NoFlagBack
  <2> QED BY <1>1, <1>2, <2>2
<1>3. CASE w # last
  <2>1. Holds(b, p, Yes) /\ Holds(b, p + 1, word)
    <3>1. Holds(b, p, Yes \o word)
      BY <1>3
    <3> QED BY <1>1, <3>1, HoldsConcat
  <2> DEFINE end == p + 1 + Len(word)
  <2>2. rest = [ok |-> TRUE, at |-> end, v |-> w]
    BY <2>1
  <2> HIDE DEF end
  <2>3. r = [ok |-> TRUE, at |-> end, v |-> <<w>>]
    BY <1>1, <2>1, <2>2, FlagBack
  <2>4. end = p + Len(Yes \o word)
    <3>1. Len(Yes \o word) = Len(Yes) + Len(word) /\ Len(word) \in Nat
      BY <1>1, Joined, LenProperties
    <3>2. Len(Yes \o word) = 1 + Len(word)
      BY <1>1, <3>1
    <3> QED BY <3>1, <3>2 DEF end
  <2> QED BY <1>3, <2>3, <2>4
<1> QED BY <1>2, <1>3

(* A number behind a flag for zero. *)
LEMMA FlaggedFloatBack ==
  ASSUME NEW b \in Seq(BIT), NEW p \in Nat, NEW n \in Fractions, Holds(b, p, FlaggedFloat(n))
  PROVE  /\ Take(b, p, 1) = [ok |-> TRUE, at |-> p + 1, v |-> IF n = 0 THEN Yes ELSE No]
         /\ n = 0 => Len(FlaggedFloat(n)) = 1
         /\ n # 0 => /\ Len(FlaggedFloat(n)) = 1 + Short
                     /\ Take(b, p + 1, Short) = [ok |-> TRUE, at |-> p + 1 + Short, v |-> CompressedFloat(n)]
<1> DEFINE c == CompressedFloat(n)
<1>1. c \in Seq(BIT) /\ Len(c) = Short /\ Short \in Nat
  BY FloatType, StepsType
<1>2. Len(Yes) = 1 /\ No \in Seq(BIT) /\ Len(No) = 1
  BY FlagType
<1>3. CASE n = 0
  <2>1. FlaggedFloat(n) = Yes
    BY <1>3 DEF FlaggedFloat
  <2>2. Take(b, p, 1) = [ok |-> TRUE, at |-> p + 1, v |-> Yes]
    BY <2>1, TakeFlag
  <2> QED BY <1>2, <1>3, <2>1, <2>2
<1>4. CASE n # 0
  <2>1. FlaggedFloat(n) = No \o c
    BY <1>4 DEF FlaggedFloat
  <2> HIDE DEF c
  <2>2. Holds(b, p, No) /\ Holds(b, p + 1, c)
    <3>1. Holds(b, p, No \o c)
      BY <2>1
    <3>2. Holds(b, p, No) /\ Holds(b, p + Len(No), c)
      BY <1>1, <1>2, <3>1, HoldsConcat
    <3> QED BY <1>2, <3>2
  <2>3. Len(No \o c) = Len(No) + Len(c)
    BY <1>1, <1>2, Joined
  <2>4. Len(No \o c) = 1 + Short
    BY <1>1, <1>2, <2>3
  <2>5. Take(b, p, 1) = [ok |-> TRUE, at |-> p + 1, v |-> No]
    BY <2>2, TakeFlag
  <2> DEFINE q == p + 1
  <2>6. Take(b, q, Short) = [ok |-> TRUE, at |-> q + Short, v |-> c]
    <3>1. q \in Nat /\ Holds(b, q, c)
      BY <2>2
    <3> HIDE DEF q
    <3> QED BY <1>1, <3>1, TakeIs
  <2> QED BY <1>4, <2>1, <2>4, <2>5, <2>6 DEF c
<1> QED BY <1>3, <1>4

LEMMA NormVectorBack ==
  ASSUME NEW b \in Seq(BIT), NEW p \in Nat, NEW x \in Fractions, NEW y \in Fractions, NEW z \in Fractions,
         x * x + y * y + z * z = Grid * Grid,
         Holds(b, p, NormVector(x, y, z)), NEW r \in ReadNormVector(b, p)
  PROVE  /\ r.ok = TRUE /\ r.at = p + Len(NormVector(x, y, z))
         /\ r.v[1] = Sign(x) /\ NearOrZero(r.v[2], y) /\ NearOrZero(r.v[3], z)
         /\ NearSquare(r.v[4], x, 8)
<1> DEFINE sx == Sign(x)
           fy == FlaggedFloat(y)
           fz == FlaggedFloat(z)
           a == p + 1
           c == a + Len(fy)
           end == c + Len(fz)
<1>1. /\ sx \in Seq(BIT) /\ sx \in {Yes, No} /\ Len(sx) = 1 /\ fy \in Seq(BIT) /\ fz \in Seq(BIT)
      /\ Short \in Nat /\ Len(fy) \in Nat /\ Len(fz) \in Nat
  BY FlaggedType, FlagType, StepsType, LenProperties
<1>2. NormVector(x, y, z) = (sx \o fy) \o fz
  BY DEF NormVector
<1> HIDE DEF sx, fy, fz
<1>3. Holds(b, p, sx) /\ Holds(b, a, fy) /\ Holds(b, c, fz) /\ Len((sx \o fy) \o fz) = 1 + Len(fy) + Len(fz)
  <2> DEFINE e == sx \o fy
  <2>1. e \in Seq(BIT) /\ Len(e) = Len(sx) + Len(fy)
    BY <1>1, Joined
  <2> HIDE DEF e
  <2>2. Holds(b, p, e \o fz)
    BY <1>2 DEF e
  <2>3. Holds(b, p, e) /\ Holds(b, p + Len(e), fz) /\ Len(e \o fz) = Len(e) + Len(fz)
    BY <1>1, <2>1, <2>2, HoldsConcat, Joined
  <2>4. Holds(b, p, sx) /\ Holds(b, p + Len(sx), fy)
    BY <1>1, <2>3, HoldsConcat DEF e
  <2>5. p + Len(e) = c /\ p + Len(sx) = a
    BY <1>1, <2>1
  <2>6. Len(e) + Len(fz) = 1 + Len(fy) + Len(fz)
    BY <1>1, <2>1
  <2> QED BY <2>3, <2>4, <2>5, <2>6 DEF e
<1>4. a \in Nat /\ c \in Nat /\ end = p + Len((sx \o fy) \o fz)
  BY <1>1, <1>3
<1> HIDE DEF a, c, end
<1> DEFINE sign == Take(b, p, 1)
           zeroY == Take(b, sign.at, 1)
           Last(n) ==
             LET zeroZ == Take(b, n.at, 1)
                 m == IF zeroZ.v = Yes THEN [zeroZ EXCEPT !.v = No] ELSE Take(b, zeroZ.at, Short)
             IN  IF zeroZ.ok
                 THEN [ok |-> m.ok, at |-> m.at, v |-> <<sign.v, n.v, m.v, SquareOfX(n.v, m.v)>>]
                 ELSE [ok |-> FALSE, at |-> n.at, v |-> <<sign.v, n.v, Unset, Unset>>]
           zero == [ok |-> TRUE, at |-> zeroY.at, v |-> No]
           number == Take(b, zeroY.at, Short)
<1>5. sign.at = a /\ sign.v = sx
  <2>1. sign = [ok |-> TRUE, at |-> a, v |-> sx]
    BY <1>1, <1>3, TakeFlag DEF a
  <2> QED BY <2>1
<1>6. /\ zeroY = [ok |-> TRUE, at |-> a + 1, v |-> IF y = 0 THEN Yes ELSE No]
      /\ y = 0 => Len(fy) = 1
      /\ y # 0 => /\ Len(fy) = 1 + Short
                  /\ Take(b, a + 1, Short) = [ok |-> TRUE, at |-> a + 1 + Short, v |-> CompressedFloat(y)]
  <2>1. /\ Take(b, a, 1) = [ok |-> TRUE, at |-> a + 1, v |-> IF y = 0 THEN Yes ELSE No]
        /\ y = 0 => Len(fy) = 1
        /\ y # 0 => /\ Len(fy) = 1 + Short
                    /\ Take(b, a + 1, Short) = [ok |-> TRUE, at |-> a + 1 + Short, v |-> CompressedFloat(y)]
    BY <1>3, <1>4, FlaggedFloatBack DEF fy
  <2> QED BY <1>5, <2>1
<1>7. zeroY.ok = TRUE /\ zeroY.at = a + 1 /\ zeroY.v = IF y = 0 THEN Yes ELSE No
  <2> HIDE DEF zeroY
  <2> QED BY <1>6
<1>8. r = Last(IF zeroY.v = Yes THEN zero ELSE number)
  <2>1. PICK f \in Flag(zeroY) : r = Last(IF f = Yes THEN zero ELSE number)
    BY Zenon DEF ReadNormVector, TakeNext
  <2>2. f = zeroY.v
    <3> HIDE DEF zeroY
    <3> QED BY <1>7 DEF Flag
  <2> HIDE DEF Last
  <2> QED BY <2>1, <2>2
<1> DEFINE n == IF zeroY.v = Yes THEN zero ELSE number
<1>9. n.at = c /\ n.v = FlaggedWord(y)
  <2>1. CASE y = 0
    <3>1. zeroY.v = Yes
      BY <1>7, <2>1
    <3>2. n = zero
      BY <3>1
    <3>3. n.at = a + 1 /\ n.v = No
      <4>1. zero.at = zeroY.at /\ zero.v = No
        OBVIOUS
      <4> HIDE DEF n, zero
      <4> QED BY <1>7, <3>2, <4>1
    <3> HIDE DEF n
    <3>4. c = a + 1
      BY <1>6, <2>1 DEF c
    <3> QED BY <2>1, <3>3, <3>4 DEF FlaggedWord
  <2>2. CASE y # 0
    <3>1. zeroY.v # Yes
      BY <1>7, <2>2, FlagType
    <3>2. n = number
      BY <3>1
    <3>3. number = Take(b, a + 1, Short)
      BY <1>7
    <3> HIDE DEF n, number
    <3>4. n = [ok |-> TRUE, at |-> a + 1 + Short, v |-> CompressedFloat(y)]
      BY <1>6, <2>2, <3>2, <3>3
    <3>5. n.at = a + 1 + Short /\ n.v = CompressedFloat(y)
      BY <3>4
    <3>6. c = a + 1 + Short
      <4>1. Len(fy) = 1 + Short
        BY <1>6, <2>2
      <4> QED BY <1>1, <1>4, <4>1 DEF c
    <3>7. FlaggedWord(y) = CompressedFloat(y)
      BY <2>2 DEF FlaggedWord
    <3> QED BY <3>5, <3>6, <3>7
  <2> QED BY <2>1, <2>2
<1>10. r = Last(n)
  BY <1>8
<1> HIDE DEF n, sign
<1> DEFINE zeroZ == Take(b, c, 1)
           m == IF zeroZ.v = Yes THEN [zeroZ EXCEPT !.v = No] ELSE Take(b, zeroZ.at, Short)
<1>11. r = IF zeroZ.ok THEN [ok |-> m.ok, at |-> m.at, v |-> <<sx, n.v, m.v, SquareOfX(n.v, m.v)>>]
           ELSE [ok |-> FALSE, at |-> c, v |-> <<sx, n.v, Unset, Unset>>]
  BY <1>5, <1>9, <1>10, Zenon
<1>12. /\ zeroZ = [ok |-> TRUE, at |-> c + 1, v |-> IF z = 0 THEN Yes ELSE No]
       /\ z = 0 => Len(fz) = 1
       /\ z # 0 => /\ Len(fz) = 1 + Short
                   /\ Take(b, c + 1, Short) = [ok |-> TRUE, at |-> c + 1 + Short, v |-> CompressedFloat(z)]
  BY <1>3, <1>4, FlaggedFloatBack DEF fz
<1> HIDE DEF zeroZ, Last
<1>13. m.ok = TRUE /\ m.at = end /\ m.v = FlaggedWord(z)
  <2>1. CASE z = 0
    <3>1. zeroZ = [ok |-> TRUE, at |-> c + 1, v |-> Yes]
      BY <1>12, <2>1
    <3>2. m = [zeroZ EXCEPT !.v = No]
      BY <3>1
    <3> HIDE DEF m
    <3>3. m = [ok |-> TRUE, at |-> c + 1, v |-> No]
      BY ONLY <3>1, <3>2, Record, Zenon
    <3>4. m.ok = TRUE /\ m.at = c + 1 /\ m.v = No
      BY <3>3
    <3>5. end = c + 1
      BY <1>12, <2>1 DEF end
    <3> QED BY <2>1, <3>4, <3>5 DEF FlaggedWord
  <2>2. CASE z # 0
    <3>1. zeroZ = [ok |-> TRUE, at |-> c + 1, v |-> No]
      BY <1>12, <2>2
    <3>2. zeroZ.v # Yes /\ zeroZ.at = c + 1
      BY <3>1, FlagType
    <3>3. m = Take(b, c + 1, Short)
      BY <3>2
    <3> HIDE DEF m
    <3>4. m = [ok |-> TRUE, at |-> c + 1 + Short, v |-> CompressedFloat(z)]
      BY <1>12, <2>2, <3>3
    <3>5. m.ok = TRUE /\ m.at = c + 1 + Short /\ m.v = CompressedFloat(z)
      BY <3>4
    <3>6. end = c + 1 + Short
      <4>1. Len(fz) = 1 + Short
        BY <1>12, <2>2
      <4> QED BY <1>1, <1>4, <4>1 DEF end
    <3>7. FlaggedWord(z) = CompressedFloat(z)
      BY <2>2 DEF FlaggedWord
    <3> QED BY <3>5, <3>6, <3>7
  <2> QED BY <2>1, <2>2
<1> DEFINE square == SquareOfX(n.v, m.v)
<1>14. r = [ok |-> m.ok, at |-> m.at, v |-> <<sx, n.v, m.v, square>>]
  <2>1. zeroZ.ok = TRUE
    BY <1>12
  <2> HIDE DEF m
  <2> QED BY <1>11, <2>1
<1>15. square = SquareOfX(FlaggedWord(y), FlaggedWord(z))
  <2> HIDE DEF m
  <2> QED BY <1>9, <1>13
<1> HIDE DEF m, square
<1>16. /\ r.ok = TRUE /\ r.at = end
       /\ r.v[1] = sx /\ r.v[2] = n.v /\ r.v[3] = m.v /\ r.v[4] = square
  BY <1>13, <1>14
<1>17. NearOrZero(n.v, y) /\ NearOrZero(m.v, z)
  BY <1>9, <1>13, FlaggedWordIs
<1>18. NearSquare(square, x, 8)
  BY <1>15, SquareOfXIsNear
<1> QED BY <1>2, <1>4, <1>16, <1>17, <1>18 DEF sx

(* What a vector and a quaternion are read back as. *)
IsVectorBack(r, end, length, x, y, z) ==
  /\ r.ok = TRUE /\ r.at = end
  /\ r.v[1] = length
  /\ length # Repeat(0, Long) => Near(r.v[2], x) /\ Near(r.v[3], y) /\ Near(r.v[4], z)
IsQuatBack(r, end, w, x, y, z) ==
  /\ r.ok = TRUE /\ r.at = end
  /\ SubSeq(r.v, 1, 4) = <<Sign(w), Sign(x), Sign(y), Sign(z)>>
  /\ NearFraction(r.v[5], x) /\ NearFraction(r.v[6], y) /\ NearFraction(r.v[7], z)
  /\ NearSquare(r.v[8], w, 6)

LEMMA VectorBack ==
  ASSUME NEW b \in Seq(BIT), NEW p \in Nat, NEW length \in Words(Long),
         NEW x \in Fractions, NEW y \in Fractions, NEW z \in Fractions,
         Holds(b, p, Vector(length, x, y, z)), NEW r, r = ReadVector(b, p)
  PROVE  IsVectorBack(r, p + Len(Vector(length, x, y, z)), length, x, y, z)
<1> DEFINE cx == CompressedFloat(x)
           cy == CompressedFloat(y)
           cz == CompressedFloat(z)
           whole == Vector(length, x, y, z)
           a == p + Long
           d == a + Short
           e == d + Short
<1>1. /\ length \in Seq(BIT) /\ Len(length) = Long /\ Long \in Nat /\ Short \in Nat
      /\ cx \in Seq(BIT) /\ Len(cx) = Short /\ cy \in Seq(BIT) /\ Len(cy) = Short
      /\ cz \in Seq(BIT) /\ Len(cz) = Short
  BY FloatType, StepsType DEF Words
<1>2. Near(cx, x) /\ Near(cy, y) /\ Near(cz, z)
  BY FloatsAreNear
<1> DEFINE s == cx \o cy
           t == s \o cz
<1>3. whole = length \o (IF length = Repeat(0, Long) THEN <<>> ELSE t)
  BY DEF Vector
<1> HIDE DEF cx, cy, cz, whole
<1>4. s \in Seq(BIT) /\ Len(s) = Short + Short
  <2>1. s \in Seq(BIT) /\ Len(s) = Len(cx) + Len(cy)
    BY <1>1, Joined
  <2> QED BY <1>1, <2>1
<1>5. /\ t \in Seq(BIT) /\ Len(t) = Short + Short + Short
  <2> HIDE DEF s
  <2>1. t \in Seq(BIT) /\ Len(t) = Len(s) + Len(cz)
    BY <1>1, <1>4, Joined
  <2> QED BY <1>1, <1>4, <2>1
<1> HIDE DEF t
<1>6. a \in Nat /\ d \in Nat /\ e \in Nat
  BY <1>1
<1> DEFINE rl == Take(b, p, Long)
           rx == Take(b, rl.at, Short)
           ry == Take(b, rx.at, Short)
           rz == Take(b, ry.at, Short)
<1>7. r = IF ~rl.ok THEN [ok |-> FALSE, at |-> p, v |-> <<Unset>>]
          ELSE IF rl.v = Repeat(0, Long) THEN Single(rl)
          ELSE [ok |-> rz.ok, at |-> rz.at, v |-> <<rl.v, rx.v, ry.v, rz.v>>]
  BY Zenon DEF ReadVector, TakeNext, Single
<1>8. CASE length = Repeat(0, Long)
  <2>1. whole = length \o <<>>
    BY <1>3, <1>8
  <2>2. whole = length
    <3>1. \A q \in Seq(BIT) : q \o <<>> = q
      OBVIOUS
    <3> QED BY <1>1, <2>1, <3>1
  <2>3. rl = [ok |-> TRUE, at |-> a, v |-> length]
    BY <1>1, <2>2, TakeIs DEF whole
  <2>4. rl.ok = TRUE /\ rl.v = length
    BY <2>3
  <2> HIDE DEF rl
  <2>5. r = Single([ok |-> TRUE, at |-> a, v |-> length])
    BY <1>7, <1>8, <2>3, <2>4
  <2>6. r = [ok |-> TRUE, at |-> a, v |-> <<length>>]
    BY <2>5, SingleBack
  <2>7. r.ok = TRUE /\ r.at = a /\ r.v[1] = length
    BY <2>6
  <2> QED BY <1>1, <1>8, <2>2, <2>7 DEF whole, IsVectorBack
<1>9. CASE length # Repeat(0, Long)
  <2>1. whole = length \o t
    BY <1>3, <1>9
  <2>2. Holds(b, p, length) /\ Holds(b, a, t) /\ Len(length \o t) = Len(length) + Len(t)
    <3>1. Holds(b, p, length \o t)
      BY <2>1 DEF whole
    <3> QED BY <1>1, <1>5, <3>1, HoldsConcat, Joined
  <2> HIDE DEF a
  <2>3. Holds(b, a, s) /\ Holds(b, e, cz)
    <3> HIDE DEF s
    <3>1. Holds(b, a, s \o cz)
      BY <2>2 DEF t
    <3>2. Holds(b, a, s) /\ Holds(b, a + Len(s), cz)
      BY <1>1, <1>4, <1>6, <3>1, HoldsConcat
    <3>3. a + Len(s) = e
      BY <1>1, <1>4, <1>6
    <3> QED BY <3>2, <3>3
  <2>4. Holds(b, a, cx) /\ Holds(b, d, cy)
    BY <1>1, <1>6, <2>3, HoldsConcat
  <2>5. rl = [ok |-> TRUE, at |-> a, v |-> length]
    BY <1>1, <2>2, TakeIs DEF a
  <2>6. rl.ok = TRUE /\ rl.v = length /\ rl.at = a
    BY <2>5
  <2> HIDE DEF rl
  <2>7. rx = [ok |-> TRUE, at |-> d, v |-> cx]
    BY <1>1, <1>6, <2>4, <2>6, TakeIs
  <2>8. rx.at = d /\ rx.v = cx
    BY <2>7
  <2> HIDE DEF rx, d
  <2>9. ry = [ok |-> TRUE, at |-> e, v |-> cy]
    BY <1>1, <1>6, <2>4, <2>8, TakeIs DEF e
  <2>10. ry.at = e /\ ry.v = cy
    BY <2>9
  <2> HIDE DEF ry, e
  <2>11. rz = [ok |-> TRUE, at |-> e + Short, v |-> cz]
    BY <1>1, <1>6, <2>3, <2>10, TakeIs
  <2>12. rz.ok = TRUE /\ rz.at = e + Short /\ rz.v = cz
    BY <2>11
  <2> HIDE DEF rz
  <2>13. r = [ok |-> TRUE, at |-> e + Short, v |-> <<length, cx, cy, cz>>]
    BY <1>7, <1>9, <2>6, <2>8, <2>10, <2>12
  <2>14. /\ r.ok = TRUE /\ r.at = e + Short
         /\ r.v[1] = length /\ r.v[2] = cx /\ r.v[3] = cy /\ r.v[4] = cz
    BY <2>13
  <2>15. p + Len(whole) = e + Short
    <3>1. Len(whole) = Long + (Short + Short + Short)
      BY <1>1, <1>5, <2>1, <2>2
    <3> QED BY <1>1, <3>1 DEF e, d, a
  <2> QED BY <1>2, <2>14, <2>15 DEF whole, IsVectorBack
<1> QED BY <1>8, <1>9

LEMMA NormQuatBack ==
  ASSUME NEW b \in Seq(BIT), NEW p \in Nat, NEW w \in Fractions,
         NEW x \in Fractions, NEW y \in Fractions, NEW z \in Fractions,
         w * w + x * x + y * y + z * z = Grid * Grid,
         Holds(b, p, NormQuat(w, x, y, z)), NEW r, r = ReadNormQuat(b, p)
  PROVE  IsQuatBack(r, p + Len(NormQuat(w, x, y, z)), w, x, y, z)
<1> DEFINE sw == Sign(w)
           sx == Sign(x)
           sy == Sign(y)
           sz == Sign(z)
           fx == Fraction(x)
           fy == Fraction(y)
           fz == Fraction(z)
           whole == NormQuat(w, x, y, z)
           p1 == p + 1
           p2 == p1 + 1
           p3 == p2 + 1
           p4 == p3 + 1
           p5 == p4 + Short
           p6 == p5 + Short
           e2 == sw \o sx
           e3 == e2 \o sy
           e4 == e3 \o sz
           e5 == e4 \o fx
           e6 == e5 \o fy
           e7 == e6 \o fz
<1>1. /\ sw \in {Yes, No} /\ sx \in {Yes, No} /\ sy \in {Yes, No} /\ sz \in {Yes, No}
      /\ sw \in Seq(BIT) /\ sx \in Seq(BIT) /\ sy \in Seq(BIT) /\ sz \in Seq(BIT)
      /\ Len(sw) = 1 /\ Len(sx) = 1 /\ Len(sy) = 1 /\ Len(sz) = 1
  BY FlaggedType, FlagType
<1>2. /\ fx \in Seq(BIT) /\ fy \in Seq(BIT) /\ fz \in Seq(BIT) /\ Short \in Nat
      /\ Len(fx) = Short /\ Len(fy) = Short /\ Len(fz) = Short
  BY FloatType, StepsType
<1>3. NearFraction(fx, x) /\ NearFraction(fy, y) /\ NearFraction(fz, z)
  BY FloatsAreNear
<1>4. whole = e7
  BY DEF NormQuat
<1> DEFINE square == SquareOfW(fx, fy, fz)
<1>32. NearSquare(square, w, 6) /\ square \in Part
  BY <1>2, SquareOfWIsNear, PartType
<1>33. /\ sw \in Part /\ sx \in Part /\ sy \in Part /\ sz \in Part
       /\ fx \in Part /\ fy \in Part /\ fz \in Part
  BY <1>1, <1>2, PartType
<1> HIDE DEF sw, sx, sy, sz, fx, fy, fz, whole
<1>5. p1 \in Nat /\ p2 \in Nat /\ p3 \in Nat /\ p4 \in Nat /\ p5 \in Nat /\ p6 \in Nat
  BY <1>2
<1>6. e2 \in Seq(BIT) /\ Len(e2) = 2
  <2>1. e2 \in Seq(BIT) /\ Len(e2) = Len(sw) + Len(sx)
    BY <1>1, Joined
  <2> QED BY <1>1, <2>1
<1> HIDE DEF e2
<1>7. e3 \in Seq(BIT) /\ Len(e3) = 3
  <2>1. e3 \in Seq(BIT) /\ Len(e3) = Len(e2) + Len(sy)
    BY <1>1, <1>6, Joined
  <2> QED BY <1>1, <1>6, <2>1
<1> HIDE DEF e3
<1>8. e4 \in Seq(BIT) /\ Len(e4) = 4
  <2>1. e4 \in Seq(BIT) /\ Len(e4) = Len(e3) + Len(sz)
    BY <1>1, <1>7, Joined
  <2> QED BY <1>1, <1>7, <2>1
<1> HIDE DEF e4
<1>9. e5 \in Seq(BIT) /\ Len(e5) = 4 + Short
  <2>1. e5 \in Seq(BIT) /\ Len(e5) = Len(e4) + Len(fx)
    BY <1>2, <1>8, Joined
  <2> QED BY <1>2, <1>8, <2>1
<1> HIDE DEF e5
<1>10. e6 \in Seq(BIT) /\ Len(e6) = 4 + Short + Short
  <2>1. e6 \in Seq(BIT) /\ Len(e6) = Len(e5) + Len(fy)
    BY <1>2, <1>9, Joined
  <2> QED BY <1>2, <1>9, <2>1
<1> HIDE DEF e6
<1>11. e7 \in Seq(BIT) /\ Len(e7) = 4 + Short + Short + Short
  <2>1. e7 \in Seq(BIT) /\ Len(e7) = Len(e6) + Len(fz)
    BY <1>2, <1>10, Joined
  <2> QED BY <1>2, <1>10, <2>1
<1>12. Holds(b, p, e6) /\ Holds(b, p6, fz)
  <2>1. Holds(b, p, e6 \o fz)
    BY <1>4 DEF whole
  <2>2. Holds(b, p, e6) /\ Holds(b, p + Len(e6), fz)
    BY <1>2, <1>10, <2>1, HoldsConcat
  <2>3. p + Len(e6) = p6
    BY <1>2, <1>10
  <2> QED BY <2>2, <2>3
<1>13. Holds(b, p, e5) /\ Holds(b, p5, fy)
  <2>2. Holds(b, p, e5) /\ Holds(b, p + Len(e5), fy)
    BY <1>2, <1>9, <1>12, HoldsConcat DEF e6
  <2>3. p + Len(e5) = p5
    BY <1>2, <1>9
  <2> QED BY <2>2, <2>3
<1>14. Holds(b, p, e4) /\ Holds(b, p4, fx)
  <2>2. Holds(b, p, e4) /\ Holds(b, p + Len(e4), fx)
    BY <1>2, <1>8, <1>13, HoldsConcat DEF e5
  <2>3. p + Len(e4) = p4
    BY <1>8
  <2> QED BY <2>2, <2>3
<1>15. Holds(b, p, e3) /\ Holds(b, p3, sz)
  <2>2. Holds(b, p, e3) /\ Holds(b, p + Len(e3), sz)
    BY <1>1, <1>7, <1>14, HoldsConcat DEF e4
  <2>3. p + Len(e3) = p3
    BY <1>7
  <2> QED BY <2>2, <2>3
<1>16. Holds(b, p, e2) /\ Holds(b, p2, sy)
  <2>2. Holds(b, p, e2) /\ Holds(b, p + Len(e2), sy)
    BY <1>1, <1>6, <1>15, HoldsConcat DEF e3
  <2>3. p + Len(e2) = p2
    BY <1>6
  <2> QED BY <2>2, <2>3
<1>17. Holds(b, p, sw) /\ Holds(b, p1, sx)
  <2>2. Holds(b, p, sw) /\ Holds(b, p + Len(sw), sx)
    BY <1>1, <1>16, HoldsConcat DEF e2
  <2>3. p + Len(sw) = p1
    BY <1>1
  <2> QED BY <2>2, <2>3
<1>18. p6 + Short = p + Len(whole)
  BY <1>2, <1>4, <1>11
<1> HIDE DEF p1, p2, p3, p4, p5, p6
<1>19. Take(b, p, 1) = [ok |-> TRUE, at |-> p1, v |-> sw]
  BY <1>1, <1>17, TakeFlag DEF p1
<1>20. Take(b, p1, 1) = [ok |-> TRUE, at |-> p2, v |-> sx]
  BY <1>1, <1>5, <1>17, TakeFlag DEF p2
<1>21. Take(b, p2, 1) = [ok |-> TRUE, at |-> p3, v |-> sy]
  BY <1>1, <1>5, <1>16, TakeFlag DEF p3
<1>22. Take(b, p3, 1) = [ok |-> TRUE, at |-> p4, v |-> sz]
  BY <1>1, <1>5, <1>15, TakeFlag DEF p4
<1>23. Take(b, p4, Short) = [ok |-> TRUE, at |-> p5, v |-> fx]
  BY <1>2, <1>5, <1>14, TakeIs DEF p5
<1>24. Take(b, p5, Short) = [ok |-> TRUE, at |-> p6, v |-> fy]
  BY <1>2, <1>5, <1>13, TakeIs DEF p6
<1>25. Take(b, p6, Short) = [ok |-> TRUE, at |-> p6 + Short, v |-> fz]
  BY <1>2, <1>5, <1>12, TakeIs
<1>26. /\ Take(b, p, 1).at = p1 /\ Take(b, p, 1).v = sw
       /\ Take(b, p1, 1).at = p2 /\ Take(b, p1, 1).v = sx
       /\ Take(b, p2, 1).at = p3 /\ Take(b, p2, 1).v = sy
       /\ Take(b, p3, 1).at = p4 /\ Take(b, p3, 1).v = sz
  BY <1>19, <1>20, <1>21, <1>22
<1>27. /\ Take(b, p4, Short).at = p5 /\ Take(b, p4, Short).v = fx
       /\ Take(b, p5, Short).at = p6 /\ Take(b, p5, Short).v = fy
       /\ Take(b, p6, Short).at = p6 + Short /\ Take(b, p6, Short).v = fz
       /\ Take(b, p6, Short).ok = TRUE
  BY <1>23, <1>24, <1>25
<1> DEFINE v == <<sw, sx, sy, sz, fx, fy, fz, square>>
<1>28. r = [ok |-> TRUE, at |-> p6 + Short, v |-> v]
  BY <1>26, <1>27, Zenon DEF ReadNormQuat, TakeNext
<1> HIDE DEF square
<1>29. SubSeq(v, 1, 4) = <<sw, sx, sy, sz>>
  <2> DEFINE u == SubSeq(v, 1, 4)
             f == <<sw, sx, sy, sz>>
  <2>1. v \in Seq(Part) /\ Len(v) = 8 /\ \A i \in 1..4 : v[i] \in Part
    BY <1>32, <1>33
  <2>2. f \in Seq(Part) /\ Len(f) = 4 /\ \A i \in 1..4 : f[i] = v[i]
    BY <1>33
  <2> HIDE DEF v, f
  <2>3. /\ u \in Seq(Part) /\ Len(u) = IF 1 <= 4 THEN 4 - 1 + 1 ELSE 0
        /\ \A i \in 1..4 - 1 + 1 : u[i] = v[1 + i - 1]
    BY <2>1, SubSeqProperties
  <2> HIDE DEF u
  <2>4. Len(u) = 4 /\ \A i \in 1..4 : u[i] = v[i]
    <3>1. 4 - 1 + 1 = 4 /\ 1 <= 4 /\ \A i \in 1..4 : 1 + i - 1 = i
      OBVIOUS
    <3> QED BY <2>3, <3>1
  <2>5. u = f
    <3> DEFINE S == Part
    <3>1. u \in Seq(S) /\ f \in Seq(S) /\ Len(u) = Len(f)
      BY <2>2, <2>3, <2>4
    <3>2. \A i \in 1..Len(u) : u[i] = f[i]
      BY <2>2, <2>4
    <3> HIDE DEF S
    <3> QED BY ONLY <3>1, <3>2, SeqEqual
  <2> QED BY <2>5 DEF u, f
<1>30. v[5] = fx /\ v[6] = fy /\ v[7] = fz /\ v[8] = square
  OBVIOUS
<1> HIDE DEF v
<1>31. r.ok = TRUE /\ r.at = p6 + Short /\ r.v = v
  BY <1>28
<1> QED BY <1>3, <1>32, <1>18, <1>29, <1>30, <1>31 DEF whole, sw, sx, sy, sz, IsQuatBack

(* What is read where a value was written is that value. *)
LEMMA DecodesBack ==
  ASSUME NEW b \in Seq(BIT), NEW p \in Nat, NEW item \in Item, Holds(b, p, Encode(item)),
         NEW old, "last" \in DOMAIN item => old = item.last,
         NEW bytes \in Nat \ {0},
         "v" \in DOMAIN item /\ item.kind # "bool" => Len(item.v) = 8 * bytes,
         NEW r \in Decode(item.kind, b, p, old, bytes)
  PROVE  IsBack(r, p + Len(Encode(item)), item)
<1> DEFINE n == 8 * bytes
           e == Encode(item)
           q == Take(b, p, 1).at
<1>1. CASE item \in [kind : {"bool"}, v : {Yes, No}]
  <2>1. item.kind = "bool" /\ item.v \in {Yes, No}
    BY <1>1
  <2>2. e = item.v /\ r = Single(Take(b, p, 1))
    BY <2>1 DEF Encode, Decode
  <2>3. item.v \in Seq(BIT) /\ Len(item.v) = 1
    BY <2>1, FlagType
  <2> DEFINE w == item.v
  <2>4. w \in Seq(BIT) /\ Len(w) = 1 /\ Holds(b, p, w)
    BY <2>2, <2>3
  <2> HIDE DEF w
  <2>5. r = [ok |-> TRUE, at |-> p + Len(w), v |-> <<w>>]
    <3>1. r = Single(Take(b, p, Len(w)))
      BY <2>2, <2>4
    <3> QED BY <2>4, <3>1, WordsBack
  <2>6. r.ok = TRUE /\ r.at = p + Len(e) /\ r.v = <<item.v>>
    BY <2>2, <2>5 DEF w
  <2> QED BY <2>1, <2>6 DEF IsBack, IsValue
<1>2. CASE item \in [kind : {"word", "compressed"}, v : Integer]
  <2>1. item.kind \in {"word", "compressed"} /\ item.v \in Integer
    BY <1>2
  <2>2. Len(item.v) = 8 * bytes
    BY <1>2
  <2> DEFINE w == item.v
  <2>3. w \in Seq(BIT) /\ Len(w) = 8 * bytes
    BY <2>1, <2>2, IntegerType
  <2>4. CASE item.kind = "word"
    <3>1. e = w /\ r = Single(Take(b, p, n))
      BY <2>4 DEF Encode, Decode
    <3>2. Holds(b, p, w) /\ Len(w) = n
      BY <2>3, <3>1
    <3> HIDE DEF w, n
    <3>3. r = [ok |-> TRUE, at |-> p + Len(w), v |-> <<w>>]
      <4>1. r = Single(Take(b, p, Len(w)))
        BY <3>1, <3>2
      <4> QED BY <2>3, <3>2, <4>1, WordsBack
    <3>4. r.ok = TRUE /\ r.at = p + Len(e) /\ r.v = <<item.v>>
      BY <3>1, <3>3 DEF w
    <3> QED BY <2>4, <3>4 DEF IsBack, IsValue
  <2>5. CASE item.kind = "compressed"
    <3>1. e = Compressed(w) /\ r = Single(ReadCompressed(b, p, bytes))
      BY <2>5 DEF Encode, Decode
    <3>2. Holds(b, p, Compressed(w))
      BY <3>1
    <3> HIDE DEF w
    <3>3. r = [ok |-> TRUE, at |-> p + Len(Compressed(w)), v |-> <<w>>]
      BY <2>3, <3>1, <3>2, CompressedBack
    <3>4. r.ok = TRUE /\ r.at = p + Len(e) /\ r.v = <<item.v>>
      BY <3>1, <3>3 DEF w
    <3> QED BY <2>5, <3>4 DEF IsBack, IsValue
  <2> QED BY <2>1, <2>4, <2>5
<1>3. CASE item \in [kind : {"player"}, address : Words(Long), port : Words(Short)]
  <2> DEFINE address == item.address
             port == item.port
  <2>1. item.kind = "player" /\ address \in Words(Long) /\ port \in Words(Short)
    BY <1>3
  <2>2. e = address \o port /\ r = ReadPlayer(b, p)
    BY <2>1 DEF Encode, Decode
  <2>3. Holds(b, p, address \o port)
    BY <2>2
  <2> HIDE DEF address, port
  <2>4. r = [ok |-> TRUE, at |-> p + Len(address \o port), v |-> <<address, port>>]
    BY <2>1, <2>2, <2>3, PlayerBack
  <2>5. r.ok = TRUE /\ r.at = p + Len(e) /\ r.v = <<item.address, item.port>>
    BY <2>2, <2>4 DEF address, port
  <2> QED BY <2>1, <2>5 DEF IsBack, IsValue
<1>4. CASE item \in [kind : {"delta", "compressedDelta"}, v : Integer, last : Integer]
  <2> DEFINE w == item.v
             last == item.last
  <2>1. item.kind \in {"delta", "compressedDelta"} /\ w \in Integer /\ last \in Integer
    BY <1>4
  <2>2. Len(w) = 8 * bytes /\ old = last
    BY <1>4
  <2>3. w \in Seq(BIT) /\ Compressed(w) \in Seq(BIT)
    BY <2>1, IntegerType
  <2> DEFINE p1 == p + 1
  <2>4. p1 \in Nat
    OBVIOUS
  <2>5. q = p1 \/ ~(Holds(b, p, IF w = last THEN No ELSE Yes) )
    <3>1. ASSUME NEW f \in {Yes, No}, Holds(b, p, f) PROVE q = p1
      <4>1. Take(b, p, 1) = [ok |-> TRUE, at |-> p + 1, v |-> f]
        BY <3>1, TakeFlag
      <4> QED BY <4>1
    <3> QED BY <3>1
  <2>6. ASSUME NEW word \in Seq(BIT), e = IF w = last THEN No ELSE Yes \o word PROVE q = p1
    <3>1. Holds(b, p, IF w = last THEN No ELSE Yes)
      <4>1. CASE w = last
        <5>1. Holds(b, p, No)
          BY <2>6, <4>1
        <5> QED BY <4>1, <5>1
      <4>2. CASE w # last
        <5>1. Holds(b, p, Yes \o word)
          BY <2>6, <4>2
        <5>2. Holds(b, p, Yes)
          BY <5>1, FlagType, HoldsConcat
        <5> QED BY <4>2, <5>2
      <4> QED BY <4>1, <4>2
    <3> QED BY <2>5, <3>1
  <2>7. CASE item.kind = "delta"
    <3>1. e = (IF w = last THEN No ELSE Yes \o w) /\ r \in ReadFlagged(b, p, last, Take(b, q, n))
      BY <2>2, <2>7 DEF Encode, Decode
    <3>2. q = p1
      BY <2>3, <2>6, <3>1
    <3> DEFINE rest == Take(b, p1, n)
    <3>3. r \in ReadFlagged(b, p, last, rest)
      BY <3>1, <3>2
    <3> HIDE DEF w, last, n, p1, q
    <3>4. Holds(b, p1, w) => rest = [ok |-> TRUE, at |-> p1 + Len(w), v |-> w]
      <4>1. Holds(b, p1, w) => Take(b, p1, Len(w)) = [ok |-> TRUE, at |-> p1 + Len(w), v |-> w]
        BY <2>3, <2>4, TakeHolds
      <4>2. Len(w) = n
        BY <2>2 DEF n
      <4> QED BY <4>1, <4>2
    <3>5. Holds(b, p, IF w = last THEN No ELSE Yes \o w)
      BY <3>1
    <3> HIDE DEF rest, e
    <3>6. r = [ok |-> TRUE, at |-> p + Len(IF w = last THEN No ELSE Yes \o w), v |-> <<w>>]
      BY <2>1, <2>3, <3>3, <3>4, <3>5, DeltaBack DEF p1
    <3>7. r.ok = TRUE /\ r.at = p + Len(e) /\ r.v = <<item.v>>
      BY <3>1, <3>6 DEF w
    <3> QED BY <2>7, <3>7 DEF IsBack, IsValue, e
  <2>8. CASE item.kind = "compressedDelta"
    <3> DEFINE c == Compressed(w)
    <3>1. e = (IF w = last THEN No ELSE Yes \o c) /\ r \in ReadFlagged(b, p, last, ReadCompressed(b, q, bytes))
      BY <2>2, <2>8 DEF Encode, Decode
    <3>2. q = p1
      BY <2>3, <2>6, <3>1
    <3> DEFINE rest == ReadCompressed(b, p1, bytes)
    <3>3. r \in ReadFlagged(b, p, last, rest)
      BY <3>1, <3>2
    <3> HIDE DEF w, last, n, p1, q
    <3>4. Holds(b, p1, c) => rest = [ok |-> TRUE, at |-> p1 + Len(c), v |-> w]
      BY <2>2, <2>3, <2>4, ReadsCompressed
    <3>5. Holds(b, p, IF w = last THEN No ELSE Yes \o c) /\ c \in Seq(BIT)
      BY <2>3, <3>1
    <3> HIDE DEF rest, e, c
    <3>6. r = [ok |-> TRUE, at |-> p + Len(IF w = last THEN No ELSE Yes \o c), v |-> <<w>>]
      BY <2>1, <3>3, <3>4, <3>5, DeltaBack DEF p1
    <3>7. r.ok = TRUE /\ r.at = p + Len(e) /\ r.v = <<item.v>>
      BY <3>1, <3>6 DEF w
    <3> QED BY <2>8, <3>7 DEF IsBack, IsValue, e
  <2> QED BY <2>1, <2>7, <2>8
<1>5. CASE item \in [kind : {"float"}, n : Fractions]
  <2>1. item.kind = "float" /\ item.n \in Fractions
    BY <1>5
  <2> DEFINE w == CompressedFloat(item.n)
  <2>2. e = w /\ r = Single(Take(b, p, Short))
    BY <2>1 DEF Encode, Decode
  <2>3. w \in Seq(BIT) /\ Len(w) = Short /\ Near(w, item.n)
    BY <2>1, FloatType, FloatsAreNear
  <2>4. Holds(b, p, w)
    BY <2>2
  <2> HIDE DEF w
  <2>5. r = [ok |-> TRUE, at |-> p + Len(w), v |-> <<w>>]
    <3>1. r = Single(Take(b, p, Len(w)))
      BY <2>2, <2>3
    <3> QED BY <2>3, <2>4, <3>1, WordsBack
  <2>6. r.ok = TRUE /\ r.at = p + Len(e) /\ r.v[1] = w
    BY <2>2, <2>5
  <2>7. Near(r.v[1], item.n)
    BY <2>3, <2>6
  <2> QED BY <2>1, <2>6, <2>7 DEF IsBack, IsValue
<1>6. CASE item \in NormVectors
  <2>1. /\ item.kind = "normVector" /\ item.x \in Fractions /\ item.y \in Fractions /\ item.z \in Fractions
        /\ item.x * item.x + item.y * item.y + item.z * item.z = Grid * Grid
    BY <1>6 DEF NormVectors
  <2>2. e = NormVector(item.x, item.y, item.z) /\ r \in ReadNormVector(b, p)
    BY <2>1 DEF Encode, Decode
  <2>3. Holds(b, p, NormVector(item.x, item.y, item.z))
    BY <2>2
  <2>4. /\ r.ok = TRUE /\ r.at = p + Len(NormVector(item.x, item.y, item.z))
        /\ r.v[1] = Sign(item.x) /\ NearOrZero(r.v[2], item.y) /\ NearOrZero(r.v[3], item.z)
        /\ NearSquare(r.v[4], item.x, 8)
    BY <2>1, <2>2, <2>3, NormVectorBack
  <2> QED BY <2>1, <2>2, <2>4 DEF IsBack, IsValue
<1>7. CASE item \in [kind : {"vector"}, length : Words(Long), x : Fractions, y : Fractions, z : Fractions]
  <2>1. /\ item.kind = "vector" /\ item.length \in Words(Long)
        /\ item.x \in Fractions /\ item.y \in Fractions /\ item.z \in Fractions
    BY <1>7
  <2>2. e = Vector(item.length, item.x, item.y, item.z) /\ r = ReadVector(b, p)
    BY <2>1 DEF Encode, Decode
  <2>3. Holds(b, p, Vector(item.length, item.x, item.y, item.z))
    BY <2>2
  <2>4. IsVectorBack(r, p + Len(Vector(item.length, item.x, item.y, item.z)),
                     item.length, item.x, item.y, item.z)
    BY <2>1, <2>2, <2>3, VectorBack
  <2>5. IsBack(r, p + Len(e), item)
    BY <2>1, <2>2, <2>4 DEF IsBack, IsValue, IsVectorBack
  <2> QED BY <2>5
<1>8. CASE item \in NormQuats
  <2>1. /\ item.kind = "normQuat" /\ item.w \in Fractions
        /\ item.x \in Fractions /\ item.y \in Fractions /\ item.z \in Fractions
        /\ item.w * item.w + item.x * item.x + item.y * item.y + item.z * item.z = Grid * Grid
    BY <1>8 DEF NormQuats
  <2>2. e = NormQuat(item.w, item.x, item.y, item.z) /\ r = ReadNormQuat(b, p)
    BY <2>1 DEF Encode, Decode
  <2>3. Holds(b, p, NormQuat(item.w, item.x, item.y, item.z))
    BY <2>2
  <2>4. IsQuatBack(r, p + Len(NormQuat(item.w, item.x, item.y, item.z)),
                   item.w, item.x, item.y, item.z)
    BY <2>1, <2>2, <2>3, NormQuatBack
  <2>5. IsBack(r, p + Len(e), item)
    BY <2>1, <2>2, <2>4 DEF IsBack, IsValue, IsQuatBack
  <2> QED BY <2>5
<1>9. CASE item \in [kind : {"double"}, n : Fractions \ {Grid}]
  <2>1. item.kind = "double" /\ item.n \in Fractions \ {Grid}
    BY <1>9
  <2> DEFINE w == CompressedDouble(item.n)
  <2>2. e = w /\ r = Single(Take(b, p, Long))
    BY <2>1 DEF Encode, Decode
  <2>3. w \in Seq(BIT) /\ Len(w) = Long /\ NearDouble(w, item.n)
    BY <2>1, DoubleType, DoublesAreNear
  <2>4. Holds(b, p, w)
    BY <2>2
  <2> HIDE DEF w
  <2>5. r = [ok |-> TRUE, at |-> p + Len(w), v |-> <<w>>]
    <3>1. r = Single(Take(b, p, Len(w)))
      BY <2>2, <2>3
    <3> QED BY <2>3, <2>4, <3>1, WordsBack
  <2>6. r.ok = TRUE /\ r.at = p + Len(e) /\ r.v[1] = w
    BY <2>2, <2>5
  <2>7. NearDouble(r.v[1], item.n)
    BY <2>3, <2>6
  <2> QED BY <2>1, <2>6, <2>7 DEF IsBack, IsValue
<1> QED BY <1>1, <1>2, <1>3, <1>4, <1>5, <1>6, <1>7, <1>8, <1>9 DEF Item

-----------------------------------------------------------------------------
(* Where the values are.  Each begins where the one before it ends, and     *)
(* behind the last of them there is nothing, as long as there is no gap.    *)
Laid(values, written, pos) ==
  /\ pos \in [0..Len(values) -> Nat] /\ pos[0] = 0
  /\ \A j \in 1..Len(values) : /\ pos[j] = pos[j - 1] + Len(Encode(values[j]))
                               /\ Holds(written, pos[j - 1], Encode(values[j]))
  /\ Known(values, written) => pos[Len(values)] = Len(written)

(* A reader that has read what it expected is behind the last value it read.*)
Followed(pos) ==
  /\ ReadsGiveWhatWasWritten
  /\ (\A k \in 1..Len(reads) : Expected(k)) => Len(reads) <= Len(items) /\ at = pos[Len(reads)]

InvReads ==
  /\ ~Reading => reads = <<>> /\ at = 0
  /\ \E pos : Laid(items, payload, pos) /\ Followed(pos)

LEMMA LaidNothing ==
  ASSUME NEW written \in Seq(BIT)
  PROVE  \E pos : Laid(<<>>, written, pos)
<1> DEFINE pos == [j \in 0..0 |-> 0]
<1>1. pos \in [0..Len(<<>>) -> Nat] /\ pos[0] = 0 /\ Len(<<>>) = 0
  OBVIOUS
<1>2. Known(<<>>, written) => pos[Len(<<>>)] = Len(written)
  BY DEF Known
<1>3. \A j \in 1..Len(<<>>) : /\ pos[j] = pos[j - 1] + Len(Encode(<<>>[j]))
                              /\ Holds(written, pos[j - 1], Encode(<<>>[j]))
  OBVIOUS
<1> HIDE DEF pos
<1> QED BY <1>1, <1>2, <1>3 DEF Laid

LEMMA LaidMore ==
  ASSUME NEW values \in Seq(Items), NEW written \in Seq(BIT), NEW pos, Laid(values, written, pos),
         Known(values, written), NEW item \in Items
  PROVE  \E more : Laid(Append(values, item), written \o Encode(item), more)
<1> DEFINE e == Encode(item)
           all == Append(values, item)
           w == written \o e
           n == Len(values)
           more == [j \in 0..n + 1 |-> IF j <= n THEN pos[j] ELSE pos[n] + Len(e)]
<1>1. e \in Seq(BIT) /\ Len(e) \in Nat /\ n \in Nat /\ Len(written) \in Nat
  BY LongestIs, LenProperties
<1>2. all \in Seq(Items) /\ Len(all) = n + 1 /\ all[n + 1] = item /\ \A j \in 1..n : all[j] = values[j]
  BY AppendProperties
<1>3. w \in Seq(BIT) /\ Len(w) = Len(written) + Len(e)
  BY <1>1, Joined
<1>4. /\ pos \in [0..n -> Nat] /\ pos[0] = 0 /\ pos[n] = Len(written)
      /\ \A j \in 1..n : /\ pos[j] = pos[j - 1] + Len(Encode(values[j]))
                         /\ Holds(written, pos[j - 1], Encode(values[j]))
  BY DEF Laid
<1>5. Holds(w, 0, written) /\ Holds(w, Len(written), e)
  <2>1. Len(written) + Len(e) <= Len(w) /\ 0 + Len(written) <= Len(w)
    BY <1>1, <1>3
  <2>2. /\ \A i \in 1..Len(written) : w[i] = written[i]
        /\ \A i \in 1..Len(e) : w[Len(written) + i] = e[i]
    BY <1>1, Joined
  <2> HIDE DEF w, e
  <2> QED BY <1>1, <2>1, <2>2 DEF Holds
<1>6. ASSUME NEW p \in Nat, NEW s, Len(s) \in Nat, Holds(written, p, s) PROVE Holds(w, p, s)
  <2>1. p + Len(s) <= Len(written) /\ \A i \in 1..Len(s) : written[p + i] = s[i]
    BY <1>6 DEF Holds
  <2>2. /\ Len(written) <= Len(w)
        /\ \A i \in 1..Len(written) : w[i] = written[i]
    BY <1>1, <1>3, Joined
  <2> HIDE DEF w, e
  <2>3. p + Len(s) <= Len(w)
    BY <1>1, <1>3, <1>6, <2>1, <2>2
  <2>4. \A i \in 1..Len(s) : w[p + i] = s[i]
    <3> TAKE i \in 1..Len(s)
    <3>1. p + i \in 1..Len(written)
      BY <1>1, <1>6, <2>1
    <3> QED BY <2>1, <2>2, <3>1
  <2> QED BY <2>3, <2>4 DEF Holds
<1>7. \A j \in 1..n : Len(Encode(values[j])) \in Nat
  BY LongestIs, LenProperties
<1> HIDE DEF e, all, w, n
<1>8. /\ more \in [0..n + 1 -> Nat] /\ more[0] = 0 /\ more[n + 1] = Len(written) + Len(e)
      /\ more[n] = Len(written) /\ \A j \in 0..n : more[j] = pos[j]
  BY <1>1, <1>4
<1> HIDE DEF more
<1>9. ASSUME NEW j \in 1..n + 1
      PROVE  /\ more[j] = more[j - 1] + Len(Encode(all[j]))
             /\ Holds(w, more[j - 1], Encode(all[j]))
  <2>1. CASE j \in 1..n
    <3>0. j \in 0..n /\ j - 1 \in 0..n
      BY <1>1, <2>1
    <3>1. /\ more[j] = pos[j] /\ more[j - 1] = pos[j - 1] /\ pos[j - 1] \in Nat /\ all[j] = values[j]
      BY <1>2, <1>4, <1>8, <2>1, <3>0
    <3>2. /\ pos[j] = pos[j - 1] + Len(Encode(values[j]))
          /\ Holds(written, pos[j - 1], Encode(values[j])) /\ Len(Encode(values[j])) \in Nat
      BY <1>4, <1>7, <2>1
    <3>3. Holds(w, pos[j - 1], Encode(values[j]))
      BY <1>6, <3>1, <3>2
    <3> QED BY <3>1, <3>2, <3>3
  <2>2. CASE j = n + 1
    <3>1. j - 1 = n /\ all[j] = item
      BY <1>1, <1>2, <2>2
    <3> QED BY <1>5, <1>8, <2>2, <3>1 DEF e
  <2> QED BY <1>1, <2>1, <2>2
<1>10. Laid(all, w, more)
  BY <1>2, <1>3, <1>8, <1>9 DEF Laid
<1> QED BY <1>10 DEF all, w, e

(* One value and nothing else. *)
LEMMA LaidAlone ==
  ASSUME NEW item \in Items
  PROVE  \E pos : Laid(<<item>>, Encode(item), pos)
<1> DEFINE e == Encode(item)
           one == <<item>>
           none == <<>>
<1>1. e \in Seq(BIT) /\ none \in Seq(Items) /\ none \in Seq(BIT)
  BY LongestIs
<1>2. Append(none, item) = one
  OBVIOUS
<1>3. none \o e = e
  BY <1>1
<1>4. PICK pos : Laid(none, none, pos)
  BY <1>1, LaidNothing
<1>5. Known(none, none)
  BY DEF Known
<1>6. \E more : Laid(Append(none, item), none \o Encode(item), more)
  BY <1>1, <1>4, <1>5, LaidMore
<1> QED BY <1>2, <1>3, <1>6

(* Nobody has read anything after this step. *)
LEMMA FromTheStart ==
  ASSUME reads' = <<>>, at' = 0, items' \in Seq(Items), \E pos : Laid(items', payload', pos)
  PROVE  InvReads'
<1>1. PICK pos : Laid(items', payload', pos)
  OBVIOUS
<1>2. Len(reads') = 0 /\ 0 <= Len(items') /\ pos[0] = 0
  BY <1>1, LenProperties DEF Laid
<1>3. Followed(pos)'
  BY <1>2 DEF Followed, ReadsGiveWhatWasWritten
<1> QED BY <1>1, <1>3 DEF InvReads

LEMMA InitReads ==
  ASSUME Init
  PROVE  InvReads
<1>1. reads = <<>> /\ at = 0 /\ items = <<>> /\ payload = <<>> /\ Len(reads) = 0 /\ Len(items) = 0
  BY DEF Init
<1>2. PICK pos : Laid(items, payload, pos)
  BY <1>1, LaidNothing, NothingRead
<1>3. pos[0] = 0
  BY <1>2 DEF Laid
<1>4. Followed(pos)
  BY <1>1, <1>3 DEF Followed, ReadsGiveWhatWasWritten
<1> QED BY <1>1, <1>2, <1>4 DEF InvReads

LEMMA WriteReads ==
  ASSUME Inv, InvReads, Inv', NEW item \in Items, Write(item)
  PROVE  InvReads'
<1>1. /\ who = "sender" /\ items' = Append(items, item) /\ payload' = payload \o Encode(item)
      /\ UNCHANGED <<at, reads>>
  BY DEF Write
<1>2. /\ items \in Seq(Items) /\ payload \in Seq(BIT) /\ Known(items, payload)
      /\ items' \in Seq(Items) /\ reads = <<>> /\ at = 0
  BY <1>1 DEF Inv, TypeOK, InvReads, Reading
<1>3. PICK pos : Laid(items, payload, pos)
  BY DEF InvReads
<1>4. \E more : Laid(items', payload', more)
  BY <1>1, <1>2, <1>3, LaidMore
<1> QED BY <1>1, <1>2, <1>4, FromTheStart

(* Steps that leave the values where they are, and nobody reading on. *)
LEMMA NoValueMoves ==
  ASSUME Inv, InvReads, UNCHANGED <<items, payload>>, reads' = <<>>, at' = 0
  PROVE  InvReads'
<1>1. items' \in Seq(Items) /\ \E pos : Laid(items', payload', pos)
  BY DEF Inv, TypeOK, InvReads
<1> QED BY <1>1, FromTheStart

LEMMA CallbackRewritesReads ==
  ASSUME Inv', NEW item \in Items, CallbackRewrites(item)
  PROVE  InvReads'
<1>1. items' = <<item>> /\ payload' = Encode(item) /\ at' = 0 /\ reads' = <<>>
  BY DEF CallbackRewrites
<1>2. items' \in Seq(Items) /\ \E pos : Laid(items', payload', pos)
  BY <1>1, LaidAlone DEF Inv, TypeOK
<1> QED BY <1>1, <1>2, FromTheStart

LEMMA CallbackAddsReads ==
  ASSUME Inv, InvReads, Inv', NEW item \in Items, CallbackAdds(item)
  PROVE  InvReads'
<1>1. /\ (items = <<>> => payload = <<>>)
      /\ items' = IF stream = payload THEN Append(items, item) ELSE <<>>
      /\ payload' = stream \o Encode(item) /\ at' = 0 /\ reads' = <<>>
  BY DEF CallbackAdds
<1>2. items \in Seq(Items) /\ payload \in Seq(BIT) /\ items' \in Seq(Items) /\ payload' \in Seq(BIT)
  BY DEF Inv, TypeOK
<1>3. Known(items, payload)
  BY <1>1 DEF Known
<1>4. PICK pos : Laid(items, payload, pos)
  BY DEF InvReads
<1>5. \E more : Laid(items', payload', more)
  <2>1. CASE stream = payload
    <3>1. items' = Append(items, item) /\ payload' = payload \o Encode(item)
      BY <1>1, <2>1
    <3> QED BY <1>2, <1>3, <1>4, <3>1, LaidMore
  <2>2. CASE stream # payload
    <3>1. items' = <<>>
      BY <1>1, <2>2
    <3> QED BY <1>2, <3>1, LaidNothing
  <2> QED BY <2>1, <2>2
<1> QED BY <1>1, <1>2, <1>5, FromTheStart

(* What the reader passes is what the next value was written with. *)
LEMMA PassedInIs ==
  ASSUME items \in Seq(Items), NEW k \in 1..Len(items)
  PROVE  /\ items[k] \in Item
         /\ "last" \in DOMAIN items[k] => OldOf(k) = items[k].last
         /\ "v" \in DOMAIN items[k] /\ items[k].kind # "bool" => Len(items[k].v) = 8 * BytesOf(k)
<1> DEFINE item == items[k]
<1>1. item \in Item /\ k <= Len(items)
  <2>1. Len(items) \in Nat /\ \A i \in 1..Len(items) : items[i] \in Items
    BY LenProperties
  <2> QED BY <2>1, ItemsAssumption
<1>2. "last" \in DOMAIN item => OldOf(k) = item.last
  BY <1>1 DEF OldOf
<1>3. ASSUME "v" \in DOMAIN item, item.kind # "bool" PROVE Len(item.v) = 8 * BytesOf(k)
  <2>1. BytesOf(k) = Len(item.v) \div 8
    BY <1>1, <1>3 DEF BytesOf
  <2>2. item.v \in Integer
    <3> HIDE DEF item
    <3> QED BY <1>1, <1>3 DEF Item, NormVectors, NormQuats
  <2> QED BY <2>1, <2>2, IntegerType
<1> QED BY <1>1, <1>2, <1>3

(* One value read, from where it was written. *)
LEMMA NextIsRead ==
  ASSUME Inv, Reading, NEW pos, Laid(items, payload, pos), NEW k \in 1..Len(items), at = pos[k - 1],
         NEW r \in Decode(items[k].kind, stream, at, OldOf(k), BytesOf(k))
  PROVE  r.ok = TRUE /\ r.at = pos[k] /\ IsValue(r.v, items[k])
<1> DEFINE item == items[k]
           e == Encode(item)
           old == OldOf(k)
           bytes == BytesOf(k)
<1>1. /\ items \in Seq(Items) /\ payload \in Seq(BIT) /\ stream \in Seq(BIT) /\ Filled(payload, stream)
  BY DEF Inv, TypeOK
<1>2. /\ item \in Item /\ ("last" \in DOMAIN item => old = item.last)
      /\ ("v" \in DOMAIN item /\ item.kind # "bool" => Len(item.v) = 8 * bytes)
  BY <1>1, PassedInIs
<1>3. /\ pos[k] = pos[k - 1] + Len(e) /\ Holds(payload, pos[k - 1], e) /\ pos[k - 1] \in Nat
  <2>1. k - 1 \in 0..Len(items)
    BY <1>1, LenProperties
  <2> QED BY <2>1 DEF Laid
<1>4. bytes \in Nat \ {0}
  <2>1. k \in Nat \ {0}
    BY <1>1, LenProperties
  <2> QED BY <1>1, <2>1, PassedIn
<1>5. Len(e) \in Nat
  BY <1>1, LongestIs, LenProperties
<1>6. r \in Decode(item.kind, stream, at, old, bytes)
  OBVIOUS
<1> HIDE DEF item, e, old, bytes
<1> DEFINE p == pos[k - 1]
<1>7. p \in Nat /\ at = p /\ Holds(payload, p, e) /\ pos[k] = p + Len(e)
  BY <1>3
<1> HIDE DEF p
<1>8. Holds(stream, p, e)
  <2>1. /\ Len(payload) <= Len(stream) /\ \A i \in 1..Len(payload) : payload[i] = stream[i]
        /\ Len(payload) \in Nat /\ Len(stream) \in Nat
    BY <1>1, LenProperties DEF Filled, IsCut
  <2>2. p + Len(e) <= Len(payload) /\ \A i \in 1..Len(e) : payload[p + i] = e[i]
    BY <1>7 DEF Holds
  <2>3. \A i \in 1..Len(e) : stream[p + i] = e[i]
    <3> TAKE i \in 1..Len(e)
    <3>1. p + i \in 1..Len(payload)
      BY <1>5, <1>7, <2>1, <2>2
    <3> QED BY <2>1, <2>2, <3>1
  <2>4. p + Len(e) <= Len(stream)
    BY <1>5, <1>7, <2>1, <2>2
  <2> QED BY <2>3, <2>4 DEF Holds
<1>9. IsBack(r, p + Len(e), item)
  <2>1. Holds(stream, p, Encode(item)) /\ r \in Decode(item.kind, stream, p, old, bytes)
    BY <1>6, <1>7, <1>8 DEF e
  <2> QED BY <1>1, <1>2, <1>4, <1>7, <2>1, DecodesBack DEF e
<1> QED BY <1>7, <1>9 DEF IsBack, item

LEMMA ReadReads ==
  ASSUME Inv, InvReads, NEW kind \in Kinds, Read(kind)
  PROVE  InvReads'
<1> DEFINE m == Len(reads)
           next == m + 1
<1>1. PICK pos : Laid(items, payload, pos) /\ Followed(pos)
  BY DEF InvReads
<1>2. /\ Reading /\ Reading' /\ UNCHANGED <<items, payload, stream>>
      /\ \A k \in 1..m : Expected(k) /\ reads[k].ok
  BY DEF Read, Reading
<1>3. PICK r \in Decode(kind, stream, at, OldOf(next), BytesOf(next)) :
        /\ at' = r.at
        /\ reads' = Append(reads, [kind |-> kind, ok |-> r.ok, v |-> r.v])
  BY DEF Read
<1>4. reads \in Seq(Outcome) /\ items \in Seq(Items) /\ m \in Nat /\ Len(items) \in Nat
  BY LenProperties DEF Inv, TypeOK
<1> DEFINE o == [kind |-> kind, ok |-> r.ok, v |-> r.v]
<1>5. Len(reads') = next /\ reads'[next] = o /\ \A k \in 1..m : reads'[k] = reads[k]
  <2> DEFINE S == Outcome \cup {o}
  <2>1. reads \in Seq(S) /\ o \in S
    BY <1>4
  <2> HIDE DEF S, o
  <2>2. reads' = Append(reads, o)
    BY <1>3 DEF o
  <2> QED BY <1>4, <2>1, <2>2, AppendProperties
<1>6. o.kind = kind /\ o.ok = r.ok /\ o.v = r.v
  OBVIOUS
<1> HIDE DEF o, m
<1>7. /\ at = pos[m] /\ m <= Len(items)
      /\ \A k \in 1..m : Expected(k) => reads[k].ok /\ IsValue(reads[k].v, items[k])
  BY <1>1, <1>2 DEF Followed, ReadsGiveWhatWasWritten, m
<1>8. next \in Nat /\ next - 1 = m /\ \A k \in 1..next : k \in 1..m \/ k = next
  BY <1>4
<1> HIDE DEF next
<1>9. ASSUME next <= Len(items), kind = items[next].kind
      PROVE  r.ok = TRUE /\ r.at = pos[next] /\ IsValue(r.v, items[next])
  <2>1. next \in 1..Len(items) /\ at = pos[next - 1]
    <3>1. 1 <= next
      BY <1>4, <1>8
    <3> QED BY <1>4, <1>7, <1>8, <1>9, <3>1
  <2>2. r \in Decode(items[next].kind, stream, at, OldOf(next), BytesOf(next))
    BY <1>3, <1>9
  <2> QED BY <1>1, <1>2, <2>1, <2>2, NextIsRead
<1>10. ASSUME NEW k \in 1..next, Expected(k)'
       PROVE  reads'[k].ok /\ IsValue(reads'[k].v, items[k])
  <2>1. k <= Len(items) /\ reads'[k].kind = items[k].kind
    BY <1>2, <1>10 DEF Expected
  <2>2. CASE k \in 1..m
    <3>1. reads'[k] = reads[k]
      BY <1>5, <2>2
    <3>2. Expected(k)
      BY <2>1, <3>1 DEF Expected
    <3> QED BY <1>7, <2>2, <3>1, <3>2
  <2>3. CASE k = next
    <3>1. reads'[k].kind = kind /\ reads'[k].ok = r.ok /\ reads'[k].v = r.v
      BY <1>5, <1>6, <2>3
    <3> QED BY <1>9, <2>1, <2>3, <3>1
  <2> QED BY <1>8, <2>2, <2>3
<1>11. ASSUME \A k \in 1..next : Expected(k)'
       PROVE  next <= Len(items) /\ at' = pos[next]
  <2>1. PICK k \in 1..next : k = next
    BY <1>4, <1>8
  <2>2. Expected(k)'
    BY <1>11
  <2>3. k <= Len(items) /\ reads'[k].kind = items[k].kind
    BY <1>2, <2>2 DEF Expected
  <2>4. next <= Len(items) /\ kind = items[next].kind
    BY <1>5, <1>6, <2>1, <2>3
  <2> QED BY <1>3, <1>9, <2>4
<1>12. Followed(pos)'
  BY <1>2, <1>5, <1>10, <1>11 DEF Followed, ReadsGiveWhatWasWritten
<1>13. Laid(items', payload', pos)
  BY <1>1, <1>2
<1> QED BY <1>2, <1>12, <1>13 DEF InvReads

LEMMA StutterReads ==
  ASSUME InvReads, UNCHANGED vars
  PROVE  InvReads'
BY DEF InvReads, Followed, ReadsGiveWhatWasWritten, Expected, Reading, vars

(* Whoever reads the values in the order they were written, with the copies *)
(* they were written with, gets them, whatever they are and however many:   *)
(* callbacks and the game, behind any number of detours.  Of x of a vector  *)
(* and w of a quaternion this says the sign, and how near the square is the *)
(* root is taken of (ReadsGiveWhatWasWritten, BitStream.h:839-956,          *)
(* 1109-1214, rakhook.hpp:232-280).                                         *)
THEOREM ReadersFollow == Spec => []ReadsGiveWhatWasWritten
<1>1. ASSUME Inv, InvReads, Inv', [Next]_vars PROVE InvReads'
  <2>1. ASSUME NEW item \in Items, Write(item) PROVE InvReads'
    BY <1>1, <2>1, WriteReads
  <2>2. ASSUME NEW stamped \in BOOLEAN, NEW trailing \in {<<>>, Repeat(1, 8)}, ServerSends(stamped, trailing)
        PROVE  InvReads'
    <3>1. UNCHANGED <<items, payload>> /\ reads' = <<>> /\ at' = 0
      BY <1>1, <2>2 DEF ServerSends, InvReads, Reading
    <3> QED BY <1>1, <3>1, NoValueMoves
  <2>3. ASSUME emul_rpc PROVE InvReads'
    <3>1. UNCHANGED <<items, payload>> /\ reads' = <<>> /\ at' = 0
      BY <1>1, <2>3 DEF emul_rpc, InvReads, Reading
    <3> QED BY <1>1, <3>1, NoValueMoves
  <2>4. ASSUME handle_rpc_packet PROVE InvReads'
    <3>1. UNCHANGED <<items, payload>> /\ reads' = <<>> /\ at' = 0
      BY <2>4 DEF handle_rpc_packet, Refuses, Nobody
    <3> QED BY <1>1, <3>1, NoValueMoves
  <2>5. ASSUME NEW kind \in Kinds, Read(kind) PROVE InvReads'
    BY <1>1, <2>5, ReadReads
  <2>6. ASSUME NEW item \in Replacements, CallbackRewrites(item) \/ CallbackAdds(item) PROVE InvReads'
    BY <1>1, <2>6, CallbackRewritesReads, CallbackAddsReads, ItemsAssumption
  <2>7. ASSUME CallbackRefuses PROVE InvReads'
    BY <1>1, <2>7, NoValueMoves DEF CallbackRefuses, Over, Nobody
  <2>8. ASSUME NEW number \in Ids, CallbackApproves(number) PROVE InvReads'
    BY <1>1, <2>8, NoValueMoves DEF CallbackApproves, Nobody
  <2>9. ASSUME OriginalHandles PROVE InvReads'
    <3>1. UNCHANGED <<items, payload>> /\ reads' = <<>> /\ at' = 0
      BY <2>9 DEF OriginalHandles, Refuses, Nobody
    <3> QED BY <1>1, <3>1, NoValueMoves
  <2>10. ASSUME UNCHANGED vars PROVE InvReads'
    BY <1>1, <2>10, StutterReads
  <2> QED BY <1>1, <2>1, <2>2, <2>3, <2>4, <2>5, <2>6, <2>7, <2>8, <2>9, <2>10 DEF Next
<1>2. ASSUME InvReads PROVE ReadsGiveWhatWasWritten
  BY <1>2 DEF InvReads, Followed
<1> QED BY Invariance, InitReads, <1>1, <1>2, PTL DEF Spec
=============================================================================
