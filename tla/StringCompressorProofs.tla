----------------------- MODULE StringCompressorProofs -----------------------
(***************************************************************************)
(* Theorems about StringCompressor for any languages, strings and trees    *)
(* and any number of threads: the Map is in order and finds what it has, a *)
(* call codes with the tree of its language, no tree leaks, trees are      *)
(* prefix codes and what is encoded comes back.                            *)
(***************************************************************************)
EXTENDS StringCompressor, SequenceTheorems, FiniteSetTheorems, FunctionTheorems,
        WellFoundedInduction, TLAPS

(* Languages are numbers, in order. *)
LEMMA LanguageType == 0 \in Languages /\ Languages \subseteq Int
  BY CompressorAssumption

-----------------------------------------------------------------------------
(* The binary search.                                                       *)

(* Of some numbers there is a least one. *)
LEMMA LeastNumber ==
  ASSUME NEW T, T \subseteq Nat, T # {}
  PROVE  \E x \in T : \A y \in T : x <= y
<1> DEFINE R == {ss \in Nat \X Nat : ss[1] < ss[2]}
<1>0. IsWellFoundedOn(R, Nat)
  BY NatLessThanWellFounded DEF OpToRel
<1>h. HIDE DEF R
<1>1. PICK x \in T : \A y \in T : ~ (<<y, x>> \in R)
  BY <1>0, WFMin
<1>2. \A y \in T : ~(y < x)
  BY <1>1 DEF R
<1> QED BY <1>2

Nodes == Seq([key : Int, data : Nat])
Ascending(nodes) == \A i, j \in 1..Len(nodes) : i < j => nodes[i].key < nodes[j].key
Outcome == [found : BOOLEAN, at : Int]

(* What one iteration leaves to be searched. *)
Up(nodes, key, s) == IF key < nodes[s.index + 1].key THEN s.index - 1 ELSE s.upper
Low(nodes, key, s) == IF key < nodes[s.index + 1].key THEN s.lower ELSE s.index + 1
Rest(nodes, key, s) ==
  [index |-> Low(nodes, key, s) + (Up(nodes, key, s) - Low(nodes, key, s)) \div 2,
   lower |-> Low(nodes, key, s), upper |-> Up(nodes, key, s)]

Iteration(nodes, key, f, s) ==
  IF nodes[s.index + 1].key = key THEN [found |-> TRUE, at |-> s.index]
  ELSE IF Low(nodes, key, s) > Up(nodes, key, s)
       THEN [found |-> FALSE, at |-> Low(nodes, key, s)]
  ELSE f[Rest(nodes, key, s)]
Iterations(nodes, key, f) == [s \in Bounds(nodes) |-> Iteration(nodes, key, f, s)]

(* The bounds that the search of a whole list comes to, and those it does not. *)
Bounding(s) == s.lower <= s.index /\ s.index <= s.upper
ToGo(nodes, s) == IF Bounding(s) THEN s.upper - s.lower + 1 ELSE Len(nodes) + 2

LEMMA RestIsShorter ==
  ASSUME NEW nodes \in Nodes, NEW key \in Int, NEW s \in Bounds(nodes),
         Low(nodes, key, s) <= Up(nodes, key, s)
  PROVE  LET r == Rest(nodes, key, s) IN
         /\ r \in Bounds(nodes) /\ Bounding(r)
         /\ r.lower = Low(nodes, key, s) /\ r.upper = Up(nodes, key, s)
         /\ ToGo(nodes, r) \in Nat /\ ToGo(nodes, s) \in Nat
         /\ ToGo(nodes, r) < ToGo(nodes, s)
<1> DEFINE n == Len(nodes)
           x == nodes[s.index + 1].key
           low == Low(nodes, key, s)
           up == Up(nodes, key, s)
           mid == low + (up - low) \div 2
           r == [index |-> mid, lower |-> low, upper |-> up]
<1>1. n \in Nat
  BY DEF Nodes
<1>2. /\ s.index \in 0..n /\ s.lower \in 0..n /\ s.upper \in -1..n
      /\ \/ low = s.lower /\ up = s.index - 1
         \/ low = s.index + 1 /\ up = s.upper
  BY DEF Bounds, Low, Up
<1>3. low <= up
  OBVIOUS
<1> HIDE DEF n, low, up
<1>4. low \in 0..n /\ up \in -1..n
  BY <1>1, <1>2, <1>3
<1>5. mid \in Nat /\ low <= mid /\ mid <= up
  BY <1>1, <1>3, <1>4
<1> HIDE DEF mid
<1>6. r.index = mid /\ r.lower = low /\ r.upper = up /\ mid \in 0..n
  BY <1>1, <1>4, <1>5
<1>7. r \in Bounds(nodes) /\ Bounding(r)
  BY <1>4, <1>5, <1>6 DEF Bounds, Bounding, n
<1>8. ToGo(nodes, r) = up - low + 1
  BY <1>6, <1>7 DEF ToGo
<1>9. ToGo(nodes, s) = IF Bounding(s) THEN s.upper - s.lower + 1 ELSE n + 2
  BY DEF ToGo, n
<1>10. up - low + 1 \in Nat /\ up - low + 1 < n + 2
  BY <1>1, <1>3, <1>4
<1>11. Bounding(s) => /\ s.upper - s.lower + 1 \in Nat
                      /\ up - low + 1 < s.upper - s.lower + 1
  BY <1>1, <1>2, <1>3 DEF Bounding
<1>12. r = Rest(nodes, key, s)
  BY DEF Rest, mid, low, up
<1>13. /\ ToGo(nodes, r) \in Nat /\ ToGo(nodes, s) \in Nat
       /\ ToGo(nodes, r) < ToGo(nodes, s)
  BY <1>1, <1>8, <1>9, <1>10, <1>11
<1> QED BY <1>6, <1>7, <1>12, <1>13 DEF low, up

(* So the search is defined for all bounds... *)
LEMMA BisectionExists ==
  ASSUME NEW nodes \in Nodes, NEW key \in Int
  PROVE  \E f : f = Iterations(nodes, key, f)
<1> DEFINE B == Bounds(nodes)
           Right(k, f) == \A s \in B : ToGo(nodes, s) <= k => f[s] = Iteration(nodes, key, f, s)
           T == {k \in Nat : ~ \E f : DOMAIN f = B /\ Right(k, f)}
<1>1. ASSUME NEW s \in B, NEW f, NEW g, DOMAIN f = B, DOMAIN g = B,
             \A u \in B : ToGo(nodes, u) < ToGo(nodes, s) => f[u] = g[u]
      PROVE  Iteration(nodes, key, f, s) = Iteration(nodes, key, g, s)
  <2>1. CASE Low(nodes, key, s) > Up(nodes, key, s)
    BY <2>1 DEF Iteration
  <2>2. CASE ~(Low(nodes, key, s) > Up(nodes, key, s))
    <3>1. Low(nodes, key, s) <= Up(nodes, key, s)
      BY <2>2 DEF Low, Up, Bounds, Nodes
    <3>2. Rest(nodes, key, s) \in B /\ ToGo(nodes, Rest(nodes, key, s)) < ToGo(nodes, s)
      BY <3>1, RestIsShorter
    <3>3. f[Rest(nodes, key, s)] = g[Rest(nodes, key, s)]
      BY <1>1, <3>2
    <3> QED BY <3>3, Zenon DEF Iteration
  <2> QED BY <2>1, <2>2
<1>2. \A s \in B : ToGo(nodes, s) \in Nat /\ ToGo(nodes, s) <= Len(nodes) + 2
  <2>1. Len(nodes) \in Nat
    BY DEF Nodes
  <2> QED BY <2>1 DEF Bounds, ToGo, Bounding
<1> HIDE DEF B
<1>3. T = {}
  <2> SUFFICES ASSUME T # {} PROVE FALSE
    OBVIOUS
  <2>1. PICK k \in T : \A y \in T : k <= y
    <3>1. T \subseteq Nat
      OBVIOUS
    <3> HIDE DEF T
    <3> QED BY <3>1, LeastNumber
  <2>2. \E f : DOMAIN f = B /\ \A s \in B : ToGo(nodes, s) < k => f[s] = Iteration(nodes, key, f, s)
    <3>1. CASE k = 0
      <4> DEFINE f == [s \in B |-> 0]
      <4>1. DOMAIN f = B /\ \A s \in B : ~(ToGo(nodes, s) < k)
        BY <1>2, <3>1
      <4> QED BY <4>1
    <3>2. CASE k # 0
      <4>1. k - 1 \in Nat /\ k - 1 \notin T
        BY <2>1, <3>2
      <4>2. PICK f : DOMAIN f = B /\ Right(k - 1, f)
        BY <4>1
      <4>3. \A s \in B : ToGo(nodes, s) < k => ToGo(nodes, s) <= k - 1
        BY <1>2, <2>1, <4>1
      <4> QED BY <4>2, <4>3
    <3> QED BY <3>1, <3>2
  <2>3. PICK f : /\ DOMAIN f = B
                 /\ \A s \in B : ToGo(nodes, s) < k => f[s] = Iteration(nodes, key, f, s)
    BY <2>2
  <2> DEFINE g == [s \in B |-> Iteration(nodes, key, f, s)]
  <2>4. DOMAIN g = B /\ \A s \in B : g[s] = Iteration(nodes, key, f, s)
    OBVIOUS
  <2> HIDE DEF g
  <2>5. ASSUME NEW s \in B, ToGo(nodes, s) <= k PROVE g[s] = Iteration(nodes, key, g, s)
    <3>1. ASSUME NEW u \in B, ToGo(nodes, u) < ToGo(nodes, s) PROVE f[u] = g[u]
      <4>1. ToGo(nodes, u) < k
        BY <1>2, <2>1, <2>5, <3>1
      <4> QED BY <2>3, <2>4, <4>1
    <3>2. Iteration(nodes, key, f, s) = Iteration(nodes, key, g, s)
      BY <1>1, <2>3, <2>4, <3>1
    <3> QED BY <2>4, <3>2
  <2> QED BY <2>1, <2>4, <2>5
<1>4. Len(nodes) + 2 \in Nat
  BY DEF Nodes
<1>5. PICK f : DOMAIN f = B /\ Right(Len(nodes) + 2, f)
  BY <1>3, <1>4
<1> DEFINE g == [s \in B |-> Iteration(nodes, key, f, s)]
<1>6. DOMAIN g = B /\ \A s \in B : g[s] = Iteration(nodes, key, f, s) /\ g[s] = f[s]
  BY <1>2, <1>5
<1>7. \A s \in B : Iteration(nodes, key, f, s) = Iteration(nodes, key, g, s)
  <2> HIDE DEF g
  <2> QED BY <1>1, <1>5, <1>6
<1>8. g = [s \in B |-> Iteration(nodes, key, g, s)]
  <2> DEFINE h == [s \in B |-> Iteration(nodes, key, g, s)]
  <2>1. \A s \in B : Iteration(nodes, key, f, s) = Iteration(nodes, key, g, s)
    BY <1>7
  <2> HIDE DEF B
  <2> QED BY <2>1, Zenon
<1> QED BY <1>8 DEF Iterations, B

LEMMA BisectionIterates ==
  ASSUME NEW nodes \in Nodes, NEW key \in Int
  PROVE  \A s \in Bounds(nodes) :
           Bisection(nodes, key)[s] = Iteration(nodes, key, Bisection(nodes, key), s)
<1>1. PICK f : f = Iterations(nodes, key, f)
  BY BisectionExists
<1>2. Bisection(nodes, key) = Iterations(nodes, key, Bisection(nodes, key))
  BY <1>1, Zenon DEF Bisection, Iterations, Iteration, Rest, Low, Up
<1> QED BY <1>2, Zenon DEF Iterations

(* ... and it is right: the key is neither before the lower bound nor behind *)
(* the upper one.                                                           *)
Surrounds(nodes, key, lower, upper) ==
  \A i \in 1..Len(nodes) : /\ i <= lower => nodes[i].key < key
                           /\ i > upper + 1 => key < nodes[i].key

HasKey(nodes, index, key) == index + 1 \in 1..Len(nodes) /\ nodes[index + 1].key = key

Right(nodes, key, o) ==
  /\ o \in Outcome
  /\ o.found => HasKey(nodes, o.at, key)
  /\ ~o.found => o.at \in 0..Len(nodes) /\ Surrounds(nodes, key, o.at, o.at - 1)

LEMMA IterationSurrounds ==
  ASSUME NEW nodes \in Nodes, NEW key \in Int, NEW s \in Bounds(nodes), Ascending(nodes),
         Bounding(s), s.upper < Len(nodes), Surrounds(nodes, key, s.lower, s.upper),
         nodes[s.index + 1].key # key
  PROVE  LET low == Low(nodes, key, s)
             up == Up(nodes, key, s) IN
         /\ up \in Int /\ up < Len(nodes) /\ low \in 0..Len(nodes) /\ Surrounds(nodes, key, low, up)
         /\ low > up => low - 1 = up
<1> DEFINE n == Len(nodes)
           x == nodes[s.index + 1].key
<1>1. n \in Nat /\ \A i \in 1..n : nodes[i].key \in Int
  <2>1. \A i \in 1..n : nodes[i] \in [key : Int, data : Nat]
    BY ElementOfSeq DEF Nodes
  <2> QED BY <2>1 DEF Nodes
<1>2. /\ s.index \in 0..n /\ s.lower \in 0..n /\ s.upper \in -1..n
      /\ s.lower <= s.index /\ s.index <= s.upper /\ s.upper < n
  BY DEF Bounds, Bounding
<1>3. s.index + 1 \in 1..n /\ x \in Int
  BY <1>1, <1>2
<1>4. ASSUME NEW i \in 1..n
      PROVE  /\ i < s.index + 1 => nodes[i].key < x
             /\ i > s.index + 1 => x < nodes[i].key
             /\ i <= s.lower => nodes[i].key < key
             /\ i > s.upper + 1 => key < nodes[i].key
  <2>1. /\ i < s.index + 1 => nodes[i].key < x
        /\ s.index + 1 < i => x < nodes[i].key
    BY <1>3 DEF Ascending
  <2>2. /\ i <= s.lower => nodes[i].key < key
        /\ i > s.upper + 1 => key < nodes[i].key
    BY DEF Surrounds
  <2> QED BY <1>3, <2>1, <2>2
<1> HIDE DEF n, x
<1>5. CASE key < x
  <2>1. Low(nodes, key, s) = s.lower /\ Up(nodes, key, s) = s.index - 1
    BY <1>5 DEF Low, Up, x
  <2>2. ASSUME NEW i \in 1..n
        PROVE  /\ i <= s.lower => nodes[i].key < key
               /\ i > s.index - 1 + 1 => key < nodes[i].key
    <3>1. CASE i = s.index + 1
      BY <1>2, <1>3, <1>4, <1>5, <3>1 DEF x
    <3>2. CASE i # s.index + 1
      <4>1. i > s.index - 1 + 1 => i > s.index + 1
        BY <1>1, <1>2, <3>2
      <4>2. nodes[i].key \in Int
        BY <1>1
      <4> QED BY <1>3, <1>4, <1>5, <4>1, <4>2 DEF x
    <3> QED BY <3>1, <3>2
  <2>3. Surrounds(nodes, key, s.lower, s.index - 1)
    BY <2>2 DEF Surrounds, n
  <2>4. s.lower > s.index - 1 => s.lower - 1 = s.index - 1
    BY <1>2
  <2>5. s.index - 1 \in Int /\ s.index - 1 < n /\ s.lower \in 0..n
    BY <1>1, <1>2
  <2> QED BY <2>1, <2>3, <2>4, <2>5 DEF n
<1>6. CASE ~(key < x)
  <2>1. Low(nodes, key, s) = s.index + 1 /\ Up(nodes, key, s) = s.upper
    BY <1>6 DEF Low, Up, x
  <2>2. x < key
    BY <1>3, <1>6 DEF x
  <2>3. ASSUME NEW i \in 1..n
        PROVE  /\ i <= s.index + 1 => nodes[i].key < key
               /\ i > s.upper + 1 => key < nodes[i].key
    <3>1. CASE i = s.index + 1
      BY <1>2, <1>3, <1>4, <2>2, <3>1 DEF x
    <3>2. CASE i # s.index + 1
      <4>1. i <= s.index + 1 => i < s.index + 1
        BY <1>1, <1>2, <3>2
      <4>2. nodes[i].key \in Int
        BY <1>1
      <4>3. i > s.upper + 1 => key < nodes[i].key
        BY <1>4
      <4> QED BY <1>3, <1>4, <2>2, <4>1, <4>2, <4>3
    <3> QED BY <3>1, <3>2
  <2>4. Surrounds(nodes, key, s.index + 1, s.upper)
    BY <2>3 DEF Surrounds, n
  <2>5. s.index + 1 > s.upper => s.index + 1 - 1 = s.upper
    BY <1>2
  <2>6. s.upper \in Int /\ s.upper < n /\ s.index + 1 \in 0..n
    BY <1>1, <1>2, <1>3
  <2>7. s.index \in Int
    BY <1>2
  <2> QED BY ONLY <2>1, <2>4, <2>5, <2>6, <2>7 DEF n
<1> QED BY <1>5, <1>6

LEMMA BisectionIsRight ==
  ASSUME NEW nodes \in Nodes, NEW key \in Int, Ascending(nodes)
  PROVE  \A s \in Bounds(nodes) :
           Bounding(s) /\ s.upper < Len(nodes) /\ Surrounds(nodes, key, s.lower, s.upper) =>
             Right(nodes, key, Bisection(nodes, key)[s])
<1> DEFINE Good(s) == /\ Bounding(s) /\ s.upper < Len(nodes)
                      /\ Surrounds(nodes, key, s.lower, s.upper)
           f == Bisection(nodes, key)
           T == {k \in Nat : \E s \in Bounds(nodes) :
                   Good(s) /\ ToGo(nodes, s) = k /\ ~Right(nodes, key, f[s])}
<1>1. \A s \in Bounds(nodes) : f[s] = Iteration(nodes, key, f, s)
  BY BisectionIterates
<1>2. \A s \in Bounds(nodes) : ToGo(nodes, s) \in Nat
  BY DEF Bounds, ToGo, Bounding, Nodes
<1> HIDE DEF f
<1>3. T = {}
  <2> SUFFICES ASSUME T # {} PROVE FALSE
    OBVIOUS
  <2>1. PICK k \in T : \A y \in T : k <= y
    <3>1. T \subseteq Nat
      OBVIOUS
    <3> HIDE DEF T
    <3> QED BY <3>1, LeastNumber
  <2>2. PICK s \in Bounds(nodes) : Good(s) /\ ToGo(nodes, s) = k /\ ~Right(nodes, key, f[s])
    BY <2>1
  <2>3. f[s] = Iteration(nodes, key, f, s)
    BY <1>1
  <2> DEFINE low == Low(nodes, key, s)
             up == Up(nodes, key, s)
             r == Rest(nodes, key, s)
  <2>4. CASE nodes[s.index + 1].key = key
    <3>1. f[s] = [found |-> TRUE, at |-> s.index]
      BY <2>3, <2>4 DEF Iteration
    <3>2. s.index \in Int /\ s.index + 1 \in 1..Len(nodes)
      <4>1. Len(nodes) \in Nat
        BY DEF Nodes
      <4> QED BY <2>2, <4>1 DEF Bounds, Bounding
    <3>3. Right(nodes, key, [found |-> TRUE, at |-> s.index])
      BY <2>4, <3>2 DEF Right, Outcome, HasKey
    <3> QED BY <2>2, <3>1, <3>3
  <2>5. CASE nodes[s.index + 1].key # key
    <3>1. /\ up \in Int /\ up < Len(nodes) /\ low \in 0..Len(nodes)
          /\ Surrounds(nodes, key, low, up)
          /\ low > up => low - 1 = up
      BY <2>2, <2>5, IterationSurrounds
    <3>2. CASE low > up
      <4>1. f[s] = [found |-> FALSE, at |-> low]
        BY <2>3, <2>5, <3>2 DEF Iteration
      <4>2. Right(nodes, key, [found |-> FALSE, at |-> low])
        <5>1. low - 1 = up
          BY <3>1, <3>2
        <5> HIDE DEF low, up
        <5> QED BY <3>1, <5>1 DEF Right, Outcome
      <4> QED BY <2>2, <4>1, <4>2
    <3>3. CASE ~(low > up)
      <4>1. low <= up
        BY <3>1, <3>3
      <4>2. /\ r \in Bounds(nodes) /\ Bounding(r) /\ r.lower = low /\ r.upper = up
            /\ ToGo(nodes, r) \in Nat /\ ToGo(nodes, r) < ToGo(nodes, s)
        BY <4>1, RestIsShorter
      <4>3. Good(r)
        BY <3>1, <4>2
      <4>4. f[s] = f[r]
        BY <2>3, <2>5, <3>3, Zenon DEF Iteration
      <4>5. Right(nodes, key, f[r])
        <5> SUFFICES ASSUME ~Right(nodes, key, f[r]) PROVE FALSE
          OBVIOUS
        <5> HIDE DEF r, low, up, Good
        <5>1. ToGo(nodes, r) \in T
          BY <4>2, <4>3
        <5>2. k <= ToGo(nodes, r)
          BY <2>1, <5>1
        <5> QED BY <1>2, <2>2, <4>2, <5>2
      <4> QED BY <2>2, <4>4, <4>5
    <3> QED BY <3>2, <3>3
  <2> QED BY <2>4, <2>5
<1> QED BY <1>2, <1>3 DEF f

LEMMA SearchIsRight ==
  ASSUME NEW nodes \in Nodes, NEW key \in Int, Ascending(nodes)
  PROVE  Right(nodes, key, GetIndexFromKey(nodes, key))
<1> DEFINE n == Len(nodes)
           s == [index |-> n \div 2, lower |-> 0, upper |-> n - 1]
<1>1. n \in Nat
  BY DEF Nodes
<1>2. CASE n = 0
  <2>1. GetIndexFromKey(nodes, key) = [found |-> FALSE, at |-> 0]
    BY <1>2 DEF GetIndexFromKey
  <2> QED BY <1>2, <2>1 DEF Right, Outcome, Surrounds
<1>3. CASE n # 0
  <2>1. GetIndexFromKey(nodes, key) = Bisection(nodes, key)[s]
    BY <1>3 DEF GetIndexFromKey
  <2>2. n \div 2 \in 0..(n - 1)
    BY <1>1, <1>3
  <2>3. s \in Bounds(nodes) /\ Bounding(s) /\ s.upper < n
    BY <1>1, <1>3, <2>2 DEF Bounds, Bounding
  <2>4. Surrounds(nodes, key, s.lower, s.upper)
    BY <1>1 DEF Surrounds
  <2> HIDE DEF s
  <2> QED BY <2>1, <2>3, <2>4, BisectionIsRight
<1> QED BY <1>2, <1>3

-----------------------------------------------------------------------------
(* The Map between calls.                                                   *)

HasNode(nodes, key, data) ==
  \E i \in 1..Len(nodes) : nodes[i].key = key /\ nodes[i].data = data
Knows(nodes, key) == \E i \in 1..Len(nodes) : nodes[i].key = key

Maps == [nodes : Nodes, index : Nat, key : Languages, valid : BOOLEAN]

(* A Map that is safe to search, whatever its cache says, and one whose     *)
(* cache is right.                                                          *)
MapIsSafe(m) ==
  /\ m \in Maps /\ Ascending(m.nodes)
  /\ m.nodes # <<>> => m.index < Len(m.nodes)
  /\ m.valid => m.nodes # <<>>

MapOK(m) == MapIsSafe(m) /\ (m.valid => HasKey(m.nodes, m.index, m.key))

LEMMA NodesType ==
  ASSUME NEW nodes \in Nodes
  PROVE  /\ Len(nodes) \in Nat
         /\ \A i \in 1..Len(nodes) : /\ nodes[i] \in [key : Int, data : Nat]
                                     /\ nodes[i].key \in Int /\ nodes[i].data \in Nat
<1>1. \A i \in 1..Len(nodes) : nodes[i] \in [key : Int, data : Nat]
  BY ElementOfSeq DEF Nodes
<1> QED BY <1>1 DEF Nodes

(* The node of a key is the only one. *)
LEMMA OneNode ==
  ASSUME NEW nodes \in Nodes, Ascending(nodes),
         NEW i \in 1..Len(nodes), NEW j \in 1..Len(nodes), nodes[i].key = nodes[j].key
  PROVE  i = j
<1>1. nodes[i].key \in Int /\ nodes[j].key \in Int /\ Len(nodes) \in Nat
  BY NodesType
<1>2. ~(i < j) /\ ~(j < i)
  BY <1>1 DEF Ascending
<1> QED BY <1>1, <1>2

LEMMA SearchFinds ==
  ASSUME NEW nodes \in Nodes, NEW key \in Int, Ascending(nodes)
  PROVE  LET s == GetIndexFromKey(nodes, key) IN
         /\ s.found \in BOOLEAN
         /\ s.found <=> Knows(nodes, key)
         /\ s.found => s.at \in Nat /\ HasKey(nodes, s.at, key)
         /\ ~s.found => s.at \in 0..Len(nodes) /\ Surrounds(nodes, key, s.at, s.at - 1)
<1> DEFINE s == GetIndexFromKey(nodes, key)
<1>1. Right(nodes, key, s)
  BY SearchIsRight
<1> HIDE DEF s
<1>2. s.found => Knows(nodes, key) /\ s.at \in Nat
  BY <1>1, NodesType DEF Right, HasKey, Knows, Outcome
<1>3. ASSUME ~s.found, NEW i \in 1..Len(nodes) PROVE nodes[i].key # key
  <2>1. s.at \in 0..Len(nodes) /\ Surrounds(nodes, key, s.at, s.at - 1)
    BY <1>1, <1>3 DEF Right
  <2>2. nodes[i].key < key \/ key < nodes[i].key
    BY <2>1, NodesType DEF Surrounds
  <2> QED BY <2>2, NodesType
<1>4. ~s.found => ~Knows(nodes, key)
  BY <1>3 DEF Knows
<1>5. /\ s.found \in BOOLEAN
      /\ s.found => HasKey(nodes, s.at, key)
      /\ ~s.found => s.at \in 0..Len(nodes) /\ Surrounds(nodes, key, s.at, s.at - 1)
  BY <1>1 DEF Right, Outcome
<1> QED BY <1>2, <1>4, <1>5 DEF s

LEMMA SaveIsOK ==
  ASSUME NEW m, MapIsSafe(m), NEW key \in Languages, NEW index \in Nat, HasKey(m.nodes, index, key)
  PROVE  LET r == SaveLastSearch(m, key, index) IN
         /\ MapIsSafe(r) /\ r.nodes = m.nodes /\ r.index = index /\ r.key = key /\ r.valid
<1> DEFINE r == SaveLastSearch(m, key, index)
<1>0. m \in Maps /\ m.nodes \in Nodes
  BY DEF MapIsSafe, Maps
<1>2. r \in Maps /\ r.nodes = m.nodes /\ r.index = index /\ r.key = key /\ r.valid
  BY <1>0 DEF SaveLastSearch, Maps
<1> HIDE DEF r
<1>3. index < Len(m.nodes) /\ m.nodes # <<>>
  BY <1>0, NodesType, EmptySeq DEF HasKey
<1> QED BY <1>0, <1>2, <1>3 DEF r, MapIsSafe

(* Has, and what it leaves. *)
LEMMA SearchedIs ==
  ASSUME NEW m, MapIsSafe(m), NEW key \in Languages
  PROVE  LET r == Searched(m, key) IN
         /\ MapIsSafe(r) /\ r.nodes = m.nodes
         /\ Has(m, key) => /\ r.valid /\ r.key = key /\ r.index + 1 \in 1..Len(m.nodes)
                           /\ MapOK(m) => HasKey(m.nodes, r.index, key)
         /\ ~Has(m, key) => r = m /\ ~HasSavedSearchResult(m, key) /\ ~Knows(m.nodes, key)
         /\ MapOK(m) => MapOK(r)
         /\ Slot(m, key) = m.nodes[r.index + 1]
         /\ Get(m, key) = m.nodes[r.index + 1].data
<1> DEFINE s == GetIndexFromKey(m.nodes, key)
           r == Searched(m, key)
<1>1. /\ m.nodes \in Nodes /\ Ascending(m.nodes) /\ key \in Int
      /\ Len(m.nodes) \in Nat /\ m.index \in Nat /\ m.valid \in BOOLEAN
  BY LanguageType, NodesType DEF MapIsSafe, Maps
<1>2. /\ s.found \in BOOLEAN
      /\ s.found <=> Knows(m.nodes, key)
      /\ s.found => s.at \in Nat /\ HasKey(m.nodes, s.at, key)
  BY <1>1, SearchFinds
<1>4. r = IF HasSavedSearchResult(m, key) \/ ~s.found THEN m ELSE SaveLastSearch(m, key, s.at)
  BY Zenon DEF Searched
<1>5. Has(m, key) <=> HasSavedSearchResult(m, key) \/ s.found
  BY Zenon DEF Has
<1> HIDE DEF s
<1>6. HasSavedSearchResult(m, key) =>
        /\ m.key = key /\ m.valid /\ m.index + 1 \in 1..Len(m.nodes)
        /\ MapOK(m) => HasKey(m.nodes, m.index, key)
  BY <1>1 DEF HasSavedSearchResult, MapOK, MapIsSafe
<1>7. CASE HasSavedSearchResult(m, key) \/ ~s.found
  <2>1. r = m
    BY <1>4, <1>7
  <2>2. Slot(m, key) = m.nodes[r.index + 1] /\ Get(m, key) = m.nodes[r.index + 1].data
    BY DEF Get, Slot
  <2> HIDE DEF r
  <2> QED BY <1>2, <1>5, <1>6, <1>7, <2>1, <2>2 DEF r
<1>8. CASE ~HasSavedSearchResult(m, key) /\ s.found
  <2>1. r = SaveLastSearch(m, key, s.at)
    BY <1>4, <1>8
  <2>2. Slot(m, key) = m.nodes[r.index + 1] /\ Get(m, key) = m.nodes[r.index + 1].data
    BY DEF Get, Slot
  <2> HIDE DEF r
  <2>3. /\ MapIsSafe(r) /\ r.nodes = m.nodes /\ r.index = s.at /\ r.key = key /\ r.valid
    BY <1>2, <1>8, <2>1, SaveIsOK
  <2>4. s.at + 1 \in 1..Len(m.nodes) /\ HasKey(m.nodes, s.at, key)
    BY <1>2, <1>8 DEF HasKey
  <2> QED BY <1>5, <1>8, <2>2, <2>3, <2>4 DEF r, MapOK
<1> QED BY <1>2, <1>7, <1>8

-----------------------------------------------------------------------------
(* Set: of the other keys there are the nodes there were.                   *)
Changed(w, nodes, key, data) ==
  /\ \A i \in 1..Len(w) :
       \/ w[i].key = key /\ w[i].data = data
       \/ w[i].key # key /\ HasNode(nodes, w[i].key, w[i].data)
  /\ \A i \in 1..Len(nodes) :
       nodes[i].key # key => HasNode(w, nodes[i].key, nodes[i].data)

LEMMA OverwriteIs ==
  ASSUME NEW nodes \in Nodes, Ascending(nodes), NEW p \in 1..Len(nodes), NEW data \in Nat
  PROVE  LET w == [nodes EXCEPT ![p].data = data] IN
         /\ w \in Nodes /\ Len(w) = Len(nodes) /\ Ascending(w)
         /\ \A i \in 1..Len(nodes) : w[i].key = nodes[i].key
         /\ Changed(w, nodes, nodes[p].key, data)
<1> DEFINE w == [nodes EXCEPT ![p].data = data]
           E == [key : Int, data : Nat]
           e == [nodes[p] EXCEPT !.data = data]
<1>1. /\ Len(nodes) \in Nat
      /\ \A i \in 1..Len(nodes) : nodes[i] \in E /\ nodes[i].key \in Int /\ nodes[i].data \in Nat
  BY NodesType
<1>2. e \in E /\ e.key = nodes[p].key /\ e.data = data
  BY <1>1
<1>3. /\ w \in Nodes /\ Len(w) = Len(nodes)
      /\ \A i \in 1..Len(nodes) : w[i] = IF i = p THEN e ELSE nodes[i]
  <2>1. w = [nodes EXCEPT ![p] = e]
    OBVIOUS
  <2> HIDE DEF e, E
  <2>2. nodes \in Seq(E)
    BY DEF Nodes, E
  <2>3. /\ [nodes EXCEPT ![p] = e] \in Seq(E) /\ Len([nodes EXCEPT ![p] = e]) = Len(nodes)
        /\ \A i \in 1..Len(nodes) : [nodes EXCEPT ![p] = e][i] = IF i = p THEN e ELSE nodes[i]
    BY <1>2, <2>2, ExceptSeq
  <2> QED BY <2>1, <2>3 DEF Nodes, E
<1> HIDE DEF w, e, E
<1>4. \A i \in 1..Len(nodes) : /\ w[i].key = nodes[i].key
                               /\ w[i].data = IF i = p THEN data ELSE nodes[i].data
  BY <1>2, <1>3
<1>5. Ascending(w)
  BY <1>3, <1>4 DEF Ascending
<1>6. ASSUME NEW i \in 1..Len(nodes), i # p PROVE nodes[i].key # nodes[p].key
  BY <1>6, OneNode
<1>7. Changed(w, nodes, nodes[p].key, data)
  BY <1>3, <1>4, <1>6 DEF Changed, HasNode
<1> QED BY <1>3, <1>4, <1>5, <1>7 DEF w

LEMMA InsertIs ==
  ASSUME NEW S, NEW s \in Seq(S), NEW p \in 1..(Len(s) + 1), NEW e \in S
  PROVE  /\ InsertAt(s, p, e) \in Seq(S) /\ Len(InsertAt(s, p, e)) = Len(s) + 1
         /\ \A i \in 1..(Len(s) + 1) :
              InsertAt(s, p, e)[i] = IF i < p THEN s[i] ELSE IF i = p THEN e ELSE s[i - 1]
<1> DEFINE n == Len(s)
           a == SubSeq(s, 1, p - 1)
           b == SubSeq(s, p, n)
           c == a \o <<e>>
<1>1. n \in Nat /\ \A i \in 1..n : s[i] \in S
  BY LenProperties
<1>2. a \in Seq(S) /\ Len(a) = p - 1 /\ \A i \in 1..(p - 1) : a[i] = s[i]
  <2>1. \A i \in 1..(p - 1) : s[i] \in S
    BY <1>1
  <2>2. /\ a \in Seq(S) /\ Len(a) = IF 1 <= p - 1 THEN p - 1 - 1 + 1 ELSE 0
        /\ \A i \in 1..(p - 1 - 1 + 1) : a[i] = s[1 + i - 1]
    BY <1>1, <2>1, SubSeqProperties
  <2> HIDE DEF a
  <2> QED BY <1>1, <2>2
<1>3. b \in Seq(S) /\ Len(b) = n - p + 1 /\ \A i \in 1..(n - p + 1) : b[i] = s[p + i - 1]
  <2>1. \A i \in p..n : s[i] \in S
    BY <1>1
  <2>2. /\ b \in Seq(S) /\ Len(b) = IF p <= n THEN n - p + 1 ELSE 0
        /\ \A i \in 1..(n - p + 1) : b[i] = s[p + i - 1]
    BY <1>1, <2>1, SubSeqProperties
  <2> HIDE DEF b
  <2> QED BY <1>1, <2>2
<1> HIDE DEF a, b
<1>4. c \in Seq(S) /\ Len(c) = p /\ c[p] = e /\ \A i \in 1..(p - 1) : c[i] = a[i]
  <2>1. <<e>> \in Seq(S) /\ Len(<<e>>) = 1 /\ <<e>>[1] = e
    OBVIOUS
  <2> DEFINE d == <<e>>
  <2> HIDE DEF d
  <2>2. d \in Seq(S) /\ Len(d) = 1 /\ d[1] = e
    BY <2>1 DEF d
  <2>3. /\ a \o d \in Seq(S) /\ Len(a \o d) = Len(a) + Len(d)
        /\ \A i \in 1..(Len(a) + Len(d)) : (a \o d)[i] = IF i <= Len(a) THEN a[i] ELSE d[i - Len(a)]
    BY <1>2, <2>2, ConcatProperties
  <2>4. Len(a \o d) = p
    BY <1>2, <2>2, <2>3
  <2>5. (a \o d)[p] = e
    BY <1>2, <2>2, <2>3
  <2>6. ASSUME NEW i \in 1..(p - 1) PROVE (a \o d)[i] = a[i]
    BY <1>2, <2>2, <2>3
  <2> QED BY <2>3, <2>4, <2>5, <2>6 DEF d
<1> HIDE DEF c
<1>5. /\ c \o b \in Seq(S) /\ Len(c \o b) = Len(c) + Len(b)
      /\ \A i \in 1..(Len(c) + Len(b)) : (c \o b)[i] = IF i <= Len(c) THEN c[i] ELSE b[i - Len(c)]
  <2>1. c \in Seq(S) /\ b \in Seq(S)
    BY <1>3, <1>4
  <2> QED BY ONLY <2>1, ConcatProperties
<1>6. Len(c) + Len(b) = n + 1
  BY <1>1, <1>3, <1>4
<1>7. ASSUME NEW i \in 1..(n + 1)
      PROVE  (c \o b)[i] = IF i < p THEN s[i] ELSE IF i = p THEN e ELSE s[i - 1]
  <2>1. ASSUME i < p PROVE (c \o b)[i] = s[i]
    BY <1>1, <1>2, <1>4, <1>5, <1>6, <2>1
  <2>2. ASSUME i = p PROVE (c \o b)[i] = e
    BY <1>1, <1>4, <1>5, <1>6, <2>2
  <2>3. ASSUME i > p PROVE (c \o b)[i] = s[i - 1]
    <3>1. (c \o b)[i] = b[i - p]
      BY <1>1, <1>4, <1>5, <1>6, <2>3
    <3>2. i - p \in 1..(n - p + 1) /\ p + (i - p) - 1 = i - 1
      BY <1>1, <2>3
    <3>3. b[i - p] = s[i - 1]
      BY <1>3, <3>2
    <3> QED BY <2>3, <3>1, <3>3
  <2>4. i < p \/ i = p \/ i > p
    BY <1>1
  <2>5. (i = p => ~(i < p)) /\ (i > p => ~(i < p) /\ i # p)
    BY <1>1
  <2> QED BY ONLY <2>1, <2>2, <2>3, <2>4, <2>5
<1>8. InsertAt(s, p, e) = c \o b
  BY DEF InsertAt, a, b, c
<1> QED BY <1>5, <1>6, <1>7, <1>8

LEMMA InsertNodeIs ==
  ASSUME NEW nodes \in Nodes, Ascending(nodes), NEW key \in Int, NEW data \in Nat,
         NEW at \in 0..Len(nodes), Surrounds(nodes, key, at, at - 1)
  PROVE  LET w == InsertAt(nodes, at + 1, [key |-> key, data |-> data]) IN
         /\ w \in Nodes /\ Len(w) = Len(nodes) + 1 /\ Ascending(w)
         /\ HasKey(w, at, key) /\ Changed(w, nodes, key, data)
<1> DEFINE n == Len(nodes)
           e == [key |-> key, data |-> data]
           w == InsertAt(nodes, at + 1, e)
<1>1. /\ n \in Nat /\ at \in 0..n
      /\ \A i \in 1..n : nodes[i].key \in Int
  BY NodesType
<1>2. /\ w \in Nodes /\ Len(w) = n + 1
      /\ \A i \in 1..(n + 1) :
           w[i] = IF i < at + 1 THEN nodes[i] ELSE IF i = at + 1 THEN e ELSE nodes[i - 1]
  <2> DEFINE E == [key : Int, data : Nat]
             p == at + 1
  <2>1. p \in 1..(n + 1) /\ e \in E /\ nodes \in Seq(E)
    BY <1>1 DEF Nodes
  <2> HIDE DEF e, E, p
  <2>2. /\ InsertAt(nodes, p, e) \in Seq(E) /\ Len(InsertAt(nodes, p, e)) = Len(nodes) + 1
        /\ \A i \in 1..(Len(nodes) + 1) :
             InsertAt(nodes, p, e)[i] = IF i < p THEN nodes[i] ELSE IF i = p THEN e ELSE nodes[i - 1]
    BY <2>1, InsertIs
  <2> QED BY <2>2 DEF Nodes, E, p
<1>3. e.key = key /\ e.data = data
  OBVIOUS
<1> HIDE DEF w, e
<1>4. ASSUME NEW i \in 1..n
      PROVE  /\ i < at + 1 => nodes[i].key < key
             /\ i > at => key < nodes[i].key
             /\ nodes[i].key # key
  BY <1>1 DEF Surrounds
<1> HIDE DEF n
<1>5. Ascending(w)
  <2> SUFFICES ASSUME NEW i \in 1..(n + 1), NEW j \in 1..(n + 1), i < j
               PROVE  w[i].key < w[j].key
    BY <1>2 DEF Ascending
  <2>0. \A k, l \in 1..n : k < l => nodes[k].key < nodes[l].key
    BY DEF Ascending, n
  <2>1. CASE j < at + 1
    <3>1. i \in 1..n /\ j \in 1..n /\ i < at + 1
      BY <1>1, <2>1
    <3> QED BY <1>2, <2>0, <2>1, <3>1
  <2>2. CASE j = at + 1
    <3>1. i \in 1..n /\ i < at + 1
      BY <1>1, <2>2
    <3> QED BY <1>2, <1>3, <1>4, <2>2, <3>1
  <2>3. CASE j > at + 1
    <3>1. j - 1 \in 1..n /\ j - 1 > at /\ w[j] = nodes[j - 1]
      BY <1>1, <1>2, <2>3
    <3>2. CASE i < at + 1
      <4>1. i \in 1..n /\ i < j - 1 /\ w[i] = nodes[i]
        BY <1>1, <1>2, <2>3, <3>2
      <4> QED BY <2>0, <3>1, <4>1
    <3>3. CASE i = at + 1
      <4>1. w[i] = e
        BY <1>2, <3>3
      <4> QED BY <1>3, <1>4, <3>1, <4>1
    <3>4. CASE i > at + 1
      <4>1. i - 1 \in 1..n /\ i - 1 < j - 1 /\ w[i] = nodes[i - 1]
        BY <1>1, <1>2, <3>4
      <4> QED BY <2>0, <3>1, <4>1
    <3> QED BY <1>1, <3>2, <3>3, <3>4
  <2> QED BY <1>1, <2>1, <2>2, <2>3
<1>6. HasKey(w, at, key)
  <2>1. at + 1 \in 1..(n + 1) /\ ~(at + 1 < at + 1)
    BY <1>1
  <2>2. w[at + 1] = e
    BY <1>2, <2>1
  <2> QED BY <1>2, <1>3, <2>1, <2>2 DEF HasKey
<1>7. ASSUME NEW i \in 1..(n + 1)
      PROVE  \/ w[i].key = key /\ w[i].data = data
             \/ w[i].key # key /\ HasNode(nodes, w[i].key, w[i].data)
  <2>1. CASE i = at + 1
    <3>1. w[i] = e
      BY <1>1, <1>2, <2>1
    <3> QED BY <1>3, <3>1
  <2>2. CASE i # at + 1
    <3>1. PICK k \in 1..n : w[i] = nodes[k]
      <4>1. CASE i < at + 1
        BY <1>1, <1>2, <4>1
      <4>2. CASE i > at + 1
        <5>1. i - 1 \in 1..n /\ w[i] = nodes[i - 1]
          BY <1>1, <1>2, <4>2
        <5> QED BY <5>1
      <4> QED BY <1>1, <2>2, <4>1, <4>2
    <3> QED BY <1>4, <3>1 DEF HasNode, n
  <2> QED BY <2>1, <2>2
<1>8. ASSUME NEW i \in 1..n PROVE HasNode(w, nodes[i].key, nodes[i].data)
  <2>1. PICK k \in 1..(n + 1) : w[k] = nodes[i]
    <3>1. CASE i < at + 1
      <4>1. i \in 1..(n + 1)
        BY <1>1
      <4> QED BY <1>2, <3>1, <4>1
    <3>2. CASE ~(i < at + 1)
      <4>1. i + 1 \in 1..(n + 1) /\ ~(i + 1 < at + 1) /\ i + 1 # at + 1 /\ i + 1 - 1 = i
        BY <1>1, <3>2
      <4>2. w[i + 1] = nodes[i + 1 - 1]
        BY <1>2, <4>1
      <4> QED BY <4>1, <4>2
    <3> QED BY <3>1, <3>2
  <2> QED BY <1>2, <2>1 DEF HasNode
<1> QED BY <1>2, <1>5, <1>6, <1>7, <1>8 DEF Changed, n, w, e

(* The key whose data Set changes: that of the node the cache points to,    *)
(* without looking, if it was saved for the key.                            *)
KeySet(m, key) ==
  IF HasSavedSearchResult(m, key) THEN m.nodes[m.index + 1].key ELSE key

(* Set puts the data under that key and leaves the Map in order. *)
LEMMA SetIs ==
  ASSUME NEW m, MapIsSafe(m), NEW key \in Languages, NEW data \in Nat
  PROVE  LET r == Set(m, key, data)
             k == KeySet(m, key) IN
         /\ MapIsSafe(r) /\ r.nodes # <<>> /\ r.key = key /\ r.valid
         /\ HasKey(r.nodes, r.index, k) /\ Changed(r.nodes, m.nodes, k, data)
         /\ Len(r.nodes) >= Len(m.nodes)
         /\ Len(r.nodes) = 1 => m.nodes = <<>> \/ (Knows(m.nodes, k) /\ Len(m.nodes) = 1)
<1> DEFINE r == Set(m, key, data)
           k == KeySet(m, key)
           s == GetIndexFromKey(m.nodes, key)
           W(i) == [m.nodes EXCEPT ![i + 1].data = data]
<1>0. /\ m \in Maps /\ m.nodes \in Nodes /\ Ascending(m.nodes) /\ key \in Int
      /\ m.index \in Nat /\ m.valid \in BOOLEAN /\ Len(m.nodes) \in Nat
  BY LanguageType, NodesType DEF MapIsSafe, Maps
<1>1. /\ s.found \in BOOLEAN
      /\ s.found <=> Knows(m.nodes, key)
      /\ s.found => s.at \in Nat /\ HasKey(m.nodes, s.at, key)
      /\ ~s.found => s.at \in 0..Len(m.nodes) /\ Surrounds(m.nodes, key, s.at, s.at - 1)
  BY <1>0, SearchFinds
<1>2. r = IF HasSavedSearchResult(m, key) THEN [m EXCEPT !.nodes[m.index + 1].data = data]
          ELSE IF s.found
               THEN [SaveLastSearch(m, key, s.at) EXCEPT !.nodes[s.at + 1].data = data]
               ELSE [SaveLastSearch(m, key, s.at) EXCEPT
                       !.nodes = InsertAt(m.nodes, s.at + 1, [key |-> key, data |-> data])]
  BY Zenon DEF Set
<1>2a. HasSavedSearchResult(m, key) => k = m.nodes[m.index + 1].key
  BY DEF KeySet
<1>2b. ~HasSavedSearchResult(m, key) => k = key
  BY DEF KeySet
<1> HIDE DEF r, s, k
<1>3. ASSUME NEW i \in Nat, HasKey(m.nodes, i, k)
      PROVE  /\ W(i) \in Nodes /\ Len(W(i)) = Len(m.nodes) /\ Ascending(W(i)) /\ W(i) # <<>>
             /\ HasKey(W(i), i, k) /\ Changed(W(i), m.nodes, k, data) /\ i < Len(W(i))
  <2>1. i + 1 \in 1..Len(m.nodes) /\ m.nodes[i + 1].key = k
    BY <1>3 DEF HasKey
  <2> DEFINE p == i + 1
  <2> HIDE DEF p
  <2>2. LET w == [m.nodes EXCEPT ![p].data = data] IN
        /\ w \in Nodes /\ Len(w) = Len(m.nodes) /\ Ascending(w)
        /\ \A j \in 1..Len(m.nodes) : w[j].key = m.nodes[j].key
        /\ Changed(w, m.nodes, m.nodes[p].key, data)
    BY <1>0, <2>1, OverwriteIs DEF p
  <2>3. /\ W(i) \in Nodes /\ Len(W(i)) = Len(m.nodes) /\ Ascending(W(i))
        /\ W(i)[i + 1].key = k /\ Changed(W(i), m.nodes, k, data)
    BY <2>1, <2>2 DEF p
  <2> HIDE DEF W
  <2>4. i < Len(W(i)) /\ W(i) # <<>>
    BY <1>0, <2>1, <2>3, EmptySeq
  <2> QED BY <2>1, <2>3, <2>4 DEF HasKey
<1>4. ASSUME NEW i \in Nat, HasKey(m.nodes, i, k),
             r.nodes = W(i), r.index = i, r.key = key, r.valid, r \in Maps
      PROVE  /\ MapIsSafe(r) /\ r.nodes # <<>> /\ r.key = key /\ r.valid
             /\ HasKey(r.nodes, r.index, k) /\ Changed(r.nodes, m.nodes, k, data)
             /\ Len(r.nodes) = Len(m.nodes)
             /\ Len(r.nodes) = 1 => Knows(m.nodes, k) /\ Len(m.nodes) = 1
  <2> HIDE DEF W
  <2>1. Knows(m.nodes, k)
    BY <1>4 DEF HasKey, Knows
  <2> QED BY <1>3, <1>4, <2>1 DEF MapIsSafe
<1>5. CASE HasSavedSearchResult(m, key)
  <2>1. r = [m EXCEPT !.nodes[m.index + 1].data = data]
    BY <1>2, <1>5
  <2>2. m.valid /\ m.key = key /\ HasKey(m.nodes, m.index, k)
    <3>1. m.valid /\ m.key = key /\ m.nodes # <<>> /\ m.index < Len(m.nodes)
      BY <1>5 DEF HasSavedSearchResult, MapIsSafe
    <3>2. m.index + 1 \in 1..Len(m.nodes)
      BY <1>0, <3>1
    <3> QED BY <1>2a, <1>5, <3>1, <3>2 DEF HasKey
  <2>3. r.nodes = W(m.index) /\ r.index = m.index /\ r.key = m.key /\ r.valid = m.valid
    BY <1>0, <2>1 DEF Maps
  <2>4. W(m.index) \in Nodes
    BY <1>0, <1>3, <2>2
  <2>5. r \in Maps
    <3>1. r = [m EXCEPT !.nodes = W(m.index)]
      BY <1>0, <2>1 DEF Maps
    <3> HIDE DEF W
    <3> QED BY <1>0, <2>4, <3>1 DEF Maps
  <2>6. r.valid
    BY <1>0, <2>2, <2>3
  <2> HIDE DEF W
  <2>7. /\ MapIsSafe(r) /\ r.nodes # <<>> /\ r.key = key /\ r.valid
        /\ HasKey(r.nodes, r.index, k) /\ Changed(r.nodes, m.nodes, k, data)
        /\ Len(r.nodes) = Len(m.nodes)
        /\ Len(r.nodes) = 1 => Knows(m.nodes, k) /\ Len(m.nodes) = 1
    BY <1>0, <1>4, <2>2, <2>3, <2>5, <2>6
  <2> QED BY <1>0, <2>7 DEF r, k
<1>6. CASE ~HasSavedSearchResult(m, key) /\ s.found
  <2>1. r = [SaveLastSearch(m, key, s.at) EXCEPT !.nodes[s.at + 1].data = data]
    BY <1>2, <1>6
  <2>2. s.at \in Nat /\ HasKey(m.nodes, s.at, k)
    BY <1>1, <1>2b, <1>6
  <2>3. r.nodes = W(s.at) /\ r.index = s.at /\ r.key = key /\ r.valid
    BY <1>0, <2>1 DEF Maps, SaveLastSearch
  <2>4. W(s.at) \in Nodes
    BY <1>3, <2>2
  <2>5. r \in Maps
    <3>1. r = [m EXCEPT !.nodes = W(s.at), !.index = s.at, !.key = key, !.valid = TRUE]
      BY <1>0, <2>1 DEF Maps, SaveLastSearch
    <3> HIDE DEF W
    <3> QED BY <1>0, <2>2, <2>4, <3>1 DEF Maps
  <2> HIDE DEF W
  <2>6. /\ MapIsSafe(r) /\ r.nodes # <<>> /\ r.key = key /\ r.valid
        /\ HasKey(r.nodes, r.index, k) /\ Changed(r.nodes, m.nodes, k, data)
        /\ Len(r.nodes) = Len(m.nodes)
        /\ Len(r.nodes) = 1 => Knows(m.nodes, k) /\ Len(m.nodes) = 1
    BY <1>4, <2>2, <2>3, <2>5
  <2> QED BY <1>0, <2>6 DEF r, k
<1>7. CASE ~HasSavedSearchResult(m, key) /\ ~s.found
  <2> DEFINE w == InsertAt(m.nodes, s.at + 1, [key |-> key, data |-> data])
  <2>1. r = [SaveLastSearch(m, key, s.at) EXCEPT !.nodes = w]
    BY <1>2, <1>7
  <2>2. s.at \in 0..Len(m.nodes) /\ Surrounds(m.nodes, key, s.at, s.at - 1)
    BY <1>1, <1>7
  <2>3. /\ w \in Nodes /\ Len(w) = Len(m.nodes) + 1 /\ Ascending(w)
        /\ HasKey(w, s.at, key) /\ Changed(w, m.nodes, key, data)
    BY <1>0, <2>2, InsertNodeIs
  <2> HIDE DEF w
  <2> HIDE DEF W
  <2>4. w \in Nodes /\ s.at \in Nat
    BY <1>0, <2>2, <2>3
  <2>5. m \in Maps
    BY <1>0
  <2>6. /\ r.nodes = w /\ r.index = s.at /\ r.key = key /\ r.valid /\ r \in Maps
    BY ONLY <2>1, <2>4, <2>5, key \in Languages DEF Maps, SaveLastSearch
  <2>7. s.at < Len(w) /\ w # <<>>
    BY <1>0, <2>2, <2>3, EmptySeq
  <2>8. Len(w) = 1 => m.nodes = <<>>
    <3>1. \A n \in Nat : n + 1 = 1 => n = 0
      OBVIOUS
    <3>2. Len(w) = 1 => Len(m.nodes) = 0
      BY ONLY <1>0, <2>3, <3>1, Zenon
    <3> QED BY <1>0, <3>2, EmptySeq DEF Nodes
  <2>9. MapIsSafe(r)
    BY ONLY <2>3, <2>6, <2>7 DEF MapIsSafe
  <2>10. Len(w) >= Len(m.nodes) /\ k = key
    BY <1>0, <1>2b, <1>7, <2>3
  <2>11. /\ MapIsSafe(r) /\ r.nodes # <<>> /\ r.key = key /\ r.valid
         /\ HasKey(r.nodes, r.index, k) /\ Changed(r.nodes, m.nodes, k, data)
         /\ Len(r.nodes) >= Len(m.nodes)
         /\ Len(r.nodes) = 1 => m.nodes = <<>>
    BY ONLY <2>3, <2>6, <2>7, <2>8, <2>9, <2>10, Zenon
  <2> QED BY ONLY <2>11 DEF r, k
<1> QED BY <1>1, <1>5, <1>6, <1>7

-----------------------------------------------------------------------------
(* The invariant.  The trees alive are those of the Map, each for one key   *)
(* there.  As long as threads do not meet in the cache, one that stores     *)
(* what it found does so alone, nobody is about to read the index, what is  *)
(* stored of it belongs together, and a tree's language is its key.  Even   *)
(* after they met every index is one of a node.  Nobody stores while there  *)
(* is one tree, since the cache has its key from the start.                 *)
Members == {"index", "key", "valid"}
Places == {"has", "get", "cached", "found", "code"}
Call == [pc : Places, key : Languages, at : Nat, unsaved : SUBSET Members,
         function : {"encode", "decode"}]

Frequency == {English} \cup {Frequencies(input) : input \in Samples}
Tree == [table : {GenerateFromFrequencyTable(f) : f \in Frequency}, alive : BOOLEAN,
         language : Languages, frequencies : Frequency]

Types ==
  /\ referenceCount \in 0..MaxReferences
  /\ map \in Maps
  /\ trees \in Seq(Tree) /\ Len(trees) <= MaxTrees
  /\ emptied \subseteq Languages /\ wild \in BOOLEAN /\ raced \in BOOLEAN
  /\ thread \in [Threads -> Call \cup {Idle}]

MapInv ==
  /\ Ascending(map.nodes)
  /\ map.nodes # <<>> => map.index < Len(map.nodes) /\ map.valid
  /\ Instance <=> map.nodes # <<>>
  /\ ~Instance => map = EmptyMap
  /\ Len(map.nodes) = 1 => map.nodes[1].key = 0 /\ map.key = 0
  /\ raced => Len(map.nodes) > 1
  /\ \A i \in 1..Len(map.nodes) :
       /\ map.nodes[i].key \in Languages /\ map.nodes[i].data \in 1..Len(trees)
       /\ ~raced => trees[map.nodes[i].data].language = map.nodes[i].key
  /\ \A i, j \in 1..Len(map.nodes) :
       map.nodes[i].data = map.nodes[j].data => map.nodes[i].key = map.nodes[j].key

TreesInv ==
  /\ wild => emptied # {}
  /\ ~wild => \A a \in 1..Len(trees) :
       trees[a].alive <=> \E i \in 1..Len(map.nodes) :
                            map.nodes[i].data = a /\ map.nodes[i].key \notin emptied
  /\ ~wild /\ ~Instance => emptied = {}

Busy(t) == thread[t].pc # "idle"
Storing(t) == thread[t].unsaved # {}

CallInv(t) ==
  /\ Busy(t) => Instance
  /\ Storing(t) => thread[t].pc \in {"get", "found"} /\ Len(map.nodes) > 1
  /\ Storing(t) \/ thread[t].pc = "found" => HasKey(map.nodes, thread[t].at, thread[t].key)
  /\ thread[t].pc = "code" =>
       \E i \in 1..Len(map.nodes) :
         /\ map.nodes[i].data = thread[t].at
         /\ ~raced => map.nodes[i].key = thread[t].key
         /\ map.nodes[i].key \notin emptied => trees[thread[t].at].alive

Alone(t) ==
  Storing(t) =>
    /\ \A u \in Threads \ {t} : ~Storing(u) /\ thread[u].pc # "cached"
    /\ "index" \notin thread[t].unsaved => map.index = thread[t].at
    /\ "key" \notin thread[t].unsaved => map.key = thread[t].key

CacheInv ==
  ~raced =>
    /\ \A t \in Threads : Alone(t)
    /\ \A t \in Threads : thread[t].pc = "cached" => HasKey(map.nodes, map.index, thread[t].key)
    /\ (\A t \in Threads : ~Storing(t)) /\ map.valid => HasKey(map.nodes, map.index, map.key)

IInv == Types /\ MapInv /\ TreesInv /\ (\A t \in Threads : CallInv(t)) /\ CacheInv

LEMMA IdleIs == Idle.pc = "idle" /\ Idle.unsaved = {}
  BY DEF Idle

(* A thread is idle or it is in a call. *)
LEMMA ThreadType ==
  ASSUME Types, NEW t \in Threads
  PROVE  /\ Busy(t) => thread[t] \in Call
         /\ ~Busy(t) => thread[t] = Idle
         /\ Storing(t) => Busy(t)
<1>1. thread[t] \in Call \/ thread[t] = Idle
  BY DEF Types
<1>2. thread[t] \in Call => thread[t].pc # "idle"
  BY DEF Call, Places
<1> QED BY <1>1, <1>2, IdleIs DEF Busy, Storing

LEMMA TreeType ==
  ASSUME NEW s \in Seq(Tree)
  PROVE  /\ Len(s) \in Nat
         /\ \A a \in 1..Len(s) : /\ s[a] \in Tree
                                 /\ s[a].alive \in BOOLEAN /\ s[a].language \in Languages
<1>1. \A a \in 1..Len(s) : s[a] \in Tree
  BY ElementOfSeq
<1>2. Len(s) \in Nat
  BY LenProperties
<1> QED BY <1>1, <1>2 DEF Tree

LEMMA MadeType ==
  ASSUME NEW l \in Languages, NEW f \in Frequency
  PROVE  Made(l, f) \in Tree /\ Made(l, f).alive = TRUE /\ Made(l, f).language = l
  BY DEF Made, Tree

(* A tree that is deleted keeps everything else. *)
LEMMA DeleteIs ==
  ASSUME trees \in Seq(Tree), NEW a \in 1..Len(trees)
  PROVE  /\ Delete(a) \in Seq(Tree) /\ Len(Delete(a)) = Len(trees)
         /\ \A b \in 1..Len(trees) :
              /\ Delete(a)[b].alive = (trees[b].alive /\ b # a)
              /\ Delete(a)[b].language = trees[b].language
<1> DEFINE e == [trees[a] EXCEPT !.alive = FALSE]
<1>1. trees[a] \in Tree
  BY TreeType
<1>2. e \in Tree /\ e.alive = FALSE /\ e.language = trees[a].language
  BY <1>1 DEF Tree
<1>3. Delete(a) = [trees EXCEPT ![a] = e]
  BY DEF Delete
<1> HIDE DEF e
<1>4. /\ Delete(a) \in Seq(Tree) /\ Len(Delete(a)) = Len(trees)
      /\ \A b \in 1..Len(trees) : Delete(a)[b] = IF b = a THEN e ELSE trees[b]
  BY <1>2, <1>3, ExceptSeq
<1>5. \A b \in 1..Len(trees) : trees[b].alive \in BOOLEAN
  BY TreeType
<1> QED BY <1>2, <1>4, <1>5

LEMMA EmptyIs ==
  /\ EmptyMap \in Maps /\ EmptyMap.nodes = <<>> /\ EmptyMap.index = 0
  /\ EmptyMap.key = 0 /\ EmptyMap.valid = FALSE /\ Len(EmptyMap.nodes) = 0
  /\ MapIsSafe(EmptyMap)
<1>1. <<>> \in Nodes /\ Len(<<>>) = 0
  BY EmptySeq DEF Nodes
<1>2. /\ EmptyMap \in Maps /\ EmptyMap.nodes = <<>> /\ EmptyMap.index = 0
      /\ EmptyMap.key = 0 /\ EmptyMap.valid = FALSE
  BY <1>1, LanguageType DEF EmptyMap, Maps
<1> QED BY <1>1, <1>2 DEF MapIsSafe, Ascending

LEMMA InitInv == Init => IInv
<1> SUFFICES ASSUME Init PROVE IInv
  OBVIOUS
<1>1. map = EmptyMap /\ trees = <<>> /\ referenceCount = 0 /\ emptied = {}
      /\ wild = FALSE /\ raced = FALSE /\ thread = [t \in Threads |-> Idle]
  BY DEF Init
<1>2. \A t \in Threads : thread[t] = Idle
  BY <1>1
<1>3. trees \in Seq(Tree) /\ Len(trees) = 0
  BY <1>1, EmptySeq
<1>4. Types
  <2>1. referenceCount \in 0..MaxReferences /\ Len(trees) <= MaxTrees
    BY <1>1, <1>3, CompressorAssumption
  <2>2. thread \in [Threads -> Call \cup {Idle}]
    BY <1>1
  <2> QED BY <1>1, <1>3, <2>1, <2>2, EmptyIs DEF Types
<1>5. MapInv
  BY <1>1, EmptyIs DEF MapInv, Instance, Ascending
<1>6. TreesInv
  BY <1>1, <1>3 DEF TreesInv
<1>7. \A t \in Threads : CallInv(t)
  BY <1>2, IdleIs DEF CallInv, Busy, Storing
<1>8. CacheInv
  BY <1>1, <1>2, IdleIs, EmptyIs DEF CacheInv, Alone, Storing
<1> QED BY <1>4, <1>5, <1>6, <1>7, <1>8 DEF IInv

-----------------------------------------------------------------------------
(* Between calls the Map is right unless threads met in its cache. *)
LEMMA SafeMap == ASSUME IInv PROVE MapIsSafe(map)
  BY DEF IInv, Types, Maps, MapInv, MapIsSafe, EmptyMap

LEMMA QuietMap ==
  ASSUME IInv, Quiet
  PROVE  /\ MapIsSafe(map) /\ (~raced => MapOK(map))
         /\ \A t \in Threads : ~Busy(t) /\ ~Storing(t)
         /\ wild = FALSE
<1>1. \A t \in Threads : ~Busy(t) /\ ~Storing(t)
  <2>1. \A t \in Threads : ~Busy(t)
    BY DEF Quiet, Busy
  <2> QED BY <2>1, ThreadType DEF IInv
<1>2. wild = FALSE
  BY DEF IInv, Types, Quiet
<1>3. ~raced /\ map.valid => HasKey(map.nodes, map.index, map.key)
  BY <1>1 DEF IInv, CacheInv
<1> QED BY <1>1, <1>2, <1>3, SafeMap DEF MapOK

LEMMA QuietInv ==
  ASSUME IInv, Quiet, thread' = thread, Types', MapInv', TreesInv',
         ~raced' /\ map'.valid => HasKey(map.nodes, map.index, map.key)'
  PROVE  IInv'
<1>1. \A t \in Threads : ~Busy(t)' /\ ~Storing(t)'
  BY QuietMap DEF Busy, Storing
<1>2. \A t \in Threads : thread'[t].pc = "idle"
  BY <1>1 DEF Busy
<1>3. \A t \in Threads : CallInv(t)'
  BY <1>1, <1>2 DEF CallInv
<1>4. CacheInv'
  BY <1>1, <1>2 DEF CacheInv, Alone
<1> QED BY <1>3, <1>4 DEF IInv

(* AddReference makes the Map of one tree, RemoveReference deletes it. *)
LEMMA SetFirst ==
  ASSUME NEW d \in Nat
  PROVE  LET r == Set(EmptyMap, 0, d) IN
         /\ MapIsSafe(r) /\ r.nodes # <<>> /\ r.key = 0 /\ r.valid
         /\ \A i \in 1..Len(r.nodes) : r.nodes[i].key = 0 /\ r.nodes[i].data = d
         /\ Len(r.nodes) \in Nat \ {0} /\ HasKey(r.nodes, r.index, 0)
<1> DEFINE r == Set(EmptyMap, 0, d)
<1>1. /\ MapIsSafe(r) /\ r.nodes # <<>> /\ r.key = 0 /\ r.valid
      /\ HasKey(r.nodes, r.index, 0) /\ Changed(r.nodes, EmptyMap.nodes, 0, d)
  <2>1. KeySet(EmptyMap, 0) = 0
    BY EmptyIs DEF KeySet, HasSavedSearchResult
  <2> QED BY <2>1, EmptyIs, LanguageType, SetIs
<1> HIDE DEF r
<1>2. r.nodes \in Nodes
  BY <1>1 DEF MapIsSafe, Maps
<1>3. Len(r.nodes) \in Nat \ {0}
  BY <1>1, <1>2, EmptySeq DEF Nodes
<1>4. ASSUME NEW i \in 1..Len(r.nodes) PROVE r.nodes[i].key = 0 /\ r.nodes[i].data = d
  <2>1. ~HasNode(EmptyMap.nodes, r.nodes[i].key, r.nodes[i].data)
    BY EmptyIs DEF HasNode
  <2> QED BY <1>1, <2>1 DEF Changed
<1> QED BY <1>1, <1>3, <1>4 DEF r

LEMMA AddReferenceInv == ASSUME IInv, AddReference PROVE IInv'
<1>1. /\ Quiet /\ thread' = thread /\ wild' = wild /\ raced' = raced /\ emptied' = emptied
      /\ referenceCount' = referenceCount + 1 /\ referenceCount < MaxReferences
  BY DEF AddReference
<1>2. (~raced => MapOK(map)) /\ wild = FALSE
  BY <1>1, QuietMap
<1>3. referenceCount' \in 0..MaxReferences /\ Instance'
  BY <1>1, CompressorAssumption DEF IInv, Types, Instance
<1>4. CASE Instance
  <2>1. map' = map /\ trees' = trees
    BY <1>4 DEF AddReference
  <2>2. Types'
    BY <1>1, <1>3, <2>1 DEF IInv, Types
  <2>3. MapInv'
    BY <1>1, <1>3, <1>4, <2>1 DEF IInv, MapInv
  <2>4. TreesInv'
    BY <1>1, <1>3, <2>1 DEF IInv, TreesInv
  <2>5. ~raced' /\ map'.valid => HasKey(map.nodes, map.index, map.key)'
    BY <1>1, <1>2, <2>1 DEF MapOK
  <2> QED BY <1>1, <2>2, <2>3, <2>4, <2>5, QuietInv
<1>5. CASE ~Instance
  <2> DEFINE d == Len(trees) + 1
             e == Made(0, English)
  <2>1. /\ trees' = Append(trees, e) /\ map' = Set(EmptyMap, 0, Len(trees'))
        /\ Len(trees) < MaxTrees /\ trees \in Seq(Tree) /\ Len(trees) \in Nat
    BY <1>5, LenProperties DEF AddReference, IInv, Types
  <2>2. e \in Tree /\ e.alive = TRUE /\ e.language = 0
    BY LanguageType, MadeType DEF Frequency
  <2> HIDE DEF e
  <2>3. /\ trees' \in Seq(Tree) /\ Len(trees') = d /\ trees'[d] = e
        /\ \A a \in 1..Len(trees) : trees'[a] = trees[a]
    BY <2>1, <2>2, AppendProperties
  <2>4. d \in Nat /\ d <= MaxTrees /\ d \in 1..d
    BY <2>1, CompressorAssumption
  <2> HIDE DEF d
  <2>5. /\ MapIsSafe(map') /\ map'.nodes # <<>> /\ map'.key = 0 /\ map'.valid
        /\ \A i \in 1..Len(map'.nodes) : map'.nodes[i].key = 0 /\ map'.nodes[i].data = d
        /\ Len(map'.nodes) \in Nat \ {0} /\ HasKey(map'.nodes, map'.index, 0)
    BY <2>1, <2>3, <2>4, SetFirst
  <2>6. Types'
    BY <1>1, <1>3, <2>3, <2>4, <2>5 DEF IInv, Types, MapIsSafe
  <2>7. MapInv'
    <3>1. ~raced'
      BY <1>1, <1>5, EmptyIs DEF IInv, MapInv
    <3> QED BY <1>3, <2>2, <2>3, <2>4, <2>5, <3>1, LanguageType DEF MapIsSafe, MapInv
  <2>8. TreesInv'
    <3>1. emptied = {} /\ wild' = FALSE /\ emptied' = {}
      BY <1>1, <1>2, <1>5 DEF IInv, TreesInv
    <3>2. ASSUME NEW a \in 1..d
          PROVE  trees'[a].alive <=> \E i \in 1..Len(map'.nodes) :
                                       map'.nodes[i].data = a /\ map'.nodes[i].key \notin emptied'
      <4>1. CASE a = d
        <5>1. 1 \in 1..Len(map'.nodes)
          BY <2>5
        <5> QED BY <2>2, <2>3, <2>5, <3>1, <4>1, <5>1
      <4>2. CASE a # d
        <5>1. a \in 1..Len(trees) /\ trees'[a] = trees[a]
          BY <2>1, <2>3, <3>2, <4>2 DEF d
        <5>2. Len(map.nodes) = 0
          BY <1>5, EmptyIs DEF IInv, MapInv
        <5>3. ~trees[a].alive
          BY <1>2, <5>1, <5>2 DEF IInv, TreesInv
        <5> QED BY <2>5, <4>2, <5>1, <5>3
      <4> QED BY <4>1, <4>2
    <3> QED BY <1>3, <2>3, <3>1, <3>2 DEF TreesInv
  <2>9. HasKey(map.nodes, map.index, map.key)'
    BY <2>5
  <2> QED BY <1>1, <2>6, <2>7, <2>8, <2>9, QuietInv
<1> QED BY <1>4, <1>5

(* A dead tree of the Map is one that was not replaced. *)
LEMMA DeadIsEmptied ==
  ASSUME IInv, wild = FALSE, NEW i \in 1..Len(map.nodes), ~trees[map.nodes[i].data].alive
  PROVE  map.nodes[i].key \in emptied
<1>1. map.nodes[i].data \in 1..Len(trees)
  BY DEF IInv, MapInv
<1> QED BY <1>1 DEF IInv, TreesInv

LEMMA RemoveReferenceInv == ASSUME IInv, RemoveReference PROVE IInv'
<1>1. /\ Quiet /\ Instance /\ thread' = thread
      /\ referenceCount' = referenceCount - 1
  BY DEF RemoveReference
<1>2. (~raced => MapOK(map)) /\ wild = FALSE
  BY <1>1, QuietMap
<1>3. referenceCount' \in 0..MaxReferences /\ (referenceCount' > 0 <=> Instance')
      /\ (~(referenceCount' > 0) => referenceCount' = 0)
  BY <1>1, CompressorAssumption DEF IInv, Types, Instance
<1>4. CASE referenceCount' > 0
  <2>1. map' = map /\ trees' = trees /\ emptied' = emptied
        /\ wild' = wild /\ raced' = raced
    BY <1>4 DEF RemoveReference
  <2>2. Types'
    BY <1>1, <1>3, <2>1 DEF IInv, Types
  <2>3. MapInv'
    BY <1>1, <1>3, <1>4, <2>1 DEF IInv, MapInv
  <2>4. TreesInv'
    BY <1>1, <1>3, <1>4, <2>1 DEF IInv, TreesInv
  <2>5. ~raced' /\ map'.valid => HasKey(map.nodes, map.index, map.key)'
    BY <1>2, <2>1 DEF MapOK
  <2> QED BY <1>1, <2>2, <2>3, <2>4, <2>5, QuietInv
<1>5. CASE ~(referenceCount' > 0)
  <2> DEFINE D(a) == IF a \in InMap THEN [trees[a] EXCEPT !.alive = FALSE] ELSE trees[a]
  <2>1. /\ trees' = [a \in 1..Len(trees) |-> D(a)]
        /\ wild' = \E a \in InMap : ~trees[a].alive
        /\ map' = EmptyMap
        /\ emptied' = IF wild' THEN emptied ELSE {}
        /\ raced' = FALSE
    BY <1>5 DEF RemoveReference
  <2>2. Len(trees) \in Nat /\ \A a \in 1..Len(trees) : trees[a] \in Tree
    BY TreeType DEF IInv, Types
  <2>3. \A a \in 1..Len(trees) : D(a) \in Tree /\ D(a).alive = (trees[a].alive /\ a \notin InMap)
    BY <2>2 DEF Tree
  <2> HIDE DEF D
  <2>4. trees' \in Seq(Tree) /\ Len(trees') = Len(trees) /\ \A a \in 1..Len(trees) : trees'[a] = D(a)
    <3>1. \A a \in 1..Len(trees) : D(a) \in Tree
      BY <2>3
    <3> QED BY <2>1, <2>2, <3>1
  <2>5. wild' \in BOOLEAN
    BY <2>1
  <2>6. Types'
    BY <1>1, <1>3, <2>1, <2>4, <2>5, EmptyIs DEF IInv, Types
  <2>7. MapInv'
    BY <1>3, <1>5, <2>1, EmptyIs DEF MapInv, Ascending
  <2>8. TreesInv'
    <3>1. ASSUME wild' PROVE emptied' # {}
      <4>1. PICK a \in InMap : ~trees[a].alive
        BY <2>1, <3>1
      <4>2. PICK i \in 1..Len(map.nodes) : a = map.nodes[i].data
        BY DEF InMap
      <4>3. map.nodes[i].key \in emptied
        BY <1>2, <4>1, <4>2, DeadIsEmptied
      <4> QED BY <2>1, <3>1, <4>3
    <3>2. ASSUME ~wild', NEW a \in 1..Len(trees) PROVE ~trees'[a].alive
      <4> SUFFICES ASSUME trees[a].alive, a \notin InMap PROVE FALSE
        BY <2>3, <2>4
      <4>1. PICK i \in 1..Len(map.nodes) : map.nodes[i].data = a
        BY <1>2 DEF IInv, TreesInv
      <4> QED BY <4>1 DEF InMap
    <3>3. ~wild' => emptied' = {}
      BY <2>1
    <3>4. Len(map'.nodes) = 0
      BY <2>1, EmptyIs
    <3> QED BY <2>4, <3>1, <3>2, <3>3, <3>4 DEF TreesInv
  <2>9. ~map'.valid
    BY <2>1, EmptyIs
  <2> QED BY <1>1, <2>6, <2>7, <2>8, <2>9, QuietInv
<1> QED BY <1>4, <1>5

(* The tree that is found for a language, and the key it is for. *)
LEMMA OldTree ==
  ASSUME IInv, Quiet, NEW l \in Languages, Has(map, l)
  PROVE  LET old == Get(map, l)
             k == Slot(map, l).key IN
         /\ old \in 1..Len(trees) /\ k \in Languages /\ Knows(map.nodes, k)
         /\ ~raced => k = l
         /\ ~trees[old].alive => k \in emptied
         /\ \A i \in 1..Len(map.nodes) : map.nodes[i].key = k <=> map.nodes[i].data = old
<1> DEFINE old == Get(map, l)
           r == Searched(map, l)
           p == r.index + 1
           k == Slot(map, l).key
<1>1. MapIsSafe(map) /\ (~raced => MapOK(map)) /\ wild = FALSE
  BY QuietMap
<1>2. /\ p \in 1..Len(map.nodes) /\ old = map.nodes[p].data /\ k = map.nodes[p].key
      /\ MapOK(map) => HasKey(map.nodes, r.index, l)
  BY <1>1, SearchedIs
<1>3. ~raced => k = l
  BY <1>1, <1>2 DEF HasKey
<1> HIDE DEF p, r, old, k
<1>4. old \in 1..Len(trees) /\ k \in Languages /\ Knows(map.nodes, k)
  BY <1>2 DEF IInv, MapInv, Knows
<1>5. ~trees[old].alive => k \in emptied
  BY <1>1, <1>2, DeadIsEmptied
<1>6. ASSUME NEW i \in 1..Len(map.nodes)
      PROVE  map.nodes[i].key = k <=> map.nodes[i].data = old
  <2>1. map.nodes[i].key = k => i = p
    BY <1>1, <1>2, OneNode DEF MapIsSafe, Maps
  <2>2. map.nodes[i].data = old => map.nodes[i].key = k
    BY <1>2 DEF IInv, MapInv
  <2> QED BY <1>2, <2>1, <2>2
<1> QED BY <1>3, <1>4, <1>5, <1>6 DEF old, k

LEMMA GenerateTreeInv ==
  ASSUME IInv, NEW input \in Samples, NEW l \in Languages, GenerateTreeFromStrings(input, l)
  PROVE  IInv'
<1> DEFINE known == Has(map, l)
           old == Get(map, l)
           left == IF known THEN Delete(old) ELSE trees
           m == Searched(map, l)
           k == IF known THEN Slot(map, l).key ELSE l
<1>1. /\ Quiet /\ Instance /\ thread' = thread /\ raced' = raced
      /\ referenceCount' = referenceCount
      /\ wild' = (known /\ ~trees[old].alive)
  BY DEF GenerateTreeFromStrings
<1>2. /\ MapIsSafe(map) /\ (~raced => MapOK(map))
      /\ wild = FALSE /\ trees \in Seq(Tree) /\ Len(trees) \in Nat
  BY <1>1, QuietMap, TreeType DEF IInv, Types
<1>3. /\ MapIsSafe(m) /\ m.nodes = map.nodes /\ (~raced => MapOK(m))
      /\ known => m.key = l /\ m.valid
      /\ ~known => m = map /\ ~Knows(map.nodes, l)
  BY <1>2, SearchedIs
<1>4. /\ k \in Languages /\ (known <=> Knows(map.nodes, k)) /\ (~raced => k = l)
      /\ known => /\ old \in 1..Len(trees)
                  /\ ~trees[old].alive => k \in emptied
                  /\ \A i \in 1..Len(map.nodes) : map.nodes[i].key = k <=> map.nodes[i].data = old
  BY <1>1, <1>3, OldTree
<1>4a. KeySet(m, l) = k
  <2>1. CASE known
    <3>1. Slot(map, l) = m.nodes[m.index + 1]
      BY <1>2, <1>3, SearchedIs
    <3> QED BY <1>3, <2>1, <3>1 DEF KeySet, HasSavedSearchResult
  <2>2. CASE ~known
    <3>1. ~HasSavedSearchResult(m, l)
      BY <1>2, <1>3, <2>2, SearchedIs
    <3> QED BY <2>2, <3>1 DEF KeySet
  <2> QED BY <2>1, <2>2
<1>5. input = <<>> => /\ trees' = left /\ map' = m
                      /\ emptied' = IF known THEN emptied \cup {k} ELSE emptied
  BY DEF GenerateTreeFromStrings
<1>6. input # <<>> => /\ trees' = Append(left, Made(l, Frequencies(input)))
                      /\ map' = Set(m, l, Len(trees')) /\ Len(trees) < MaxTrees
                      /\ emptied' = IF wild' THEN emptied ELSE emptied \ {Slot(map', l).key}
  BY DEF GenerateTreeFromStrings
<1> HIDE DEF known, old, m, k
<1>7. wild' \in BOOLEAN /\ Instance' /\ map.nodes # <<>>
  BY <1>1 DEF Instance, IInv, MapInv
<1>8. /\ left \in Seq(Tree) /\ Len(left) = Len(trees)
      /\ \A a \in 1..Len(trees) :
           /\ left[a].alive = (trees[a].alive /\ ~(known /\ a = old))
           /\ left[a].language = trees[a].language
  <2>1. CASE known
    BY <1>2, <1>4, <2>1, DeleteIs
  <2>2. CASE ~known
    <3>1. \A a \in 1..Len(trees) : trees[a].alive \in BOOLEAN
      BY <1>2, TreeType
    <3> QED BY <1>2, <2>2, <3>1
  <2> QED BY <2>1, <2>2
<1> HIDE DEF left
<1>9. \A a \in 1..Len(trees) : trees[a].alive <=>
        \E i \in 1..Len(map.nodes) : map.nodes[i].data = a /\ map.nodes[i].key \notin emptied
  BY <1>2 DEF IInv, TreesInv
<1>10. /\ \A i \in 1..Len(map.nodes) :
            /\ map.nodes[i].key \in Languages /\ map.nodes[i].data \in 1..Len(trees)
            /\ ~raced => trees[map.nodes[i].data].language = map.nodes[i].key
       /\ \A i, j \in 1..Len(map.nodes) :
            map.nodes[i].data = map.nodes[j].data => map.nodes[i].key = map.nodes[j].key
       /\ Len(map.nodes) = 1 => ~raced
  BY DEF IInv, MapInv
<1>11. CASE input = <<>>
  <2>1. Types'
    BY <1>1, <1>3, <1>4, <1>5, <1>7, <1>8, <1>11 DEF IInv, Types, MapIsSafe
  <2>2. MapInv'
    <3>1. map'.key = 0 \/ ~(Len(map.nodes) = 1)
      <4>1. CASE known
        <5>1. Len(map.nodes) = 1 => l = 0
          BY <1>4, <1>10, <4>1 DEF IInv, MapInv, Knows
        <5> QED BY <1>3, <1>5, <1>11, <4>1, <5>1
      <4>2. CASE ~known
        BY <1>3, <1>5, <1>11, <4>2 DEF IInv, MapInv
      <4> QED BY <4>1, <4>2
    <3>2. map'.nodes = map.nodes /\ MapIsSafe(map') /\ map'.valid
      BY <1>3, <1>5, <1>7, <1>11 DEF IInv, MapInv
    <3>3. \A i \in 1..Len(map'.nodes) :
            /\ map'.nodes[i].key \in Languages /\ map'.nodes[i].data \in 1..Len(trees')
            /\ ~raced' => trees'[map'.nodes[i].data].language = map'.nodes[i].key
      BY <1>1, <1>5, <1>8, <1>10, <1>11, <3>2
    <3> QED BY <1>1, <1>7, <1>10, <3>1, <3>2, <3>3 DEF IInv, MapInv, MapIsSafe
  <2>3. TreesInv'
    <3>1. wild' => emptied' # {}
      BY <1>1, <1>4, <1>5, <1>11
    <3>2. ASSUME NEW a \in 1..Len(trees)
          PROVE  trees'[a].alive <=> \E i \in 1..Len(map.nodes) :
                                       map.nodes[i].data = a /\ map.nodes[i].key \notin emptied'
      <4>1. trees'[a].alive = (trees[a].alive /\ ~(known /\ a = old))
        BY <1>5, <1>8, <1>11
      <4>2. CASE known
        BY <1>4, <1>5, <1>9, <1>11, <4>1, <4>2
      <4>3. CASE ~known
        BY <1>5, <1>9, <1>11, <4>1, <4>3
      <4> QED BY <4>2, <4>3
    <3>3. Len(trees') = Len(trees) /\ map'.nodes = map.nodes
      BY <1>3, <1>5, <1>8, <1>11
    <3> QED BY <1>7, <3>1, <3>2, <3>3 DEF TreesInv
  <2>4. ~raced' /\ map'.valid => HasKey(map.nodes, map.index, map.key)'
    BY <1>1, <1>3, <1>5, <1>11 DEF MapOK
  <2> QED BY <1>1, <2>1, <2>2, <2>3, <2>4, QuietInv
<1>12. CASE input # <<>>
  <2> DEFINE d == Len(trees) + 1
             e == Made(l, Frequencies(input))
  <2>1. e \in Tree /\ e.alive = TRUE /\ e.language = l
    BY MadeType DEF Frequency
  <2> HIDE DEF e
  <2>2. /\ trees' \in Seq(Tree) /\ Len(trees') = d /\ trees'[d] = e
        /\ \A a \in 1..Len(trees) : trees'[a] = left[a]
    BY <1>6, <1>8, <1>12, <2>1, AppendProperties DEF e
  <2>3. d \in Nat /\ d <= MaxTrees /\ d \in 1..d /\ \A a \in 1..Len(trees) : a \in 1..d /\ a # d
    BY <1>2, <1>6, <1>12, CompressorAssumption
  <2>4. \A a \in 1..d : a # d => a \in 1..Len(trees)
    BY <1>2
  <2> HIDE DEF d
  <2>5. /\ MapIsSafe(map') /\ map'.nodes # <<>> /\ map'.key = l /\ map'.valid
        /\ HasKey(map'.nodes, map'.index, k) /\ Changed(map'.nodes, map.nodes, k, d)
        /\ Len(map'.nodes) >= Len(map.nodes)
        /\ Len(map'.nodes) = 1 => map.nodes = <<>> \/ (Knows(map.nodes, k) /\ Len(map.nodes) = 1)
    BY <1>3, <1>4a, <1>6, <1>12, <2>2, <2>3, SetIs
  <2>5a. Slot(map', l).key = k
    <3>1. HasSavedSearchResult(map', l)
      BY <2>5 DEF HasSavedSearchResult
    <3>2. Slot(map', l) = map'.nodes[map'.index + 1]
      BY <3>1, Zenon DEF Slot, Searched
    <3> QED BY <2>5, <3>2 DEF HasKey
  <2>6. ASSUME NEW i \in 1..Len(map'.nodes)
        PROVE  \/ map'.nodes[i].key = k /\ map'.nodes[i].data = d
               \/ /\ map'.nodes[i].key # k /\ map'.nodes[i].data \in 1..Len(trees)
                  /\ HasNode(map.nodes, map'.nodes[i].key, map'.nodes[i].data)
    BY <1>10, <2>5 DEF Changed, HasNode
  <2>7. Types'
    BY <1>1, <1>6, <1>7, <1>12, <2>2, <2>3, <2>5 DEF IInv, Types, MapIsSafe
  <2>8. MapInv'
    <3>1. ASSUME NEW i \in 1..Len(map'.nodes)
          PROVE  /\ map'.nodes[i].key \in Languages /\ map'.nodes[i].data \in 1..Len(trees')
                 /\ ~raced' => trees'[map'.nodes[i].data].language = map'.nodes[i].key
      <4>1. CASE map'.nodes[i].key = k /\ map'.nodes[i].data = d
        BY <1>1, <1>4, <2>1, <2>2, <2>3, <4>1
      <4>2. CASE /\ map'.nodes[i].data \in 1..Len(trees)
                 /\ HasNode(map.nodes, map'.nodes[i].key, map'.nodes[i].data)
        <5>1. /\ map'.nodes[i].key \in Languages
              /\ ~raced => trees[map'.nodes[i].data].language = map'.nodes[i].key
          BY <1>10, <4>2 DEF HasNode
        <5> QED BY <1>1, <1>8, <2>2, <2>3, <4>2, <5>1
      <4> QED BY <2>6, <4>1, <4>2
    <3>2. Len(map'.nodes) = 1 => map'.nodes[1].key = 0 /\ map'.key = 0
      <4> SUFFICES ASSUME Len(map'.nodes) = 1 PROVE map'.nodes[1].key = 0 /\ map'.key = 0
        OBVIOUS
      <4>1. Knows(map.nodes, k) /\ Len(map.nodes) = 1
        BY <1>7, <2>5
      <4>2. k = 0 /\ k = l
        BY <1>4, <1>10, <4>1 DEF Knows, IInv, MapInv
      <4>3. map'.nodes[1].key = k
        <5>1. map'.index + 1 = 1
          BY <2>5 DEF HasKey, MapIsSafe, Maps
        <5> QED BY <2>5, <5>1 DEF HasKey
      <4> QED BY <2>5, <4>2, <4>3
    <3>3. ASSUME NEW i \in 1..Len(map'.nodes), NEW j \in 1..Len(map'.nodes),
                 map'.nodes[i].data = map'.nodes[j].data
          PROVE  map'.nodes[i].key = map'.nodes[j].key
      <4>1. CASE map'.nodes[i].data = d
        BY <2>3, <2>6, <3>3, <4>1
      <4>2. CASE map'.nodes[i].data # d
        <5>1. /\ HasNode(map.nodes, map'.nodes[i].key, map'.nodes[i].data)
              /\ HasNode(map.nodes, map'.nodes[j].key, map'.nodes[j].data)
          BY <2>6, <3>3, <4>2
        <5> QED BY <1>10, <3>3, <5>1 DEF HasNode
      <4> QED BY <4>1, <4>2
    <3>4. raced' => Len(map'.nodes) > 1
      <4>1. raced => Len(map.nodes) > 1
        BY DEF IInv, MapInv
      <4>2. Len(map.nodes) \in Nat /\ Len(map'.nodes) \in Nat
        BY <1>2, <2>5, NodesType DEF MapIsSafe, Maps
      <4> QED BY ONLY <1>1, <2>5, <4>1, <4>2
    <3> QED BY <1>7, <2>5, <3>1, <3>2, <3>3, <3>4 DEF MapInv, MapIsSafe
  <2>9. TreesInv'
    <3>1. wild' => emptied' # {}
      BY <1>1, <1>4, <1>6, <1>12
    <3>2. ASSUME ~wild', NEW a \in 1..d
          PROVE  trees'[a].alive <=> \E i \in 1..Len(map'.nodes) :
                                       map'.nodes[i].data = a /\ map'.nodes[i].key \notin emptied'
      <4>0. emptied' = emptied \ {k}
        BY <1>6, <1>12, <2>5a, <3>2
      <4>1. CASE a = d
        <5>1. map'.index + 1 \in 1..Len(map'.nodes) /\ map'.nodes[map'.index + 1].key = k
          BY <2>5 DEF HasKey
        <5>2. map'.nodes[map'.index + 1].data = d
          BY <2>6, <5>1
        <5> QED BY <2>1, <2>2, <4>0, <4>1, <5>1, <5>2
      <4>2. CASE a # d
        <5>1. a \in 1..Len(trees)
          BY <2>4, <4>2
        <5>2. trees'[a].alive = (trees[a].alive /\ ~(known /\ a = old))
          BY <1>8, <2>2, <5>1
        <5>3. ASSUME trees'[a].alive
              PROVE  \E i \in 1..Len(map'.nodes) :
                       map'.nodes[i].data = a /\ map'.nodes[i].key \notin emptied'
          <6>1. PICK i \in 1..Len(map.nodes) :
                  map.nodes[i].data = a /\ map.nodes[i].key \notin emptied
            BY <1>9, <5>1, <5>2, <5>3
          <6>2. map.nodes[i].key # k
            <7>1. map.nodes[i].key = k => known
              BY <1>4 DEF Knows
            <7> QED BY <1>4, <5>2, <5>3, <6>1, <7>1
          <6>3. HasNode(map'.nodes, map.nodes[i].key, map.nodes[i].data)
            BY <2>5, <6>2 DEF Changed
          <6> QED BY <4>0, <6>1, <6>3 DEF HasNode
        <5>4. ASSUME NEW i \in 1..Len(map'.nodes), map'.nodes[i].data = a,
                     map'.nodes[i].key \notin emptied'
              PROVE  trees'[a].alive
          <6>1. map'.nodes[i].key # k /\ HasNode(map.nodes, map'.nodes[i].key, a)
            BY <2>6, <4>2, <5>4
          <6>2. PICK j \in 1..Len(map.nodes) :
                  map.nodes[j].key = map'.nodes[i].key /\ map.nodes[j].data = a
            BY <6>1 DEF HasNode
          <6>3. trees[a].alive
            BY <1>9, <4>0, <5>1, <5>4, <6>1, <6>2
          <6>4. ~(known /\ a = old)
            BY <1>4, <6>1, <6>2
          <6> QED BY <5>2, <6>3, <6>4
        <5> QED BY <5>3, <5>4
      <4> QED BY <4>1, <4>2
    <3> QED BY <1>7, <2>2, <3>1, <3>2 DEF TreesInv
  <2>10. ~raced' /\ map'.valid => HasKey(map.nodes, map.index, map.key)'
    BY <1>1, <1>4, <2>5
  <2> QED BY <1>1, <2>7, <2>8, <2>9, <2>10, QuietInv
<1> QED BY <1>11, <1>12

-----------------------------------------------------------------------------
(* Calls: what a thread does and what it leaves the others.                 *)
LEMMA OneThread ==
  ASSUME Types, NEW t \in Threads, NEW c \in Call \cup {Idle}, thread' = [thread EXCEPT ![t] = c]
  PROVE  /\ thread' \in [Threads -> Call \cup {Idle}] /\ thread'[t] = c
         /\ \A u \in Threads \ {t} : thread'[u] = thread[u]
  BY DEF Types

(* With one tree the cache has its key, and nobody has to search. *)
LEMMA OneTree ==
  ASSUME IInv, Instance, NEW key \in Languages, NEW i \in Nat, HasKey(map.nodes, i, key),
         ~HasSavedSearchResult(map, key)
  PROVE  Len(map.nodes) > 1
<1>1. /\ map.nodes \in Nodes /\ map.nodes # <<>> /\ Len(map.nodes) \in Nat /\ map.valid
  BY NodesType DEF IInv, Types, Maps, MapInv
<1>2. i + 1 \in 1..Len(map.nodes) /\ map.nodes[i + 1].key = key
  BY DEF HasKey
<1>3. Len(map.nodes) # 1
  <2> SUFFICES ASSUME Len(map.nodes) = 1 PROVE FALSE
    OBVIOUS
  <2>1. i + 1 = 1
    BY <1>2
  <2>2. key = 0 /\ map.key = 0
    BY <1>2, <2>1 DEF IInv, MapInv
  <2> QED BY <1>1, <2>2 DEF HasSavedSearchResult
<1>4. Len(map.nodes) \in Nat /\ Len(map.nodes) # 0
  BY <1>1, <1>2
<1> DEFINE n == Len(map.nodes)
<1>5. n \in Nat /\ n # 0 /\ n # 1
  BY <1>3, <1>4
<1> HIDE DEF n
<1>6. n > 1
  BY <1>5
<1> QED BY <1>6 DEF n

(* A step of a thread that has nothing to store, into the state c. *)
Alike == /\ referenceCount' = referenceCount /\ map' = map /\ trees' = trees
         /\ emptied' = emptied

LEMMA StepInv ==
  ASSUME IInv, ~wild, NEW t \in Threads, NEW c \in Call \cup {Idle},
         thread' = [thread EXCEPT ![t] = c], Alike,
         wild' \in BOOLEAN, wild' => emptied # {},
         raced' \in BOOLEAN, raced => raced', raced' => Len(map.nodes) > 1,
         ~Storing(t), CallInv(t)',
         ~raced' /\ c.unsaved # {} =>
           /\ c.unsaved = Members
           /\ \A u \in Threads \ {t} : ~Storing(u) /\ thread[u].pc # "cached",
         ~raced' /\ c.pc = "cached" =>
           /\ HasKey(map.nodes, map.index, c.key)
           /\ \A u \in Threads \ {t} : ~Storing(u)
  PROVE  IInv'
<1>1. /\ thread' \in [Threads -> Call \cup {Idle}] /\ thread'[t] = c
      /\ \A u \in Threads \ {t} : thread'[u] = thread[u]
  BY OneThread DEF IInv
<1>2. Instance' <=> Instance
  BY DEF Alike, Instance
<1>3. Types'
  BY <1>1 DEF IInv, Types, Alike
<1>4. MapInv'
  BY <1>2 DEF IInv, MapInv, Alike
<1>5. TreesInv'
  BY <1>2 DEF IInv, TreesInv, Alike
<1>6. ASSUME NEW u \in Threads PROVE CallInv(u)'
  <2>1. CASE u = t
    BY <2>1
  <2>2. CASE u # t
    <3>1. CallInv(u) /\ thread'[u] = thread[u]
      BY <1>1, <2>2 DEF IInv
    <3> QED BY <1>2, <3>1 DEF CallInv, Busy, Storing, Alike
  <2> QED BY <2>1, <2>2
<1>7. ASSUME ~raced' PROVE CacheInv'
  <2>0. ~raced
    BY <1>7
  <2>1. ASSUME NEW u \in Threads PROVE Alone(u)'
    <3>1. CASE u = t
      <4> SUFFICES ASSUME Storing(u)' PROVE Alone(u)'
        BY DEF Alone
      <4>1. c.unsaved = Members /\ \A v \in Threads \ {t} : ~Storing(v) /\ thread[v].pc # "cached"
        BY <1>1, <1>7, <3>1 DEF Storing
      <4>2. \A v \in Threads \ {t} : ~Storing(v)' /\ thread'[v].pc # "cached"
        BY <1>1, <4>1 DEF Storing
      <4> QED BY <1>1, <3>1, <4>1, <4>2 DEF Alone, Members
    <3>2. CASE u # t
      <4> SUFFICES ASSUME Storing(u)' PROVE Alone(u)'
        BY DEF Alone
      <4>1. Storing(u) /\ Alone(u) /\ thread'[u] = thread[u]
        BY <1>1, <2>0, <3>2 DEF Storing, IInv, CacheInv
      <4>2. c.unsaved = {} /\ c.pc # "cached"
        BY <1>7, <3>2, <4>1
      <4>3. \A v \in Threads \ {u} : ~Storing(v)' /\ thread'[v].pc # "cached"
        BY <1>1, <4>1, <4>2 DEF Alone, Storing
      <4> QED BY <4>1, <4>3 DEF Alone, Alike
    <3> QED BY <3>1, <3>2
  <2>2. ASSUME NEW u \in Threads, thread'[u].pc = "cached"
        PROVE  HasKey(map.nodes, map.index, thread[u].key)'
    <3>1. CASE u = t
      BY <1>1, <1>7, <2>2, <3>1 DEF Alike
    <3>2. CASE u # t
      BY <1>1, <2>0, <2>2, <3>2 DEF IInv, CacheInv, Alike
    <3> QED BY <3>1, <3>2
  <2>3. ASSUME (\A u \in Threads : ~Storing(u))', map'.valid
        PROVE  HasKey(map.nodes, map.index, map.key)'
    <3>1. \A u \in Threads : ~Storing(u)
      BY <1>1, <2>3 DEF Storing
    <3> QED BY <2>0, <2>3, <3>1 DEF IInv, CacheInv, Alike
  <2> QED BY <2>1, <2>2, <2>3 DEF CacheInv
<1> QED BY <1>3, <1>4, <1>5, <1>6, <1>7 DEF IInv, CacheInv

LEMMA BeginInv ==
  ASSUME IInv, NEW t \in Threads, NEW f \in {"encode", "decode"}, NEW l \in Languages,
         Begin(t, f, l)
  PROVE  IInv'
<1> DEFINE c == [pc |-> "has", key |-> l, at |-> 0, unsaved |-> {}, function |-> f]
<1>1. /\ ~wild /\ Instance /\ thread[t].pc = "idle"
      /\ thread' = [thread EXCEPT ![t] = c] /\ Alike /\ wild' = wild /\ raced' = raced
  BY DEF Begin, Alike
<1>2. c \in Call /\ c.pc = "has" /\ c.unsaved = {}
  BY DEF Call, Places, Members
<1> HIDE DEF c
<1>3. thread'[t] = c
  BY <1>1, <1>2, OneThread DEF IInv
<1>4. ~Storing(t)
  BY <1>1, ThreadType DEF IInv, Busy
<1>5. CallInv(t)'
  BY <1>1, <1>2, <1>3 DEF CallInv, Busy, Storing, Instance, Alike
<1>6. raced' \in BOOLEAN /\ wild' = FALSE /\ (raced' => Len(map.nodes) > 1)
  BY <1>1 DEF IInv, Types, MapInv
<1> QED BY <1>1, <1>2, <1>4, <1>5, <1>6, StepInv

LEMMA SearchInv ==
  ASSUME IInv, NEW t \in Threads, NEW place \in {"has", "get"},
         NEW cached \in {"get", "cached"}, NEW searched \in {"get", "found"},
         Search(t, place, cached, searched)
  PROVE  IInv'
<1> DEFINE k == thread[t].key
           s == GetIndexFromKey(map.nodes, k)
<1>1. /\ ~wild /\ thread[t].pc = place /\ thread[t].unsaved = {}
      /\ Alike /\ wild' = wild /\ raced' = (raced \/ Meets(t))
  BY DEF Search, At, Alike, Shared
<1>2. /\ Busy(t) /\ ~Storing(t) /\ thread[t] \in Call /\ k \in Languages /\ k \in Int
      /\ CallInv(t) /\ Instance /\ Instance'
  <2>1. Busy(t) /\ ~Storing(t)
    BY <1>1 DEF Busy, Storing
  <2>2. thread[t] \in Call /\ CallInv(t)
    BY <2>1, ThreadType DEF IInv
  <2> QED BY <1>1, <2>1, <2>2, LanguageType DEF Call, CallInv, Instance, Alike
<1>3. map.nodes \in Nodes /\ Ascending(map.nodes) /\ map.valid \in BOOLEAN
  BY DEF IInv, Types, Maps, MapInv
<1>4. /\ s.found \in BOOLEAN
      /\ s.found => s.at \in Nat /\ HasKey(map.nodes, s.at, k)
  BY <1>2, <1>3, SearchFinds
<1>5. raced' \in BOOLEAN /\ (raced => raced') /\ wild' = FALSE /\ (raced \in BOOLEAN)
  BY <1>1 DEF Meets, IInv, Types
<1>6. ~raced' => \A u \in Threads \ {t} : ~Storing(u)
  BY <1>1 DEF Meets, Storing
<1>6a. ASSUME thread'[t].unsaved # {} => Len(map.nodes) > 1
       PROVE  raced' => Len(map.nodes) > 1
  <2>1. raced => Len(map.nodes) > 1
    BY DEF IInv, MapInv
  <2>2. \A u \in Threads : thread[u].unsaved # {} => Len(map.nodes) > 1
    BY DEF IInv, CallInv, Storing
  <2> QED BY <1>1, <1>6a, <2>1, <2>2 DEF Meets
<1> HIDE DEF s, k
<1>7. CASE HasSavedSearchResult(map, k) /\ Goto(t, cached)
  <2> DEFINE c == [thread[t] EXCEPT !.pc = cached]
  <2>1. thread' = [thread EXCEPT ![t] = c]
    BY <1>7 DEF Goto
  <2>2. c \in Call /\ c.pc = cached /\ c.unsaved = {} /\ c.key = k
    BY <1>1, <1>2 DEF Call, Places, k
  <2> HIDE DEF c
  <2>3. thread'[t] = c
    BY <2>1, <2>2, OneThread DEF IInv
  <2>4. CallInv(t)'
    BY <1>2, <2>2, <2>3 DEF CallInv, Busy, Storing
  <2>5. ~raced' => HasKey(map.nodes, map.index, c.key)
    <3> SUFFICES ASSUME ~raced' PROVE HasKey(map.nodes, map.index, map.key)
      BY <1>7, <2>2 DEF HasSavedSearchResult
    <3>1. \A u \in Threads : ~Storing(u)
      BY <1>2, <1>6
    <3> QED BY <1>5, <1>7, <3>1 DEF IInv, CacheInv, HasSavedSearchResult
  <2>6. raced' => Len(map.nodes) > 1
    BY <1>6a, <2>2, <2>3
  <2> QED BY <1>1, <1>2, <1>5, <1>6, <2>1, <2>2, <2>4, <2>5, <2>6, StepInv
<1>8. CASE /\ s.found /\ ~HasSavedSearchResult(map, k)
           /\ thread' = [thread EXCEPT ![t].at = s.at, ![t].pc = searched, ![t].unsaved = Members]
  <2> DEFINE c == [thread[t] EXCEPT !.at = s.at, !.pc = searched, !.unsaved = Members]
  <2>1. thread' = [thread EXCEPT ![t] = c]
    BY <1>8
  <2>2. c \in Call /\ c.pc = searched /\ c.unsaved = Members /\ c.key = k /\ c.at = s.at
    BY <1>2, <1>4, <1>8 DEF Call, Places, k
  <2> HIDE DEF c
  <2>3. thread'[t] = c /\ \A u \in Threads \ {t} : thread'[u] = thread[u]
    BY <2>1, <2>2, OneThread DEF IInv
  <2>4. Len(map.nodes) > 1
    BY <1>2, <1>4, <1>8, OneTree
  <2>5. CallInv(t)'
    <3>1. HasKey(map'.nodes, c.at, c.key) /\ Len(map'.nodes) > 1
      BY <1>1, <1>4, <1>8, <2>2, <2>4 DEF Alike
    <3> QED BY <1>2, <2>2, <2>3, <3>1 DEF CallInv, Busy, Storing
  <2>6. ASSUME ~raced', NEW u \in Threads \ {t} PROVE ~Storing(u) /\ thread[u].pc # "cached"
    <3>1. thread'[t].unsaved # {}
      BY <2>2, <2>3 DEF Members
    <3> QED BY <1>1, <1>6, <2>6, <3>1 DEF Meets
  <2>7. raced' => Len(map.nodes) > 1
    BY <2>4
  <2> QED BY <1>1, <1>2, <1>5, <1>6, <2>1, <2>2, <2>5, <2>6, <2>7, StepInv
<1>9. CASE thread' = [thread EXCEPT ![t] = Idle]
  <2>1. thread'[t] = Idle
    BY <1>9, OneThread DEF IInv
  <2>2. CallInv(t)'
    BY <2>1, IdleIs DEF CallInv, Busy, Storing
  <2>3. raced' => Len(map.nodes) > 1
    BY <1>6a, <2>1, IdleIs
  <2> QED BY <1>1, <1>2, <1>5, <1>9, <2>2, <2>3, IdleIs, StepInv
<1> QED BY <1>7, <1>8, <1>9 DEF Search, Members, s, k

LEMMA FetchInv == ASSUME IInv, NEW t \in Threads, Fetch(t) PROVE IInv'
<1> DEFINE i == IF thread[t].pc = "cached" THEN map.index + 1 ELSE thread[t].at + 1
           c == [thread[t] EXCEPT !.at = map.nodes[i].data, !.pc = "code"]
<1>1. /\ ~wild /\ thread[t].pc \in {"cached", "found"} /\ thread[t].unsaved = {}
      /\ Alike /\ wild' = wild /\ raced' = raced
      /\ thread' = [thread EXCEPT ![t] = c]
  BY DEF Fetch, At, Alike, Shared
<1>2. /\ Busy(t) /\ ~Storing(t) /\ thread[t] \in Call
      /\ CallInv(t) /\ Instance /\ Instance'
  <2>1. Busy(t) /\ ~Storing(t)
    BY <1>1 DEF Busy, Storing
  <2>2. thread[t] \in Call /\ CallInv(t)
    BY <2>1, ThreadType DEF IInv
  <2> QED BY <1>1, <2>1, <2>2 DEF CallInv, Instance, Alike
<1>3. i \in 1..Len(map.nodes) /\ (~raced => map.nodes[i].key = thread[t].key)
  <2>1. CASE thread[t].pc = "cached"
    <3>1. map.nodes # <<>> /\ map.index \in Nat /\ map.index < Len(map.nodes) /\ map.nodes \in Nodes
      BY <1>2 DEF IInv, Types, Maps, MapInv
    <3>2. ~raced => HasKey(map.nodes, map.index, thread[t].key)
      BY <2>1 DEF IInv, CacheInv
    <3> QED BY <2>1, <3>1, <3>2, NodesType DEF HasKey
  <2>2. CASE thread[t].pc # "cached"
    BY <1>1, <1>2, <2>2 DEF CallInv, HasKey
  <2> QED BY <2>1, <2>2
<1> HIDE DEF i
<1>4. map.nodes[i].data \in Nat
  BY <1>3, NodesType DEF IInv, Types, Maps
<1>5. c \in Call /\ c.pc = "code" /\ c.unsaved = {} /\ c.key = thread[t].key
      /\ c.at = map.nodes[i].data
  BY <1>1, <1>2, <1>4 DEF Call, Places
<1> HIDE DEF c
<1>6. thread'[t] = c
  BY <1>1, <1>5, OneThread DEF IInv
<1>7. CallInv(t)'
  <2>1. map.nodes[i].key \notin emptied => trees[map.nodes[i].data].alive
    <3>1. wild = FALSE
      BY <1>1 DEF IInv, Types
    <3> QED BY <1>3, <3>1, DeadIsEmptied
  <2> QED BY <1>1, <1>2, <1>3, <1>5, <1>6, <2>1 DEF CallInv, Busy, Storing, Alike
<1>8. raced' \in BOOLEAN /\ wild' = FALSE /\ (raced' => Len(map.nodes) > 1)
  BY <1>1 DEF IInv, Types, MapInv
<1> QED BY <1>1, <1>2, <1>5, <1>7, <1>8, StepInv

(* A call ends, and codes with a tree that may be dead. *)
LEMMA EndInv ==
  ASSUME IInv, NEW t \in Threads, At(t, "code"), thread' = [thread EXCEPT ![t] = Idle],
         Alike, raced' = raced, wild' \in BOOLEAN, wild' => ~trees[thread[t].at].alive
  PROVE  IInv'
<1>1. ~wild /\ thread[t].pc = "code" /\ Busy(t) /\ ~Storing(t)
  BY DEF At, Busy, Storing
<1>2. PICK i \in 1..Len(map.nodes) : map.nodes[i].data = thread[t].at
  BY <1>1 DEF IInv, CallInv
<1>3. wild' => emptied # {}
  <2>1. wild = FALSE
    BY <1>1 DEF IInv, Types
  <2> QED BY <1>2, <2>1, DeadIsEmptied
<1>4. thread'[t] = Idle
  BY OneThread DEF IInv
<1>5. CallInv(t)'
  BY <1>4, IdleIs DEF CallInv, Busy, Storing
<1>6. raced' \in BOOLEAN /\ (raced' => Len(map.nodes) > 1)
  BY DEF IInv, Types, MapInv
<1> QED BY <1>1, <1>3, <1>5, <1>6, IdleIs, StepInv

(* SaveLastSearch, of which others see a part if they look. *)
LEMMA SaveInv == ASSUME IInv, NEW t \in Threads, Save(t) PROVE IInv'
<1>1. PICK member \in thread[t].unsaved :
        /\ ~wild
        /\ map' = [map EXCEPT ![member] = CASE member = "index" -> thread[t].at
                                            [] member = "key" -> thread[t].key
                                            [] member = "valid" -> TRUE]
        /\ thread' = [thread EXCEPT ![t].unsaved = @ \ {member}]
        /\ UNCHANGED <<Shared, raced, wild, stream, decoded>>
  BY Zenon DEF Save
<1> DEFINE c == [thread[t] EXCEPT !.unsaved = @ \ {member}]
<1>2. /\ Busy(t) /\ Storing(t) /\ thread[t] \in Call
      /\ CallInv(t) /\ Instance /\ Instance'
      /\ thread[t].pc \in {"get", "found"} /\ Len(map.nodes) > 1
      /\ HasKey(map.nodes, thread[t].at, thread[t].key)
      /\ thread[t].at \in Nat /\ thread[t].key \in Languages
  <2>1. Storing(t)
    BY <1>1 DEF Storing
  <2>2. Busy(t) /\ thread[t] \in Call /\ CallInv(t)
    BY <2>1, ThreadType DEF IInv
  <2> QED BY <1>1, <2>1, <2>2 DEF CallInv, Instance, Shared, Call
<1>3. member \in Members
  BY <1>2 DEF Call
<1>4. map \in Maps /\ map.nodes \in Nodes /\ Len(map.nodes) \in Nat
  BY NodesType DEF IInv, Types, Maps
<1>5. /\ map' \in Maps /\ map'.nodes = map.nodes
      /\ map'.index = IF member = "index" THEN thread[t].at ELSE map.index
      /\ map'.key = IF member = "key" THEN thread[t].key ELSE map.key
      /\ map'.valid = IF member = "valid" THEN TRUE ELSE map.valid
  <2>1. CASE member = "index"
    <3>1. map' = [map EXCEPT !.index = thread[t].at]
      BY <1>1, <2>1
    <3> QED BY <1>2, <1>4, <2>1, <3>1 DEF Maps
  <2>2. CASE member = "key"
    <3>1. map' = [map EXCEPT !.key = thread[t].key]
      BY <1>1, <2>2
    <3> QED BY <1>2, <1>4, <2>2, <3>1 DEF Maps
  <2>3. CASE member = "valid"
    <3>1. map' = [map EXCEPT !.valid = TRUE]
      BY <1>1, <2>3
    <3> QED BY <1>2, <1>4, <2>3, <3>1 DEF Maps
  <2> QED BY <1>3, <2>1, <2>2, <2>3 DEF Members
<1>6. /\ c \in Call /\ c.pc = thread[t].pc /\ c.at = thread[t].at /\ c.key = thread[t].key
      /\ c.unsaved = thread[t].unsaved \ {member}
      /\ thread' = [thread EXCEPT ![t] = c]
  BY <1>1, <1>2 DEF Call
<1> HIDE DEF c
<1>7. /\ thread' \in [Threads -> Call \cup {Idle}] /\ thread'[t] = c
      /\ \A u \in Threads \ {t} : thread'[u] = thread[u]
  BY <1>6, OneThread DEF IInv
<1>8. /\ referenceCount' = referenceCount /\ trees' = trees /\ emptied' = emptied
      /\ raced' = raced /\ wild' = wild
  BY <1>1 DEF Shared
<1>9. thread[t].at < Len(map.nodes)
  BY <1>2, <1>4 DEF HasKey
<1>11. Types'
  BY <1>5, <1>7, <1>8 DEF IInv, Types
<1>12. MapInv'
  <2>1. map'.nodes # <<>> => map'.index < Len(map'.nodes)
    BY <1>5, <1>9 DEF IInv, MapInv
  <2>2. Len(map'.nodes) # 1 /\ (map'.nodes # <<>> => map'.valid)
    BY <1>2, <1>5 DEF IInv, MapInv
  <2> QED BY <1>2, <1>5, <1>8, <2>1, <2>2 DEF IInv, MapInv
<1>13. TreesInv'
  BY <1>2, <1>5, <1>8 DEF IInv, TreesInv
<1>14. ASSUME NEW u \in Threads PROVE CallInv(u)'
  <2>1. CASE u = t
    <3>1. HasKey(map'.nodes, c.at, c.key)
      BY <1>2, <1>5, <1>6
    <3> QED BY <1>2, <1>5, <1>6, <1>7, <2>1, <3>1 DEF CallInv, Busy, Storing
  <2>2. CASE u # t
    <3>1. CallInv(u) /\ thread'[u] = thread[u]
      BY <1>7, <2>2 DEF IInv
    <3> QED BY <1>2, <1>5, <1>8, <3>1 DEF CallInv, Busy, Storing
  <2> QED BY <2>1, <2>2
<1>15. ASSUME ~raced
       PROVE  /\ \A u \in Threads \ {t} : ~Storing(u)' /\ thread'[u].pc # "cached"
              /\ "index" \notin c.unsaved => map'.index = thread[t].at
              /\ "key" \notin c.unsaved => map'.key = thread[t].key
  <2>1. Alone(t)
    BY <1>15 DEF IInv, CacheInv
  <2>2. ASSUME NEW u \in Threads \ {t} PROVE ~Storing(u)' /\ thread'[u].pc # "cached"
    BY <1>2, <1>7, <2>1 DEF Alone, Storing
  <2>3. "index" \notin c.unsaved => map'.index = thread[t].at
    BY <1>2, <1>5, <1>6, <2>1 DEF Alone
  <2>4. "key" \notin c.unsaved => map'.key = thread[t].key
    BY <1>2, <1>5, <1>6, <2>1 DEF Alone
  <2> QED BY <2>2, <2>3, <2>4
<1>16. ASSUME ~raced' PROVE CacheInv'
  <2>0. ~raced
    BY <1>8, <1>16
  <2>1. ASSUME NEW u \in Threads, Storing(u)' PROVE Alone(u)'
    <3>1. u = t
      BY <1>15, <2>0, <2>1
    <3> QED BY <1>6, <1>7, <1>15, <2>0, <2>1, <3>1 DEF Alone
  <2>2. \A u \in Threads : thread'[u].pc # "cached"
    BY <1>2, <1>6, <1>7, <1>15, <2>0
  <2>3. ASSUME (\A u \in Threads : ~Storing(u))'
        PROVE  HasKey(map.nodes, map.index, map.key)'
    <3>1. c.unsaved = {}
      BY <1>7, <2>3 DEF Storing
    <3>2. map'.index = thread[t].at /\ map'.key = thread[t].key
      BY <1>15, <2>0, <3>1
    <3> QED BY <1>2, <1>5, <3>2
  <2>4. \A u \in Threads : Alone(u)'
    BY <2>1 DEF Alone
  <2> QED BY <2>2, <2>3, <2>4 DEF CacheInv
<1> QED BY <1>11, <1>12, <1>13, <1>14, <1>16 DEF IInv, CacheInv

-----------------------------------------------------------------------------
LEMMA NextInv == ASSUME IInv, [Next]_vars PROVE IInv'
<1>1. CASE AddReference
  BY <1>1, AddReferenceInv
<1>2. CASE RemoveReference
  BY <1>2, RemoveReferenceInv
<1>3. ASSUME NEW input \in Samples, NEW l \in Languages, GenerateTreeFromStrings(input, l)
      PROVE  IInv'
  BY <1>3, GenerateTreeInv
<1>4. ASSUME NEW t \in Threads, NEW f \in {"encode", "decode"}, NEW l \in Languages,
             Begin(t, f, l)
      PROVE  IInv'
  BY <1>4, BeginInv
<1>5. ASSUME NEW t \in Threads, Search(t, "has", "get", "get") PROVE IInv'
  BY <1>5, SearchInv
<1>6. ASSUME NEW t \in Threads, Search(t, "get", "cached", "found") PROVE IInv'
  BY <1>6, SearchInv
<1>7. ASSUME NEW t \in Threads, Save(t) PROVE IInv'
  BY <1>7, SaveInv
<1>8. ASSUME NEW t \in Threads, Fetch(t) PROVE IInv'
  BY <1>8, FetchInv
<1>9. ASSUME NEW t \in Threads, NEW text \in Texts, NEW n \in Limits, EncodeString(t, text, n)
      PROVE  IInv'
  <2>1. /\ At(t, "code") /\ thread' = [thread EXCEPT ![t] = Idle] /\ Alike /\ raced' = raced
        /\ wild' = ~trees[thread[t].at].alive
    BY <1>9 DEF EncodeString, Shared, Alike
  <2>2. wild' \in BOOLEAN
    BY <2>1
  <2> QED BY <2>1, <2>2, EndInv
<1>10. ASSUME NEW t \in Threads, NEW n \in Limits, NEW missing \in BOOLEAN,
              DecodeString(t, n + 1, missing)
       PROVE  IInv'
  <2>1. /\ At(t, "code") /\ thread' = [thread EXCEPT ![t] = Idle] /\ Alike /\ raced' = raced
        /\ wild' = (~missing /\ ~trees[thread[t].at].alive)
    BY <1>10 DEF DecodeString, Shared, Alike
  <2>2. wild' \in BOOLEAN
    BY <2>1
  <2> QED BY <2>1, <2>2, EndInv
<1>11. CASE UNCHANGED vars
  <2>1. /\ referenceCount' = referenceCount /\ map' = map /\ trees' = trees /\ emptied' = emptied
        /\ wild' = wild /\ raced' = raced /\ thread' = thread
    BY <1>11 DEF vars
  <2>2. Types' /\ MapInv' /\ TreesInv'
    BY <2>1 DEF IInv, Types, MapInv, TreesInv, Instance
  <2>3. \A t \in Threads : CallInv(t)'
    BY <2>1 DEF IInv, CallInv, Busy, Storing, Instance
  <2>4. CacheInv'
    BY <2>1 DEF IInv, CacheInv, Alone, Storing
  <2> QED BY <2>2, <2>3, <2>4 DEF IInv
<1> QED BY <1>1, <1>2, <1>3, <1>4, <1>5, <1>6, <1>7, <1>8, <1>9, <1>10, <1>11 DEF Next

(* Every call leaves the Map, the trees and the other calls as the next one *)
(* needs them: AddReference and RemoveReference, GenerateTreeFromStrings    *)
(* (StringCompressor.cpp:27-46, 313-354), and each step of the lookups of   *)
(* EncodeString and DecodeString (DS_Map.h:126-138, 179-202, 235-248).      *)
THEOREM Inductive == Spec => []IInv
<1>1. IInv /\ [Next]_vars => IInv'
  BY NextInv
<1> QED BY InitInv, <1>1, PTL DEF Spec

(* The keys of the Map are in order, the binary search of GetIndexFromKey   *)
(* (DS_OrderedList.h:107-151) finds a language exactly if it is there, and  *)
(* between calls a saved search is right unless threads met in the cache    *)
(* (DS_Map.h:299-312).                                                      *)
THEOREM SearchesFind == Spec => []MapIsInOrder
<1>1. ASSUME IInv PROVE MapIsInOrder
  <2>1. map \in Maps /\ map.nodes \in Nodes /\ Ascending(map.nodes) /\ Len(map.nodes) \in Nat
    BY <1>1, NodesType DEF IInv, Types, Maps, MapInv
  <2>2. ASSUME NEW i \in 1..Len(map.nodes)
        PROVE  map.nodes[i].key \in Languages /\ map.nodes[i].data \in 1..Len(trees)
    BY <1>1 DEF IInv, MapInv
  <2>3. map.index \in 0..Len(map.nodes)
    <3>1. CASE map.nodes = <<>>
      BY <1>1, <2>1, <3>1, EmptyIs DEF IInv, MapInv
    <3>2. CASE map.nodes # <<>>
      BY <1>1, <2>1, <3>2 DEF IInv, MapInv, Maps
    <3> QED BY <3>1, <3>2
  <2>4. TypeOK
    BY <1>1, <2>1, <2>2, <2>3 DEF IInv, Types, TypeOK, Maps
  <2>5. \A key \in Languages :
          GetIndexFromKey(map.nodes, key).found <=> \E i \in 1..Len(map.nodes) : map.nodes[i].key = key
    BY <2>1, LanguageType, SearchFinds DEF Knows
  <2>6. Quiet /\ map.valid /\ ~raced => map.nodes[map.index + 1].key = map.key
    BY <1>1, QuietMap DEF MapOK, HasKey
  <2> QED BY <2>1, <2>4, <2>5, <2>6 DEF MapIsInOrder, Ascending
<1> QED BY <1>1, Inductive, PTL

(* However the lookups of any number of threads interleave and their stores *)
(* are ordered, a call codes with the tree of its language, as long as none *)
(* uses the cache while another is in the middle of storing to it, or has   *)
(* found its key there and not read the index yet.  They cannot meet so     *)
(* while there is the default tree alone, which RPC uses from "multiple     *)
(* threads at the same time" (StringCompressor.cpp:317): its key is in the  *)
(* cache from the start and nothing stores.                                 *)
THEOREM CodesInItsLanguage == Spec => []GetsItsTree
<1>1. ASSUME IInv PROVE GetsItsTree
  <2> SUFFICES ASSUME NEW t \in Threads, thread[t].pc = "code", thread[t].key \notin emptied,
                      ~raced
               PROVE  trees[thread[t].at].alive /\ trees[thread[t].at].language = thread[t].key
    BY <1>1 DEF GetsItsTree, IInv, MapInv
  <2>1. PICK i \in 1..Len(map.nodes) :
          /\ map.nodes[i].data = thread[t].at /\ map.nodes[i].key = thread[t].key
          /\ map.nodes[i].key \notin emptied => trees[thread[t].at].alive
    BY <1>1 DEF IInv, CallInv
  <2>2. trees[map.nodes[i].data].language = map.nodes[i].key
    BY <1>1 DEF IInv, MapInv
  <2> QED BY <2>1, <2>2
<1> QED BY <1>1, Inductive, PTL

(* No tree leaks and none is freed twice, except that a language without    *)
(* input keeps a deleted tree in the Map (StringCompressor.cpp:325-335,     *)
(* 350-354), which is the only way into undefined behaviour.  Calls that    *)
(* trust a cache in which threads met may delete another language's tree,   *)
(* but they replace that one.                                               *)
THEOREM NoTreeLeaks == Spec => []TreesAreOwned
<1>1. ASSUME IInv PROVE TreesAreOwned
  <2>1. ASSUME ~wild
        PROVE  {a \in 1..Len(trees) : trees[a].alive} =
                 {map.nodes[i].data : i \in {j \in 1..Len(map.nodes) : map.nodes[j].key \notin emptied}}
    <3>1. \A a \in 1..Len(trees) :
            trees[a].alive <=> \E i \in 1..Len(map.nodes) :
                                 map.nodes[i].data = a /\ map.nodes[i].key \notin emptied
      BY <1>1, <2>1 DEF IInv, TreesInv
    <3>2. \A i \in 1..Len(map.nodes) : map.nodes[i].data \in 1..Len(trees)
      BY <1>1 DEF IInv, MapInv
    <3> QED BY <3>1, <3>2
  <2>2. wild => emptied # {}
    BY <1>1 DEF IInv, TreesInv
  <2> QED BY <2>1, <2>2 DEF TreesAreOwned
<1> QED BY <1>1, Inductive, PTL

-----------------------------------------------------------------------------
(* Numbers.                                                                 *)
(* A set with 0 and the number after each number in it has all numbers. *)
LEMMA NumberInduction ==
  ASSUME NEW T, 0 \in T, \A n \in Nat : n \in T => n + 1 \in T
  PROVE  \A n \in Nat : n \in T
<1> DEFINE U == Nat \ T
<1> SUFFICES ASSUME U # {} PROVE FALSE
  OBVIOUS
<1>1. PICK x \in U : \A y \in U : x <= y
  <2> U \subseteq Nat
    OBVIOUS
  <2> HIDE DEF U
  <2> QED BY LeastNumber
<1>2. x \in Nat /\ x # 0
  BY <1>1
<1>3. x - 1 \in Nat /\ x - 1 \notin U
  BY <1>1, <1>2
<1>4. x - 1 \in T
  BY <1>3
<1>5. x - 1 + 1 = x
  BY <1>2
<1> QED BY <1>1, <1>3, <1>4, <1>5

(* Powers of two double: sets of one element more have twice as many subsets. *)
LEMMA PowerOfTwo ==
  ASSUME NEW n \in Nat
  PROVE  2^n \in Nat \ {0} /\ 2^(n + 1) = 2 * 2^n
<1> DEFINE A == 1..n
           x == n + 1
           S == SUBSET A
           T == {B \cup {x} : B \in S}
<1>1. IsFiniteSet(A) /\ Cardinality(A) = n
  <2>1. /\ IsFiniteSet(1..n)
        /\ Cardinality(1..n) = IF 1 > n THEN 0 ELSE n - 1 + 1
    BY FS_Interval
  <2> QED BY <2>1
<1>2. x \notin A
  OBVIOUS
<1>3. A \cup {x} = 1..(n + 1)
  OBVIOUS
<1>4. IsFiniteSet(A \cup {x}) /\ Cardinality(A \cup {x}) = n + 1
  <2>1. /\ IsFiniteSet(1..(n + 1))
        /\ Cardinality(1..(n + 1)) = IF 1 > n + 1 THEN 0 ELSE n + 1 - 1 + 1
    BY FS_Interval
  <2>2. (IF 1 > n + 1 THEN 0 ELSE n + 1 - 1 + 1) = n + 1
    OBVIOUS
  <2> HIDE DEF A, x
  <2> QED BY ONLY <1>3, <2>1, <2>2
<1> HIDE DEF A, x
<1>5. IsFiniteSet(S) /\ Cardinality(S) = 2^n
  BY <1>1, FS_SUBSET
<1>6. Cardinality(SUBSET (A \cup {x})) = 2^(n + 1)
  BY <1>4, FS_SUBSET
<1>7. SUBSET (A \cup {x}) = S \cup T
  <2>1. ASSUME NEW B \in SUBSET (A \cup {x}) PROVE B \in S \cup T
    <3>1. CASE x \in B
      <4>1. B \ {x} \in S /\ B = (B \ {x}) \cup {x}
        BY <3>1
      <4>2. B \in T
        BY <4>1
      <4> QED BY <4>2
    <3>2. CASE x \notin B
      BY <3>2
    <3> QED BY <3>1, <3>2
  <2>2. ASSUME NEW B \in S \cup T PROVE B \in SUBSET (A \cup {x})
    BY <2>2
  <2> HIDE DEF S, T
  <2> QED BY <2>1, <2>2
<1>8. S \cap T = {}
  BY <1>2
<1>9. ExistsBijection(S, T)
  <2> DEFINE f == [B \in S |-> B \cup {x}]
  <2>1. f \in [S -> T]
    OBVIOUS
  <2>2. ASSUME NEW B \in S, NEW C \in S, f[B] = f[C] PROVE B = C
    BY <1>2, <2>2
  <2>3. \A C \in T : \E B \in S : f[B] = C
    OBVIOUS
  <2> HIDE DEF f, S, T
  <2>4. f \in Injection(S, T)
    BY <2>1, <2>2, Fun_IsInj
  <2>5. f \in Surjection(S, T)
    BY <2>1, <2>3, Fun_IsSurj
  <2> QED BY <2>4, <2>5 DEF Bijection, ExistsBijection
<1> HIDE DEF S, T
<1>10. IsFiniteSet(T) /\ Cardinality(T) = 2^n
  BY <1>5, <1>9, FS_Bijection
<1>11. Cardinality(S \cup T) = Cardinality(S) + Cardinality(T) - Cardinality(S \cap T)
  BY <1>5, <1>10, FS_Union
<1>12. Cardinality(S \cap T) = 0
  BY <1>8, FS_EmptySet
<1>13. 2^n \in Nat
  BY <1>5, FS_CardinalityType
<1>14. 2^(n + 1) = 2 * 2^n
  <2>1. 2^(n + 1) = Cardinality(S) + Cardinality(T) - Cardinality(S \cap T)
    BY <1>6, <1>7, <1>11
  <2>2. 2^(n + 1) = 2^n + 2^n - 0
    BY <1>5, <1>10, <1>12, <2>1
  <2> DEFINE p == 2^n
             q == 2^(n + 1)
  <2> HIDE DEF p, q
  <2>3. p \in Nat /\ q = p + p - 0
    BY <1>13, <2>2 DEF p, q
  <2>4. q = 2 * p
    BY <2>3
  <2> QED BY <2>4 DEF p, q
<1>15. 2^n # 0
  <2>1. {} \in S
    BY DEF S
  <2>2. S # {}
    BY <2>1
  <2> QED BY <1>5, <2>2, FS_EmptySet
<1> QED BY <1>13, <1>14, <1>15

-----------------------------------------------------------------------------
(* Folds.  FoldLeft is defined on the sets of indices, the greatest last:   *)
(* a function from sets of indices to values, the i-th step of which is the *)
(* function h[i] from the values S[i - 1] before it to those after it.      *)
LEMMA MaxType ==
  ASSUME NEW n \in Nat, NEW s \in SUBSET (1..n), s # {}
  PROVE  /\ Max(s) \in s /\ Max(s) \in 1..n /\ \A y \in s : y <= Max(s)
         /\ s \ {Max(s)} \in SUBSET (1..(Max(s) - 1))
         /\ n \in s => Max(s) = n
<1> DEFINE U == {n - y : y \in s}
<1>1. U \subseteq Nat /\ U # {}
  <2>1. \A y \in s : n - y \in Nat
    OBVIOUS
  <2>2. U # {}
    BY Zenon
  <2> QED BY <2>1, <2>2, Zenon
<1>2. PICK u \in U : \A z \in U : u <= z
  <2> HIDE DEF U
  <2> QED BY <1>1, LeastNumber
<1>3. PICK x \in s : u = n - x
  OBVIOUS
<1>4. ASSUME NEW y \in s PROVE x >= y
  <2>1. n - x <= n - y
    BY <1>2, <1>3
  <2> QED BY <2>1
<1>5. Max(s) \in s /\ \A y \in s : Max(s) >= y
  BY <1>4, Zenon DEF Max
<1> DEFINE m == Max(s)
<1>6. m \in s /\ \A y \in s : m >= y
  BY <1>5
<1> HIDE DEF m
<1>7. m \in 1..n /\ (\A y \in s : y <= m) /\ (n \in s => m = n)
  BY <1>6
<1>8. s \ {m} \in SUBSET (1..(m - 1))
  BY <1>6, <1>7
<1> QED BY <1>6, <1>7, <1>8 DEF m

LEMMA MaxOfFirst ==
  ASSUME NEW i \in Nat
  PROVE  Max(1..(i + 1)) = i + 1 /\ (1..(i + 1)) \ {i + 1} = 1..i
<1>1. i + 1 \in Nat /\ 1..(i + 1) # {} /\ i + 1 \in 1..(i + 1)
  OBVIOUS
<1>2. Max(1..(i + 1)) = i + 1
  BY <1>1, MaxType
<1> QED BY <1>2

Folding(n, S, base, h) ==
  base \in S[0] /\ \A i \in 1..n : S[i - 1] \subseteq S[i] /\ \A a \in S[i - 1] : h[i][a] \in S[i]
Folded(n, S, base, h, f) ==
  /\ f = [s \in SUBSET (1..n) |-> f[s]] /\ f[{}] = base
  /\ \A s \in SUBSET (1..n) : s # {} =>
       f[s \ {Max(s)}] \in S[Max(s) - 1] /\ f[s] = h[Max(s)][f[s \ {Max(s)}]]

LEMMA FoldExists ==
  ASSUME NEW n \in Nat, NEW S, NEW base, NEW h, Folding(n, S, base, h)
  PROVE  \E f : Folded(n, S, base, h, f)
<1>f. base \in S[0] /\ \A i \in 1..n : S[i - 1] \subseteq S[i] /\ \A a \in S[i - 1] : h[i][a] \in S[i]
  BY DEF Folding
<1> DEFINE Step(f, s) == /\ f[s \ {Max(s)}] \in S[Max(s) - 1]
                         /\ f[s] = h[Max(s)][f[s \ {Max(s)}]]
           Upto(k, f) == /\ f = [s \in SUBSET (1..k) |-> f[s]] /\ f[{}] = base
                         /\ \A s \in SUBSET (1..k) : f[s] \in S[k] /\ (s # {} => Step(f, s))
           T == {k \in Nat : k <= n => \E f : Upto(k, f)}
<1> HIDE DEF Upto
<1>1. 0 \in T
  <2> DEFINE f == [s \in SUBSET (1..0) |-> base]
  <2>1. 1..0 = {}
    OBVIOUS
  <2>2. \A s \in SUBSET (1..0) : s = {}
    BY <2>1
  <2>3. f = [s \in SUBSET (1..0) |-> f[s]]
    BY Zenon
  <2>4. \A s \in SUBSET (1..0) : f[s] = base
    BY Zenon
  <2> HIDE DEF f
  <2>5. f[{}] = base /\ \A s \in SUBSET (1..0) : f[s] \in S[0]
    BY <1>f, <2>4, Zenon
  <2>6. Upto(0, f)
    BY <2>2, <2>3, <2>5, Zenon DEF Upto
  <2> QED BY <2>6
<1>2. ASSUME NEW k \in Nat, k \in T PROVE k + 1 \in T
  <2> SUFFICES ASSUME k + 1 <= n PROVE \E f : Upto(k + 1, f)
    OBVIOUS
  <2>1. k <= n /\ k + 1 \in 1..n /\ k + 1 - 1 = k
    BY ONLY n \in Nat, k \in Nat, k + 1 <= n
  <2>2. PICK f : Upto(k, f)
    BY <1>2, <2>1
  <2>p. /\ f = [s \in SUBSET (1..k) |-> f[s]] /\ f[{}] = base
        /\ \A s \in SUBSET (1..k) : f[s] \in S[k] /\ (s # {} => Step(f, s))
    BY <2>2, Zenon DEF Upto
  <2>3. S[k] \subseteq S[k + 1] /\ \A a \in S[k] : h[k + 1][a] \in S[k + 1]
    BY <1>f, <2>1
  <2> DEFINE g == [s \in SUBSET (1..(k + 1)) |->
                     IF k + 1 \in s THEN h[k + 1][f[s \ {k + 1}]] ELSE f[s]]
  <2>4. g = [s \in SUBSET (1..(k + 1)) |-> g[s]]
    OBVIOUS
  <2>5. \A s \in SUBSET (1..(k + 1)) :
          /\ k + 1 \in s => s \ {k + 1} \in SUBSET (1..k)
          /\ k + 1 \notin s => s \in SUBSET (1..k)
    <3>1. 1..(k + 1) = (1..k) \cup {k + 1}
      BY ONLY k \in Nat
    <3> QED BY <3>1, Zenon
  <2>6. \A s \in SUBSET (1..(k + 1)) :
          g[s] = IF k + 1 \in s THEN h[k + 1][f[s \ {k + 1}]] ELSE f[s]
    OBVIOUS
  <2> HIDE DEF g
  <2>7. g[{}] = base
    BY <2>p, <2>6
  <2>8. ASSUME NEW s \in SUBSET (1..(k + 1)) PROVE g[s] \in S[k + 1]
    <3>1. CASE k + 1 \in s
      <4>1. f[s \ {k + 1}] \in S[k]
        BY <2>p, <2>5, <3>1
      <4>2. g[s] = h[k + 1][f[s \ {k + 1}]]
        BY <2>6, <3>1
      <4> QED BY <2>3, <4>1, <4>2, Zenon
    <3>2. CASE k + 1 \notin s
      <4>1. f[s] \in S[k] /\ g[s] = f[s]
        BY <2>p, <2>5, <2>6, <3>2
      <4> QED BY <2>3, <4>1, Zenon
    <3> QED BY <3>1, <3>2
  <2>9. ASSUME NEW s \in SUBSET (1..(k + 1)), s # {} PROVE Step(g, s)
    <3>1. CASE k + 1 \in s
      <4>1. Max(s) = k + 1
        BY <3>1, MaxType
      <4>2. s \ {k + 1} \in SUBSET (1..k) /\ s \ {k + 1} \in SUBSET (1..(k + 1)) /\ k + 1 \notin s \ {k + 1}
        BY <2>5, <3>1
      <4>3. g[s \ {k + 1}] = f[s \ {k + 1}] /\ f[s \ {k + 1}] \in S[k]
        BY <2>p, <2>6, <4>2
      <4>4. g[s] = h[k + 1][f[s \ {k + 1}]]
        BY <2>6, <3>1
      <4> QED BY <2>1, <4>1, <4>3, <4>4
    <3>2. CASE k + 1 \notin s
      <4>1. s \in SUBSET (1..k)
        BY <2>5, <3>2
      <4>2. s \ {Max(s)} \in SUBSET (1..(k + 1)) /\ k + 1 \notin s \ {Max(s)}
        BY <3>2
      <4>3. g[s] = f[s] /\ g[s \ {Max(s)}] = f[s \ {Max(s)}]
        BY <2>6, <3>2, <4>2
      <4>4. Step(f, s)
        BY <2>p, <2>9, <4>1
      <4> QED BY <4>3, <4>4
    <3> QED BY <3>1, <3>2
  <2> HIDE DEF Step
  <2>10. Upto(k + 1, g)
    BY <2>4, <2>7, <2>8, <2>9 DEF Upto
  <2> QED BY <2>10
<1> HIDE DEF T
<1>3. n \in T
  BY <1>1, <1>2, NumberInduction
<1>4. PICK f : Upto(n, f)
  <2>1. n <= n
    OBVIOUS
  <2> QED BY <1>3, <2>1 DEF T
<1> QED BY <1>4, Zenon DEF Upto, Folded

LEMMA CharType == 2^CharBits \in Nat /\ 2^CharBits >= 2 /\ Char \subseteq Nat
<1> DEFINE n == CharBits - 1
           p == 2^n
           q == 2^(n + 1)
<1>1. n \in Nat /\ n + 1 = CharBits
  BY CharAssumption
<1>2. p \in Nat \ {0} /\ q = 2 * p
  BY <1>1, PowerOfTwo
<1>3. q = 2^CharBits
  BY <1>1
<1> HIDE DEF p, q
<1>4. q \in Nat /\ q >= 2
  BY <1>2
<1>5. 2^CharBits \in Nat /\ 2^CharBits >= 2
  BY <1>3, <1>4
<1> QED BY <1>5 DEF Char

-----------------------------------------------------------------------------
(* The tree.  A list of trees is a forest of some characters if each is a   *)
(* leaf of one of the trees and of no other.                                *)
Bit == {0, 1}
Begins(s, t) == Len(s) <= Len(t) /\ \A i \in 1..Len(s) : s[i] = t[i]
PrefixCodes(D) == {f \in [D -> Seq(Bit)] : \A c, d \in D : c # d => ~Begins(f[c], f[d])}
Node == [weight : Nat, code : UNION {PrefixCodes(D) : D \in SUBSET Char}]
LeafOf(list, i, c) == i \in 1..Len(list) /\ c \in DOMAIN list[i].code

Forest(list, D) ==
  /\ list \in Seq(Node)
  /\ \A c \in Char : c \in D <=> \E i \in 1..Len(list) : LeafOf(list, i, c)
  /\ \A c \in Char, i, j \in 1..Len(list) : LeafOf(list, i, c) /\ LeafOf(list, j, c) => i = j

LEMMA NodeType ==
  ASSUME NEW a \in Node
  PROVE  /\ a.weight \in Nat /\ DOMAIN a.code \in SUBSET Char
         /\ a.code \in PrefixCodes(DOMAIN a.code)
<1>1. PICK D \in SUBSET Char : a.code \in PrefixCodes(D)
  BY DEF Node
<1>2. DOMAIN a.code = D
  BY <1>1 DEF PrefixCodes
<1> QED BY <1>1, <1>2 DEF Node

LEMMA CodeType ==
  ASSUME NEW D, NEW f \in PrefixCodes(D)
  PROVE  /\ f = [c \in D |-> f[c]] /\ DOMAIN f = D
         /\ \A c \in D : f[c] \in Seq(Bit) /\ Len(f[c]) \in Nat
         /\ \A c, d \in D : c # d => ~Begins(f[c], f[d])
<1>1. f \in [D -> Seq(Bit)]
  BY DEF PrefixCodes
<1>2. \A c \in D : f[c] \in Seq(Bit) /\ Len(f[c]) \in Nat
  BY <1>1, LenProperties
<1> QED BY <1>1, <1>2 DEF PrefixCodes

LEMMA LeafIs ==
  ASSUME NEW c \in Char, NEW n \in Nat
  PROVE  Leaf(c, n) \in Node /\ DOMAIN Leaf(c, n).code = {c}
<1> DEFINE f == [d \in {c} |-> <<>>]
           w == IF n = 0 THEN 1 ELSE n
<1>1. f \in PrefixCodes({c}) /\ DOMAIN f = {c}
  BY EmptySeq DEF PrefixCodes
<1>2. w \in Nat
  OBVIOUS
<1>3. Leaf(c, n) = [weight |-> w, code |-> f]
  BY DEF Leaf
<1>4. {c} \in SUBSET Char
  OBVIOUS
<1> HIDE DEF f, w
<1> QED BY <1>1, <1>2, <1>3, <1>4 DEF Node

(* A bit in front keeps codes apart, and another bit also from others. *)
Behind(b, s) == <<b>> \o s

LEMMA BehindIs ==
  ASSUME NEW b \in Bit, NEW s \in Seq(Bit)
  PROVE  /\ Behind(b, s) \in Seq(Bit) /\ Len(Behind(b, s)) = Len(s) + 1 /\ Behind(b, s)[1] = b
         /\ \A i \in 1..Len(s) : Behind(b, s)[i + 1] = s[i]
<1> DEFINE t == <<b>>
<1>1. t \in Seq(Bit) /\ Len(t) = 1 /\ t[1] = b
  OBVIOUS
<1>6. Behind(b, s) = t \o s
  BY DEF Behind
<1> HIDE DEF t
<1>2. /\ t \o s \in Seq(Bit) /\ Len(t \o s) = Len(t) + Len(s)
      /\ \A i \in 1..(Len(t) + Len(s)) : (t \o s)[i] = IF i <= Len(t) THEN t[i] ELSE s[i - Len(t)]
  BY <1>1, ConcatProperties
<1>3. Len(s) \in Nat
  BY LenProperties
<1>4. Len(t \o s) = Len(s) + 1 /\ (t \o s)[1] = b
  BY <1>1, <1>2, <1>3
<1>5. ASSUME NEW i \in 1..Len(s) PROVE (t \o s)[i + 1] = s[i]
  <2>1. i + 1 \in 1..(Len(t) + Len(s)) /\ ~(i + 1 <= Len(t)) /\ i + 1 - Len(t) = i
    BY <1>1, <1>3
  <2> QED BY <1>2, <2>1
<1> QED BY <1>2, <1>4, <1>5, <1>6

LEMMA FrontsApart ==
  ASSUME NEW b \in Bit, NEW c \in Bit, NEW s \in Seq(Bit), NEW t \in Seq(Bit),
         b # c \/ ~Begins(s, t)
  PROVE  ~Begins(Behind(b, s), Behind(c, t))
<1> DEFINE v == Behind(b, s)
           w == Behind(c, t)
<1>1. /\ Len(v) = Len(s) + 1 /\ v[1] = b /\ \A i \in 1..Len(s) : v[i + 1] = s[i]
      /\ Len(w) = Len(t) + 1 /\ w[1] = c /\ \A i \in 1..Len(t) : w[i + 1] = t[i]
      /\ Len(s) \in Nat /\ Len(t) \in Nat
  BY BehindIs, LenProperties
<1> HIDE DEF v, w
<1> SUFFICES ASSUME Begins(v, w) PROVE FALSE
  BY DEF v, w
<1>2. Len(s) <= Len(t) /\ 1 \in 1..Len(v) /\ \A i \in 1..Len(v) : v[i] = w[i]
  BY <1>1 DEF Begins
<1>3. b = c
  BY <1>1, <1>2
<1>4. ASSUME NEW i \in 1..Len(s) PROVE s[i] = t[i]
  <2>1. i + 1 \in 1..Len(v) /\ i \in 1..Len(t)
    BY <1>1, <1>2
  <2> QED BY <1>1, <1>2, <2>1
<1> QED BY <1>2, <1>3, <1>4 DEF Begins

LEMMA MergeIs ==
  ASSUME NEW a \in Node, NEW b \in Node
  PROVE  /\ Merge(a, b) \in Node
         /\ DOMAIN Merge(a, b).code = DOMAIN a.code \cup DOMAIN b.code
<1> DEFINE A == DOMAIN a.code
           B == DOMAIN b.code
           F(c) == IF c \in A THEN Behind(0, a.code[c]) ELSE Behind(1, b.code[c])
           f == [c \in A \cup B |-> F(c)]
           w == a.weight + b.weight
<1>1. /\ a.code \in PrefixCodes(A) /\ b.code \in PrefixCodes(B)
      /\ A \in SUBSET Char /\ B \in SUBSET Char /\ w \in Nat
  BY NodeType
<1>2. /\ \A c \in A : a.code[c] \in Seq(Bit)
      /\ \A c, d \in A : c # d => ~Begins(a.code[c], a.code[d])
      /\ \A c \in B : b.code[c] \in Seq(Bit)
      /\ \A c, d \in B : c # d => ~Begins(b.code[c], b.code[d])
  BY <1>1, CodeType
<1>3. Merge(a, b) = [weight |-> w, code |-> f]
  BY Zenon DEF Merge, Behind
<1> HIDE DEF A, B, w
<1>4. 0 \in Bit /\ 1 \in Bit
  BY DEF Bit
<1>5. ASSUME NEW c \in A \cup B PROVE F(c) \in Seq(Bit)
  <2>1. c \in A => Behind(0, a.code[c]) \in Seq(Bit)
    BY <1>2, <1>4, BehindIs
  <2>2. c \notin A => Behind(1, b.code[c]) \in Seq(Bit)
    BY <1>2, <1>4, BehindIs
  <2> QED BY <2>1, <2>2
<1>6. ASSUME NEW c \in A \cup B, NEW d \in A \cup B, c # d PROVE ~Begins(F(c), F(d))
  <2>1. CASE c \in A /\ d \in A
    <3>1. ~Begins(Behind(0, a.code[c]), Behind(0, a.code[d]))
      BY <1>2, <1>4, <1>6, <2>1, FrontsApart
    <3> QED BY <2>1, <3>1
  <2>2. CASE c \in A /\ d \notin A
    <3>1. ~Begins(Behind(0, a.code[c]), Behind(1, b.code[d]))
      BY <1>2, <1>4, <2>2, FrontsApart
    <3> QED BY <2>2, <3>1
  <2>3. CASE c \notin A /\ d \in A
    <3>1. ~Begins(Behind(1, b.code[c]), Behind(0, a.code[d]))
      BY <1>2, <1>4, <2>3, FrontsApart
    <3> QED BY <2>3, <3>1
  <2>4. CASE c \notin A /\ d \notin A
    <3>1. ~Begins(Behind(1, b.code[c]), Behind(1, b.code[d]))
      BY <1>2, <1>4, <1>6, <2>4, FrontsApart
    <3> QED BY <2>4, <3>1
  <2> QED BY <2>1, <2>2, <2>3, <2>4
<1> HIDE DEF F
<1>7. f \in PrefixCodes(A \cup B) /\ DOMAIN f = A \cup B
  <2>1. f \in [A \cup B -> Seq(Bit)]
    BY <1>5
  <2> QED BY <1>6, <2>1 DEF PrefixCodes
<1> HIDE DEF f
<1>8. A \cup B \in SUBSET Char
  BY <1>1
<1> QED BY <1>1, <1>3, <1>7, <1>8 DEF Node, A, B

(* A tree is inserted somewhere, whatever the weights are. *)
LEMMA Inserted ==
  ASSUME NEW list \in Seq(Node), NEW node \in Node
  PROVE  \E p \in 1..(Len(list) + 1) :
           InsertNodeIntoSortedList(node, list) = InsertAt(list, p, node)
<1> DEFINE heavier == {i \in 1..Len(list) : list[i].weight >= node.weight}
<1>0. Len(list) \in Nat
  BY LenProperties
<1>1. InsertNodeIntoSortedList(node, list) =
        IF heavier # {} THEN InsertAt(list, Min(heavier), node)
        ELSE InsertAt(list, Len(list) + 1, node)
  BY Zenon DEF InsertNodeIntoSortedList, Insert, Add
<1>2. heavier \subseteq Nat /\ heavier \subseteq 1..Len(list)
  BY <1>0
<1> HIDE DEF heavier
<1>3. CASE heavier # {}
  <2>1. \E x \in heavier : \A y \in heavier : x <= y
    BY <1>2, <1>3, LeastNumber
  <2>2. Min(heavier) \in heavier
    BY <2>1, Zenon DEF Min
  <2>3. Min(heavier) \in 1..(Len(list) + 1)
    <3> DEFINE m == Min(heavier)
    <3>1. m \in 1..Len(list)
      BY <1>2, <2>2
    <3> HIDE DEF m
    <3>2. m \in 1..(Len(list) + 1)
      BY <1>0, <3>1
    <3> QED BY <3>2 DEF m
  <2> QED BY <1>1, <1>3, <2>3
<1>4. CASE heavier = {}
  <2>1. Len(list) + 1 \in 1..(Len(list) + 1)
    BY <1>0
  <2> QED BY <1>1, <1>4, <2>1
<1> QED BY <1>3, <1>4

(* A tree of other characters joins a forest, wherever it is put. *)
LEMMA ForestInsert ==
  ASSUME NEW D \in SUBSET Char, NEW list, Forest(list, D),
         NEW node \in Node, DOMAIN node.code \cap D = {}
  PROVE  /\ Forest(InsertNodeIntoSortedList(node, list), D \cup DOMAIN node.code)
         /\ Len(InsertNodeIntoSortedList(node, list)) = Len(list) + 1
         /\ Len(list) \in Nat
<1> DEFINE E == DOMAIN node.code
           n == Len(list)
<1>1. list \in Seq(Node) /\ n \in Nat
  BY LenProperties DEF Forest
<1>2. PICK p \in 1..(n + 1) : InsertNodeIntoSortedList(node, list) = InsertAt(list, p, node)
  BY <1>1, Inserted
<1> DEFINE w == InsertAt(list, p, node)
<1>3. /\ w \in Seq(Node) /\ Len(w) = n + 1
      /\ \A i \in 1..(n + 1) : w[i] = IF i < p THEN list[i] ELSE IF i = p THEN node ELSE list[i - 1]
  BY <1>1, InsertIs
<1> HIDE DEF w, E, n
<1>4. /\ \A c \in Char : c \in D <=> \E i \in 1..n : c \in DOMAIN list[i].code
      /\ \A c \in Char, i, j \in 1..n : c \in DOMAIN list[i].code /\ c \in DOMAIN list[j].code => i = j
  BY DEF Forest, LeafOf, n
<1> DEFINE to(i) == IF i < p THEN i ELSE i + 1
           from(i) == IF i < p THEN i ELSE i - 1
<1>5. /\ \A i \in 1..n : to(i) \in 1..(n + 1) /\ to(i) # p /\ w[to(i)] = list[i]
      /\ \A i \in 1..(n + 1) : i # p => from(i) \in 1..n /\ w[i] = list[from(i)]
      /\ \A i, j \in 1..(n + 1) : i # p /\ j # p /\ from(i) = from(j) => i = j
      /\ w[p] = node
  <2>1. ASSUME NEW i \in 1..n PROVE to(i) \in 1..(n + 1) /\ to(i) # p /\ w[to(i)] = list[i]
    <3>1. CASE i < p
      BY <1>1, <1>3, <3>1
    <3>2. CASE ~(i < p)
      <4>1. i + 1 \in 1..(n + 1) /\ ~(i + 1 < p) /\ i + 1 # p /\ i + 1 - 1 = i
        BY <1>1, <3>2
      <4> QED BY <1>3, <3>2, <4>1
    <3> QED BY <3>1, <3>2
  <2>2. ASSUME NEW i \in 1..(n + 1), i # p PROVE from(i) \in 1..n /\ w[i] = list[from(i)]
    BY <1>1, <1>3, <2>2
  <2>3. ASSUME NEW i \in 1..(n + 1), NEW j \in 1..(n + 1), i # p, j # p, from(i) = from(j)
        PROVE  i = j
    BY <1>1, <2>3
  <2>4. w[p] = node
    BY <1>1, <1>3
  <2> QED BY <2>1, <2>2, <2>3, <2>4
<1> HIDE DEF to, from
<1>6. ASSUME NEW c \in Char
      PROVE  c \in D \cup E <=> \E i \in 1..(n + 1) : c \in DOMAIN w[i].code
  <2>1. ASSUME c \in D PROVE \E i \in 1..(n + 1) : c \in DOMAIN w[i].code
    <3>1. PICK i \in 1..n : c \in DOMAIN list[i].code
      BY <1>4, <2>1
    <3> QED BY <1>5, <3>1
  <2>2. ASSUME c \in E PROVE \E i \in 1..(n + 1) : c \in DOMAIN w[i].code
    BY <1>5, <2>2 DEF E
  <2>3. ASSUME NEW i \in 1..(n + 1), c \in DOMAIN w[i].code PROVE c \in D \cup E
    <3>1. CASE i = p
      BY <1>5, <2>3, <3>1 DEF E
    <3>2. CASE i # p
      BY <1>4, <1>5, <2>3, <3>2
    <3> QED BY <3>1, <3>2
  <2> QED BY <2>1, <2>2, <2>3
<1>7. ASSUME NEW c \in Char, NEW i \in 1..(n + 1), NEW j \in 1..(n + 1),
             c \in DOMAIN w[i].code, c \in DOMAIN w[j].code
      PROVE  i = j
  <2>1. ASSUME NEW k \in 1..(n + 1), k # p, c \in DOMAIN w[k].code PROVE c \in D /\ c \notin E
    <3>1. from(k) \in 1..n /\ c \in DOMAIN list[from(k)].code
      BY <1>5, <2>1
    <3>2. c \in D
      BY <1>4, <3>1
    <3> QED BY <3>2 DEF E
  <2>2. i = p <=> j = p
    BY <1>5, <1>7, <2>1 DEF E
  <2>3. CASE i # p /\ j # p
    BY <1>4, <1>5, <1>7, <2>3
  <2> QED BY <2>2, <2>3
<1>8. Forest(w, D \cup E)
  BY <1>3, <1>6, <1>7 DEF Forest, LeafOf
<1> QED BY <1>1, <1>2, <1>3, <1>8 DEF w, E, n

LEMMA MergeTwo ==
  ASSUME NEW D \in SUBSET Char, NEW list, Forest(list, D), Len(list) >= 2
  PROVE  Forest(MergeSmallest(list), D) /\ Len(MergeSmallest(list)) = Len(list) - 1
<1> DEFINE n == Len(list)
           A == DOMAIN list[1].code
           B == DOMAIN list[2].code
           node == Merge(list[1], list[2])
           rest == SubSeq(list, 3, n)
<1>1. list \in Seq(Node) /\ n \in Nat /\ n >= 2
  BY LenProperties DEF Forest
<1>2. list[1] \in Node /\ list[2] \in Node /\ \A i \in 3..n : list[i] \in Node
  <2>1. 1 \in 1..n /\ 2 \in 1..n /\ \A i \in 3..n : i \in 1..n
    BY <1>1
  <2> QED BY <1>1, <2>1, ElementOfSeq
<1>3. node \in Node /\ DOMAIN node.code = A \cup B
  BY <1>2, MergeIs
<1>4. rest \in Seq(Node) /\ Len(rest) = n - 2 /\ \A i \in 1..(n - 2) : rest[i] = list[i + 2]
  <2>1. /\ rest \in Seq(Node) /\ Len(rest) = IF 3 <= n THEN n - 3 + 1 ELSE 0
        /\ \A i \in 1..(n - 3 + 1) : rest[i] = list[3 + i - 1]
    BY <1>1, <1>2, SubSeqProperties
  <2> HIDE DEF rest, n
  <2>2. Len(rest) = n - 2
    BY <1>1, <2>1
  <2>3. ASSUME NEW i \in 1..(n - 2) PROVE rest[i] = list[i + 2]
    <3>1. i \in 1..(n - 3 + 1) /\ 3 + i - 1 = i + 2
      BY <1>1
    <3> QED BY <2>1, <3>1
  <2> QED BY <2>1, <2>2, <2>3
<1>5. /\ \A c \in Char : c \in D <=> \E i \in 1..n : c \in DOMAIN list[i].code
      /\ \A c \in Char, i, j \in 1..n : c \in DOMAIN list[i].code /\ c \in DOMAIN list[j].code => i = j
  BY DEF Forest, LeafOf
<1>6. MergeSmallest(list) = InsertNodeIntoSortedList(node, rest)
  BY Zenon DEF MergeSmallest, PopTwo
<1>7. A \subseteq D /\ B \subseteq D
  <2>1. A \in SUBSET Char /\ B \in SUBSET Char /\ 1 \in 1..n /\ 2 \in 1..n
    BY <1>1, <1>2, NodeType
  <2> HIDE DEF n
  <2> QED BY <1>5, <2>1
<1> HIDE DEF n, A, B, node, rest
<1> DEFINE R == D \ (A \cup B)
<1>8. Forest(rest, R)
  <2>1. ASSUME NEW c \in Char
        PROVE  c \in R <=> \E i \in 1..(n - 2) : c \in DOMAIN rest[i].code
    <3>1. ASSUME c \in R PROVE \E i \in 1..(n - 2) : c \in DOMAIN rest[i].code
      <4>1. PICK i \in 1..n : c \in DOMAIN list[i].code
        BY <1>5, <3>1
      <4>2. i # 1 /\ i # 2
        BY <3>1, <4>1 DEF A, B
      <4>3. i - 2 \in 1..(n - 2) /\ i - 2 + 2 = i
        BY <1>1, <4>2
      <4>4. rest[i - 2] = list[i]
        BY <1>4, <4>3
      <4> QED BY <4>1, <4>3, <4>4
    <3>2. ASSUME NEW i \in 1..(n - 2), c \in DOMAIN rest[i].code PROVE c \in R
      <4>1. i + 2 \in 1..n /\ 1 \in 1..n /\ 2 \in 1..n /\ i + 2 # 1 /\ i + 2 # 2
        BY <1>1
      <4>2. c \in DOMAIN list[i + 2].code
        BY <1>4, <3>2
      <4>3. c \notin A /\ c \notin B
        BY <1>5, <4>1, <4>2 DEF A, B
      <4>4. c \in D
        BY <1>5, <4>1, <4>2
      <4> QED BY <4>3, <4>4
    <3> QED BY <3>1, <3>2
  <2>2. ASSUME NEW c \in Char, NEW i \in 1..(n - 2), NEW j \in 1..(n - 2),
               c \in DOMAIN rest[i].code, c \in DOMAIN rest[j].code
        PROVE  i = j
    <3>1. i + 2 \in 1..n /\ j + 2 \in 1..n
      BY <1>1
    <3>2. i + 2 = j + 2
      BY <1>4, <1>5, <2>2, <3>1
    <3> QED BY <1>1, <3>2
  <2> HIDE DEF R
  <2> QED BY <1>4, <2>1, <2>2 DEF Forest, LeafOf
<1>9. R \in SUBSET Char /\ (A \cup B) \cap R = {} /\ R \cup (A \cup B) = D
  BY <1>7
<1> HIDE DEF R
<1>10. /\ Forest(InsertNodeIntoSortedList(node, rest), R \cup DOMAIN node.code)
       /\ Len(InsertNodeIntoSortedList(node, rest)) = Len(rest) + 1
  BY <1>3, <1>8, <1>9, ForestInsert
<1>11. n - 2 + 1 = n - 1
  BY <1>1
<1> QED BY <1>3, <1>4, <1>6, <1>9, <1>10, <1>11 DEF n

(* A list of two trees or more gets shorter by one. *)
LEMMA MergeType ==
  ASSUME NEW list \in Seq(Node), Len(list) >= 2
  PROVE  MergeSmallest(list) \in Seq(Node) /\ Len(MergeSmallest(list)) = Len(list) - 1
<1> DEFINE n == Len(list)
           node == Merge(list[1], list[2])
           rest == SubSeq(list, 3, n)
<1>1. n \in Nat /\ n >= 2 /\ 1 \in 1..n /\ 2 \in 1..n /\ \A i \in 3..n : i \in 1..n
  BY LenProperties
<1>2. list[1] \in Node /\ list[2] \in Node /\ \A i \in 3..n : list[i] \in Node
  BY <1>1, ElementOfSeq
<1>3. node \in Node
  BY <1>2, MergeIs
<1>4. rest \in Seq(Node) /\ Len(rest) = n - 2
  <2>1. rest \in Seq(Node) /\ Len(rest) = IF 3 <= n THEN n - 3 + 1 ELSE 0
    BY <1>1, <1>2, SubSeqProperties
  <2> HIDE DEF rest, n
  <2> QED BY <1>1, <2>1
<1>5. MergeSmallest(list) = InsertNodeIntoSortedList(node, rest)
  BY Zenon DEF MergeSmallest, PopTwo
<1> HIDE DEF n, node, rest
<1>6. InsertNodeIntoSortedList(node, rest) \in Seq(Node)
      /\ Len(InsertNodeIntoSortedList(node, rest)) = Len(rest) + 1
  <2>1. PICK p \in 1..(Len(rest) + 1) : InsertNodeIntoSortedList(node, rest) = InsertAt(rest, p, node)
    BY <1>3, <1>4, Inserted
  <2> QED BY <1>3, <1>4, <2>1, InsertIs
<1>7. n - 2 + 1 = n - 1
  BY <1>1
<1> QED BY <1>4, <1>5, <1>6, <1>7 DEF n

-----------------------------------------------------------------------------
(* GenerateFromFrequencyTable: a leaf for each character, and then as many  *)
(* merges as leave one tree.                                                *)
Numbers == [i \in 1..2^CharBits |-> i - 1]
Merges == [i \in 1..2^CharBits - 1 |-> i]
Grow(frequencies, list, c) == InsertNodeIntoSortedList(Leaf(c, frequencies[c]), list)

GrowFolds(frequencies, f) ==
  f = [s \in SUBSET DOMAIN Numbers |->
         IF s = {} THEN <<>>
         ELSE Grow(frequencies, f[s \ {Max(s)}], Numbers[Max(s)])]
Growth(frequencies) == CHOOSE f : GrowFolds(frequencies, f)
Leaves(frequencies) == Growth(frequencies)[DOMAIN Numbers]

ShrinkFolds(leaves, f) ==
  f = [s \in SUBSET DOMAIN Merges |->
         IF s = {} THEN leaves ELSE MergeSmallest(f[s \ {Max(s)}])]
Shrinking(leaves) == CHOOSE f : ShrinkFolds(leaves, f)

LEMMA GenerateIsFold ==
  ASSUME NEW frequencies
  PROVE  GenerateFromFrequencyTable(frequencies) =
           Shrinking(Leaves(frequencies))[DOMAIN Merges][1].code
  BY Zenon DEF GenerateFromFrequencyTable, FoldLeft, MapThenFoldSet, GrowFolds, Growth,
               ShrinkFolds, Shrinking, Leaves, Grow, Numbers, Merges

LEMMA GrowSteps ==
  ASSUME NEW frequencies \in [Char -> Nat]
  PROVE  /\ Growth(frequencies)[1..0] = <<>>
         /\ \A i \in Nat : i < 2^CharBits =>
              Growth(frequencies)[1..(i + 1)] = Grow(frequencies, Growth(frequencies)[1..i], i)
<1> DEFINE N == 2^CharBits
           S == [i \in 0..N |-> Seq(Node)]
           h == [i \in 1..N |-> [list \in Seq(Node) |-> Grow(frequencies, list, i - 1)]]
<1>1. N \in Nat /\ DOMAIN Numbers = 1..N /\ \A i \in 1..N : Numbers[i] = i - 1
  BY CharType DEF Numbers
<1>c. \A i \in 1..N : i - 1 \in Char
  BY <1>1 DEF Char
<1> HIDE DEF N
<1>2. ASSUME NEW i \in 1..N, NEW list \in Seq(Node) PROVE Grow(frequencies, list, i - 1) \in Seq(Node)
  <2> DEFINE node == Leaf(i - 1, frequencies[i - 1])
  <2>1. node \in Node
    BY <1>c, LeafIs
  <2>2. PICK p \in 1..(Len(list) + 1) : InsertNodeIntoSortedList(node, list) = InsertAt(list, p, node)
    BY <2>1, Inserted
  <2>3. InsertAt(list, p, node) \in Seq(Node)
    BY <2>1, InsertIs
  <2> QED BY <2>2, <2>3 DEF Grow
<1>3. /\ <<>> \in S[0]
      /\ \A i \in 1..N : S[i - 1] \subseteq S[i] /\ \A a \in S[i - 1] : h[i][a] \in S[i]
  <2>1. <<>> \in S[0]
    BY <1>1, EmptySeq
  <2>2. ASSUME NEW i \in 1..N PROVE i - 1 \in 0..N /\ i \in 0..N
    BY <1>1
  <2>3. ASSUME NEW i \in 1..N PROVE S[i - 1] = Seq(Node) /\ S[i] = Seq(Node)
    BY <2>2
  <2>4. ASSUME NEW i \in 1..N, NEW a \in Seq(Node) PROVE h[i][a] \in Seq(Node)
    BY <1>2
  <2> HIDE DEF S, h
  <2> QED BY <2>1, <2>3, <2>4
<1>s. \A i \in 1..N : S[i - 1] = Seq(Node)
  BY <1>1
<1>h. \A i \in 1..N : \A a \in Seq(Node) : h[i][a] = Grow(frequencies, a, i - 1)
  OBVIOUS
<1> HIDE DEF S, h
<1>4. PICK f : Folded(N, S, <<>>, h, f)
  BY <1>1, <1>3, FoldExists DEF Folding
<1>f. /\ f = [s \in SUBSET (1..N) |-> f[s]] /\ f[{}] = <<>>
      /\ \A s \in SUBSET (1..N) : s # {} =>
           f[s \ {Max(s)}] \in S[Max(s) - 1] /\ f[s] = h[Max(s)][f[s \ {Max(s)}]]
  BY <1>4, Zenon DEF Folded
<1>5. ASSUME NEW s \in SUBSET (1..N), s # {}
      PROVE  f[s] = Grow(frequencies, f[s \ {Max(s)}], Numbers[Max(s)])
  <2>1. Max(s) \in 1..N
    BY <1>1, <1>5, MaxType
  <2>2. f[s \ {Max(s)}] \in Seq(Node) /\ f[s] = h[Max(s)][f[s \ {Max(s)}]]
    BY <1>f, <1>5, <1>s, <2>1
  <2>3. f[s] = Grow(frequencies, f[s \ {Max(s)}], Max(s) - 1)
    BY <1>h, <2>1, <2>2
  <2>4. Numbers[Max(s)] = Max(s) - 1
    BY <1>1, <2>1
  <2> QED BY <2>3, <2>4
<1>6. GrowFolds(frequencies, f)
  <2>1. \A s \in SUBSET (1..N) :
          f[s] = IF s = {} THEN <<>>
                 ELSE Grow(frequencies, f[s \ {Max(s)}], Numbers[Max(s)])
    BY <1>f, <1>5, Zenon
  <2>2. f = [s \in SUBSET (1..N) |->
               IF s = {} THEN <<>>
               ELSE Grow(frequencies, f[s \ {Max(s)}], Numbers[Max(s)])]
    BY <1>f, <2>1, Zenon
  <2> QED BY <1>1, <2>2, Zenon DEF GrowFolds
<1> DEFINE g == Growth(frequencies)
<1>7. GrowFolds(frequencies, g)
  BY <1>6, Zenon DEF Growth
<1>8. \A s \in SUBSET (1..N) :
        g[s] = IF s = {} THEN <<>> ELSE Grow(frequencies, g[s \ {Max(s)}], Numbers[Max(s)])
  <2> HIDE DEF g
  <2>1. g = [s \in SUBSET (1..N) |->
               IF s = {} THEN <<>> ELSE Grow(frequencies, g[s \ {Max(s)}], Numbers[Max(s)])]
    BY <1>1, <1>7, Zenon DEF GrowFolds
  <2> QED BY <2>1, Zenon
<1> HIDE DEF g
<1>9. g[1..0] = <<>>
  <2>1. 1..0 = {} /\ 1..0 \in SUBSET (1..N)
    OBVIOUS
  <2> QED BY <1>8, <2>1, Zenon
<1>10. ASSUME NEW i \in Nat, i < N PROVE g[1..(i + 1)] = Grow(frequencies, g[1..i], i)
  <2>0. i + 1 \in 1..N /\ i + 1 - 1 = i /\ 1 \in 1..(i + 1)
    BY <1>1, <1>10
  <2>1. 1..(i + 1) \in SUBSET (1..N) /\ 1..(i + 1) # {} /\ i + 1 \in 1..N /\ i + 1 - 1 = i
    BY <1>1, <2>0
  <2>2. Max(1..(i + 1)) = i + 1 /\ (1..(i + 1)) \ {i + 1} = 1..i
    BY MaxOfFirst
  <2>3. g[1..(i + 1)] = Grow(frequencies, g[(1..(i + 1)) \ {Max(1..(i + 1))}], Numbers[Max(1..(i + 1))])
    BY <1>8, <2>1, Zenon
  <2>4. Numbers[i + 1] = i
    BY <1>1, <2>1
  <2> QED BY <2>2, <2>3, <2>4, Zenon
<1> QED BY <1>9, <1>10 DEF g, N

LEMMA LeavesAreForest ==
  ASSUME NEW frequencies \in [Char -> Nat]
  PROVE  Forest(Leaves(frequencies), Char) /\ Len(Leaves(frequencies)) = 2^CharBits
<1> DEFINE N == 2^CharBits
           g == Growth(frequencies)
           T == {i \in Nat : i <= N => Forest(g[1..i], 0..(i - 1)) /\ Len(g[1..i]) = i}
<1>1. N \in Nat /\ Char = 0..(N - 1) /\ DOMAIN Numbers = 1..N
  BY CharType DEF Numbers, Char
<1>2. g[1..0] = <<>> /\ \A i \in Nat : i < N => g[1..(i + 1)] = Grow(frequencies, g[1..i], i)
  BY GrowSteps
<1> HIDE DEF N, g
<1>3. 0 \in T
  <2>1. Forest(<<>>, 0..(0 - 1)) /\ Len(<<>>) = 0
    BY EmptySeq DEF Forest, LeafOf
  <2> QED BY <1>2, <2>1
<1>4. ASSUME NEW i \in Nat, i \in T PROVE i + 1 \in T
  <2> SUFFICES ASSUME i + 1 <= N
               PROVE  Forest(g[1..(i + 1)], 0..(i + 1 - 1)) /\ Len(g[1..(i + 1)]) = i + 1
    OBVIOUS
  <2>1. i <= N /\ i < N /\ i \in Char /\ 0..(i - 1) \in SUBSET Char /\ i + 1 - 1 = i
        /\ i \notin 0..(i - 1) /\ (0..(i - 1)) \cup {i} = 0..i
    BY <1>1
  <2>2. Forest(g[1..i], 0..(i - 1)) /\ Len(g[1..i]) = i
    BY <1>4, <2>1
  <2> DEFINE node == Leaf(i, frequencies[i])
             D == 0..(i - 1)
  <2>3. node \in Node /\ DOMAIN node.code = {i}
    BY <2>1, LeafIs
  <2>4. g[1..(i + 1)] = InsertNodeIntoSortedList(node, g[1..i])
    BY <1>2, <2>1 DEF Grow
  <2>5. DOMAIN node.code \cap D = {} /\ D \cup DOMAIN node.code = 0..i /\ D \in SUBSET Char
    BY <2>1, <2>3
  <2>6. Forest(g[1..i], D)
    BY <2>2
  <2> HIDE DEF node, D
  <2>7. Forest(InsertNodeIntoSortedList(node, g[1..i]), D \cup DOMAIN node.code)
        /\ Len(InsertNodeIntoSortedList(node, g[1..i])) = Len(g[1..i]) + 1
    BY <2>3, <2>5, <2>6, ForestInsert
  <2> QED BY <2>1, <2>2, <2>4, <2>5, <2>7
<1> HIDE DEF T
<1>5. N \in T
  BY <1>1, <1>3, <1>4, NumberInduction
<1>6. Forest(g[1..N], Char) /\ Len(g[1..N]) = N
  BY <1>1, <1>5 DEF T
<1> QED BY <1>1, <1>6 DEF Leaves, N, g

LEMMA ShrinkSteps ==
  ASSUME NEW leaves \in Seq(Node), Len(leaves) = 2^CharBits
  PROVE  /\ Shrinking(leaves)[1..0] = leaves
         /\ \A i \in Nat : i < 2^CharBits - 1 =>
              Shrinking(leaves)[1..(i + 1)] = MergeSmallest(Shrinking(leaves)[1..i])
<1> DEFINE N == 2^CharBits
           M == N - 1
           S == [i \in 0..M |-> {list \in Seq(Node) : Len(list) >= N - i}]
           h == [i \in 1..M |-> [list \in Seq(Node) |-> MergeSmallest(list)]]
<1>1. N \in Nat /\ N >= 2 /\ M \in Nat /\ M = N - 1 /\ DOMAIN Merges = 1..M
  BY CharType DEF Merges
<1>l. Len(leaves) = N
  OBVIOUS
<1> HIDE DEF N
<1>s. \A i \in 1..M : /\ i - 1 \in 0..M /\ i \in 0..M
                      /\ S[i - 1] = {list \in Seq(Node) : Len(list) >= N - (i - 1)}
                      /\ S[i] = {list \in Seq(Node) : Len(list) >= N - i}
  <2>1. ASSUME NEW i \in 1..M PROVE i - 1 \in 0..M /\ i \in 0..M
    BY <1>1
  <2> QED BY <2>1
<1>h. \A i \in 1..M : \A a \in Seq(Node) : h[i][a] = MergeSmallest(a)
  OBVIOUS
<1>3. leaves \in S[0]
  <2>1. 0 \in 0..M /\ N >= N - 0
    BY <1>1
  <2> QED BY <1>l, <2>1
<1> HIDE DEF S, h, M
<1>2. ASSUME NEW i \in 1..M, NEW a \in S[i - 1]
      PROVE  a \in S[i] /\ h[i][a] \in S[i]
  <2>1. a \in Seq(Node) /\ Len(a) \in Nat /\ Len(a) >= N - (i - 1)
    BY <1>s, LenProperties
  <2>2. Len(a) >= 2 /\ Len(a) >= N - i /\ Len(a) - 1 >= N - i
    BY <1>1, <2>1
  <2>3. MergeSmallest(a) \in Seq(Node) /\ Len(MergeSmallest(a)) = Len(a) - 1
    BY <2>1, <2>2, MergeType
  <2> QED BY <1>s, <1>h, <2>1, <2>2, <2>3
<1>c. Folding(M, S, leaves, h)
  BY <1>2, <1>3 DEF Folding
<1>4. PICK f : Folded(M, S, leaves, h, f)
  BY <1>1, <1>c, FoldExists
<1>f. /\ f = [s \in SUBSET (1..M) |-> f[s]] /\ f[{}] = leaves
      /\ \A s \in SUBSET (1..M) : s # {} =>
           f[s \ {Max(s)}] \in S[Max(s) - 1] /\ f[s] = h[Max(s)][f[s \ {Max(s)}]]
  BY <1>4, Zenon DEF Folded
<1>5. ASSUME NEW s \in SUBSET (1..M), s # {}
      PROVE  f[s] = MergeSmallest(f[s \ {Max(s)}])
  <2>1. Max(s) \in 1..M
    BY <1>1, <1>5, MaxType
  <2>2. f[s \ {Max(s)}] \in S[Max(s) - 1] /\ f[s] = h[Max(s)][f[s \ {Max(s)}]]
    BY <1>f, <1>5
  <2>3. f[s \ {Max(s)}] \in Seq(Node)
    BY <1>s, <2>1, <2>2
  <2> QED BY <1>h, <2>1, <2>2, <2>3
<1>6. ShrinkFolds(leaves, f)
  <2>1. \A s \in SUBSET (1..M) :
          f[s] = IF s = {} THEN leaves ELSE MergeSmallest(f[s \ {Max(s)}])
    BY <1>f, <1>5, Zenon
  <2>2. f = [s \in SUBSET (1..M) |-> IF s = {} THEN leaves ELSE MergeSmallest(f[s \ {Max(s)}])]
    BY <1>f, <2>1, Zenon
  <2> QED BY <1>1, <2>2, Zenon DEF ShrinkFolds
<1> DEFINE g == Shrinking(leaves)
<1>7. ShrinkFolds(leaves, g)
  BY <1>6, Zenon DEF Shrinking
<1>8. \A s \in SUBSET (1..M) :
        g[s] = IF s = {} THEN leaves ELSE MergeSmallest(g[s \ {Max(s)}])
  <2> HIDE DEF g
  <2>1. g = [s \in SUBSET (1..M) |-> IF s = {} THEN leaves ELSE MergeSmallest(g[s \ {Max(s)}])]
    BY <1>1, <1>7, Zenon DEF ShrinkFolds
  <2> QED BY <2>1, Zenon
<1> HIDE DEF g
<1>9. g[1..0] = leaves
  <2>1. 1..0 = {} /\ 1..0 \in SUBSET (1..M)
    OBVIOUS
  <2> QED BY <1>8, <2>1, Zenon
<1>10. ASSUME NEW i \in Nat, i < M PROVE g[1..(i + 1)] = MergeSmallest(g[1..i])
  <2>0. i + 1 \in 1..M /\ 1 \in 1..(i + 1)
    BY <1>1, <1>10
  <2>1. 1..(i + 1) \in SUBSET (1..M) /\ 1..(i + 1) # {}
    <3>1. \A j \in 1..(i + 1) : j \in 1..M
      BY <1>1, <2>0
    <3> QED BY <2>0, <3>1, Zenon
  <2>2. Max(1..(i + 1)) = i + 1 /\ (1..(i + 1)) \ {i + 1} = 1..i
    BY MaxOfFirst
  <2>3. g[1..(i + 1)] = MergeSmallest(g[(1..(i + 1)) \ {Max(1..(i + 1))}])
    BY <1>8, <2>1, Zenon
  <2> QED BY <2>2, <2>3, Zenon
<1> QED BY <1>9, <1>10 DEF g, M, N

(* What is generated is a prefix code of all characters... *)
LEMMA GenerateIsCode ==
  ASSUME NEW frequencies \in [Char -> Nat]
  PROVE  GenerateFromFrequencyTable(frequencies) \in PrefixCodes(Char)
<1> DEFINE N == 2^CharBits
           M == N - 1
           leaves == Leaves(frequencies)
           g == Shrinking(leaves)
           T == {i \in Nat : i <= M => Forest(g[1..i], Char) /\ Len(g[1..i]) = N - i}
<1>1. N \in Nat /\ N >= 2 /\ M \in Nat /\ M = N - 1 /\ DOMAIN Merges = 1..M
  BY CharType DEF Merges
<1>2. Forest(leaves, Char) /\ Len(leaves) = N /\ leaves \in Seq(Node)
  BY LeavesAreForest DEF Forest
<1>3. g[1..0] = leaves /\ \A i \in Nat : i < M => g[1..(i + 1)] = MergeSmallest(g[1..i])
  BY <1>2, ShrinkSteps
<1>e. GenerateFromFrequencyTable(frequencies) = g[1..M][1].code
  BY <1>1, GenerateIsFold
<1> HIDE DEF N, M, leaves, g
<1>4. 0 \in T
  <2>1. N - 0 = N
    BY <1>1
  <2> QED BY <1>2, <1>3, <2>1
<1>5. ASSUME NEW i \in Nat, i \in T PROVE i + 1 \in T
  <2> SUFFICES ASSUME i + 1 <= M
               PROVE  Forest(g[1..(i + 1)], Char) /\ Len(g[1..(i + 1)]) = N - (i + 1)
    OBVIOUS
  <2>1. i <= M /\ i < M /\ N - i >= 2 /\ N - i - 1 = N - (i + 1)
    BY <1>1
  <2>2. Forest(g[1..i], Char) /\ Len(g[1..i]) = N - i
    BY <1>5, <2>1
  <2>3. g[1..(i + 1)] = MergeSmallest(g[1..i])
    BY <1>3, <2>1
  <2>4. Char \in SUBSET Char
    OBVIOUS
  <2> QED BY <2>1, <2>2, <2>3, <2>4, MergeTwo
<1> HIDE DEF T
<1>6. M \in T
  BY <1>1, <1>4, <1>5, NumberInduction
<1> DEFINE last == g[1..M]
<1>7. Forest(last, Char) /\ Len(last) = 1
  <2>1. N - M = 1 /\ M <= M
    BY <1>1
  <2>2. Forest(last, Char) /\ Len(last) = N - M
    BY <1>6, <2>1 DEF T
  <2> QED BY <2>1, <2>2
<1> HIDE DEF last
<1>8. last \in Seq(Node) /\ 1 \in 1..Len(last) /\ \A i \in 1..Len(last) : i = 1
  BY <1>7 DEF Forest
<1>9. last[1] \in Node
  BY <1>8, ElementOfSeq
<1>10. last[1].code \in PrefixCodes(DOMAIN last[1].code) /\ DOMAIN last[1].code \in SUBSET Char
  BY <1>9, NodeType
<1>11. \A c \in Char : c \in DOMAIN last[1].code
  BY <1>7, <1>8 DEF Forest, LeafOf
<1>12. DOMAIN last[1].code = Char
  BY <1>10, <1>11
<1> QED BY <1>e, <1>10, <1>12 DEF last

(* ... and no code is empty, since there are two characters or more. *)
LEMMA CodesAreLong ==
  ASSUME NEW table \in PrefixCodes(Char), NEW c \in Char
  PROVE  Len(table[c]) >= 1
<1>1. PICK d \in Char : d # c
  <2>1. 0 \in Char /\ 1 \in Char
    BY CharType DEF Char
  <2>2. c # 0 \/ c # 1
    OBVIOUS
  <2> QED BY <2>1, <2>2
<1>2. /\ Len(table[c]) \in Nat /\ Len(table[d]) \in Nat
      /\ ~Begins(table[c], table[d])
  BY <1>1, CodeType
<1> SUFFICES ASSUME Len(table[c]) = 0 PROVE FALSE
  BY <1>2
<1> QED BY <1>2 DEF Begins

-----------------------------------------------------------------------------
(* DecodeArray, bit by bit.                                                 *)
DecodeStep(table, s, bit) ==
  LET node == Append(s.node, bit)
      leaf == {c \in Char : table[c] = node}
  IN  IF leaf = {} THEN [s EXCEPT !.node = node]
      ELSE [node |-> <<>>, output |-> Append(s.output, Min(leaf))]

Start == [node |-> <<>>, output |-> <<>>]
DecodeFolds(table, bits, f) ==
  f = [s \in SUBSET DOMAIN bits |->
         IF s = {} THEN Start ELSE DecodeStep(table, f[s \ {Max(s)}], bits[Max(s)])]
Decoding(table, bits) == CHOOSE f : DecodeFolds(table, bits, f)
Decoder == [node : Seq(Bit), output : Seq(Char)]

LEMMA DecodeIsFold ==
  ASSUME NEW table, NEW bits
  PROVE  DecodeArray(table, bits) = Decoding(table, bits)[DOMAIN bits].output
  BY Zenon DEF DecodeArray, FoldLeft, MapThenFoldSet, Decoding, DecodeFolds, DecodeStep, Start

(* A bit leads to an inner node, or to a leaf and back to the root. *)
LEMMA DecodeStepIs ==
  ASSUME NEW table \in PrefixCodes(Char), NEW s \in Decoder, NEW bit \in Bit
  PROVE  /\ DecodeStep(table, s, bit) \in Decoder
         /\ \A c \in Char : Append(s.node, bit) = table[c] =>
              DecodeStep(table, s, bit) = [node |-> <<>>, output |-> Append(s.output, c)]
         /\ (\A c \in Char : Append(s.node, bit) # table[c]) =>
              DecodeStep(table, s, bit) = [node |-> Append(s.node, bit), output |-> s.output]
<1> DEFINE node == Append(s.node, bit)
           leaf == {c \in Char : table[c] = node}
<1>1. s.node \in Seq(Bit) /\ s.output \in Seq(Char) /\ node \in Seq(Bit)
  BY AppendProperties DEF Decoder
<1>2. DecodeStep(table, s, bit) =
        IF leaf = {} THEN [s EXCEPT !.node = node]
        ELSE [node |-> <<>>, output |-> Append(s.output, Min(leaf))]
  BY Zenon DEF DecodeStep
<1> HIDE DEF node
<1>3. [s EXCEPT !.node = node] = [node |-> node, output |-> s.output]
  BY <1>1 DEF Decoder
<1>4. ASSUME leaf = {}
      PROVE  /\ DecodeStep(table, s, bit) = [node |-> node, output |-> s.output]
             /\ \A c \in Char : node # table[c]
             /\ [node |-> node, output |-> s.output] \in Decoder
  <2>1. [node |-> node, output |-> s.output] \in Decoder
    BY <1>1 DEF Decoder
  <2> QED BY <1>2, <1>3, <1>4, <2>1, Zenon
<1>5. ASSUME NEW c \in Char, node = table[c]
      PROVE  /\ DecodeStep(table, s, bit) = [node |-> <<>>, output |-> Append(s.output, c)]
             /\ [node |-> <<>>, output |-> Append(s.output, c)] \in Decoder
  <2>1. ASSUME NEW d \in Char, table[d] = node PROVE d = c
    <3>1. /\ table[c] \in Seq(Bit) /\ Len(table[c]) \in Nat
          /\ c # d => ~Begins(table[c], table[d])
      BY CodeType
    <3>2. Begins(table[c], table[d])
      BY <1>5, <2>1, <3>1 DEF Begins
    <3> QED BY <3>1, <3>2
  <2>2. leaf = {c}
    BY <1>5, <2>1
  <2>3. c \in Nat
    BY CharType
  <2>4. Min({c}) = c
    <3>1. \E x \in {c} : \A y \in {c} : x <= y
      BY <2>3
    <3>2. Min({c}) \in {c}
      BY <3>1, Zenon DEF Min
    <3> QED BY <3>2
  <2>5. DecodeStep(table, s, bit) = [node |-> <<>>, output |-> Append(s.output, c)]
    BY <1>2, <2>2, <2>4
  <2>6. Append(s.output, c) \in Seq(Char) /\ <<>> \in Seq(Bit)
    BY <1>1, AppendProperties, EmptySeq
  <2> QED BY <2>5, <2>6 DEF Decoder
<1> HIDE DEF leaf
<1>6. leaf = {} \/ \E c \in Char : node = table[c]
  BY DEF leaf
<1>7. DecodeStep(table, s, bit) \in Decoder
  BY <1>4, <1>5, <1>6
<1>8. (\A c \in Char : node # table[c]) =>
        DecodeStep(table, s, bit) = [node |-> node, output |-> s.output]
  BY <1>4, <1>6
<1> QED BY <1>5, <1>7, <1>8 DEF node

LEMMA DecodeSteps ==
  ASSUME NEW table \in PrefixCodes(Char), NEW bits \in Seq(Bit)
  PROVE  /\ Decoding(table, bits)[1..0] = Start
         /\ \A i \in Nat : i < Len(bits) =>
              Decoding(table, bits)[1..(i + 1)] =
                DecodeStep(table, Decoding(table, bits)[1..i], bits[i + 1])
<1> DEFINE N == Len(bits)
           S == [i \in 0..N |-> Decoder]
           h == [i \in 1..N |-> [s \in Decoder |-> DecodeStep(table, s, bits[i])]]
<1>1. N \in Nat /\ DOMAIN bits = 1..N /\ \A i \in 1..N : bits[i] \in Bit
  BY LenProperties
<1> HIDE DEF N
<1>s. \A i \in 1..N : S[i - 1] = Decoder /\ S[i] = Decoder
  <2>1. ASSUME NEW i \in 1..N PROVE i - 1 \in 0..N /\ i \in 0..N
    BY <1>1
  <2> QED BY <2>1
<1>h. \A i \in 1..N : \A a \in Decoder : h[i][a] = DecodeStep(table, a, bits[i])
  OBVIOUS
<1>2. Start \in S[0]
  <2>1. 0 \in 0..N
    BY <1>1
  <2>2. Start \in Decoder
    BY EmptySeq DEF Start, Decoder
  <2> QED BY <2>1, <2>2
<1> HIDE DEF S, h
<1>3. \A i \in 1..N : \A a \in Decoder : h[i][a] \in Decoder
  BY <1>1, <1>h, DecodeStepIs
<1>c. Folding(N, S, Start, h)
  BY <1>2, <1>3, <1>s DEF Folding
<1>4. PICK f : Folded(N, S, Start, h, f)
  BY <1>1, <1>c, FoldExists
<1>f. /\ f = [s \in SUBSET (1..N) |-> f[s]] /\ f[{}] = Start
      /\ \A s \in SUBSET (1..N) : s # {} =>
           f[s \ {Max(s)}] \in S[Max(s) - 1] /\ f[s] = h[Max(s)][f[s \ {Max(s)}]]
  BY <1>4, Zenon DEF Folded
<1>5. ASSUME NEW s \in SUBSET (1..N), s # {}
      PROVE  f[s] = DecodeStep(table, f[s \ {Max(s)}], bits[Max(s)])
  <2>1. Max(s) \in 1..N
    BY <1>1, <1>5, MaxType
  <2>2. f[s \ {Max(s)}] \in Decoder /\ f[s] = h[Max(s)][f[s \ {Max(s)}]]
    BY <1>f, <1>5, <1>s, <2>1
  <2> QED BY <1>h, <2>1, <2>2
<1>6. DecodeFolds(table, bits, f)
  <2>1. \A s \in SUBSET (1..N) :
          f[s] = IF s = {} THEN Start ELSE DecodeStep(table, f[s \ {Max(s)}], bits[Max(s)])
    BY <1>f, <1>5, Zenon
  <2>2. f = [s \in SUBSET (1..N) |->
               IF s = {} THEN Start ELSE DecodeStep(table, f[s \ {Max(s)}], bits[Max(s)])]
    BY <1>f, <2>1, Zenon
  <2> QED BY <1>1, <2>2, Zenon DEF DecodeFolds
<1> DEFINE g == Decoding(table, bits)
<1>7. DecodeFolds(table, bits, g)
  BY <1>6, Zenon DEF Decoding
<1>8. \A s \in SUBSET (1..N) :
        g[s] = IF s = {} THEN Start ELSE DecodeStep(table, g[s \ {Max(s)}], bits[Max(s)])
  <2> HIDE DEF g
  <2>1. g = [s \in SUBSET (1..N) |->
               IF s = {} THEN Start ELSE DecodeStep(table, g[s \ {Max(s)}], bits[Max(s)])]
    BY <1>1, <1>7, Zenon DEF DecodeFolds
  <2> QED BY <2>1, Zenon
<1> HIDE DEF g
<1>9. g[1..0] = Start
  <2>1. 1..0 = {} /\ 1..0 \in SUBSET (1..N)
    OBVIOUS
  <2> QED BY <1>8, <2>1, Zenon
<1>10. ASSUME NEW i \in Nat, i < N PROVE g[1..(i + 1)] = DecodeStep(table, g[1..i], bits[i + 1])
  <2>0. i + 1 \in 1..N /\ 1 \in 1..(i + 1)
    BY <1>1, <1>10
  <2>1. 1..(i + 1) \in SUBSET (1..N) /\ 1..(i + 1) # {}
    <3>1. \A j \in 1..(i + 1) : j \in 1..N
      BY <1>1, <2>0
    <3> QED BY <2>0, <3>1, Zenon
  <2>2. Max(1..(i + 1)) = i + 1 /\ (1..(i + 1)) \ {i + 1} = 1..i
    BY MaxOfFirst
  <2>3. g[1..(i + 1)] =
          DecodeStep(table, g[(1..(i + 1)) \ {Max(1..(i + 1))}], bits[Max(1..(i + 1))])
    BY <1>8, <2>1, Zenon
  <2> QED BY <2>2, <2>3, Zenon
<1> QED BY <1>9, <1>10 DEF g, N

(* What is read are characters, whatever the bits are. *)
LEMMA DecodeType ==
  ASSUME NEW table \in PrefixCodes(Char), NEW bits \in Seq(Bit)
  PROVE  DecodeArray(table, bits) \in Seq(Char)
<1> DEFINE N == Len(bits)
           g == Decoding(table, bits)
           T == {i \in Nat : i <= N => g[1..i] \in Decoder}
<1>1. N \in Nat /\ DOMAIN bits = 1..N /\ \A i \in 1..N : bits[i] \in Bit
  BY LenProperties
<1>2. g[1..0] = Start /\ \A i \in Nat : i < N => g[1..(i + 1)] = DecodeStep(table, g[1..i], bits[i + 1])
  BY DecodeSteps
<1>3. DecodeArray(table, bits) = g[1..N].output
  BY <1>1, DecodeIsFold
<1> HIDE DEF N, g
<1>4. 0 \in T
  <2>1. Start \in Decoder
    BY EmptySeq DEF Start, Decoder
  <2> QED BY <1>2, <2>1
<1>5. ASSUME NEW i \in Nat, i \in T PROVE i + 1 \in T
  <2>1. ASSUME i + 1 <= N PROVE g[1..(i + 1)] \in Decoder
    <3>1. i <= N /\ i < N /\ i + 1 \in 1..N
      BY <1>1, <2>1
    <3>2. g[1..i] \in Decoder /\ bits[i + 1] \in Bit
      BY <1>1, <1>5, <3>1
    <3>3. DecodeStep(table, g[1..i], bits[i + 1]) \in Decoder
      BY <3>2, DecodeStepIs
    <3> QED BY <1>2, <3>1, <3>3
  <2> QED BY <2>1
<1> HIDE DEF T
<1>6. N \in T
  BY <1>1, <1>4, <1>5, NumberInduction
<1>7. g[1..N] \in Decoder
  BY <1>1, <1>6 DEF T
<1> QED BY <1>3, <1>7 DEF Decoder

-----------------------------------------------------------------------------
(* EncodeArray: the codes of the text one behind the other, each from a     *)
(* place on, and a padding that is the beginning of a code.                 *)
Flattens(s, f) == f = [i \in 1..Len(s) |-> IF i = 1 THEN s[i] ELSE f[i - 1] \o s[i]]
Flattening(s) == CHOOSE f : Flattens(s, f)

LEMMA FlattenIs ==
  ASSUME NEW s
  PROVE  FlattenSeq(s) = IF Len(s) = 0 THEN s ELSE Flattening(s)[Len(s)]
  BY Zenon DEF FlattenSeq, Flattens, Flattening

LEMMA FlattenSteps ==
  ASSUME NEW s \in Seq(Seq(Bit)), Len(s) >= 1
  PROVE  /\ Flattening(s)[1] = s[1]
         /\ \A i \in 1..(Len(s) - 1) : Flattening(s)[i + 1] = Flattening(s)[i] \o s[i + 1]
<1> DEFINE n == Len(s)
           S == [i \in 0..n |-> Seq(Bit)]
           h == [i \in 1..n |-> [a \in Seq(Bit) |-> a \o s[i]]]
<1>1. n \in Nat /\ n >= 1 /\ \A i \in 1..n : s[i] \in Seq(Bit)
  BY LenProperties, ElementOfSeq
<1> HIDE DEF n
<1>s. \A i \in 1..n : S[i - 1] = Seq(Bit) /\ S[i] = Seq(Bit)
  <2>1. ASSUME NEW i \in 1..n PROVE i - 1 \in 0..n /\ i \in 0..n
    BY <1>1
  <2> QED BY <2>1
<1>h. \A i \in 1..n : \A a \in Seq(Bit) : h[i][a] = a \o s[i]
  OBVIOUS
<1>2. <<>> \in S[0]
  <2>1. 0 \in 0..n
    BY <1>1
  <2> QED BY <2>1, EmptySeq
<1> HIDE DEF S, h
<1>3. ASSUME NEW i \in 1..n, NEW a \in Seq(Bit) PROVE h[i][a] \in Seq(Bit)
  <2>1. s[i] \in Seq(Bit)
    BY <1>1
  <2>2. a \o s[i] \in Seq(Bit)
    BY <2>1, ConcatProperties
  <2> QED BY <1>h, <2>2
<1>c. Folding(n, S, <<>>, h)
  BY <1>2, <1>3, <1>s DEF Folding
<1>4. PICK f : Folded(n, S, <<>>, h, f)
  BY <1>1, <1>c, FoldExists
<1>f. /\ f[{}] = <<>>
      /\ \A t \in SUBSET (1..n) : t # {} =>
           f[t \ {Max(t)}] \in S[Max(t) - 1] /\ f[t] = h[Max(t)][f[t \ {Max(t)}]]
  BY <1>4, Zenon DEF Folded
<1>5. ASSUME NEW i \in Nat, i < n PROVE f[1..i] \in Seq(Bit) /\ f[1..(i + 1)] = f[1..i] \o s[i + 1]
  <2>0. i + 1 \in 1..n /\ 1 \in 1..(i + 1) /\ i + 1 - 1 = i
    BY <1>1, <1>5
  <2>1. 1..(i + 1) \in SUBSET (1..n) /\ 1..(i + 1) # {}
    <3>1. \A j \in 1..(i + 1) : j \in 1..n
      BY <1>1, <2>0
    <3> QED BY <2>0, <3>1, Zenon
  <2>2. Max(1..(i + 1)) = i + 1 /\ (1..(i + 1)) \ {i + 1} = 1..i
    BY MaxOfFirst
  <2>3. f[1..i] \in S[i + 1 - 1] /\ f[1..(i + 1)] = h[i + 1][f[1..i]]
    <3> DEFINE t == 1..(i + 1)
               m == Max(t)
               u == 1..i
               k == i + 1
    <3>1. f[t \ {m}] \in S[m - 1] /\ f[t] = h[m][f[t \ {m}]]
      BY <1>f, <2>1, Zenon
    <3>2. m = k /\ t \ {k} = u
      BY <2>2
    <3> HIDE DEF t, u, m, k
    <3>3. f[u] \in S[k - 1] /\ f[t] = h[k][f[u]]
      BY <3>1, <3>2, Zenon
    <3> QED BY <3>3 DEF t, u, k
  <2>4. f[1..i] \in Seq(Bit)
    BY <1>s, <2>0, <2>3
  <2> QED BY <1>h, <2>0, <2>3, <2>4
<1>6. f[1..1] = s[1]
  <2>1. 1..0 = {} /\ 0 \in Nat /\ 0 < n /\ 0 + 1 = 1 /\ 1 \in 1..n
    BY <1>1
  <2>2. f[1..1] = <<>> \o s[1]
    BY <1>5, <1>f, <2>1
  <2>3. s[1] \in Seq(Bit)
    BY <1>1, <2>1
  <2>4. <<>> \o s[1] = s[1]
    BY <2>3, ConcatEmptySeq
  <2> QED BY <2>2, <2>4
<1> DEFINE g == [i \in 1..n |-> f[1..i]]
           w == Flattening(s)
<1>7. ASSUME NEW i \in 1..n PROVE g[i] = IF i = 1 THEN s[i] ELSE g[i - 1] \o s[i]
  <2>1. CASE i = 1
    BY <1>6, <2>1
  <2>2. CASE i # 1
    <3> DEFINE k == i - 1
    <3>1. k \in Nat /\ k < n /\ k + 1 = i /\ k \in 1..n
      BY <1>1, <2>2
    <3> HIDE DEF k
    <3>2. f[1..i] = f[1..k] \o s[i]
      BY <1>5, <3>1
    <3>3. g[i] = f[1..i] /\ g[k] = f[1..k]
      BY <3>1
    <3> QED BY <2>2, <3>2, <3>3 DEF k
  <2> QED BY <2>1, <2>2
<1>8. Flattens(s, g)
  <2> DEFINE v(i) == IF i = 1 THEN s[i] ELSE g[i - 1] \o s[i]
  <2>1. \A i \in 1..n : f[1..i] = v(i)
    BY <1>7
  <2> HIDE DEF v
  <2>2. g = [i \in 1..n |-> v(i)]
    BY <2>1
  <2> HIDE DEF g
  <2> QED BY <2>2, Zenon DEF Flattens, v, n
<1> HIDE DEF g
<1>9. Flattens(s, w)
  BY <1>8, Zenon DEF Flattening
<1>10. \A i \in 1..n : w[i] = IF i = 1 THEN s[i] ELSE w[i - 1] \o s[i]
  <2> HIDE DEF w
  <2>1. w = [i \in 1..n |-> IF i = 1 THEN s[i] ELSE w[i - 1] \o s[i]]
    BY <1>9, Zenon DEF Flattens, n
  <2> QED BY <2>1, Zenon
<1> HIDE DEF w
<1>11. w[1] = s[1]
  BY <1>1, <1>10
<1>12. ASSUME NEW i \in 1..(n - 1) PROVE w[i + 1] = w[i] \o s[i + 1]
  <2> DEFINE k == i + 1
  <2>1. k \in 1..n /\ k # 1 /\ k - 1 = i
    BY <1>1
  <2> HIDE DEF k
  <2>2. w[k] = w[i] \o s[k]
    BY <1>10, <2>1
  <2> QED BY <2>2 DEF k
<1> QED BY <1>11, <1>12 DEF w, n

(* Where the parts of a flattened sequence are. *)
Part(s, b, p, k) ==
  /\ p[k] = p[k - 1] + Len(s[k]) /\ p[k] <= Len(b)
  /\ \A j \in 1..Len(s[k]) : b[p[k - 1] + j] = s[k][j]
Layout(s, b, p) ==
  /\ b \in Seq(Bit) /\ p \in [0..Len(s) -> Nat] /\ p[0] = 0 /\ p[Len(s)] <= Len(b)
  /\ \A k \in 1..Len(s) : Part(s, b, p, k)

LEMMA PartStays ==
  ASSUME NEW s \in Seq(Seq(Bit)), NEW p \in [0..Len(s) -> Nat], NEW k \in 1..Len(s),
         NEW b \in Seq(Bit), NEW t \in Seq(Bit), Part(s, b, p, k)
  PROVE  Part(s, b \o t, p, k)
<1> DEFINE c == b \o t
<1>1. /\ c \in Seq(Bit) /\ Len(c) = Len(b) + Len(t)
      /\ \A i \in 1..(Len(b) + Len(t)) : c[i] = IF i <= Len(b) THEN b[i] ELSE t[i - Len(b)]
  BY ConcatProperties
<1> HIDE DEF c
<1>2. /\ Len(b) \in Nat /\ Len(t) \in Nat /\ Len(s) \in Nat
      /\ Len(s[k]) \in Nat /\ p[k] \in Nat /\ p[k - 1] \in Nat
  <2>1. Len(s) \in Nat /\ Len(b) \in Nat /\ Len(t) \in Nat /\ s[k] \in Seq(Bit)
    BY LenProperties, ElementOfSeq
  <2>2. k - 1 \in 0..Len(s) /\ k \in 0..Len(s)
    BY <2>1
  <2> QED BY <2>1, <2>2, LenProperties
<1>3. p[k] = p[k - 1] + Len(s[k]) /\ p[k] <= Len(b) /\ \A j \in 1..Len(s[k]) : b[p[k - 1] + j] = s[k][j]
  BY DEF Part
<1>4. p[k] <= Len(c)
  BY <1>1, <1>2, <1>3
<1>5. ASSUME NEW j \in 1..Len(s[k]) PROVE c[p[k - 1] + j] = s[k][j]
  <2> DEFINE q == p[k - 1]
             m == Len(b)
             r == Len(t)
             l == Len(s[k])
  <2>0. q \in Nat /\ m \in Nat /\ r \in Nat /\ l \in Nat /\ p[k] = q + l /\ p[k] <= m /\ j \in 1..l
    BY <1>2, <1>3
  <2> HIDE DEF q, m, r, l
  <2>1. q + j \in 1..(m + r) /\ q + j <= m
    BY <2>0
  <2>2. c[q + j] = b[q + j]
    BY <1>1, <2>1 DEF m, r
  <2> QED BY <1>3, <2>2 DEF q, l
<1> QED BY <1>3, <1>4, <1>5 DEF Part, c

LEMMA FlattenLayout ==
  ASSUME NEW s \in Seq(Seq(Bit))
  PROVE  \E p : Layout(s, FlattenSeq(s), p) /\ p[Len(s)] = Len(FlattenSeq(s))
<1> DEFINE n == Len(s)
<1>1. n \in Nat /\ \A i \in 1..n : s[i] \in Seq(Bit) /\ Len(s[i]) \in Nat
  BY LenProperties, ElementOfSeq
<1>2. CASE n = 0
  <2> DEFINE p == [k \in 0..0 |-> 0]
  <2>1. s = <<>> /\ Len(<<>>) = 0 /\ <<>> \in Seq(Bit)
    BY <1>2, EmptySeq
  <2>2. FlattenSeq(s) = <<>>
    BY <1>2, <2>1, FlattenIs
  <2>3. p \in [0..0 -> Nat] /\ p[0] = 0
    OBVIOUS
  <2> HIDE DEF p
  <2>4. Layout(<<>>, <<>>, p) /\ p[Len(<<>>)] = Len(<<>>)
    BY <2>1, <2>3 DEF Layout
  <2> QED BY <2>1, <2>2, <2>4
<1>3. CASE n >= 1
  <2> DEFINE f == Flattening(s)
             p == [k \in 0..n |-> IF k = 0 THEN 0 ELSE Len(f[k])]
  <2>1. f[1] = s[1] /\ \A i \in 1..(n - 1) : f[i + 1] = f[i] \o s[i + 1]
    BY <1>3, FlattenSteps
  <2>2. FlattenSeq(s) = f[n]
    BY <1>1, <1>3, FlattenIs
  <2> HIDE DEF f, n
  <2> DEFINE T == {m \in Nat : m + 1 <= n => f[m + 1] \in Seq(Bit)}
  <2>3. ASSUME NEW k \in 1..n PROVE f[k] \in Seq(Bit) /\ Len(f[k]) \in Nat
    <3>1. 0 \in T
      <4>1. 0 + 1 = 1 /\ 1 \in 1..n
        BY <1>1, <1>3
      <4> QED BY <1>1, <2>1, <4>1
    <3>2. ASSUME NEW m \in Nat, m \in T PROVE m + 1 \in T
      <4>1. ASSUME m + 1 + 1 <= n PROVE f[m + 1 + 1] \in Seq(Bit)
        <5>1. m + 1 \in 1..(n - 1) /\ m + 1 <= n /\ m + 1 + 1 \in 1..n
          BY <1>1, <4>1
        <5>2. f[m + 1 + 1] = f[m + 1] \o s[m + 1 + 1] /\ f[m + 1] \in Seq(Bit)
              /\ s[m + 1 + 1] \in Seq(Bit)
          BY <1>1, <2>1, <3>2, <5>1
        <5> QED BY <5>2, ConcatProperties
      <4> QED BY <4>1
    <3> HIDE DEF T
    <3>3. \A m \in Nat : m \in T
      BY <3>1, <3>2, NumberInduction
    <3>4. k - 1 \in Nat /\ k - 1 + 1 = k /\ k <= n
      BY <1>1
    <3>5. f[k] \in Seq(Bit)
      BY <3>3, <3>4 DEF T
    <3> QED BY <3>5, LenProperties
  <2>4. /\ p \in [0..n -> Nat] /\ p[0] = 0 /\ \A k \in 1..n : p[k] = Len(f[k])
    <3>1. ASSUME NEW k \in 0..n PROVE (IF k = 0 THEN 0 ELSE Len(f[k])) \in Nat
      <4>1. k # 0 => k \in 1..n
        BY <1>1
      <4> QED BY <2>3, <4>1
    <3>2. 0 \in 0..n /\ \A k \in 1..n : k \in 0..n /\ k # 0
      BY <1>1
    <3> QED BY <3>1, <3>2
  <2> HIDE DEF p
  <2>5. ASSUME NEW k \in 1..n PROVE Part(s, f[k], p, k)
    <3>0. Len(s[k]) \in Nat /\ s[k] \in Seq(Bit)
      BY <1>1
    <3>1. CASE k = 1
      <4>1. f[k] = s[k] /\ p[k] = Len(s[k]) /\ p[k - 1] = 0
        BY <2>1, <2>4, <3>1
      <4>2. p[k] = 0 + Len(s[k]) /\ p[k] <= Len(f[k])
        BY <3>0, <4>1
      <4>3. \A j \in 1..Len(s[k]) : 0 + j = j
        BY <3>0
      <4> QED BY <4>1, <4>2, <4>3 DEF Part
    <3>2. CASE k # 1
      <4> DEFINE i == k - 1
      <4>1. i \in 1..(n - 1) /\ i + 1 = k /\ i \in 1..n
        BY <1>1, <3>2
      <4> HIDE DEF i
      <4>2. f[k] = f[i] \o s[k] /\ f[i] \in Seq(Bit) /\ Len(f[i]) \in Nat /\ p[i] = Len(f[i])
            /\ p[k] = Len(f[k])
        BY <2>1, <2>3, <2>4, <4>1
      <4>3. /\ Len(f[k]) = Len(f[i]) + Len(s[k])
            /\ \A j \in 1..(Len(f[i]) + Len(s[k])) :
                 f[k][j] = IF j <= Len(f[i]) THEN f[i][j] ELSE s[k][j - Len(f[i])]
        <5> DEFINE a == f[i]
                   b == s[k]
        <5>1. a \in Seq(Bit) /\ b \in Seq(Bit) /\ f[k] = a \o b
          BY <3>0, <4>2
        <5> HIDE DEF a, b
        <5>2. /\ Len(a \o b) = Len(a) + Len(b)
              /\ \A j \in 1..(Len(a) + Len(b)) :
                   (a \o b)[j] = IF j <= Len(a) THEN a[j] ELSE b[j - Len(a)]
          BY <5>1, ConcatProperties
        <5> QED BY <5>1, <5>2, Zenon DEF a, b
      <4>4. p[k] = p[i] + Len(s[k]) /\ p[k] <= Len(f[k])
        BY <3>0, <4>2, <4>3
      <4>5. ASSUME NEW j \in 1..Len(s[k]) PROVE f[k][p[i] + j] = s[k][j]
        <5> DEFINE m == Len(f[i])
                   q == Len(s[k])
                   l == p[i] + j
        <5>1. m \in Nat /\ q \in Nat /\ p[i] = m /\ j \in 1..q /\ l = m + j
          BY <3>0, <4>2
        <5> HIDE DEF m, q, l
        <5>2. l \in 1..(m + q) /\ ~(l <= m) /\ l - m = j
          BY <5>1
        <5>3. \A x \in 1..(m + q) : f[k][x] = IF x <= m THEN f[i][x] ELSE s[k][x - m]
          BY <4>3 DEF m, q
        <5>4. f[k][l] = s[k][j]
          BY <5>2, <5>3
        <5> QED BY <5>4 DEF l
      <4> QED BY <4>4, <4>5 DEF Part, i
    <3> QED BY <3>1, <3>2
  <2> DEFINE U == {m \in Nat : m + 1 <= n => \A k \in 1..(m + 1) : Part(s, f[m + 1], p, k)}
  <2>6. \A k \in 1..n : Part(s, f[n], p, k)
    <3>1. 0 \in U
      <4>1. 0 + 1 = 1 /\ 1 \in 1..n /\ \A k \in 1..1 : k = 1
        BY <1>1, <1>3
      <4> QED BY <2>5, <4>1
    <3>2. ASSUME NEW m \in Nat, m \in U PROVE m + 1 \in U
      <4>1. ASSUME m + 1 + 1 <= n, NEW k \in 1..(m + 1 + 1) PROVE Part(s, f[m + 1 + 1], p, k)
        <5>1. m + 1 \in 1..(n - 1) /\ m + 1 <= n /\ m + 1 + 1 \in 1..n /\ m + 1 \in 1..n /\ k \in 1..n
              /\ (k \in 1..(m + 1) \/ k = m + 1 + 1)
          BY <1>1, <4>1
        <5>2. f[m + 1 + 1] = f[m + 1] \o s[m + 1 + 1] /\ f[m + 1] \in Seq(Bit)
              /\ s[m + 1 + 1] \in Seq(Bit)
          BY <1>1, <2>1, <2>3, <5>1
        <5>3. CASE k = m + 1 + 1
          BY <2>5, <5>1, <5>3
        <5>4. CASE k \in 1..(m + 1)
          <6>1. Part(s, f[m + 1], p, k)
            BY <3>2, <5>1, <5>4
          <6>2. Part(s, f[m + 1] \o s[m + 1 + 1], p, k)
            BY <2>4, <5>1, <5>2, <6>1, PartStays DEF n
          <6> QED BY <5>2, <6>2
        <5> QED BY <5>1, <5>3, <5>4
      <4> QED BY <4>1
    <3> HIDE DEF U
    <3>3. \A m \in Nat : m \in U
      BY <3>1, <3>2, NumberInduction
    <3>4. n - 1 \in Nat /\ n - 1 + 1 = n /\ n <= n
      BY <1>1, <1>3
    <3> QED BY <3>3, <3>4 DEF U
  <2>7. f[n] \in Seq(Bit) /\ p[n] = Len(f[n]) /\ p[n] <= Len(f[n])
    <3>1. n \in 1..n
      BY <1>1, <1>3
    <3> QED BY <2>3, <2>4, <3>1
  <2>8. Layout(s, f[n], p) /\ p[n] = Len(f[n])
    BY <2>4, <2>6, <2>7 DEF Layout, n
  <2> QED BY <2>2, <2>8 DEF n
<1>4. n = 0 \/ n >= 1
  BY <1>1
<1> QED BY <1>2, <1>3, <1>4

LEMMA PaddingIs ==
  ASSUME NEW table \in PrefixCodes(Char), NEW bits \in Seq(Bit)
  PROVE  /\ Padding(table, bits) \in Seq(Bit)
         /\ \E c \in Char : /\ Len(Padding(table, bits)) < Len(table[c])
                            /\ Begins(Padding(table, bits), table[c])
<1> DEFINE remaining == (CharBits - (Len(bits) % CharBits)) % CharBits
           longer == {c \in Char : Len(table[c]) > remaining}
           part == SubSeq(table[Min(longer)], 1, remaining)
           pad == Padding(table, bits)
<1>1. pad = IF remaining = 0 \/ longer = {} THEN <<>> ELSE part
  BY Zenon DEF Padding
<1>2. remaining \in Nat
  <2>1. Len(bits) \in Nat /\ CharBits \in Nat \ {0}
    BY LenProperties, CharAssumption
  <2>2. Len(bits) % CharBits \in Nat
    BY <2>1
  <2>3. \A x \in Int : x % CharBits \in Nat
    BY <2>1
  <2> QED BY <2>1, <2>2, <2>3
<1> HIDE DEF pad, remaining
<1>3. CASE remaining = 0 \/ longer = {}
  <2>1. pad = <<>>
    BY <1>1, <1>3, Zenon
  <2>2. 0 \in Char
    BY CharType DEF Char
  <2>3. Len(table[0]) >= 1 /\ Len(table[0]) \in Nat
    BY <2>2, CodesAreLong, CodeType
  <2>4. Len(<<>>) < Len(table[0]) /\ Begins(<<>>, table[0]) /\ <<>> \in Seq(Bit)
    BY <2>3, EmptySeq DEF Begins
  <2> QED BY <2>1, <2>2, <2>4 DEF pad
<1>4. CASE ~(remaining = 0 \/ longer = {})
  <2>1. longer \subseteq Nat /\ longer # {}
    BY <1>4, CharType
  <2>2. \E x \in longer : \A y \in longer : x <= y
    BY <2>1, LeastNumber
  <2>3. Min(longer) \in longer
    BY <2>2, Zenon DEF Min
  <2> DEFINE c == Min(longer)
  <2>4. c \in Char /\ remaining < Len(table[c]) /\ pad = SubSeq(table[c], 1, remaining)
    <3>1. c \in Char /\ Len(table[c]) > remaining
      BY <2>3
    <3>2. Len(table[c]) \in Nat
      BY <3>1, CodeType
    <3> HIDE DEF c
    <3>3. remaining < Len(table[c])
      BY <1>2, <3>1, <3>2
    <3> QED BY <1>1, <1>4, <3>1, <3>3 DEF c
  <2> HIDE DEF c
  <2> DEFINE t == table[c]
  <2>5. t \in Seq(Bit) /\ Len(t) \in Nat
    BY <2>4, CodeType
  <2>t. remaining < Len(t) /\ pad = SubSeq(t, 1, remaining)
    BY <2>4
  <2> HIDE DEF t
  <2>6. \A i \in 1..remaining : t[i] \in Bit
    <3>1. \A i \in 1..remaining : i \in 1..Len(t)
      BY <1>2, <2>5, <2>t
    <3> QED BY <2>5, <3>1, ElementOfSeq
  <2>7. /\ pad \in Seq(Bit) /\ Len(pad) = IF 1 <= remaining THEN remaining - 1 + 1 ELSE 0
        /\ \A i \in 1..(remaining - 1 + 1) : pad[i] = t[1 + i - 1]
    BY <1>2, <2>5, <2>6, <2>t, SubSeqProperties
  <2>8. Len(pad) = remaining /\ \A i \in 1..remaining : pad[i] = t[i]
    BY <1>2, <2>7
  <2>9. Len(pad) < Len(t) /\ Begins(pad, t)
    BY <1>2, <2>5, <2>8, <2>t DEF Begins
  <2> QED BY <2>4, <2>7, <2>9 DEF pad, t
<1> QED BY <1>3, <1>4

Pieces(table, text) == [i \in 1..Len(text) |-> table[text[i]]]

Ends(table, b, q, c) ==
  c \in Char /\ Len(b) - q < Len(table[c]) /\ \A j \in 1..(Len(b) - q) : b[q + j] = table[c][j]

LEMMA EncodingIs ==
  ASSUME NEW table \in PrefixCodes(Char), NEW text \in Seq(Char)
  PROVE  \E p, c : /\ Layout(Pieces(table, text), EncodeArray(table, text), p)
                   /\ Ends(table, EncodeArray(table, text), p[Len(text)], c)
<1> DEFINE s == Pieces(table, text)
           n == Len(text)
           f == FlattenSeq(s)
           pad == Padding(table, f)
<1>1. n \in Nat /\ \A i \in 1..n : text[i] \in Char
  BY LenProperties, ElementOfSeq
<1>2. s \in Seq(Seq(Bit)) /\ Len(s) = n
  <2>1. \A i \in 1..n : table[text[i]] \in Seq(Bit)
    BY <1>1, CodeType
  <2>2. s = [i \in 1..n |-> table[text[i]]]
    BY DEF Pieces
  <2> HIDE DEF s, n
  <2>3. s \in [1..n -> Seq(Bit)]
    BY <2>1, <2>2
  <2> QED BY <1>1, <2>3, SeqDef, LenProperties
<1>3. EncodeArray(table, text) = f \o pad
  BY Zenon DEF EncodeArray, Codes, Pieces
<1>4. PICK p : Layout(s, f, p) /\ p[n] = Len(f)
  BY <1>2, FlattenLayout
<1> HIDE DEF s, n, f
<1>5. /\ f \in Seq(Bit) /\ p \in [0..Len(s) -> Nat] /\ p[0] = 0
      /\ \A k \in 1..Len(s) : Part(s, f, p, k)
  BY <1>4 DEF Layout
<1>6. pad \in Seq(Bit) /\ \E c \in Char : Len(pad) < Len(table[c]) /\ Begins(pad, table[c])
  BY <1>5, PaddingIs
<1> HIDE DEF pad
<1>7. PICK c \in Char : Len(pad) < Len(table[c]) /\ Begins(pad, table[c])
  BY <1>6
<1> DEFINE b == f \o pad
<1>8. /\ b \in Seq(Bit) /\ Len(b) = Len(f) + Len(pad)
      /\ \A i \in 1..(Len(f) + Len(pad)) : b[i] = IF i <= Len(f) THEN f[i] ELSE pad[i - Len(f)]
  BY <1>5, <1>6, ConcatProperties
<1>9. \A k \in 1..Len(s) : Part(s, b, p, k)
  BY <1>2, <1>5, <1>6, PartStays
<1> HIDE DEF b
<1> DEFINE m == Len(f)
           r == Len(pad)
<1>10. m \in Nat /\ r \in Nat
  BY <1>5, <1>6, LenProperties
<1>11. p[n] = m /\ Len(b) = m + r /\ r < Len(table[c]) /\ (\A j \in 1..r : pad[j] = table[c][j])
       /\ \A i \in 1..(m + r) : b[i] = IF i <= m THEN f[i] ELSE pad[i - m]
  BY <1>4, <1>7, <1>8 DEF Begins
<1> HIDE DEF m, r
<1>12. Layout(s, b, p)
  <2>1. p[Len(s)] <= Len(b)
    BY <1>2, <1>10, <1>11
  <2> QED BY <1>5, <1>8, <1>9, <2>1 DEF Layout
<1>13. Ends(table, b, p[n], c)
  <2>1. Len(b) - p[n] = r
    BY <1>10, <1>11
  <2>2. ASSUME NEW j \in 1..r PROVE b[m + j] = table[c][j]
    <3> DEFINE l == m + j
    <3>1. l \in 1..(m + r) /\ ~(l <= m) /\ l - m = j
      BY <1>10
    <3> HIDE DEF l
    <3>2. b[l] = pad[j]
      BY <1>11, <3>1
    <3>3. b[l] = table[c][j]
      BY <1>11, <3>2
    <3> QED BY <3>3 DEF l
  <2> QED BY <1>11, <2>1, <2>2 DEF Ends
<1> QED BY <1>3, <1>12, <1>13 DEF b, s, n

-----------------------------------------------------------------------------
(* Reading back what was encoded.                                           *)
LEMMA FirstIs ==
  ASSUME NEW S, NEW s \in Seq(S), NEW k \in 0..Len(s)
  PROVE  /\ SubSeq(s, 1, k) \in Seq(S) /\ Len(SubSeq(s, 1, k)) = k
         /\ \A i \in 1..k : SubSeq(s, 1, k)[i] = s[i]
<1> DEFINE t == SubSeq(s, 1, k)
<1>1. Len(s) \in Nat /\ \A i \in 1..k : i \in 1..Len(s)
  BY LenProperties
<1>2. \A i \in 1..k : s[i] \in S
  BY <1>1, ElementOfSeq
<1>3. /\ t \in Seq(S) /\ Len(t) = IF 1 <= k THEN k - 1 + 1 ELSE 0
      /\ \A i \in 1..(k - 1 + 1) : t[i] = s[1 + i - 1]
  BY <1>1, <1>2, SubSeqProperties
<1> HIDE DEF t
<1>4. Len(t) = k /\ \A i \in 1..k : t[i] = s[i]
  BY <1>1, <1>3
<1> QED BY <1>3, <1>4 DEF t

LEMMA AppendIs ==
  ASSUME NEW S, NEW s \in Seq(S), NEW e \in S
  PROVE  /\ Append(s, e) \in Seq(S) /\ Len(Append(s, e)) = Len(s) + 1 /\ Len(s) \in Nat
         /\ \A i \in 1..Len(s) : Append(s, e)[i] = s[i]
         /\ Append(s, e)[Len(s) + 1] = e
<1>1. Len(s) \in Nat
  BY LenProperties
<1>2. /\ Append(s, e) \in Seq(S) /\ Len(Append(s, e)) = Len(s) + 1
      /\ \A i \in 1..Len(s) : Append(s, e)[i] = s[i]
      /\ Append(s, e)[Len(s) + 1] = e
  BY AppendProperties
<1> QED BY <1>1, <1>2

LEMMA NextIs ==
  ASSUME NEW S, NEW s \in Seq(S), NEW k \in Nat, k < Len(s)
  PROVE  Append(SubSeq(s, 1, k), s[k + 1]) = SubSeq(s, 1, k + 1)
<1> DEFINE a == SubSeq(s, 1, k)
           e == s[k + 1]
           b == SubSeq(s, 1, k + 1)
           c == Append(a, e)
<1>1. Len(s) \in Nat /\ k \in 0..Len(s) /\ k + 1 \in 0..Len(s) /\ k + 1 \in 1..Len(s)
  BY LenProperties
<1>2. e \in S
  BY <1>1, ElementOfSeq
<1>3. a \in Seq(S) /\ Len(a) = k /\ \A i \in 1..k : a[i] = s[i]
  BY <1>1, FirstIs
<1>4. b \in Seq(S) /\ Len(b) = k + 1 /\ \A i \in 1..(k + 1) : b[i] = s[i]
  BY <1>1, FirstIs
<1> HIDE DEF a, b
<1>e. e = s[k + 1]
  OBVIOUS
<1> HIDE DEF e
<1>5. /\ c \in Seq(S) /\ Len(c) = k + 1 /\ c[k + 1] = e
      /\ \A i \in 1..k : c[i] = a[i]
  BY <1>2, <1>3, AppendIs
<1> HIDE DEF c
<1>6. ASSUME NEW i \in 1..(k + 1) PROVE c[i] = b[i]
  <2>1. i \in 1..k \/ i = k + 1
    OBVIOUS
  <2> QED BY <1>3, <1>4, <1>5, <1>e, <2>1
<1>7. c = b
  BY <1>4, <1>5, <1>6, SeqEqual
<1> QED BY <1>7 DEF a, b, c, e

(* On the way to the leaf of a character a bit leads further or there. *)
LEMMA ReadStep ==
  ASSUME NEW table \in PrefixCodes(Char), NEW s \in Decoder, NEW bit \in Bit, NEW c \in Char,
         Begins(Append(s.node, bit), table[c])
  PROVE  DecodeStep(table, s, bit) =
           IF Len(s.node) + 1 = Len(table[c]) THEN [node |-> <<>>, output |-> Append(s.output, c)]
           ELSE [node |-> Append(s.node, bit), output |-> s.output]
<1> DEFINE node == Append(s.node, bit)
<1>1. node \in Seq(Bit) /\ Len(node) = Len(s.node) + 1 /\ Len(s.node) \in Nat
  BY AppendIs DEF Decoder
<1>2. /\ table[c] \in Seq(Bit) /\ Len(table[c]) \in Nat
      /\ \A d \in Char : d # c => ~Begins(table[d], table[c])
  BY CodeType
<1> HIDE DEF node
<1>b. Begins(node, table[c])
  BY DEF node
<1>3. CASE Len(node) = Len(table[c])
  <2>1. node = table[c]
    BY <1>1, <1>2, <1>3, <1>b, SeqEqual DEF Begins
  <2> QED BY <1>1, <1>3, <2>1, DecodeStepIs DEF node
<1>4. CASE Len(node) # Len(table[c])
  <2>1. ASSUME NEW d \in Char PROVE node # table[d]
    BY <1>2, <1>4, <1>b
  <2>2. DecodeStep(table, s, bit) = [node |-> node, output |-> s.output]
    BY <2>1, DecodeStepIs DEF node
  <2> QED BY <1>1, <1>4, <2>2 DEF node
<1> QED BY <1>3, <1>4

(* Of the encoded text the first bits, however many, give its first         *)
(* characters, and all of them the whole.                                   *)
LEMMA ReadsBack ==
  ASSUME NEW table \in PrefixCodes(Char), NEW text \in Seq(Char), NEW m \in Nat,
         m <= Len(EncodeArray(table, text))
  PROVE  \E k \in 0..Len(text) :
           /\ DecodeArray(table, SubSeq(EncodeArray(table, text), 1, m)) = SubSeq(text, 1, k)
           /\ m = Len(EncodeArray(table, text)) => k = Len(text)
<1> DEFINE B == EncodeArray(table, text)
           n == Len(text)
           code == Pieces(table, text)
           b == SubSeq(B, 1, m)
           g == Decoding(table, b)
<1>1. n \in Nat /\ \A i \in 1..n : text[i] \in Char
  BY LenProperties, ElementOfSeq
<1>2. PICK p, c : Layout(code, B, p) /\ Ends(table, B, p[n], c)
  BY EncodingIs
<1>3. Len(code) = n /\ \A k \in 1..n : code[k] = table[text[k]]
  <2>1. code = [i \in 1..n |-> table[text[i]]]
    BY DEF Pieces
  <2> HIDE DEF code, n
  <2> QED BY <1>1, <2>1, LenProperties
<1> HIDE DEF code, B, n
<1>4. /\ B \in Seq(Bit) /\ Len(B) \in Nat /\ m <= Len(B)
      /\ \A i \in 1..Len(B) : B[i] \in Bit
  BY <1>2, LenProperties, ElementOfSeq DEF Layout, B
<1>5. /\ p[0] = 0 /\ (\A k \in 0..n : p[k] \in Nat) /\ p[n] <= Len(B)
      /\ \A k \in 1..n : Part(code, B, p, k)
  BY <1>2, <1>3 DEF Layout
<1>6. b \in Seq(Bit) /\ Len(b) = m /\ \A i \in 1..m : b[i] = B[i]
  <2>1. m \in 0..Len(B)
    BY <1>4
  <2> QED BY <1>4, <2>1, FirstIs
<1>7. DecodeArray(table, b) = g[1..m].output
  <2>1. DOMAIN b = 1..m
    BY <1>6
  <2> QED BY <2>1, DecodeIsFold
<1>8. g[1..0] = Start /\ \A i \in Nat : i < m => g[1..(i + 1)] = DecodeStep(table, g[1..i], b[i + 1])
  BY <1>6, DecodeSteps
<1> HIDE DEF b, g
(* The length of the code that stands at p[k], and of the last, that of      *)
(* which only a part does.                                                   *)
<1> DEFINE next(k) == IF k < n THEN text[k + 1] ELSE c
           length(k) == Len(table[next(k)])
<1>9. ASSUME NEW k \in 0..n
      PROVE  /\ next(k) \in Char /\ length(k) \in Nat /\ length(k) >= 1
             /\ table[next(k)] \in Seq(Bit)
             /\ \A j \in 1..length(k) : p[k] + j <= Len(B) => B[p[k] + j] = table[next(k)][j]
             /\ k < n => p[k + 1] = p[k] + length(k) /\ p[k + 1] <= Len(B) /\ k + 1 \in 0..n
             /\ k = n => Len(B) < p[k] + length(k)
  <2>1. next(k) \in Char
    <3>1. k < n => k + 1 \in 1..n
      BY <1>1
    <3> QED BY <1>1, <1>2, <3>1 DEF Ends
  <2>2. length(k) \in Nat /\ length(k) >= 1 /\ table[next(k)] \in Seq(Bit)
    <3> HIDE DEF next
    <3> QED BY <2>1, CodeType, CodesAreLong
  <2>3. CASE k < n
    <3>1. k + 1 \in 1..n /\ k + 1 - 1 = k /\ next(k) = text[k + 1] /\ k + 1 \in 0..n /\ k # n
      BY <1>1, <2>3
    <3>2. code[k + 1] = table[next(k)]
      BY <1>3, <3>1
    <3>3. /\ p[k + 1] = p[k] + Len(code[k + 1]) /\ p[k + 1] <= Len(B)
          /\ \A j \in 1..Len(code[k + 1]) : B[p[k] + j] = code[k + 1][j]
      BY <1>5, <3>1 DEF Part
    <3> QED BY <2>1, <2>2, <3>1, <3>2, <3>3
  <2>4. CASE ~(k < n)
    <3>1. k = n /\ next(k) = c
      BY <1>1, <2>4
    <3> DEFINE q == p[n]
               l == Len(table[c])
               z == Len(B)
    <3>2. q \in Nat /\ l \in Nat /\ z \in Nat /\ z - q < l /\ \A j \in 1..(z - q) : B[q + j] = table[c][j]
      <4>1. n \in 0..n
        BY <1>1
      <4> QED BY <1>2, <1>4, <1>5, <2>2, <3>1, <4>1 DEF Ends
    <3> HIDE DEF q, l, z
    <3>3. z < q + l
      BY <3>2
    <3>4. ASSUME NEW j \in 1..l, q + j <= z PROVE B[q + j] = table[c][j]
      <4>1. j \in 1..(z - q)
        BY <3>2, <3>4
      <4> QED BY <3>2, <4>1
    <3> QED BY <2>1, <2>2, <2>4, <3>1, <3>3, <3>4 DEF q, l, z
  <2> QED BY <2>3, <2>4
<1> HIDE DEF next
<1> DEFINE Stands(i, k) ==
             /\ g[1..i] \in Decoder /\ g[1..i].output = SubSeq(text, 1, k)
             /\ p[k] <= i /\ i < p[k] + length(k) /\ Len(g[1..i].node) = i - p[k]
             /\ \A j \in 1..(i - p[k]) : g[1..i].node[j] = table[next(k)][j]
           T == {i \in Nat : i <= m => \E k \in 0..n : Stands(i, k)}
<1> HIDE DEF Stands
<1>10. 0 \in T
  <2>1. 0 \in 0..n /\ 0 \in 0..Len(text)
    BY <1>1 DEF n
  <2>2. Start \in Decoder /\ Start.output = <<>> /\ Start.node = <<>> /\ Len(<<>>) = 0
    BY EmptySeq DEF Start, Decoder
  <2>3. SubSeq(text, 1, 0) = <<>>
    <3>1. SubSeq(text, 1, 0) \in Seq(Char) /\ Len(SubSeq(text, 1, 0)) = 0
      BY <2>1, FirstIs
    <3> QED BY <3>1, EmptySeq
  <2>4. p[0] = 0 /\ 0 < p[0] + length(0) /\ 0 - p[0] = 0 /\ 0 <= 0
    BY <1>5, <1>9, <2>1
  <2> HIDE DEF length
  <2>5. Stands(0, 0)
    BY <1>8, <2>2, <2>3, <2>4 DEF Stands
  <2> QED BY <2>1, <2>5
<1>11. ASSUME NEW i \in Nat, i \in T PROVE i + 1 \in T
  <2> SUFFICES ASSUME i + 1 <= m PROVE \E k \in 0..n : Stands(i + 1, k)
    OBVIOUS
  <2>1. i <= m /\ i < m /\ i + 1 \in 1..m /\ i + 1 \in 1..Len(B) /\ i + 1 <= Len(B)
    BY <1>4
  <2>2. PICK k \in 0..n : Stands(i, k)
    BY <1>11, <2>1
  <2> DEFINE s == g[1..i]
             r == g[1..(i + 1)]
             d == next(k)
             w == table[d]
             q == p[k]
             l == length(k)
             x == b[i + 1]
             node == Append(s.node, x)
  <2>3. /\ s \in Decoder /\ s.output = SubSeq(text, 1, k)
        /\ q <= i /\ i < q + l /\ Len(s.node) = i - q
        /\ \A j \in 1..(i - q) : s.node[j] = w[j]
    BY <2>2 DEF Stands
  <2>4. /\ d \in Char /\ l \in Nat /\ l >= 1 /\ q \in Nat /\ w \in Seq(Bit) /\ l = Len(w)
        /\ \A j \in 1..l : q + j <= Len(B) => B[q + j] = w[j]
        /\ k < n => p[k + 1] = q + l /\ k + 1 \in 0..n
        /\ k = n => Len(B) < q + l
    BY <1>5, <1>9
  <2>5. r = DecodeStep(table, s, x) /\ x = B[i + 1] /\ x \in Bit
    BY <1>4, <1>6, <1>8, <2>1
  <2> HIDE DEF s, r, d, w, q, l, x
  <2>6. /\ s.node \in Seq(Bit) /\ node \in Seq(Bit) /\ Len(node) = i - q + 1 /\ node[i - q + 1] = x
        /\ \A j \in 1..(i - q) : node[j] = s.node[j]
    <3>1. s.node \in Seq(Bit)
      BY <2>3 DEF Decoder
    <3> QED BY <2>3, <2>5, <3>1, AppendIs
  <2> HIDE DEF node
  <2>7. x = w[i - q + 1]
    <3> DEFINE j == i - q + 1
    <3>1. j \in 1..l /\ q + j = i + 1
      BY <2>3, <2>4
    <3> HIDE DEF j
    <3>2. B[i + 1] = w[j]
      BY <2>1, <2>4, <3>1
    <3> QED BY <2>5, <3>2 DEF j
  <2>8. \A j \in 1..(i - q + 1) : node[j] = w[j]
    <3>1. ASSUME NEW j \in 1..(i - q + 1) PROVE node[j] = w[j]
      <4>1. j \in 1..(i - q) \/ j = i - q + 1
        BY <2>3, <2>4
      <4> QED BY <2>3, <2>6, <2>7, <4>1
    <3> QED BY <3>1
  <2>9. Begins(node, w)
    <3>1. Len(node) <= Len(w)
      BY <2>3, <2>4, <2>6
    <3> QED BY <2>6, <2>8, <3>1 DEF Begins
  <2>10. r = IF Len(s.node) + 1 = l THEN [node |-> <<>>, output |-> Append(s.output, d)]
             ELSE [node |-> node, output |-> s.output]
    <3>1. Begins(Append(s.node, x), table[d])
      BY <2>9 DEF node, w
    <3>2. DecodeStep(table, s, x) =
            IF Len(s.node) + 1 = Len(table[d]) THEN [node |-> <<>>, output |-> Append(s.output, d)]
            ELSE [node |-> Append(s.node, x), output |-> s.output]
      BY <2>3, <2>4, <2>5, <3>1, ReadStep
    <3> QED BY <2>4, <2>5, <3>2 DEF node, w
  <2>11. r \in Decoder
    BY <2>3, <2>5, DecodeStepIs
  <2>12. CASE Len(s.node) + 1 = l
    <3>1. i + 1 = q + l
      BY <2>3, <2>4, <2>12
    <3>2. k < n
      <4>1. k # n
        BY <2>1, <2>4, <3>1
      <4> QED BY <1>1, <4>1
    <3>3. r.node = <<>> /\ r.output = Append(s.output, d) /\ Len(<<>>) = 0
      BY <2>10, <2>12, EmptySeq
    <3>4. r.output = SubSeq(text, 1, k + 1)
      <4>1. k \in Nat /\ k < Len(text) /\ d = text[k + 1]
        BY <1>1, <3>2 DEF d, next, n
      <4> QED BY <2>3, <3>3, <4>1, NextIs
    <3>5. p[k + 1] = i + 1 /\ k + 1 \in 0..n
      BY <2>4, <3>1, <3>2
    <3>6. length(k + 1) \in Nat /\ length(k + 1) >= 1
      BY <1>9, <3>5
    <3> HIDE DEF length
    <3> DEFINE y == k + 1
               v == i + 1
    <3>7. p[y] <= v /\ v < p[y] + length(y) /\ v - p[y] = 0
      BY <3>5, <3>6
    <3>e. r.node = <<>> /\ r.output = SubSeq(text, 1, y) /\ r = g[1..v]
      BY <3>3, <3>4 DEF r
    <3> HIDE DEF y, v
    <3>n. Len(g[1..v].node) = v - p[y] /\ \A j \in 1..(v - p[y]) : g[1..v].node[j] = table[next(y)][j]
      BY <3>3, <3>7, <3>e
    <3>8. Stands(v, y)
      BY <2>11, <3>7, <3>e, <3>n DEF Stands
    <3> QED BY <3>5, <3>8 DEF y, v
  <2>13. CASE Len(s.node) + 1 # l
    <3>1. r.node = node /\ r.output = s.output
      BY <2>10, <2>13
    <3> DEFINE v == i + 1
               u == i - q + 1
    <3>2. q <= v /\ v < q + l /\ v - q = u
      BY <2>3, <2>4, <2>13
    <3>r. r = g[1..v] /\ r.output = SubSeq(text, 1, k)
      BY <2>3, <3>1 DEF r
    <3>3. Len(r.node) = u /\ \A j \in 1..u : r.node[j] = w[j]
      BY <2>6, <2>8, <3>1
    <3> HIDE DEF v, u
    <3>4. Len(r.node) = v - q /\ \A j \in 1..(v - q) : r.node[j] = w[j]
      BY <3>2, <3>3
    <3>5. Stands(v, k)
      BY <2>11, <3>2, <3>4, <3>r, Zenon DEF Stands, q, l, w, d
    <3> QED BY <3>5 DEF v
  <2> QED BY <2>12, <2>13
<1> HIDE DEF T
<1>12. m \in T
  BY <1>10, <1>11, NumberInduction
<1>13. PICK k \in 0..n : Stands(m, k)
  BY <1>12 DEF T
<1>14. DecodeArray(table, b) = SubSeq(text, 1, k)
  BY <1>7, <1>13 DEF Stands
<1>15. m = Len(B) => k = n
  <2> SUFFICES ASSUME m = Len(B), k # n PROVE FALSE
    OBVIOUS
  <2>1. k < n
    BY <1>1
  <2>2. p[k + 1] = p[k] + length(k) /\ p[k + 1] <= Len(B)
    BY <1>9, <2>1
  <2>3. m < p[k] + length(k)
    BY <1>13 DEF Stands
  <2>4. p[k] \in Nat /\ length(k) \in Nat
    BY <1>5, <1>9
  <2> HIDE DEF length
  <2> QED BY <1>4, <2>2, <2>3, <2>4
<1> QED BY <1>14, <1>15 DEF b, B, n

LEMMA FirstOfFirst ==
  ASSUME NEW S, NEW s \in Seq(S), NEW k \in 0..Len(s), NEW j \in 0..k
  PROVE  /\ SubSeq(SubSeq(s, 1, k), 1, j) = SubSeq(s, 1, j)
         /\ SubSeq(s, 1, Len(s)) = s
         /\ IsPrefix(SubSeq(s, 1, k), s)
<1> DEFINE a == SubSeq(s, 1, k)
           b == SubSeq(a, 1, j)
           c == SubSeq(s, 1, j)
           n == Len(s)
<1>1. n \in Nat /\ j \in 0..n /\ k \in 0..k /\ n \in 0..n /\ k <= n
  BY LenProperties
<1>2. a \in Seq(S) /\ Len(a) = k /\ \A i \in 1..k : a[i] = s[i]
  BY FirstIs
<1>3. c \in Seq(S) /\ Len(c) = j /\ \A i \in 1..j : c[i] = s[i]
  BY <1>1, FirstIs
<1> HIDE DEF a, c, n
<1>4. b \in Seq(S) /\ Len(b) = j /\ \A i \in 1..j : b[i] = a[i]
  BY <1>2, FirstIs
<1> HIDE DEF b
<1>5. b = c
  BY <1>2, <1>3, <1>4, SeqEqual
<1>6. SubSeq(s, 1, n) = s
  <2>1. SubSeq(s, 1, n) \in Seq(S) /\ Len(SubSeq(s, 1, n)) = n /\ \A i \in 1..n : SubSeq(s, 1, n)[i] = s[i]
    BY <1>1, FirstIs DEF n
  <2> QED BY <2>1, SeqEqual DEF n
<1>7. IsPrefix(a, s)
  <2> DEFINE d == SubSeq(a, 1, k)
  <2>1. d \in Seq(S) /\ Len(d) = k /\ \A i \in 1..k : d[i] = a[i]
    BY <1>1, <1>2, FirstIs
  <2> HIDE DEF d
  <2>2. d = a
    BY <1>2, <2>1, SeqEqual
  <2>3. SubSeq(s, 1, k) = a
    BY DEF a
  <2>4. SubSeq(a, 1, Len(a)) = SubSeq(s, 1, Len(a)) /\ Len(a) <= Len(s)
    BY <1>1, <1>2, <2>2, <2>3 DEF d, n
  <2> QED BY <2>4 DEF IsPrefix
<1> QED BY <1>5, <1>6, <1>7 DEF a, b, c, n

(* What EncodeString writes: as many bits as an unsigned short says. *)
Written(table, text) ==
  SubSeq(EncodeArray(table, text), 1, Len(EncodeArray(table, text)) % 2^Short)

LEMMA WrittenIs ==
  ASSUME NEW table \in PrefixCodes(Char), NEW text \in Seq(Char)
  PROVE  LET bits == EncodeArray(table, text)
             m == Len(bits) % 2^Short
         IN  /\ Len(bits) \in Nat /\ m \in Nat /\ m <= Len(bits)
             /\ ~(Len(bits) >= 2^Short) => m = Len(bits)
             /\ Written(table, text) \in Seq(Bit)
<1> DEFINE bits == EncodeArray(table, text)
           l == Len(bits)
           w == 2^Short
           m == l % w
<1>1. bits \in Seq(Bit)
  BY EncodingIs DEF Layout
<1>2. l \in Nat /\ w \in Nat \ {0}
  BY <1>1, CompressorAssumption, PowerOfTwo, LenProperties
<1>e. Written(table, text) = SubSeq(bits, 1, m)
  BY DEF Written
<1> HIDE DEF bits, l, w
<1>3. m \in Nat /\ m <= l /\ (~(l >= w) => m = l)
  <2>1. m \in 0..(w - 1) /\ l = w * (l \div w) + m /\ l \div w \in Nat
    BY <1>2
  <2>2. w * (l \div w) \in Nat
    BY <1>2, <2>1
  <2>3. m <= l
    BY <1>2, <2>1, <2>2
  <2>4. ~(l >= w) => m = l
    BY <1>2
  <2> QED BY <2>1, <2>3, <2>4
<1> HIDE DEF m
<1>4. SubSeq(bits, 1, m) \in Seq(Bit)
  <2>1. m \in 0..Len(bits)
    BY <1>2, <1>3 DEF l
  <2> QED BY <1>1, <2>1, FirstIs
<1> QED BY <1>2, <1>3, <1>4, <1>e DEF bits, l, w, m

LEMMA StoredIs ==
  ASSUME NEW read \in Seq(Char), NEW limit \in Nat \ {0}
  PROVE  /\ \E j \in 0..Len(read) : Stored(read, limit) = SubSeq(read, 1, j)
         /\ Len(Stored(read, limit)) < limit
         /\ Stored(read, limit) = Cut(read, limit)
<1> DEFINE n == Len(read)
<1>1. n \in Nat /\ 0 \in 0..n /\ n \in 0..n
  BY LenProperties
<1>2. SubSeq(read, 1, n) = read
  BY <1>1, FirstOfFirst
<1>3. CASE n < limit
  <2>1. Stored(read, limit) = read /\ Cut(read, limit) = read
    BY <1>3 DEF Stored, Cut
  <2>2. Stored(read, limit) = SubSeq(read, 1, n)
    BY <1>2, <2>1
  <2>3. Len(Stored(read, limit)) < limit /\ Stored(read, limit) = Cut(read, limit)
    BY <1>3, <2>1
  <2>4. \E j \in 0..Len(read) : Stored(read, limit) = SubSeq(read, 1, j)
    BY <1>1, <2>2
  <2> QED BY <2>3, <2>4
<1>4. CASE ~(n < limit)
  <2>1. Stored(read, limit) = SubSeq(read, 1, limit - 1) /\ Cut(read, limit) = SubSeq(read, 1, limit - 1)
    BY <1>4 DEF Stored, Cut
  <2> DEFINE j == limit - 1
  <2>2. j \in 0..n /\ j < limit
    BY <1>1, <1>4
  <2> HIDE DEF j
  <2>3. Len(SubSeq(read, 1, j)) = j
    BY <2>2, FirstIs
  <2> QED BY <2>1, <2>2, <2>3 DEF j
<1> QED BY <1>3, <1>4

LEMMA DecodedIs ==
  ASSUME NEW table \in PrefixCodes(Char), NEW text \in Seq(Char), NEW limit \in Nat \ {0}
  PROVE  LET output == Stored(DecodeArray(table, Written(table, text)), limit)
         IN  /\ IsPrefix(output, text)
             /\ Len(EncodeArray(table, text)) >= 2^Short \/ output = Cut(text, limit)
<1> DEFINE bits == EncodeArray(table, text)
           m == Len(bits) % 2^Short
           read == DecodeArray(table, Written(table, text))
           n == Len(text)
<1>1. m \in Nat /\ m <= Len(bits) /\ (~(Len(bits) >= 2^Short) => m = Len(bits))
  BY WrittenIs
<1>2. n \in Nat /\ n \in 0..n
  BY LenProperties
<1>3. PICK k \in 0..n : read = SubSeq(text, 1, k) /\ (m = Len(bits) => k = n)
  <2>1. Written(table, text) = SubSeq(bits, 1, m)
    BY DEF Written
  <2> HIDE DEF m
  <2> QED BY <1>1, <2>1, ReadsBack
<1> HIDE DEF m, bits, read
<1>4. read \in Seq(Char) /\ Len(read) = k
  BY <1>3, FirstIs DEF n
<1>5. PICK j \in 0..k : Stored(read, limit) = SubSeq(read, 1, j)
  BY <1>4, StoredIs
<1>6. SubSeq(read, 1, j) = SubSeq(text, 1, j) /\ j \in 0..n
  BY <1>2, <1>3, FirstOfFirst DEF n
<1>7. IsPrefix(SubSeq(text, 1, j), text)
  <2>1. 0 \in 0..j
    BY <1>2
  <2> QED BY <1>6, <2>1, FirstOfFirst DEF n
<1>8. IsPrefix(Stored(read, limit), text)
  BY <1>5, <1>6, <1>7
<1>9. m = Len(bits) => Stored(read, limit) = Cut(text, limit)
  <2>1. SubSeq(text, 1, n) = text
    BY <1>2, FirstOfFirst DEF n
  <2>2. m = Len(bits) => read = text
    BY <1>3, <2>1
  <2> QED BY <1>4, <2>2, StoredIs
<1> QED BY <1>1, <1>8, <1>9 DEF read, bits

-----------------------------------------------------------------------------
(* Trees of the compressor are prefix codes and never change their codes,   *)
(* so that what was encoded can be read for as long as its tree is there.   *)
Encoded(string) ==
  \/ string = Nothing
  \/ /\ string.tree \in 1..Len(trees) /\ string.text \in Seq(Char)
     /\ string.bits = Written(trees[string.tree].table, string.text)

CodingInv ==
  /\ Encoded(stream) /\ Encoded(decoded.string)
  /\ Len(decoded.output) < decoded.limit
  /\ decoded.tree = decoded.string.tree /\ decoded.tree # 0 =>
       /\ decoded.limit \in Nat \ {0}
       /\ decoded.output =
            Stored(DecodeArray(trees[decoded.tree].table, decoded.string.bits), decoded.limit)

LEMMA FrequenciesType == ASSUME NEW f \in Frequency PROVE f \in [Char -> Nat]
<1>1. CASE f = English
  BY <1>1, CompressorAssumption
<1>2. CASE f \in {Frequencies(input) : input \in Samples}
  <2>1. PICK input \in Samples : f = Frequencies(input)
    BY <1>2
  <2>2. Len(input) \in Nat
    BY CompressorAssumption, LenProperties
  <2>3. IsFiniteSet(1..Len(input))
    BY <2>2, FS_Interval
  <2>4. ASSUME NEW c \in Char PROVE Cardinality({i \in 1..Len(input) : input[i] = c}) \in Nat
    BY <2>3, FS_Subset, FS_CardinalityType
  <2> QED BY <2>1, <2>4 DEF Frequencies
<1> QED BY <1>1, <1>2 DEF Frequency

LEMMA TableType ==
  ASSUME Types, NEW a \in 1..Len(trees)
  PROVE  trees[a].table \in PrefixCodes(Char)
<1>1. trees[a] \in Tree
  BY TreeType DEF Types
<1>2. PICK f \in Frequency : trees[a].table = GenerateFromFrequencyTable(f)
  BY <1>1 DEF Tree
<1> QED BY <1>2, FrequenciesType, GenerateIsCode

(* Whatever is done to the trees, their tables stay. *)
Stay == Len(trees) <= Len(trees') /\ \A a \in 1..Len(trees) : trees'[a].table = trees[a].table

LEMMA AppendStays ==
  ASSUME NEW s \in Seq(Tree), Len(s) = Len(trees), NEW e \in Tree, trees' = Append(s, e),
         \A a \in 1..Len(trees) : s[a].table = trees[a].table
  PROVE  Stay
<1>1. Len(trees') = Len(s) + 1 /\ Len(s) \in Nat /\ \A a \in 1..Len(s) : trees'[a] = s[a]
  BY AppendIs
<1> QED BY <1>1 DEF Stay

LEMMA DeleteStays ==
  ASSUME trees \in Seq(Tree), NEW a \in 1..Len(trees)
  PROVE  \A b \in 1..Len(trees) : Delete(a)[b].table = trees[b].table
<1> DEFINE e == [trees[a] EXCEPT !.alive = FALSE]
<1>1. trees[a] \in Tree
  BY TreeType
<1>2. e \in Tree /\ e.table = trees[a].table
  BY <1>1 DEF Tree
<1>3. Delete(a) = [trees EXCEPT ![a] = e]
  BY DEF Delete
<1> HIDE DEF e
<1>4. \A b \in 1..Len(trees) : Delete(a)[b] = IF b = a THEN e ELSE trees[b]
  BY <1>2, <1>3, ExceptSeq
<1> QED BY <1>2, <1>4

LEMMA TablesStay == ASSUME IInv, Next PROVE Stay
<1>1. trees \in Seq(Tree) /\ Len(trees) \in Nat
  BY TreeType DEF IInv, Types
<1>2. ASSUME trees' = trees PROVE Stay
  BY <1>1, <1>2 DEF Stay
<1>3. CASE AddReference
  <2>1. CASE Instance
    BY <1>2, <1>3, <2>1 DEF AddReference
  <2>2. CASE ~Instance
    <3>1. trees' = Append(trees, Made(0, English))
      BY <1>3, <2>2 DEF AddReference
    <3>2. Made(0, English) \in Tree
      BY LanguageType, MadeType DEF Frequency
    <3> QED BY <1>1, <3>1, <3>2, AppendStays
  <2> QED BY <2>1, <2>2
<1>4. CASE RemoveReference
  <2>1. CASE referenceCount' > 0
    BY <1>2, <1>4, <2>1 DEF RemoveReference
  <2>2. CASE ~(referenceCount' > 0)
    <3> DEFINE D(a) == IF a \in InMap THEN [trees[a] EXCEPT !.alive = FALSE] ELSE trees[a]
    <3>1. trees' = [a \in 1..Len(trees) |-> D(a)]
      BY <1>4, <2>2 DEF RemoveReference
    <3>2. \A a \in 1..Len(trees) : D(a) \in Tree /\ D(a).table = trees[a].table
      BY <1>1, TreeType DEF Tree
    <3> HIDE DEF D
    <3>3. Len(trees') = Len(trees) /\ \A a \in 1..Len(trees) : trees'[a] = D(a)
      BY <1>1, <3>1
    <3> QED BY <1>1, <3>2, <3>3 DEF Stay
  <2> QED BY <2>1, <2>2
<1>5. ASSUME NEW input \in Samples, NEW l \in Languages, GenerateTreeFromStrings(input, l)
      PROVE  Stay
  <2> DEFINE left == IF Has(map, l) THEN Delete(Get(map, l)) ELSE trees
             e == Made(l, Frequencies(input))
  <2>1. Quiet /\ trees' = IF input = <<>> THEN left ELSE Append(left, e)
    BY <1>5 DEF GenerateTreeFromStrings
  <2>2. /\ left \in Seq(Tree) /\ Len(left) = Len(trees)
        /\ \A a \in 1..Len(trees) : left[a].table = trees[a].table
    <3>1. CASE Has(map, l)
      <4>1. Get(map, l) \in 1..Len(trees)
        BY <2>1, <3>1, OldTree
      <4> QED BY <1>1, <3>1, <4>1, DeleteIs, DeleteStays
    <3>2. CASE ~Has(map, l)
      BY <1>1, <3>2
    <3> QED BY <3>1, <3>2
  <2>3. e \in Tree
    BY MadeType DEF Frequency
  <2> HIDE DEF left, e
  <2>4. CASE input = <<>>
    BY <1>1, <2>1, <2>2, <2>4 DEF Stay
  <2>5. CASE input # <<>>
    BY <2>1, <2>2, <2>3, <2>5, AppendStays
  <2> QED BY <2>4, <2>5
<1>6. ASSUME NEW t \in Threads,
             \/ \E f \in {"encode", "decode"}, l \in Languages : Begin(t, f, l)
             \/ Search(t, "has", "get", "get")
             \/ Search(t, "get", "cached", "found")
             \/ Save(t) \/ Fetch(t)
             \/ \E text \in Texts, n \in Limits : EncodeString(t, text, n)
             \/ \E n \in Limits, missing \in BOOLEAN : DecodeString(t, n + 1, missing)
      PROVE  trees' = trees
  BY <1>6, Zenon DEF Begin, Search, Save, Fetch, EncodeString, DecodeString, Shared
<1> QED BY <1>2, <1>3, <1>4, <1>5, <1>6 DEF Next

LEMMA EncodedStays ==
  ASSUME Stay, trees \in Seq(Tree), trees' \in Seq(Tree), NEW string, Encoded(string)
  PROVE  /\ string = Nothing
            \/ (/\ string.tree \in 1..Len(trees') /\ string.text \in Seq(Char)
                /\ string.bits = Written(trees'[string.tree].table, string.text))
         /\ string.tree # 0 => string.tree \in 1..Len(trees)
<1>1. Len(trees) \in Nat /\ Len(trees') \in Nat
  BY LenProperties
<1>2. CASE string = Nothing
  BY <1>2 DEF Nothing
<1>3. CASE string # Nothing
  <2>1. /\ string.tree \in 1..Len(trees) /\ string.text \in Seq(Char)
        /\ string.bits = Written(trees[string.tree].table, string.text)
    BY <1>3 DEF Encoded
  <2>2. string.tree \in 1..Len(trees')
    BY <1>1, <2>1 DEF Stay
  <2>3. string.bits = Written(trees'[string.tree].table, string.text)
    BY <2>1 DEF Stay
  <2> QED BY <2>1, <2>2, <2>3
<1> QED BY <1>2, <1>3

LEMMA InitCoding == Init => CodingInv
<1> SUFFICES ASSUME Init PROVE CodingInv
  OBVIOUS
<1>1. stream = Nothing /\ decoded = NotDecoded
  BY DEF Init
<1>2. /\ decoded.string = Nothing /\ decoded.limit = 1 /\ decoded.tree = 0 /\ Len(decoded.output) = 0
  BY <1>1, EmptySeq DEF NotDecoded
<1> QED BY <1>1, <1>2 DEF CodingInv, Encoded

(* The tree a call codes with. *)
LEMMA CodesWithTree ==
  ASSUME IInv, NEW t \in Threads, At(t, "code")
  PROVE  thread[t].at \in 1..Len(trees) /\ trees[thread[t].at].table \in PrefixCodes(Char)
<1>1. thread[t].at \in 1..Len(trees)
  BY DEF IInv, CallInv, MapInv, At
<1> QED BY <1>1, TableType DEF IInv

LEMMA SameCoding ==
  ASSUME IInv, IInv', CodingInv, Stay, decoded' = decoded \/ decoded' = NotDecoded,
         Encoded(stream)'
  PROVE  CodingInv'
<1>1. trees \in Seq(Tree) /\ trees' \in Seq(Tree)
  BY DEF IInv, Types
<1>2. CASE decoded' = decoded
  <2>1. Encoded(decoded.string)'
    BY <1>1, <1>2, EncodedStays DEF CodingInv, Encoded
  <2>2. ASSUME decoded.tree = decoded.string.tree, decoded.tree # 0
        PROVE  trees'[decoded.tree].table = trees[decoded.tree].table
    <3>1. decoded.tree \in 1..Len(trees)
      BY <1>1, <2>2, EncodedStays DEF CodingInv
    <3> QED BY <3>1 DEF Stay
  <2> QED BY <1>2, <2>1, <2>2 DEF CodingInv
<1>3. CASE decoded' = NotDecoded
  <2>1. /\ decoded'.string = Nothing /\ decoded'.limit = 1 /\ decoded'.tree = 0
        /\ Len(decoded'.output) = 0
    BY <1>3, EmptySeq DEF NotDecoded
  <2> QED BY <2>1 DEF CodingInv, Encoded
<1> QED BY <1>2, <1>3

LEMMA EncodeCoding ==
  ASSUME IInv, IInv', CodingInv, Stay, NEW t \in Threads, NEW input \in Texts, NEW n \in Limits,
         EncodeString(t, input, n)
  PROVE  CodingInv'
<1> DEFINE a == thread[t].at
           text == Cut(input, n)
<1>1. /\ At(t, "code") /\ decoded' = decoded /\ trees' = trees
      /\ \/ stream' = stream
         \/ stream' = [bits |-> Written(trees[a].table, text), text |-> text, tree |-> a]
  BY DEF EncodeString, Shared, Written
<1>2. a \in 1..Len(trees)
  BY <1>1, CodesWithTree
<1>3. text \in Seq(Char)
  <2>1. input \in Seq(Char \ {0}) /\ n \in Nat
    BY CompressorAssumption
  <2>2. input \in Seq(Char) /\ Len(input) \in Nat
    <3>1. Len(input) \in Nat /\ \A i \in 1..Len(input) : input[i] \in Char
      BY <2>1, LenProperties, ElementOfSeq
    <3>2. input = [i \in 1..Len(input) |-> input[i]]
      BY <2>1, LenProperties
    <3> QED BY <3>1, <3>2
  <2>3. CASE n <= 0 \/ Len(input) < n
    BY <2>2, <2>3 DEF Cut
  <2>4. CASE ~(n <= 0 \/ Len(input) < n)
    <3> DEFINE k == n - 1
    <3>1. k \in 0..Len(input)
      BY <2>1, <2>2, <2>4
    <3>2. text = SubSeq(input, 1, k)
      BY <2>4 DEF Cut
    <3> HIDE DEF k
    <3> QED BY <2>2, <3>1, <3>2, FirstIs
  <2> QED BY <2>3, <2>4
<1> HIDE DEF text, a
<1>4. Encoded(stream)'
  <2>1. CASE stream' = stream
    BY <1>1, <2>1 DEF CodingInv, Encoded
  <2>2. CASE stream' = [bits |-> Written(trees[a].table, text), text |-> text, tree |-> a]
    BY <1>1, <1>2, <1>3, <2>2 DEF Encoded
  <2> QED BY <1>1, <2>1, <2>2
<1> QED BY <1>1, <1>4, SameCoding

LEMMA DecodeCoding ==
  ASSUME IInv, IInv', CodingInv, Stay, NEW t \in Threads, NEW n \in Limits, NEW missing \in BOOLEAN,
         DecodeString(t, n + 1, missing)
  PROVE  CodingInv'
<1> DEFINE a == thread[t].at
           limit == n + 1
           output == Stored(DecodeArray(trees[a].table, stream.bits), limit)
<1>1. /\ At(t, "code") /\ stream' = stream /\ trees' = trees
      /\ \/ decoded' = decoded
         \/ /\ stream.tree # 0
            /\ decoded' = [string |-> stream, limit |-> limit, tree |-> a, output |-> output]
  BY DEF DecodeString, Shared
<1>2. a \in 1..Len(trees) /\ trees[a].table \in PrefixCodes(Char)
  BY <1>1, CodesWithTree
<1>3. limit \in Nat \ {0}
  BY CompressorAssumption
<1>4. Encoded(stream)'
  BY <1>1 DEF CodingInv, Encoded
<1>5. CASE decoded' = decoded
  BY <1>4, <1>5, SameCoding
<1>6. CASE stream.tree # 0
           /\ decoded' = [string |-> stream, limit |-> limit, tree |-> a, output |-> output]
  <2>1. stream.bits \in Seq(Bit)
    <3>1. stream # Nothing
      BY <1>6 DEF Nothing
    <3>2. /\ stream.tree \in 1..Len(trees) /\ stream.text \in Seq(Char)
          /\ stream.bits = Written(trees[stream.tree].table, stream.text)
      BY <3>1 DEF CodingInv, Encoded
    <3>3. trees[stream.tree].table \in PrefixCodes(Char)
      BY <3>2, TableType DEF IInv
    <3> QED BY <3>2, <3>3, WrittenIs
  <2>2. DecodeArray(trees[a].table, stream.bits) \in Seq(Char)
    BY <1>2, <2>1, DecodeType
  <2>3. Len(output) < limit
    BY <1>3, <2>2, StoredIs
  <2> HIDE DEF output, limit, a
  <2>4. /\ decoded'.string = stream /\ decoded'.limit = limit /\ decoded'.tree = a
        /\ decoded'.output = output
    BY <1>6
  <2>5. Encoded(decoded.string)'
    BY <1>1, <2>4 DEF CodingInv, Encoded
  <2> QED BY <1>1, <1>3, <1>4, <2>3, <2>4, <2>5 DEF CodingInv, output
<1> QED BY <1>1, <1>5, <1>6

LEMMA NextCoding == ASSUME IInv, IInv', CodingInv, [Next]_vars PROVE CodingInv'
<1>1. CASE UNCHANGED vars
  <2>1. stream' = stream /\ decoded' = decoded /\ trees' = trees
    BY <1>1 DEF vars
  <2> QED BY <2>1 DEF CodingInv, Encoded
<1>2. ASSUME Next PROVE CodingInv'
  <2>1. Stay
    BY <1>2, TablesStay
  <2>2. ASSUME stream' = stream, decoded' = decoded \/ decoded' = NotDecoded PROVE CodingInv'
    <3>1. trees \in Seq(Tree) /\ trees' \in Seq(Tree)
      BY DEF IInv, Types
    <3>2. Encoded(stream)'
      BY <2>1, <2>2, <3>1, EncodedStays DEF CodingInv, Encoded
    <3> QED BY <2>1, <2>2, <3>2, SameCoding
  <2>3. CASE AddReference \/ RemoveReference
    BY <2>2, <2>3 DEF AddReference, RemoveReference
  <2>4. ASSUME NEW input \in Samples, NEW l \in Languages, GenerateTreeFromStrings(input, l)
        PROVE  CodingInv'
    BY <2>2, <2>4 DEF GenerateTreeFromStrings
  <2>5. ASSUME NEW t \in Threads, NEW f \in {"encode", "decode"}, NEW l \in Languages, Begin(t, f, l)
        PROVE  CodingInv'
    BY <2>2, <2>5 DEF Begin
  <2>6. ASSUME NEW t \in Threads,
               Search(t, "has", "get", "get") \/ Search(t, "get", "cached", "found")
        PROVE  CodingInv'
    BY <2>2, <2>6 DEF Search
  <2>7. ASSUME NEW t \in Threads, Save(t) \/ Fetch(t) PROVE CodingInv'
    BY <2>2, <2>7 DEF Save, Fetch
  <2>8. ASSUME NEW t \in Threads, NEW text \in Texts, NEW n \in Limits, EncodeString(t, text, n)
        PROVE  CodingInv'
    BY <2>1, <2>8, EncodeCoding
  <2>9. ASSUME NEW t \in Threads, NEW n \in Limits, NEW missing \in BOOLEAN,
               DecodeString(t, n + 1, missing)
        PROVE  CodingInv'
    BY <2>1, <2>9, DecodeCoding
  <2> QED BY <1>2, <2>3, <2>4, <2>5, <2>6, <2>7, <2>8, <2>9 DEF Next
<1> QED BY <1>1, <1>2

(* A string that is decoded with the tree that encoded it is what was       *)
(* encoded, as far as there is room for it and as its bits could be         *)
(* counted: HuffmanEncodingTree::EncodeArray with its padding and           *)
(* DecodeArray (DS_HuffmanEncodingTree.cpp:175-236) between EncodeString    *)
(* and DecodeString (StringCompressor.cpp:356-414), in any interleaving.    *)
THEOREM ComesBack == Spec => []DecodesWhatWasEncoded
<1>1. Init => IInv /\ CodingInv
  BY InitInv, InitCoding
<1>2. IInv /\ CodingInv /\ [Next]_vars => IInv' /\ CodingInv'
  BY NextInv, NextCoding
<1>3. ASSUME IInv, CodingInv PROVE DecodesWhatWasEncoded
  <2> DEFINE string == decoded.string
             table == trees[decoded.tree].table
  <2>1. Len(decoded.output) < decoded.limit
    BY <1>3 DEF CodingInv
  <2>2. ASSUME decoded.tree = string.tree, decoded.tree # 0
        PROVE  /\ IsPrefix(decoded.output, string.text)
               /\ \/ Len(EncodeArray(table, string.text)) >= 2^Short
                  \/ decoded.output = Cut(string.text, decoded.limit)
    <3>1. string # Nothing
      BY <2>2 DEF Nothing
    <3>2. /\ decoded.tree \in 1..Len(trees) /\ string.text \in Seq(Char)
          /\ string.bits = Written(table, string.text)
      BY <1>3, <2>2, <3>1 DEF CodingInv, Encoded
    <3>3. table \in PrefixCodes(Char)
      BY <1>3, <3>2, TableType DEF IInv
    <3>4. /\ decoded.limit \in Nat \ {0}
          /\ decoded.output = Stored(DecodeArray(table, string.bits), decoded.limit)
      BY <1>3, <2>2 DEF CodingInv
    <3> HIDE DEF string, table
    <3> QED BY <3>2, <3>3, <3>4, DecodedIs
  <2> QED BY <2>1, <2>2 DEF DecodesWhatWasEncoded
<1> QED BY <1>1, <1>2, <1>3, PTL DEF Spec

(* Every tree there is, dead or alive, is a prefix code of all characters:  *)
(* GenerateFromFrequencyTable (DS_HuffmanEncodingTree.cpp:72-172) merges    *)
(* the leaves into one tree, wherever it puts each into its list.           *)
THEOREM TreesAreCodes ==
  Spec => [](\A a \in 1..Len(trees) : IsPrefixCode(trees[a].table))
<1>1. ASSUME IInv PROVE \A a \in 1..Len(trees) : IsPrefixCode(trees[a].table)
  <2> SUFFICES ASSUME NEW a \in 1..Len(trees), NEW c \in Char, NEW d \in Char, c # d,
                      IsPrefix(trees[a].table[c], trees[a].table[d])
               PROVE  FALSE
    BY DEF IsPrefixCode
  <2> DEFINE s == trees[a].table[c]
             t == trees[a].table[d]
  <2>1. s \in Seq(Bit) /\ t \in Seq(Bit) /\ ~Begins(s, t)
    BY <1>1, TableType, CodeType DEF IInv
  <2>2. Len(s) <= Len(t) /\ SubSeq(s, 1, Len(s)) = SubSeq(t, 1, Len(s))
    BY DEF IsPrefix
  <2> HIDE DEF s, t
  <2>3. Len(s) \in 0..Len(s) /\ Len(s) \in 0..Len(t)
    BY <2>1, <2>2, LenProperties
  <2>4. /\ \A i \in 1..Len(s) : SubSeq(s, 1, Len(s))[i] = s[i]
        /\ \A i \in 1..Len(s) : SubSeq(t, 1, Len(s))[i] = t[i]
    BY <2>1, <2>3, FirstIs
  <2>5. Begins(s, t)
    BY <2>2, <2>4 DEF Begins
  <2> QED BY <2>1, <2>5
<1> QED BY <1>1, Inductive, PTL
=============================================================================
