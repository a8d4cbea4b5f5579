------------------------- MODULE CircularListProofs -------------------------
(***************************************************************************)
(* Theorems about CircularLinkedList for any lists, items and addresses.   *)
(*                                                                         *)
(* IInv has three parts.  HeapOK: every node in use is in one chain, once, *)
(* and what is in no chain is not in use.  Resting: between calls every    *)
(* list is Whole, its pointers run through its chain and back to root.     *)
(* InCall: within a call, what each of its tasks has done so far and what  *)
(* the tasks behind it will find: which list is half cleared, half copied, *)
(* half appended to or half sorted, and that all others are as they were   *)
(* when the call began.  With that the last step of a call is the step of  *)
(* CursorList, and the others are stutters.                                *)
(*                                                                         *)
(* A step that changes pointers is proved from the chain: where in it the  *)
(* node is decides what next and previous become.  That Mergesort sorts is *)
(* a lemma on functions alone (MergesortSorts), by induction on the length *)
(* of the list.                                                            *)
(***************************************************************************)
EXTENDS CircularList, SequenceTheorems, FiniteSetTheorems, FunctionTheorems, WellFoundedInduction,
        NaturalsInduction, TLAPS

Cells(c) == {c[i] : i \in 1..Len(c)}
Nodes(l) == Cells(chain[l])
Distinct(c) == \A i, j \in 1..Len(c) : c[i] = c[j] => i = j
Cursor(l) == IF size[l] = 0 THEN 0 ELSE Index(l)

Owned(ch, used) ==
  /\ used = UNION {Cells(ch[l]) : l \in AllLists}
  /\ \A l \in AllLists : Distinct(ch[l])
  /\ \A l, m \in AllLists : l # m => Cells(ch[l]) \cap Cells(ch[m]) = {}

HeapOK ==
  /\ next \in [Addrs -> Pointer] /\ previous \in [Addrs -> Pointer]
  /\ item \in [Addrs -> Items \cup {0}] /\ \A a \in live : item[a] \in Items
  /\ live \subseteq Addrs
  /\ root \in [AllLists -> Pointer] /\ position \in [AllLists -> Pointer]
  /\ size \in [AllLists -> Nat] /\ chain \in [AllLists -> Seq(Addrs)]
  /\ Owned(chain, live)

IsEmpty(l) == Whole(l) /\ chain[l] = <<>>

(* The list is what it was when the call began.                             *)
AsBefore(l) == Whole(l) /\ ItemsOf(l) = held.items[l] /\ Cursor(l) = held.cursors[l]
Others(l) == \A k \in Lists \ {l} : AsBefore(k)
Walked(l, k) == k \in 1..Len(chain[l]) /\ current = chain[l][k]

(* The first k nodes of a list are linked.                                  *)
Linked(c, k) == \A i \in 1..(k - 1) : next[c[i]] = c[i + 1] /\ previous[c[i + 1]] = c[i]

(* Clear has freed some nodes, the root first, but not all.                 *)
Clearing(l) ==
  LET c == chain[l]  n == Len(c) IN
  /\ size[l] # 0 /\ Walked(l, 1) /\ root[l] \in Addrs \ live
  /\ \A i \in 1..n : next[c[i]] = IF i = n THEN root[l] ELSE c[i + 1]
Emptying(l) == IF current = Null THEN Whole(l) ELSE Clearing(l)

(* A copy has got some nodes, but not all.                                  *)
Copying(l, m) ==
  LET c == chain[l]  n == Len(c) IN
  /\ n > 0 /\ n < Len(chain[m]) /\ Walked(m, n)
  /\ root[l] = c[1] /\ position[l] = c[n] /\ size[l] = 0
  /\ Linked(c, n)
  /\ \A i \in 1..n : item[c[i]] = item[chain[m][i]]
  /\ saved = IF Index(m) <= n THEN c[Index(m)] ELSE Null
Filling(l, m) == IF current = Null THEN IsEmpty(l) ELSE Copying(l, m)

(* Concatenate has appended the first items of m to s.                      *)
Appending(l, m, s) ==
  /\ Whole(l) /\ s # <<>>
  /\ IF current = Null THEN ItemsOf(l) = s
     ELSE /\ Walked(m, counter + 1) /\ Index(l) = Len(chain[l])
          /\ ItemsOf(l) = s \o SubSeq(ItemsOf(m), 1, counter)

Sorting(s, l) == Abstract!Sorted(s) /\ Abstract!SameItems(held.items[l], s)
SortedIn(k, l) == Whole(k) /\ Sorting(ItemsOf(k), l)

At(call, tasks, k) == held.call = call /\ todo = SubSeq(tasks, k, Len(tasks)) /\ k <= Len(tasks)
Clears(l) == Task("clear", l, l, 0)
Copies(l, m) == Task("copy", l, m, 0)
Appends(l, m) == Task("append", l, m, 0)

(* The walk has not met x.                                                  *)
Searching(l, x) ==
  current # Null =>
    \E k \in 1..Len(chain[l]) : Walked(l, k) /\ \A j \in 1..(k - 1) : item[chain[l][j]] # x
InSearch(l, x, do, call) ==
  At(call, <<Task(do, l, l, x)>>, 1) /\ AsBefore(l) /\ Searching(l, x)
InClear(l) == At("Clear", <<Clears(l)>>, 1) /\ Emptying(l)
InAssign(l, m) ==
  LET plan == <<Clears(l), Copies(l, m)>> IN
  \/ At("Assign", plan, 1) /\ Emptying(l)
  \/ At("Assign", plan, 2) /\ Filling(l, m)
InConcatenate(l, m) ==
  LET plan == <<Clears(l), Copies(l, m), Appends(l, m)>> IN
  /\ held.items[m] # <<>>
  /\ \/ /\ held.items[l] = <<>>
        /\ \/ At("Concatenate", plan, 1) /\ Emptying(l)
           \/ At("Concatenate", plan, 2) /\ Filling(l, m)
     \/ /\ At("Concatenate", plan, 3)
        /\ Appending(l, m, IF held.items[l] = <<>> THEN held.items[m] ELSE held.items[l])
(* Sort has read the first items; it builds a list of what is sorted.       *)
Reading(l) ==
  /\ Whole(l) /\ size[l] > 1
  /\ values = SubSeq(ItemsOf(l), 1, Len(values)) /\ Len(values) < size[l]
  /\ IF current = Null THEN values = <<>> ELSE Walked(l, Len(values) + 1)
Building(l) ==
  /\ Whole(Temp) /\ Cursor(Temp) = Len(chain[Temp]) /\ current = Null
  /\ values # <<>> /\ Sorting(ItemsOf(Temp) \o values, l)
InSort(l) ==
  LET plan == <<Task("read", l, l, 0), Task("build", Temp, l, 0), Clears(l),
                Copies(l, Temp), Task("clear", Temp, l, 0), Task("rewind", l, l, 0)>> IN
  /\ Len(held.items[l]) > 1
  /\ \/ At("Sort", plan, 1) /\ AsBefore(l) /\ IsEmpty(Temp) /\ Reading(l)
     \/ At("Sort", plan, 2) /\ AsBefore(l) /\ Building(l)
     \/ At("Sort", plan, 3) /\ SortedIn(Temp, l) /\ Emptying(l)
     \/ At("Sort", plan, 4) /\ SortedIn(Temp, l) /\ Filling(l, Temp)
     \/ At("Sort", plan, 5) /\ SortedIn(l, l) /\ Emptying(Temp)
     \/ At("Sort", plan, 6) /\ SortedIn(l, l) /\ IsEmpty(Temp) /\ current = Null

(* Between calls, and in each of them.                                      *)
Resting ==
  /\ Idle /\ current = Null
  /\ \A l \in Lists : Whole(l)
  /\ IsEmpty(Temp)
Began ==
  /\ done = "none" /\ value = 0 /\ found = FALSE
  /\ held.items \in [Lists -> Seq(Items)] /\ held.cursors \in [Lists -> Nat]
During(l) ==
  \/ InSort(l)
  \/ /\ IsEmpty(Temp)
     /\ \/ \E x \in Items : InSearch(l, x, "search", "IsIn") \/ InSearch(l, x, "find", "Find")
        \/ InClear(l)
        \/ \E m \in Lists \ {l} : InAssign(l, m) \/ InConcatenate(l, m)
InCall == Began /\ \E l \in Lists : Others(l) /\ During(l)

Registers ==
  /\ counter # 0 => todo # <<>> /\ todo[1].do = "append" /\ current # Null
  /\ values # <<>> => todo # <<>> /\ todo[1].do \in {"read", "build"}

IInv == TypeOK /\ HeapOK /\ Registers /\ (Resting \/ InCall)

-----------------------------------------------------------------------------
(* Sequences: an element put in, an element taken out.                      *)

Ring(c, nx, pv) ==
  \A i \in 1..Len(c) : /\ nx[c[i]] = c[Successor(i, Len(c))]
                       /\ pv[c[Successor(i, Len(c))]] = c[i]

LEMMA InsertedIs ==
  ASSUME NEW S, NEW c \in Seq(S), NEW j \in 1..(Len(c) + 1), NEW x \in S
  PROVE  LET d == Abstract!InsertedAt(c, j, x) IN
         /\ d \in Seq(S) /\ Len(d) = Len(c) + 1
         /\ \A i \in 1..(Len(c) + 1) :
              d[i] = IF i < j THEN c[i] ELSE IF i = j THEN x ELSE c[i - 1]
<1> DEFINE d == Abstract!InsertedAt(c, j, x)
           n == Len(c)
<1>1. n \in Nat /\ \A i \in 1..n : c[i] \in S
  BY LenProperties, ElementOfSeq
<1>2. d = [k \in 1..(n + 1) |-> IF k < j THEN c[k] ELSE IF k = j THEN x ELSE c[k - 1]]
  BY Zenon DEF Abstract!InsertedAt
<1> HIDE DEF d, n
<1>3. \A k \in 1..(n + 1) :
        (IF k < j THEN c[k] ELSE IF k = j THEN x ELSE c[k - 1]) \in S
  BY <1>1 DEF n
<1>4. d \in [1..(n + 1) -> S]
  BY <1>2, <1>3
<1>5. n + 1 \in Nat
  BY <1>1
<1>6. d \in Seq(S) /\ Len(d) = n + 1
  BY <1>4, <1>5, SeqDef, LenProperties
<1> QED BY <1>2, <1>6 DEF d, n

LEMMA WithoutIs ==
  ASSUME NEW S, NEW c \in Seq(S), NEW j \in 1..Len(c)
  PROVE  LET d == Abstract!Without(c, j) IN
         /\ d \in Seq(S) /\ Len(d) = Len(c) - 1
         /\ \A i \in 1..(Len(c) - 1) : d[i] = IF i < j THEN c[i] ELSE c[i + 1]
<1> DEFINE d == Abstract!Without(c, j)
           n == Len(c)
<1>1. n \in Nat /\ n >= 1 /\ \A i \in 1..n : c[i] \in S
  BY LenProperties, ElementOfSeq
<1>2. d = [k \in 1..(n - 1) |-> IF k < j THEN c[k] ELSE c[k + 1]]
  BY Zenon DEF Abstract!Without
<1> HIDE DEF d, n
<1>3. \A k \in 1..(n - 1) : (IF k < j THEN c[k] ELSE c[k + 1]) \in S
  BY <1>1 DEF n
<1>4. d \in [1..(n - 1) -> S]
  BY <1>2, <1>3
<1>5. n - 1 \in Nat
  BY <1>1
<1>6. d \in Seq(S) /\ Len(d) = n - 1
  BY <1>4, <1>5, SeqDef, LenProperties
<1> QED BY <1>2, <1>6 DEF d, n

LEMMA InsertedDistinct ==
  ASSUME NEW S, NEW c \in Seq(S), NEW j \in 1..(Len(c) + 1), NEW x \in S,
         Distinct(c), x \notin Cells(c)
  PROVE  LET d == Abstract!InsertedAt(c, j, x) IN
         Distinct(d) /\ Cells(d) = Cells(c) \cup {x}
<1> DEFINE d == Abstract!InsertedAt(c, j, x)
           n == Len(c)
<1>1. n \in Nat /\ Len(d) = n + 1
  BY LenProperties, InsertedIs
<1>2. \A i \in 1..(n + 1) : d[i] = IF i < j THEN c[i] ELSE IF i = j THEN x ELSE c[i - 1]
  BY InsertedIs
<1>3. \A i \in 1..n : c[i] # x
  BY DEF Cells
<1>4. \A i, k \in 1..n : c[i] = c[k] => i = k
  BY DEF Distinct
<1> HIDE DEF d, n
<1>5. Distinct(d)
  <2> SUFFICES ASSUME NEW i \in 1..(n + 1), NEW k \in 1..(n + 1), d[i] = d[k] PROVE i = k
    BY <1>1 DEF Distinct
  <2>1. (i < j => i \in 1..n) /\ (k < j => k \in 1..n) /\ j \in Nat
    BY <1>1 DEF n
  <2>2. (~(i < j) /\ i # j => i - 1 \in 1..n) /\ (~(k < j) /\ k # j => k - 1 \in 1..n)
    BY <1>1 DEF n
  <2> QED BY <1>1, <1>2, <1>3, <1>4, <2>1, <2>2
<1>6. \A a : a \in Cells(d) <=> a \in Cells(c) \cup {x}
  <2>1. ASSUME NEW i \in 1..(n + 1) PROVE d[i] \in Cells(c) \cup {x}
    <3>1. CASE i < j
      <4>1. i \in 1..n
        BY <1>1, <3>1 DEF n
      <4> QED BY <1>2, <3>1, <4>1 DEF Cells, n
    <3>2. CASE i = j
      BY <1>2, <3>2
    <3>3. CASE ~(i < j) /\ i # j
      <4>1. i - 1 \in 1..n
        BY <1>1, <3>3 DEF n
      <4> QED BY <1>2, <3>3, <4>1 DEF Cells, n
    <3> QED BY <3>1, <3>2, <3>3
  <2>2. ASSUME NEW i \in 1..n PROVE \E k \in 1..(n + 1) : d[k] = c[i]
    <3>1. CASE i < j
      <4>1. i \in 1..(n + 1)
        BY <1>1
      <4> QED BY <1>2, <3>1, <4>1
    <3>2. CASE ~(i < j)
      <4>1. i + 1 \in 1..(n + 1) /\ ~(i + 1 < j) /\ i + 1 # j /\ i + 1 - 1 = i
        BY <1>1, <3>2 DEF n
      <4> QED BY <1>2, <4>1
    <3> QED BY <3>1, <3>2
  <2>3. j \in 1..(n + 1) /\ d[j] = x
    BY <1>1, <1>2 DEF n
  <2> QED BY <1>1, <2>1, <2>2, <2>3 DEF Cells, n
<1> QED BY <1>5, <1>6 DEF d

LEMMA WithoutDistinct ==
  ASSUME NEW S, NEW c \in Seq(S), NEW j \in 1..Len(c), Distinct(c)
  PROVE  LET d == Abstract!Without(c, j) IN
         Distinct(d) /\ Cells(d) = Cells(c) \ {c[j]}
<1> DEFINE d == Abstract!Without(c, j)
           n == Len(c)
<1>1. n \in Nat /\ n >= 1 /\ Len(d) = n - 1
  BY LenProperties, WithoutIs
<1>2. \A i \in 1..(n - 1) : d[i] = IF i < j THEN c[i] ELSE c[i + 1]
  BY WithoutIs
<1>4. \A i, k \in 1..n : c[i] = c[k] => i = k
  BY DEF Distinct
<1> HIDE DEF d, n
<1>5. Distinct(d)
  <2> SUFFICES ASSUME NEW i \in 1..(n - 1), NEW k \in 1..(n - 1), d[i] = d[k] PROVE i = k
    BY <1>1 DEF Distinct
  <2>1. i \in 1..n /\ i + 1 \in 1..n /\ k \in 1..n /\ k + 1 \in 1..n /\ j \in Nat
    BY <1>1 DEF n
  <2> QED BY <1>1, <1>2, <1>4, <2>1
<1>6. \A a : a \in Cells(d) <=> a \in Cells(c) \ {c[j]}
  <2>1. ASSUME NEW i \in 1..(n - 1) PROVE d[i] \in Cells(c) \ {c[j]}
    <3>1. i \in 1..n /\ i + 1 \in 1..n /\ j \in 1..n
      BY <1>1 DEF n
    <3>2. (d[i] = c[i] /\ i # j) \/ (d[i] = c[i + 1] /\ i + 1 # j)
      <4>1. CASE i < j
        <5>1. i # j
          BY <1>1, <3>1, <4>1
        <5>2. d[i] = c[i]
          BY <1>2, <4>1, Zenon
        <5> QED BY <5>1, <5>2
      <4>2. CASE ~(i < j)
        <5>1. i + 1 # j
          BY <1>1, <4>2 DEF n
        <5> QED BY <1>2, <4>2, <5>1
      <4> QED BY <4>1, <4>2
    <3> QED BY <1>4, <3>1, <3>2 DEF Cells, n
  <2>2. ASSUME NEW i \in 1..n, c[i] # c[j] PROVE \E k \in 1..(n - 1) : d[k] = c[i]
    <3>1. CASE i < j
      <4>1. i \in 1..(n - 1)
        BY <1>1, <3>1 DEF n
      <4> QED BY <1>2, <3>1, <4>1
    <3>2. CASE ~(i < j)
      <4>1. i # j
        BY <2>2
      <4>2. i - 1 \in 1..(n - 1) /\ ~(i - 1 < j) /\ i - 1 + 1 = i
        BY <1>1, <3>2, <4>1 DEF n
      <4> QED BY <1>2, <4>2
    <3> QED BY <3>1, <3>2
  <2> QED BY <1>1, <2>1, <2>2 DEF Cells, n
<1> QED BY <1>5, <1>6 DEF d

LEMMA IndexIs ==
  ASSUME NEW S, NEW c \in Seq(S), NEW i \in 1..Len(c), Distinct(c)
  PROVE  (CHOOSE j \in DOMAIN c : c[j] = c[i]) = i
<1> DEFINE k == CHOOSE j \in DOMAIN c : c[j] = c[i]
<1>1. DOMAIN c = 1..Len(c)
  BY LenProperties
<1>2. \E j \in DOMAIN c : c[j] = c[i]
  BY <1>1
<1>3. k \in DOMAIN c /\ c[k] = c[i]
  BY <1>2, Zenon
<1> HIDE DEF k
<1> QED BY <1>1, <1>3 DEF Distinct, k

-----------------------------------------------------------------------------
(* Rings: a node linked in, a node unlinked, a node that stays where it is. *)

Predecessor(i, n) == IF i = 1 THEN n ELSE i - 1

LEMMA RingBack ==
  ASSUME NEW S, NEW c \in Seq(S), NEW nx, NEW pv
  PROVE  Ring(c, nx, pv) <=>
           \A i \in 1..Len(c) : /\ nx[c[i]] = c[Successor(i, Len(c))]
                                /\ pv[c[i]] = c[Predecessor(i, Len(c))]
<1> DEFINE n == Len(c)
<1>1. n \in Nat
  BY LenProperties
<1> HIDE DEF n
<1>2. ASSUME NEW i \in 1..n
      PROVE  /\ Successor(i, n) \in 1..n /\ Predecessor(i, n) \in 1..n
             /\ Predecessor(Successor(i, n), n) = i /\ Successor(Predecessor(i, n), n) = i
  BY <1>1 DEF Successor, Predecessor
<1>3. ASSUME \A i \in 1..n : pv[c[Successor(i, n)]] = c[i], NEW i \in 1..n
      PROVE  pv[c[i]] = c[Predecessor(i, n)]
  <2> DEFINE j == Predecessor(i, n)
  <2>1. j \in 1..n /\ Successor(j, n) = i
    BY <1>2
  <2>2. pv[c[Successor(j, n)]] = c[j]
    BY <1>3, <2>1
  <2> QED BY <2>1, <2>2
<1>4. ASSUME \A i \in 1..n : pv[c[i]] = c[Predecessor(i, n)], NEW i \in 1..n
      PROVE  pv[c[Successor(i, n)]] = c[i]
  <2> DEFINE j == Successor(i, n)
  <2>1. j \in 1..n /\ Predecessor(j, n) = i
    BY <1>2
  <2>2. pv[c[j]] = c[Predecessor(j, n)]
    BY <1>4, <2>1
  <2> QED BY <2>1, <2>2
<1> QED BY <1>3, <1>4 DEF Ring, n

(* Behind node j - 1, in front of node j.                                   *)
LEMMA RingInsert ==
  ASSUME NEW S, NEW c \in Seq(S), Distinct(c), NEW j \in 1..(Len(c) + 1), NEW x \in S,
         Len(c) > 0, x \notin Cells(c), NEW nx, NEW pv, NEW nx2, NEW pv2, Ring(c, nx, pv),
         LET p == c[Predecessor(j, Len(c))] IN
         /\ nx2[p] = x /\ nx2[x] = nx[p]
         /\ pv2[nx[p]] = x /\ pv2[x] = p
         /\ \A a \in Cells(c) : (a # p => nx2[a] = nx[a]) /\ (a # nx[p] => pv2[a] = pv[a])
  PROVE  Ring(Abstract!InsertedAt(c, j, x), nx2, pv2)
<1> DEFINE d == Abstract!InsertedAt(c, j, x)
           n == Len(c)
           b == Predecessor(j, n)
           p == c[b]
<1>1. n \in Nat /\ n >= 1 /\ Len(d) = n + 1
  BY LenProperties, InsertedIs
<1>2. \A i \in 1..(n + 1) : d[i] = IF i < j THEN c[i] ELSE IF i = j THEN x ELSE c[i - 1]
  BY InsertedIs
<1>3. /\ nx2[p] = x /\ nx2[x] = nx[p]
      /\ pv2[nx[p]] = x /\ pv2[x] = p
      /\ \A i \in 1..n : (c[i] # p => nx2[c[i]] = nx[c[i]]) /\ (c[i] # nx[p] => pv2[c[i]] = pv[c[i]])
  BY DEF Cells
<1>4. /\ \A i, k \in 1..n : c[i] = c[k] => i = k
      /\ \A i \in 1..n : /\ nx[c[i]] = c[IF i = n THEN 1 ELSE i + 1]
                         /\ pv[c[i]] = c[IF i = 1 THEN n ELSE i - 1]
  BY RingBack DEF Distinct, Successor, Predecessor
<1>5. b \in 1..n /\ b = (IF j = 1 THEN n ELSE j - 1) /\ j \in 1..(n + 1)
  BY <1>1 DEF Predecessor
<1> HIDE DEF d, n, b
<1>6. nx[p] = c[IF b = n THEN 1 ELSE b + 1]
  BY <1>4, <1>5
<1> DEFINE s == IF b = n THEN 1 ELSE b + 1
<1>7. s \in 1..n
  BY <1>1, <1>5
<1> HIDE DEF s
<1>8. nx[p] = c[s] /\ s = (IF b = n THEN 1 ELSE b + 1)
  BY <1>6 DEF s
<1>9. /\ \A i \in 1..n : /\ i # b => nx2[c[i]] = c[IF i = n THEN 1 ELSE i + 1]
                         /\ i # s => pv2[c[i]] = c[IF i = 1 THEN n ELSE i - 1]
      /\ nx2[c[b]] = x /\ nx2[x] = c[s] /\ pv2[c[s]] = x /\ pv2[x] = c[b]
  <2>1. \A i \in 1..n : (i # b => c[i] # p) /\ (i # s => c[i] # nx[p])
    <3>1. \A i, k \in 1..n : c[i] = c[k] => i = k
      BY <1>4, Zenon
    <3>2. nx[p] = c[s] /\ b \in 1..n
      BY <1>5, <1>8
    <3>3. ASSUME NEW i \in 1..n PROVE (i # b => c[i] # c[b]) /\ (i # s => c[i] # c[s])
      BY <1>7, <3>1, <3>2, Zenon
    <3> QED BY <3>2, <3>3
  <2>2. nx2[c[b]] = x /\ nx2[x] = c[s] /\ pv2[c[s]] = x /\ pv2[x] = c[b]
    BY <1>3, <1>8
  <2>3. ASSUME NEW i \in 1..n
        PROVE  /\ i # b => nx2[c[i]] = c[IF i = n THEN 1 ELSE i + 1]
               /\ i # s => pv2[c[i]] = c[IF i = 1 THEN n ELSE i - 1]
    <3>1. /\ c[i] # p => nx2[c[i]] = nx[c[i]]
          /\ c[i] # nx[p] => pv2[c[i]] = pv[c[i]]
      BY <1>3, Zenon
    <3>2. /\ nx[c[i]] = c[IF i = n THEN 1 ELSE i + 1]
          /\ pv[c[i]] = c[IF i = 1 THEN n ELSE i - 1]
      BY <1>4, Zenon
    <3> QED BY <2>1, <3>1, <3>2, Zenon
  <2> QED BY <2>2, <2>3, Zenon
<1>10. ASSUME NEW i \in 1..(n + 1)
       PROVE  /\ nx2[d[i]] = d[Successor(i, n + 1)]
              /\ pv2[d[Successor(i, n + 1)]] = d[i]
  <2>1. CASE i < j - 1 /\ i < n
    <3>1. i \in 1..n /\ i + 1 \in 1..n /\ i # b /\ i + 1 # s /\ i # n
          /\ i < j /\ i + 1 < j /\ i + 1 \in 1..(n + 1) /\ i # n + 1 /\ i + 1 # 1 /\ i + 1 - 1 = i
      <4>1. j # 1 /\ b = j - 1 /\ s = (IF b = n THEN 1 ELSE j) /\ j \in Nat /\ i \in Nat
        BY <1>1, <1>5, <1>8, <2>1
      <4> QED BY <1>1, <2>1, <4>1
    <3>2. d[i] = c[i] /\ d[i + 1] = c[i + 1]
      BY <1>2, <2>1, <3>1
    <3>3. nx2[c[i]] = c[IF i = n THEN 1 ELSE i + 1]
      BY <1>9, <3>1, Zenon
    <3>4. pv2[c[i + 1]] = c[IF i + 1 = 1 THEN n ELSE i + 1 - 1]
      <4> DEFINE m == i + 1
      <4>1. m \in 1..n /\ m # s
        BY <3>1
      <4> HIDE DEF m
      <4>2. pv2[c[m]] = c[IF m = 1 THEN n ELSE m - 1]
        BY <1>9, <4>1, Zenon
      <4> QED BY <4>2 DEF m
    <3> QED BY <3>1, <3>2, <3>3, <3>4 DEF Successor
  <2>2. CASE i = j - 1
    <3>1. i \in 1..n /\ i = b /\ i < j /\ i + 1 = j /\ i # n + 1
      BY <1>1, <1>5, <2>2
    <3> QED BY <1>2, <1>5, <1>9, <3>1 DEF Successor
  <2>3. CASE i = j /\ i # n + 1
    <3>1. i + 1 \in 1..(n + 1) /\ ~(i + 1 < j) /\ i + 1 # j /\ i + 1 - 1 = j /\ j = s
      BY <1>1, <1>5, <1>8, <2>3
    <3> QED BY <1>2, <1>9, <2>3, <3>1 DEF Successor
  <2>4. CASE i = j /\ i = n + 1
    <3>1. b = n /\ s = 1 /\ 1 < j /\ 1 \in 1..(n + 1)
      BY <1>1, <1>5, <1>8, <2>4
    <3> QED BY <1>2, <1>9, <2>4, <3>1 DEF Successor
  <2>5. CASE i > j /\ i # n + 1
    <3>1. /\ i - 1 \in 1..n /\ i \in 1..n /\ i - 1 # b /\ i # s /\ i - 1 # n /\ i # 1
          /\ ~(i < j) /\ i # j /\ ~(i + 1 < j) /\ i + 1 # j /\ i - 1 + 1 = i /\ i + 1 - 1 = i
          /\ i + 1 \in 1..(n + 1)
      BY <1>1, <1>5, <1>7, <1>8, <2>5
    <3>2. d[i] = c[i - 1] /\ d[i + 1] = c[i]
      BY <1>2, <3>1
    <3> QED BY <1>9, <2>5, <3>1, <3>2 DEF Successor
  <2>6. CASE i > j /\ i = n + 1
    <3>1. d[i] = c[n] /\ i - 1 = n
      <4>1. i \in 1..(n + 1) /\ ~(i < j) /\ i # j /\ i - 1 = n
        BY <1>1, <1>5, <2>6
      <4>2. d[i] = c[i - 1]
        BY <1>2, <4>1
      <4> QED BY <4>1, <4>2
    <3>2. CASE j = 1
      <4>1. b = n /\ d[1] = x /\ 1 \in 1..(n + 1)
        BY <1>1, <1>2, <1>5, <3>2
      <4> QED BY <1>9, <2>6, <3>1, <4>1 DEF Successor
    <3>3. CASE j # 1
      <4>1. b # n /\ s # 1 /\ d[1] = c[1] /\ n \in 1..n /\ 1 \in 1..n
        BY <1>1, <1>2, <1>5, <1>8, <2>6, <3>3
      <4> QED BY <1>9, <2>6, <3>1, <4>1 DEF Successor
    <3> QED BY <3>2, <3>3
  <2> QED BY <1>1, <1>5, <2>1, <2>2, <2>3, <2>4, <2>5, <2>6
<1> QED BY <1>1, <1>10 DEF Ring, d

LEMMA RingRemove ==
  ASSUME NEW S, NEW c \in Seq(S), Distinct(c), NEW j \in 1..Len(c), Len(c) > 1,
         NEW nx, NEW pv, NEW nx2, NEW pv2, Ring(c, nx, pv),
         LET p == c[j] IN
         /\ nx2[pv[p]] = nx[p] /\ pv2[nx[p]] = pv[p]
         /\ \A a \in Cells(c) \ {p} : (a # pv[p] => nx2[a] = nx[a]) /\ (a # nx[p] => pv2[a] = pv[a])
  PROVE  Ring(Abstract!Without(c, j), nx2, pv2)
<1> DEFINE d == Abstract!Without(c, j)
           n == Len(c)
           b == Predecessor(j, n)
           s == Successor(j, n)
<1>1. n \in Nat /\ n >= 2 /\ Len(d) = n - 1
  BY LenProperties, WithoutIs
<1>2. \A i \in 1..(n - 1) : d[i] = IF i < j THEN c[i] ELSE c[i + 1]
  BY WithoutIs
<1>3. /\ \A i, k \in 1..n : c[i] = c[k] => i = k
      /\ \A i \in 1..n : /\ nx[c[i]] = c[IF i = n THEN 1 ELSE i + 1]
                         /\ pv[c[i]] = c[IF i = 1 THEN n ELSE i - 1]
  BY RingBack DEF Distinct, Successor, Predecessor
<1>4. nx[c[j]] = c[s] /\ pv[c[j]] = c[b]
  BY RingBack
<1>5. /\ b \in 1..n /\ s \in 1..n /\ j \in 1..n /\ b # j /\ s # j
      /\ b = (IF j = 1 THEN n ELSE j - 1) /\ s = (IF j = n THEN 1 ELSE j + 1)
  BY <1>1 DEF Predecessor, Successor
<1>6. /\ nx2[c[b]] = c[s] /\ pv2[c[s]] = c[b]
      /\ \A i \in 1..n : c[i] # c[j] => /\ c[i] # c[b] => nx2[c[i]] = nx[c[i]]
                                        /\ c[i] # c[s] => pv2[c[i]] = pv[c[i]]
  BY <1>4 DEF Cells
<1> HIDE DEF d, n, b, s
<1>7. \A i \in 1..n : i # j => /\ i # b => nx2[c[i]] = c[IF i = n THEN 1 ELSE i + 1]
                               /\ i # s => pv2[c[i]] = c[IF i = 1 THEN n ELSE i - 1]
  <2>1. \A i \in 1..n : (i # j => c[i] # c[j]) /\ (i # b => c[i] # c[b]) /\ (i # s => c[i] # c[s])
    <3>1. \A i, k \in 1..n : c[i] = c[k] => i = k
      BY <1>3, Zenon
    <3> QED BY <1>5, <3>1, Zenon
  <2>2. ASSUME NEW i \in 1..n, i # j
        PROVE  /\ i # b => nx2[c[i]] = c[IF i = n THEN 1 ELSE i + 1]
               /\ i # s => pv2[c[i]] = c[IF i = 1 THEN n ELSE i - 1]
    <3>1. /\ c[i] # c[b] => nx2[c[i]] = nx[c[i]]
          /\ c[i] # c[s] => pv2[c[i]] = pv[c[i]]
      BY <1>6, <2>1, <2>2, Zenon
    <3>2. /\ nx[c[i]] = c[IF i = n THEN 1 ELSE i + 1]
          /\ pv[c[i]] = c[IF i = 1 THEN n ELSE i - 1]
      BY <1>3, Zenon
    <3> QED BY <2>1, <3>1, <3>2, Zenon
  <2> QED BY <2>2, Zenon
<1>8. ASSUME NEW i \in 1..(n - 1)
      PROVE  /\ nx2[d[i]] = d[Successor(i, n - 1)]
             /\ pv2[d[Successor(i, n - 1)]] = d[i]
  <2>0. i \in 1..n /\ i + 1 \in 1..n /\ n - 1 \in 1..(n - 1) /\ 1 \in 1..(n - 1) /\ 1 \in 1..n
        /\ n - 1 + 1 = n
    BY <1>1
  <2>1. CASE i # n - 1 /\ i + 1 < j
    <3>1. i < j /\ i # b /\ i + 1 # s /\ i + 1 # j /\ i # j /\ i # n /\ i + 1 # 1 /\ i + 1 - 1 = i
          /\ i + 1 \in 1..(n - 1)
      BY <1>1, <1>5, <2>0, <2>1
    <3>2. d[i] = c[i] /\ d[i + 1] = c[i + 1]
      BY <1>2, <2>1, <3>1
    <3> QED BY <1>7, <2>0, <2>1, <3>1, <3>2 DEF Successor
  <2>2. CASE i # n - 1 /\ i + 1 = j
    <3>1. i < j /\ i = b /\ s = i + 2 /\ i + 1 \in 1..(n - 1) /\ ~(i + 1 < j) /\ i + 1 + 1 = i + 2
      BY <1>1, <1>5, <2>0, <2>2
    <3>2. d[i] = c[b] /\ d[i + 1] = c[s]
      BY <1>2, <2>2, <3>1
    <3> QED BY <1>6, <2>0, <2>2, <3>1, <3>2 DEF Successor
  <2>3. CASE i # n - 1 /\ i + 1 > j
    <3>1. ~(i < j) /\ ~(i + 1 < j) /\ i + 1 # j /\ i + 2 # j /\ i + 1 # b /\ i + 2 # s /\ i + 1 # n
          /\ i + 2 # 1 /\ i + 2 - 1 = i + 1 /\ i + 1 \in 1..(n - 1) /\ i + 2 \in 1..n
          /\ i + 1 + 1 = i + 2
      BY <1>1, <1>5, <2>0, <2>3
    <3>2. d[i] = c[i + 1] /\ d[i + 1] = c[i + 2]
      BY <1>2, <2>3, <3>1
    <3> QED BY <1>7, <2>0, <2>3, <3>1, <3>2 DEF Successor
  <2>4. CASE i = n - 1 /\ j = n
    <3>1. b = n - 1 /\ s = 1 /\ i < j /\ 1 < j
      BY <1>1, <1>5, <2>4
    <3> QED BY <1>2, <1>6, <2>0, <2>4, <3>1 DEF Successor
  <2>5. CASE i = n - 1 /\ j = 1
    <3>1. b = n /\ s = 2 /\ ~(i < j) /\ ~(1 < j) /\ i + 1 = n /\ 1 + 1 = 2
      BY <1>1, <1>5, <2>5
    <3> QED BY <1>2, <1>6, <2>0, <2>5, <3>1 DEF Successor
  <2>6. CASE i = n - 1 /\ j # n /\ j # 1
    <3>1. ~(i < j) /\ 1 < j /\ i + 1 = n /\ n # b /\ 1 # s /\ n # j /\ 1 # j /\ n \in 1..n
      BY <1>1, <1>5, <2>6
    <3> QED BY <1>2, <1>7, <2>0, <2>6, <3>1 DEF Successor
  <2> QED BY <1>1, <1>5, <2>0, <2>1, <2>2, <2>3, <2>4, <2>5, <2>6
<1> QED BY <1>1, <1>8 DEF Ring, d

-----------------------------------------------------------------------------
(* Who owns which node, when one is taken from the heap or given back.      *)

LEMMA OwnedAdd ==
  ASSUME NEW ch, NEW used, Owned(ch, used), DOMAIN ch = AllLists, NEW l \in AllLists,
         NEW n, n \notin used, NEW d, Distinct(d), Cells(d) = Cells(ch[l]) \cup {n}
  PROVE  Owned([ch EXCEPT ![l] = d], used \cup {n})
<1> DEFINE e == [ch EXCEPT ![l] = d]
           C(k) == Cells(ch[k])
           D(k) == Cells(e[k])
<1>1. \A k \in AllLists : e[k] = IF k = l THEN d ELSE ch[k]
  BY Zenon
<1> HIDE DEF e
<1>2. \A k \in AllLists : D(k) = IF k = l THEN C(l) \cup {n} ELSE C(k)
  BY <1>1
<1>3. used = UNION {C(k) : k \in AllLists} /\ \A k \in AllLists : n \notin C(k)
  BY DEF Owned
<1>4. \A k, m \in AllLists : k # m => C(k) \cap C(m) = {}
  BY DEF Owned
<1> HIDE DEF C, D
<1>5. \A a : a \in used \cup {n} <=> a \in UNION {D(k) : k \in AllLists}
  <2>1. ASSUME NEW a PROVE a \in used \cup {n} <=> \E k \in AllLists : a \in D(k)
    <3>1. a \in used <=> \E k \in AllLists : a \in C(k)
      BY <1>3
    <3> QED BY <1>2, <3>1
  <2> QED BY <2>1
<1>6. \A k \in AllLists : Distinct(e[k])
  BY <1>1 DEF Owned
<1>7. \A k, m \in AllLists : k # m => D(k) \cap D(m) = {}
  BY <1>2, <1>3, <1>4
<1> QED BY <1>5, <1>6, <1>7 DEF Owned, D, e

LEMMA OwnedRemove ==
  ASSUME NEW ch, NEW used, Owned(ch, used), DOMAIN ch = AllLists, NEW l \in AllLists,
         NEW n \in Cells(ch[l]), NEW d, Distinct(d), Cells(d) = Cells(ch[l]) \ {n}
  PROVE  Owned([ch EXCEPT ![l] = d], used \ {n})
<1> DEFINE e == [ch EXCEPT ![l] = d]
           C(k) == Cells(ch[k])
           D(k) == Cells(e[k])
<1>1. \A k \in AllLists : e[k] = IF k = l THEN d ELSE ch[k]
  BY Zenon
<1> HIDE DEF e
<1>2. \A k \in AllLists : D(k) = IF k = l THEN C(l) \ {n} ELSE C(k)
  BY <1>1
<1>3. used = UNION {C(k) : k \in AllLists} /\ n \in C(l)
  BY DEF Owned
<1>4. \A k, m \in AllLists : k # m => C(k) \cap C(m) = {}
  BY DEF Owned
<1> HIDE DEF C, D
<1>5. \A a : a \in used \ {n} <=> a \in UNION {D(k) : k \in AllLists}
  <2>1. ASSUME NEW a PROVE a \in used \ {n} <=> \E k \in AllLists : a \in D(k)
    <3>1. a \in used <=> \E k \in AllLists : a \in C(k)
      BY <1>3
    <3>2. \A k \in AllLists : k # l => n \notin C(k)
      BY <1>3, <1>4
    <3> QED BY <1>2, <3>1, <3>2
  <2> QED BY <2>1
<1>6. \A k \in AllLists : Distinct(e[k])
  BY <1>1 DEF Owned
<1>7. \A k, m \in AllLists : k # m => D(k) \cap D(m) = {}
  BY <1>2, <1>4
<1> QED BY <1>5, <1>6, <1>7 DEF Owned, D, e

-----------------------------------------------------------------------------
(* Lists that a step leaves alone.                                          *)

Same(k) ==
  /\ chain'[k] = chain[k] /\ size'[k] = size[k]
  /\ root'[k] = root[k] /\ position'[k] = position[k]
  /\ \A a \in Nodes(k) : next'[a] = next[a] /\ previous'[a] = previous[a] /\ item'[a] = item[a]

LEMMA SuccessorIn ==
  ASSUME NEW n \in Nat, NEW i \in 1..n
  PROVE  Successor(i, n) \in 1..n
BY DEF Successor

LEMMA SameIs ==
  ASSUME HeapOK, NEW k \in AllLists, Same(k)
  PROVE  /\ Index(k)' = Index(k) /\ Cursor(k)' = Cursor(k) /\ ItemsOf(k)' = ItemsOf(k)
         /\ Whole(k) => Whole(k)'
<1> DEFINE c == chain[k]
           n == Len(c)
<1>1. c \in Seq(Addrs) /\ n \in Nat /\ DOMAIN c = 1..n
  BY LenProperties DEF HeapOK
<1>2. /\ chain'[k] = c /\ size'[k] = size[k] /\ root'[k] = root[k] /\ position'[k] = position[k]
      /\ \A i \in 1..n : next'[c[i]] = next[c[i]] /\ previous'[c[i]] = previous[c[i]]
                         /\ item'[c[i]] = item[c[i]]
  BY DEF Same, Nodes, Cells
<1>3. Index(k)' = Index(k)
  BY <1>2 DEF Index
<1>4. Cursor(k)' = Cursor(k)
  BY <1>2, <1>3 DEF Cursor
<1>5. ItemsOf(k)' = ItemsOf(k)
  <2>1. ItemsOf(k)' = [i \in 1..n |-> item'[c[i]]]
    BY <1>1, <1>2 DEF ItemsOf
  <2>2. ItemsOf(k) = [i \in 1..n |-> item[c[i]]]
    BY <1>1 DEF ItemsOf
  <2> HIDE DEF c, n
  <2> QED BY <1>2, <2>1, <2>2
<1>6. Whole(k) => Whole(k)'
  <2> SUFFICES ASSUME Whole(k) PROVE Whole(k)'
    OBVIOUS
  <2>1. \A i \in 1..n : next[c[i]] = c[Successor(i, n)] /\ previous[c[Successor(i, n)]] = c[i]
    BY DEF Whole
  <2>2. \A i \in 1..n : next'[c[i]] = c[Successor(i, n)] /\ previous'[c[Successor(i, n)]] = c[i]
    <3>1. \A i \in 1..n : Successor(i, n) \in 1..n
      BY <1>1, SuccessorIn
    <3> HIDE DEF c, n
    <3> QED BY <1>2, <2>1, <3>1
  <2> QED BY <1>2, <2>2 DEF Whole
<1> QED BY <1>3, <1>4, <1>5, <1>6

(* A list whose nodes, links and items no step of another list touches.     *)
LEMMA SameWhen ==
  ASSUME HeapOK, NEW l \in AllLists, NEW k \in AllLists, k # l,
         \A m \in AllLists : m # l => /\ chain'[m] = chain[m] /\ size'[m] = size[m]
                                      /\ root'[m] = root[m] /\ position'[m] = position[m],
         \A a \in live : a \notin Nodes(l) =>
           next'[a] = next[a] /\ previous'[a] = previous[a] /\ item'[a] = item[a]
  PROVE  Same(k)
<1>1. \A a \in Nodes(k) : a \in live /\ a \notin Nodes(l)
  BY DEF HeapOK, Owned, Nodes
<1> QED BY <1>1 DEF Same

-----------------------------------------------------------------------------
(* Lists whose nodes are a ring: where the cursor is, what they hold.       *)

LEMMA WholeIs ==
  ASSUME HeapOK, NEW l \in AllLists, Whole(l)
  PROVE  LET c == chain[l]  n == Len(c) IN
         /\ c \in Seq(Addrs) /\ n \in Nat /\ DOMAIN c = 1..n /\ size[l] = n
         /\ Distinct(c) /\ Nodes(l) \subseteq live /\ Ring(c, next, previous)
         /\ n = 0 => c = <<>> /\ root[l] = Null /\ position[l] = Null
         /\ n > 0 => /\ Index(l) \in 1..n /\ position[l] = c[Index(l)] /\ root[l] = c[1]
                     /\ Cursor(l) = Index(l)
<1> DEFINE c == chain[l]
           n == Len(c)
<1>1. c \in Seq(Addrs) /\ n \in Nat /\ DOMAIN c = 1..n /\ (n = 0 => c = <<>>)
  BY LenProperties, EmptySeq DEF HeapOK
<1>2. Distinct(c) /\ Nodes(l) \subseteq live
  BY DEF HeapOK, Owned, Nodes
<1>3. /\ size[l] = n /\ (n = 0 => root[l] = Null /\ position[l] = Null)
      /\ (n > 0 => root[l] = c[1] /\ \E i \in 1..n : position[l] = c[i])
      /\ Ring(c, next, previous)
  BY DEF Whole, Ring
<1>4. n > 0 => Index(l) \in 1..n /\ position[l] = c[Index(l)]
  <2> SUFFICES ASSUME n > 0 PROVE Index(l) \in 1..n /\ position[l] = c[Index(l)]
    OBVIOUS
  <2>1. PICK i \in 1..n : position[l] = c[i]
    BY <1>3
  <2>2. Index(l) = i
    BY <1>1, <1>2, <2>1, IndexIs DEF Index
  <2> QED BY <2>1, <2>2
<1>5. n > 0 => Cursor(l) = Index(l)
  BY <1>1, <1>3 DEF Cursor
<1> QED BY <1>1, <1>2, <1>3, <1>4, <1>5

LEMMA ItemsOfIs ==
  ASSUME HeapOK, NEW l \in AllLists
  PROVE  /\ ItemsOf(l) \in Seq(Items) /\ Len(ItemsOf(l)) = Len(chain[l])
         /\ DOMAIN ItemsOf(l) = 1..Len(chain[l])
         /\ \A i \in 1..Len(chain[l]) : ItemsOf(l)[i] = item[chain[l][i]]
         /\ ItemsOf(l) = <<>> <=> chain[l] = <<>>
<1> DEFINE c == chain[l]
           n == Len(c)
<1>1. c \in Seq(Addrs) /\ n \in Nat /\ DOMAIN c = 1..n
  BY LenProperties DEF HeapOK
<1>2. \A i \in 1..n : item[c[i]] \in Items
  <2>1. \A i \in 1..n : c[i] \in live
    BY DEF HeapOK, Owned, Cells
  <2> QED BY <2>1 DEF HeapOK
<1>3. ItemsOf(l) = [i \in 1..n |-> item[c[i]]]
  BY <1>1 DEF ItemsOf
<1> HIDE DEF c, n
<1>4. ItemsOf(l) \in [1..n -> Items]
  BY <1>2, <1>3
<1>5. ItemsOf(l) \in Seq(Items) /\ Len(ItemsOf(l)) = n
  BY <1>1, <1>4, SeqDef, LenProperties
<1>6. ItemsOf(l) = <<>> <=> c = <<>>
  BY <1>1, <1>5, EmptySeq DEF n
<1> QED BY <1>3, <1>5, <1>6 DEF c, n

LEMMA IndexNext ==
  ASSUME HeapOK', NEW l \in AllLists, NEW i \in 1..Len(chain'[l]), position'[l] = chain'[l][i],
         size'[l] = Len(chain'[l])
  PROVE  Index(l)' = i /\ Cursor(l)' = i
<1>1. chain'[l] \in Seq(Addrs) /\ Distinct(chain'[l])
  BY DEF HeapOK, Owned
<1>2. Index(l)' = i
  BY <1>1, IndexIs DEF Index
<1>3. size'[l] # 0
  BY <1>1, LenProperties
<1> QED BY <1>2, <1>3 DEF Cursor

LEMMA ItemsOfNext ==
  ASSUME HeapOK', NEW l \in AllLists, NEW s \in Seq(Items), Len(s) = Len(chain'[l]),
         \A i \in 1..Len(s) : item'[chain'[l][i]] = s[i]
  PROVE  ItemsOf(l)' = s
<1> DEFINE d == chain'[l]
           n == Len(s)
<1>1. d \in Seq(Addrs) /\ DOMAIN d = 1..n /\ n \in Nat
  BY LenProperties DEF HeapOK
<1>2. ItemsOf(l)' = [i \in 1..n |-> item'[d[i]]]
  BY <1>1 DEF ItemsOf
<1>3. s \in [1..n -> Items]
  BY LenProperties
<1>4. s = [i \in 1..n |-> s[i]]
  BY <1>3
<1> HIDE DEF d, n
<1>5. \A i \in 1..n : item'[d[i]] = s[i]
  BY DEF d, n
<1> QED BY <1>2, <1>4, <1>5

-----------------------------------------------------------------------------
(* A node that is linked in in front of node j, which may be the one after  *)
(* the last.                                                                *)
LEMMA Links ==
  ASSUME HeapOK, NEW l \in AllLists, Whole(l), size[l] > 0, NEW j \in 1..(size[l] + 1),
         NEW n \in Addrs \ live, NEW x \in Items, NEW i \in 1..(size[l] + 1),
         LET q == chain[l][Predecessor(j, size[l])] IN
         /\ next' \in [Addrs -> Pointer] /\ previous' \in [Addrs -> Pointer]
         /\ \A a \in Addrs :
              /\ next'[a] = IF a = n THEN next[q] ELSE IF a = q THEN n ELSE next[a]
              /\ previous'[a] = IF a = n THEN q ELSE IF a = next[q] THEN n ELSE previous[a],
         live' = live \cup {n}, item' = [item EXCEPT ![n] = x],
         size' = [size EXCEPT ![l] = @ + 1],
         chain' = [chain EXCEPT ![l] = Abstract!InsertedAt(@, j, n)],
         root' \in [AllLists -> Pointer], position' \in [AllLists -> Pointer],
         root'[l] = IF j = 1 THEN n ELSE root[l], position'[l] = chain'[l][i],
         \A k \in AllLists : k # l => root'[k] = root[k] /\ position'[k] = position[k]
  PROVE  /\ HeapOK' /\ Whole(l)' /\ Cursor(l)' = i
         /\ ItemsOf(l)' = Abstract!InsertedAt(ItemsOf(l), j, x)
         /\ \A k \in AllLists : k # l => Same(k)
<1> DEFINE c == chain[l]
           m == Len(c)
           d == Abstract!InsertedAt(c, j, n)
           b == Predecessor(j, m)
           q == c[b]
<1>1. /\ c \in Seq(Addrs) /\ m \in Nat /\ size[l] = m /\ m > 0
      /\ Distinct(c) /\ Cells(c) \subseteq live /\ Ring(c, next, previous) /\ root[l] = c[1]
  BY WholeIs DEF Nodes
<1>2. /\ next' \in [Addrs -> Pointer] /\ previous' \in [Addrs -> Pointer]
      /\ \A a \in Addrs :
           /\ next'[a] = IF a = n THEN next[q] ELSE IF a = q THEN n ELSE next[a]
           /\ previous'[a] = IF a = n THEN q ELSE IF a = next[q] THEN n ELSE previous[a]
  BY <1>1
<1>7. chain' = [chain EXCEPT ![l] = d] /\ chain'[l] = d
  BY DEF HeapOK
<1> HIDE DEF c
<1>3. j \in 1..(m + 1) /\ b \in 1..m
  BY <1>1 DEF Predecessor
<1>4. n \notin Cells(c) /\ n \in Addrs
  BY <1>1
<1>5. d \in Seq(Addrs) /\ Len(d) = m + 1 /\ Distinct(d) /\ Cells(d) = Cells(c) \cup {n}
  BY <1>1, <1>3, <1>4, InsertedIs, InsertedDistinct
<1>6. \A a \in 1..(m + 1) : d[a] = IF a < j THEN c[a] ELSE IF a = j THEN n ELSE c[a - 1]
  <2>1. c \in Seq(Addrs) /\ j \in 1..(Len(c) + 1) /\ n \in Addrs
    BY <1>1, <1>3
  <2>2. \A a \in 1..(Len(c) + 1) : d[a] = IF a < j THEN c[a] ELSE IF a = j THEN n ELSE c[a - 1]
    BY <2>1, InsertedIs
  <2> QED BY <2>2
<1>8. live \subseteq Addrs /\ q \in Cells(c) /\ q \in live /\ next[q] \in Cells(c)
  <2>1. Successor(b, m) \in 1..m /\ next[q] = c[Successor(b, m)]
    BY <1>1, <1>3, SuccessorIn DEF Ring
  <2> QED BY <1>1, <1>3, <2>1 DEF HeapOK, Cells
<1> HIDE DEF m, d, b
<1>9. Owned(chain', live')
  <2>1. Owned([chain EXCEPT ![l] = d], live \cup {n})
    BY <1>4, <1>5, OwnedAdd DEF HeapOK, c
  <2> QED BY <1>7, <2>1
<1>10. HeapOK'
  <2>1. chain' \in [AllLists -> Seq(Addrs)]
    BY <1>5, <1>7 DEF HeapOK
  <2>2. item' \in [Addrs -> Items \cup {0}] /\ \A a \in live' : item'[a] \in Items
    BY DEF HeapOK
  <2>3. size' \in [AllLists -> Nat]
    BY DEF HeapOK
  <2>4. live' \subseteq Addrs
    BY <1>8
  <2> QED BY <1>2, <1>9, <2>1, <2>2, <2>3, <2>4 DEF HeapOK
<1>11. Ring(d, next', previous')
  <2>1. /\ next'[q] = n /\ next'[n] = next[q]
        /\ previous'[next[q]] = n /\ previous'[n] = q
        /\ \A a \in Cells(c) : /\ (a # q => next'[a] = next[a])
                               /\ (a # next[q] => previous'[a] = previous[a])
    BY <1>1, <1>2, <1>4, <1>8
  <2> QED BY <1>1, <1>3, <1>4, <2>1, RingInsert DEF c, m, d, b
<1>12. size'[l] = m + 1 /\ root'[l] = d[1] /\ i \in 1..(m + 1) /\ position'[l] = d[i]
  <2>1. d[1] = IF j = 1 THEN n ELSE c[1]
    BY <1>1, <1>3, <1>6
  <2> QED BY <1>1, <1>7, <2>1 DEF HeapOK
<1>13. Whole(l)'
  <2>1. m + 1 > 0 /\ m + 1 # 0
    BY <1>1
  <2> QED BY <1>5, <1>7, <1>11, <1>12, <2>1 DEF Whole, Ring
<1>14. Cursor(l)' = i
  BY <1>5, <1>7, <1>10, <1>12, IndexNext
<1>15. ItemsOf(l)' = Abstract!InsertedAt(ItemsOf(l), j, x)
  <2> DEFINE s == ItemsOf(l)
             t == Abstract!InsertedAt(s, j, x)
  <2>1. s \in Seq(Items) /\ Len(s) = m /\ \A a \in 1..m : s[a] = item[c[a]]
    BY ItemsOfIs DEF c, m
  <2> HIDE DEF s
  <2>2. /\ t \in Seq(Items) /\ Len(t) = m + 1
        /\ \A a \in 1..(m + 1) : t[a] = IF a < j THEN s[a] ELSE IF a = j THEN x ELSE s[a - 1]
    <3>1. s \in Seq(Items) /\ j \in 1..(Len(s) + 1) /\ x \in Items
      BY <1>3, <2>1
    <3>2. t \in Seq(Items) /\ Len(t) = Len(s) + 1
      BY <3>1, InsertedIs
    <3>3. \A a \in 1..(Len(s) + 1) :
            t[a] = IF a < j THEN s[a] ELSE IF a = j THEN x ELSE s[a - 1]
      BY <3>1, InsertedIs
    <3> QED BY <2>1, <3>2, <3>3
  <2> HIDE DEF t
  <2>3. ASSUME NEW a \in 1..(m + 1) PROVE item'[d[a]] = t[a]
    <3>1. \A e \in 1..m : item'[c[e]] = s[e]
      BY <1>1, <1>4, <2>1 DEF Cells, HeapOK, m
    <3>2. CASE a < j
      <4>1. a \in 1..m
        BY <1>1, <1>3, <3>2 DEF m
      <4> QED BY <1>6, <2>2, <3>1, <3>2, <4>1
    <3>3. CASE a = j
      <4>1. item'[n] = x
        BY <1>4 DEF HeapOK
      <4> QED BY <1>6, <2>2, <3>3, <4>1
    <3>4. CASE ~(a < j) /\ a # j
      <4>1. a - 1 \in 1..m
        BY <1>1, <1>3, <3>4
      <4> QED BY <1>6, <2>2, <3>1, <3>4, <4>1
    <3> QED BY <3>2, <3>3, <3>4
  <2>4. t \in Seq(Items) /\ Len(t) = Len(chain'[l]) /\ \A a \in 1..Len(t) : item'[chain'[l][a]] = t[a]
    BY <1>5, <1>7, <2>2, <2>3
  <2>5. ItemsOf(l)' = t
    BY <1>10, <2>4, ItemsOfNext
  <2> QED BY <2>5 DEF s, t
<1>16. ASSUME NEW k \in AllLists, k # l PROVE Same(k)
  <2>1. \A e \in AllLists : e # l => /\ chain'[e] = chain[e] /\ size'[e] = size[e]
                                     /\ root'[e] = root[e] /\ position'[e] = position[e]
    BY DEF HeapOK
  <2>2. \A a \in live : a \notin Cells(c) =>
           next'[a] = next[a] /\ previous'[a] = previous[a] /\ item'[a] = item[a]
    BY <1>2, <1>8 DEF HeapOK
  <2> QED BY <1>16, <2>1, <2>2, SameWhen DEF Nodes, c
<1> QED BY <1>10, <1>13, <1>14, <1>15, <1>16

(* The first node of a list.                                                *)
LEMMA LinksFirst ==
  ASSUME HeapOK, NEW l \in AllLists, chain[l] = <<>>, NEW n \in Addrs \ live, NEW x \in Items,
         next' = [next EXCEPT ![n] = n], previous' = [previous EXCEPT ![n] = n],
         live' = live \cup {n}, item' = [item EXCEPT ![n] = x],
         size' = [size EXCEPT ![l] = 1], chain' = [chain EXCEPT ![l] = <<n>>],
         root' = [root EXCEPT ![l] = n], position' = [position EXCEPT ![l] = n]
  PROVE  /\ HeapOK' /\ Whole(l)' /\ Cursor(l)' = 1 /\ ItemsOf(l)' = <<x>>
         /\ \A k \in AllLists : k # l => Same(k)
<1> DEFINE d == <<n>>
<1>1. chain'[l] = d /\ d \in Seq(Addrs) /\ Len(d) = 1 /\ d[1] = n /\ 1 \in 1..1
  BY DEF HeapOK
<1>2. Distinct(d) /\ Cells(d) = {n} /\ Cells(chain[l]) = {}
  BY <1>1 DEF Distinct, Cells
<1> HIDE DEF d
<1>3. Owned(chain', live')
  <2>1. Owned([chain EXCEPT ![l] = d], live \cup {n})
    BY <1>2, OwnedAdd DEF HeapOK
  <2> QED BY <2>1 DEF d
<1>4. HeapOK'
  <2>1. next' \in [Addrs -> Pointer] /\ previous' \in [Addrs -> Pointer] /\ live' \subseteq Addrs
    BY DEF HeapOK, Pointer
  <2>2. root' \in [AllLists -> Pointer] /\ position' \in [AllLists -> Pointer]
    BY DEF HeapOK, Pointer
  <2>3. size' \in [AllLists -> Nat] /\ chain' \in [AllLists -> Seq(Addrs)]
    BY <1>1 DEF HeapOK, d
  <2>4. item' \in [Addrs -> Items \cup {0}] /\ \A a \in live' : item'[a] \in Items
    BY DEF HeapOK
  <2> QED BY <1>3, <2>1, <2>2, <2>3, <2>4 DEF HeapOK
<1>5. /\ size'[l] = 1 /\ root'[l] = n /\ position'[l] = n
      /\ next'[n] = n /\ previous'[n] = n /\ item'[n] = x
  BY DEF HeapOK
<1>6. Whole(l)'
  BY <1>1, <1>5 DEF Whole, Successor
<1>7. Cursor(l)' = 1
  BY <1>1, <1>4, <1>5, IndexNext
<1>8. ItemsOf(l)' = <<x>>
  <2>1. <<x>> \in Seq(Items) /\ Len(<<x>>) = 1 /\ \A i \in 1..1 : item'[d[i]] = <<x>>[i]
    BY <1>1, <1>5
  <2> QED BY <1>1, <1>4, <2>1, ItemsOfNext
<1>9. ASSUME NEW k \in AllLists, k # l PROVE Same(k)
  <2>1. \A e \in AllLists : e # l => /\ chain'[e] = chain[e] /\ size'[e] = size[e]
                                     /\ root'[e] = root[e] /\ position'[e] = position[e]
    BY DEF HeapOK
  <2>2. \A a \in live : a \notin Nodes(l) =>
           next'[a] = next[a] /\ previous'[a] = previous[a] /\ item'[a] = item[a]
    BY DEF HeapOK
  <2> QED BY <1>9, <2>1, <2>2, SameWhen
<1> QED BY <1>4, <1>6, <1>7, <1>8, <1>9

-----------------------------------------------------------------------------
(* The node at the cursor is unlinked and freed, from two nodes on.         *)
LEMMA Unlinks ==
  ASSUME HeapOK, NEW l \in AllLists, Whole(l), size[l] > 1, Unlink(l)
  PROVE  LET j == Index(l) IN
         /\ HeapOK' /\ Whole(l)' /\ Cursor(l)' = IF j = size[l] THEN 1 ELSE j
         /\ ItemsOf(l)' = Abstract!Without(ItemsOf(l), j)
         /\ \A k \in AllLists : k # l => Same(k)
<1> DEFINE c == chain[l]
           m == Len(c)
           j == Index(l)
           d == Abstract!Without(c, j)
           p == c[j]
           s == Successor(j, m)
           b == Predecessor(j, m)
           i == IF j = m THEN 1 ELSE j
<1>1. /\ c \in Seq(Addrs) /\ m \in Nat /\ size[l] = m /\ m > 1
      /\ Distinct(c) /\ Cells(c) \subseteq live /\ Ring(c, next, previous) /\ root[l] = c[1]
      /\ j \in 1..m /\ position[l] = p
  BY WholeIs DEF Nodes
<1> HIDE DEF c, j
<1>2. s \in 1..m /\ b \in 1..m /\ b # j /\ s # j /\ next[p] = c[s] /\ previous[p] = c[b]
  <2>1. s \in 1..m /\ b \in 1..m /\ b # j /\ s # j
    BY <1>1 DEF Successor, Predecessor
  <2>2. next[p] = c[s] /\ previous[p] = c[b]
    BY <1>1, RingBack
  <2> QED BY <2>1, <2>2
<1> HIDE DEF m, s, b
<1>3. c[s] # p /\ c[b] # p /\ c[s] \in Addrs /\ c[b] \in Addrs /\ p \in Addrs /\ p \in Cells(c)
  BY <1>1, <1>2 DEF Distinct, Cells, m
<1>4. /\ size' = [size EXCEPT ![l] = m - 1]
      /\ live' = live \ {p}
      /\ next' = [[next EXCEPT ![c[b]] = c[s]] EXCEPT ![p] = Null]
      /\ previous' = [[previous EXCEPT ![c[s]] = c[b]] EXCEPT ![p] = Null]
      /\ item' = [item EXCEPT ![p] = 0]
      /\ root' = [root EXCEPT ![l] = IF p = root[l] THEN c[s] ELSE root[l]]
      /\ position' = [position EXCEPT ![l] = c[s]]
      /\ chain' = [chain EXCEPT ![l] = Abstract!Without(chain[l], Index(l))]
  <2>1. size[l] # 1 /\ size[l] = m /\ position[l] = p
    BY <1>1
  <2> QED BY <1>2, <2>1 DEF Unlink, Free
<1>5. chain' = [chain EXCEPT ![l] = d] /\ chain'[l] = d
  BY <1>4 DEF HeapOK, c, j
<1>6. d \in Seq(Addrs) /\ Len(d) = m - 1 /\ Distinct(d) /\ Cells(d) = Cells(c) \ {p}
  <2>1. d \in Seq(Addrs) /\ Len(d) = m - 1
    BY <1>1, WithoutIs DEF m
  <2>2. Distinct(d) /\ Cells(d) = Cells(c) \ {p}
    BY <1>1, WithoutDistinct DEF m
  <2> QED BY <2>1, <2>2
<1>7. \A a \in 1..(m - 1) : d[a] = IF a < j THEN c[a] ELSE c[a + 1]
  <2>1. \A a \in 1..(Len(c) - 1) : d[a] = IF a < j THEN c[a] ELSE c[a + 1]
    BY <1>1, WithoutIs DEF m
  <2> QED BY <2>1 DEF m
<1> HIDE DEF d
<1>8. Owned(chain', live')
  <2>1. Owned([chain EXCEPT ![l] = d], live \ {p})
    BY <1>3, <1>6, OwnedRemove DEF HeapOK, c
  <2> QED BY <1>4, <1>5, <2>1
<1>9. HeapOK'
  <2>1. next' \in [Addrs -> Pointer] /\ previous' \in [Addrs -> Pointer]
    <3> DEFINE f == [next EXCEPT ![c[b]] = c[s]]
               g == [previous EXCEPT ![c[s]] = c[b]]
    <3>1. f \in [Addrs -> Pointer] /\ g \in [Addrs -> Pointer]
      BY <1>3 DEF HeapOK, Pointer
    <3> HIDE DEF f, g
    <3>2. next' = [f EXCEPT ![p] = Null] /\ previous' = [g EXCEPT ![p] = Null]
      BY <1>4 DEF f, g
    <3> QED BY <3>1, <3>2 DEF Pointer
  <2>2. root' \in [AllLists -> Pointer] /\ position' \in [AllLists -> Pointer]
    BY <1>3, <1>4 DEF HeapOK, Pointer
  <2>3. size' \in [AllLists -> Nat] /\ chain' \in [AllLists -> Seq(Addrs)]
    BY <1>1, <1>4, <1>5, <1>6 DEF HeapOK
  <2>4. item' \in [Addrs -> Items \cup {0}] /\ (\A a \in live' : item'[a] \in Items)
        /\ live' \subseteq Addrs
    BY <1>4 DEF HeapOK
  <2> QED BY <1>8, <2>1, <2>2, <2>3, <2>4 DEF HeapOK
<1>10. /\ next'[c[b]] = c[s] /\ previous'[c[s]] = c[b]
       /\ \A a \in Addrs \ {p} : /\ (a # c[b] => next'[a] = next[a])
                                 /\ (a # c[s] => previous'[a] = previous[a])
                                 /\ item'[a] = item[a]
  BY <1>3, <1>4 DEF HeapOK
<1>11. Cells(c) \subseteq Addrs
  BY <1>1 DEF HeapOK
<1>12. Ring(d, next', previous')
  <2>1. /\ next'[previous[p]] = next[p] /\ previous'[next[p]] = previous[p]
        /\ \A a \in Cells(c) \ {p} : /\ (a # previous[p] => next'[a] = next[a])
                                     /\ (a # next[p] => previous'[a] = previous[a])
    BY <1>2, <1>10, <1>11
  <2> QED BY <1>1, <2>1, RingRemove DEF m, d
<1>13. /\ size'[l] = m - 1 /\ i \in 1..(m - 1) /\ position'[l] = d[i] /\ root'[l] = d[1]
  <2>1. size'[l] = m - 1 /\ position'[l] = c[s] /\ root'[l] = IF p = c[1] THEN c[s] ELSE c[1]
    BY <1>1, <1>4 DEF HeapOK
  <2>2. i \in 1..(m - 1) /\ 1 \in 1..(m - 1) /\ 1 \in 1..m
    BY <1>1
  <2>3. d[i] = c[s]
    BY <1>1, <1>7, <2>2 DEF s, Successor
  <2>4. p = c[1] <=> j = 1
    BY <1>1, <2>2 DEF Distinct, m
  <2>5. d[1] = IF j = 1 THEN c[s] ELSE c[1]
    <3>1. CASE j = 1
      <4>1. s = 2 /\ ~(1 < j) /\ 1 + 1 = 2
        BY <1>1, <3>1 DEF s, Successor
      <4> QED BY <1>7, <2>2, <3>1, <4>1
    <3>2. CASE j # 1
      <4>1. 1 < j
        BY <1>1, <3>2
      <4> QED BY <1>7, <2>2, <3>2, <4>1
    <3> QED BY <3>1, <3>2
  <2> QED BY <2>1, <2>2, <2>3, <2>4, <2>5
<1>14. Whole(l)'
  <2>1. m - 1 > 0 /\ m - 1 # 0
    BY <1>1
  <2> QED BY <1>5, <1>6, <1>12, <1>13, <2>1 DEF Whole, Ring
<1>15. Cursor(l)' = i
  BY <1>5, <1>6, <1>9, <1>13, IndexNext
<1>16. ItemsOf(l)' = Abstract!Without(ItemsOf(l), j)
  <2> DEFINE r == ItemsOf(l)
             t == Abstract!Without(r, j)
  <2>1. r \in Seq(Items) /\ Len(r) = m /\ \A a \in 1..m : r[a] = item[c[a]]
    BY ItemsOfIs DEF c, m
  <2> HIDE DEF r
  <2>2. /\ t \in Seq(Items) /\ Len(t) = m - 1
        /\ \A a \in 1..(m - 1) : t[a] = IF a < j THEN r[a] ELSE r[a + 1]
    <3>1. r \in Seq(Items) /\ j \in 1..Len(r)
      BY <1>1, <2>1
    <3>2. t \in Seq(Items) /\ Len(t) = Len(r) - 1
      BY <3>1, WithoutIs
    <3>3. \A a \in 1..(Len(r) - 1) : t[a] = IF a < j THEN r[a] ELSE r[a + 1]
      BY <3>1, WithoutIs
    <3> QED BY <2>1, <3>2, <3>3
  <2> HIDE DEF t
  <2>3. \A e \in 1..m : e # j => item'[c[e]] = r[e]
    <3>1. \A e \in 1..m : c[e] = p => e = j
      BY <1>1 DEF Distinct, m
    <3>2. \A e \in 1..m : c[e] \in Addrs
      BY <1>1 DEF m
    <3> QED BY <1>10, <2>1, <3>1, <3>2
  <2>4. ASSUME NEW a \in 1..(m - 1) PROVE item'[d[a]] = t[a]
    <3>1. CASE a < j
      <4>1. a \in 1..m /\ a # j
        BY <1>1, <3>1
      <4> QED BY <1>7, <2>2, <2>3, <3>1, <4>1
    <3>2. CASE ~(a < j)
      <4>1. a + 1 \in 1..m /\ a + 1 # j
        BY <1>1, <3>2
      <4> QED BY <1>7, <2>2, <2>3, <3>2, <4>1
    <3> QED BY <3>1, <3>2
  <2>5. t \in Seq(Items) /\ Len(t) = Len(chain'[l]) /\ \A a \in 1..Len(t) : item'[chain'[l][a]] = t[a]
    BY <1>5, <1>6, <2>2, <2>4
  <2>6. ItemsOf(l)' = t
    BY <1>9, <2>5, ItemsOfNext
  <2> QED BY <2>6 DEF r, t
<1>17. ASSUME NEW k \in AllLists, k # l PROVE Same(k)
  <2>1. \A e \in AllLists : e # l => /\ chain'[e] = chain[e] /\ size'[e] = size[e]
                                     /\ root'[e] = root[e] /\ position'[e] = position[e]
    BY <1>4 DEF HeapOK
  <2>2. c[b] \in Cells(c) /\ c[s] \in Cells(c) /\ p \in Cells(c)
    BY <1>1, <1>2 DEF Cells, m
  <2>3. \A a \in live : a \notin Nodes(l) =>
           next'[a] = next[a] /\ previous'[a] = previous[a] /\ item'[a] = item[a]
    BY <1>10, <2>2 DEF HeapOK, Nodes, c
  <2> QED BY <1>17, <2>1, <2>3, SameWhen
<1> QED BY <1>1, <1>9, <1>14, <1>15, <1>16, <1>17 DEF j

LEMMA EmptyNext ==
  ASSUME HeapOK', NEW l \in AllLists, chain'[l] = <<>>, size'[l] = 0,
         root'[l] = Null, position'[l] = Null
  PROVE  IsEmpty(l)' /\ ItemsOf(l)' = <<>> /\ Cursor(l)' = 0
<1>1. Len(chain'[l]) = 0 /\ 1..0 = {}
  OBVIOUS
<1>2. Whole(l)'
  BY <1>1 DEF Whole
<1>3. ItemsOf(l)' = <<>>
  <2>1. <<>> \in Seq(Items) /\ Len(<<>>) = 0
    OBVIOUS
  <2> QED BY <1>1, <2>1, ItemsOfNext
<1>4. Cursor(l)' = 0
  BY DEF Cursor
<1> QED BY <1>2, <1>3, <1>4 DEF IsEmpty

LEMMA UnlinksLast ==
  ASSUME HeapOK, NEW l \in AllLists, Whole(l), size[l] = 1, Unlink(l)
  PROVE  /\ HeapOK' /\ IsEmpty(l)' /\ ItemsOf(l)' = <<>> /\ Cursor(l)' = 0
         /\ \A k \in AllLists : k # l => Same(k)
<1> DEFINE c == chain[l]
           p == root[l]
           d == <<>>
<1>1. /\ c \in Seq(Addrs) /\ Len(c) = 1 /\ p = c[1] /\ 1 \in 1..1 /\ Cells(c) \subseteq live
  <2>1. Len(c) = 1 /\ c \in Seq(Addrs) /\ Nodes(l) \subseteq live
    BY WholeIs
  <2>2. p = c[1]
    BY <2>1, WholeIs
  <2> QED BY <2>1, <2>2 DEF Nodes
<1>2. Cells(c) = {p} /\ Cells(d) = {} /\ Distinct(d) /\ p \in Addrs
  BY <1>1 DEF Cells, Distinct
<1>3. /\ size' = [size EXCEPT ![l] = size[l] - 1]
      /\ live' = live \ {p}
      /\ next' = [next EXCEPT ![p] = Null] /\ previous' = [previous EXCEPT ![p] = Null]
      /\ item' = [item EXCEPT ![p] = 0]
      /\ root' = [root EXCEPT ![l] = Null] /\ position' = [position EXCEPT ![l] = Null]
      /\ chain' = [chain EXCEPT ![l] = d]
  BY DEF Unlink, Free
<1>4. Owned(chain', live')
  <2>1. Owned([chain EXCEPT ![l] = d], live \ {p})
    BY <1>2, OwnedRemove DEF HeapOK
  <2> QED BY <1>3, <2>1
<1>5. HeapOK'
  <2>1. next' \in [Addrs -> Pointer] /\ previous' \in [Addrs -> Pointer] /\ live' \subseteq Addrs
    BY <1>3 DEF HeapOK, Pointer
  <2>2. root' \in [AllLists -> Pointer] /\ position' \in [AllLists -> Pointer]
    BY <1>3 DEF HeapOK, Pointer
  <2>3. size' \in [AllLists -> Nat] /\ chain' \in [AllLists -> Seq(Addrs)]
    BY <1>3 DEF HeapOK
  <2>4. item' \in [Addrs -> Items \cup {0}] /\ \A a \in live' : item'[a] \in Items
    BY <1>3 DEF HeapOK
  <2> QED BY <1>4, <2>1, <2>2, <2>3, <2>4 DEF HeapOK
<1>6. chain'[l] = <<>> /\ size'[l] = 0 /\ root'[l] = Null /\ position'[l] = Null
  BY <1>3 DEF HeapOK
<1>7. IsEmpty(l)' /\ ItemsOf(l)' = <<>> /\ Cursor(l)' = 0
  BY <1>5, <1>6, EmptyNext
<1>8. ASSUME NEW k \in AllLists, k # l PROVE Same(k)
  <2>1. \A e \in AllLists : e # l => /\ chain'[e] = chain[e] /\ size'[e] = size[e]
                                     /\ root'[e] = root[e] /\ position'[e] = position[e]
    BY <1>3 DEF HeapOK
  <2>2. \A a \in live : a \notin Nodes(l) =>
           next'[a] = next[a] /\ previous'[a] = previous[a] /\ item'[a] = item[a]
    BY <1>2, <1>3 DEF HeapOK, Nodes
  <2> QED BY <1>8, <2>1, <2>2, SameWhen
<1> QED BY <1>5, <1>7, <1>8

-----------------------------------------------------------------------------
(* Add and Insert.                                                          *)

LEMMA AddNodeIs ==
  ASSUME HeapOK, NEW l \in AllLists, Whole(l), NEW x \in Items, NEW moves \in BOOLEAN,
         AddNode(l, x, moves)
  PROVE  LET j == Index(l) IN
         /\ HeapOK' /\ Whole(l)'
         /\ size[l] = 0 => ItemsOf(l)' = <<x>> /\ Cursor(l)' = 1
         /\ size[l] # 0 => /\ ItemsOf(l)' = Abstract!InsertedAt(ItemsOf(l), j + 1, x)
                           /\ Cursor(l)' = IF moves THEN j + 1 ELSE j
         /\ \A k \in AllLists : k # l => Same(k)
<1> DEFINE c == chain[l]
           m == Len(c)
           j == Index(l)
           p == position[l]
<1>1. PICK n \in Fresh(live) :
    LET stays == IF size[l] = 0 THEN n ELSE p
    IN
    /\ live' = live \cup {n}
    /\ item' = [item EXCEPT ![n] = x]
    /\ size' = [size EXCEPT ![l] = @ + 1]
    /\ IF size[l] = 0
       THEN /\ next' = [next EXCEPT ![n] = n]
            /\ previous' = [previous EXCEPT ![n] = n]
            /\ root' = [root EXCEPT ![l] = n]
            /\ chain' = [chain EXCEPT ![l] = <<n>>]
       ELSE /\ next' = [next EXCEPT ![n] = next[p], ![p] = n]
            /\ previous' = [previous EXCEPT ![n] = p, ![next[p]] = n]
            /\ chain' = [chain EXCEPT ![l] = Abstract!InsertedAt(@, Index(l) + 1, n)]
            /\ UNCHANGED root
    /\ position' = [position EXCEPT ![l] = IF moves THEN next'[stays] ELSE stays]
  BY DEF AddNode
<1>2. n \in Addrs \ live
  BY FreshAssumption DEF HeapOK
<1>3. c \in Seq(Addrs) /\ m \in Nat /\ size[l] = m /\ (m = 0 => c = <<>>)
  BY WholeIs
<1>4. CASE size[l] = 0
  <2>1. /\ next' = [next EXCEPT ![n] = n] /\ previous' = [previous EXCEPT ![n] = n]
        /\ live' = live \cup {n} /\ item' = [item EXCEPT ![n] = x]
        /\ size' = [size EXCEPT ![l] = 1] /\ chain' = [chain EXCEPT ![l] = <<n>>]
        /\ root' = [root EXCEPT ![l] = n]
    BY <1>1, <1>4
  <2>2. position' = [position EXCEPT ![l] = n]
    <3>1. next'[n] = n
      BY <1>2, <2>1 DEF HeapOK
    <3> QED BY <1>1, <1>4, <3>1
  <2>3. chain[l] = <<>>
    BY <1>3, <1>4
  <2> QED BY <1>2, <1>4, <2>1, <2>2, <2>3, LinksFirst
<1>5. CASE size[l] # 0
  <2>1. /\ j \in 1..m /\ p = c[j] /\ m > 0 /\ Cells(c) \subseteq live /\ Ring(c, next, previous)
    BY <1>3, <1>5, WholeIs DEF Nodes
  <2>2. /\ next' = [[next EXCEPT ![n] = next[p]] EXCEPT ![p] = n]
        /\ previous' = [[previous EXCEPT ![n] = p] EXCEPT ![next[p]] = n]
        /\ chain' = [chain EXCEPT ![l] = Abstract!InsertedAt(@, j + 1, n)]
        /\ root' = root
        /\ live' = live \cup {n} /\ item' = [item EXCEPT ![n] = x]
        /\ size' = [size EXCEPT ![l] = @ + 1]
        /\ position' = [position EXCEPT ![l] = IF moves THEN next'[p] ELSE p]
    BY <1>1, <1>5
  <2> HIDE DEF c, j
  <2>3. p \in live /\ next[p] \in live /\ live \subseteq Addrs
    <3>1. Successor(j, m) \in 1..m /\ next[p] = c[Successor(j, m)]
      BY <1>3, <2>1, SuccessorIn DEF Ring
    <3> QED BY <2>1, <3>1 DEF HeapOK, Cells
  <2>4. /\ next' \in [Addrs -> Pointer] /\ previous' \in [Addrs -> Pointer]
        /\ \A a \in Addrs :
             /\ next'[a] = IF a = n THEN next[p] ELSE IF a = p THEN n ELSE next[a]
             /\ previous'[a] = IF a = n THEN p ELSE IF a = next[p] THEN n ELSE previous[a]
    <3> DEFINE f == [next EXCEPT ![n] = next[p]]
               g == [previous EXCEPT ![n] = p]
    <3>1. /\ f \in [Addrs -> Pointer] /\ g \in [Addrs -> Pointer]
          /\ \A a \in Addrs : /\ f[a] = IF a = n THEN next[p] ELSE next[a]
                              /\ g[a] = IF a = n THEN p ELSE previous[a]
      BY <1>2, <2>3 DEF HeapOK, Pointer
    <3> HIDE DEF f, g
    <3>2. next' = [f EXCEPT ![p] = n] /\ previous' = [g EXCEPT ![next[p]] = n]
      BY <2>2 DEF f, g
    <3> QED BY <1>2, <2>3, <3>1, <3>2 DEF Pointer
  <2>5. Predecessor(j + 1, size[l]) = j /\ j + 1 # 1 /\ j + 1 \in 1..(size[l] + 1)
        /\ j \in 1..(size[l] + 1) /\ chain[l][j] = p
    BY <1>3, <2>1 DEF Predecessor, c
  <2> DEFINE i == IF moves THEN j + 1 ELSE j
  <2>6. i \in 1..(size[l] + 1)
    BY <2>5
  <2>7. chain'[l] = Abstract!InsertedAt(c, j + 1, n)
    BY <2>2 DEF HeapOK, c
  <2>8. chain'[l][j] = p /\ chain'[l][j + 1] = n
    <3>1. j + 1 \in 1..(Len(c) + 1) /\ j \in 1..(Len(c) + 1) /\ n \in Addrs /\ j < j + 1
      BY <1>2, <1>3, <2>5
    <3> DEFINE h == j + 1
    <3> HIDE DEF h
    <3>2. \A a \in 1..(Len(c) + 1) : Abstract!InsertedAt(c, h, n)[a] =
             IF a < h THEN c[a] ELSE IF a = h THEN n ELSE c[a - 1]
      BY DEF Abstract!InsertedAt
    <3> QED BY <2>1, <2>7, <3>1, <3>2 DEF h
  <2>9. position'[l] = chain'[l][i] /\ position' \in [AllLists -> Pointer]
    <3>1. next'[p] = n
      BY <1>2, <2>3, <2>4
    <3>2. position' = [position EXCEPT ![l] = IF moves THEN n ELSE p]
      BY <2>2, <3>1
    <3> QED BY <1>2, <2>3, <2>8, <3>2 DEF HeapOK, Pointer
  <2>10. /\ root' \in [AllLists -> Pointer] /\ root'[l] = IF j + 1 = 1 THEN n ELSE root[l]
         /\ \A k \in AllLists : k # l => root'[k] = root[k] /\ position'[k] = position[k]
    BY <2>2, <2>5 DEF HeapOK
  <2> DEFINE h == j + 1
  <2> HIDE DEF h, i, p
  <2>11. /\ HeapOK' /\ Whole(l)' /\ Cursor(l)' = i
         /\ ItemsOf(l)' = Abstract!InsertedAt(ItemsOf(l), h, x)
         /\ \A k \in AllLists : k # l => Same(k)
    <3>1. h \in 1..(size[l] + 1) /\ i \in 1..(size[l] + 1) /\ size[l] > 0
      BY <1>3, <2>1, <2>5, <2>6 DEF h
    <3>2. chain[l][Predecessor(h, size[l])] = p
      BY <2>5 DEF h
    <3>3. /\ chain' = [chain EXCEPT ![l] = Abstract!InsertedAt(@, h, n)]
          /\ root'[l] = IF h = 1 THEN n ELSE root[l]
      BY <2>2, <2>10 DEF h
    <3>4. LET q == chain[l][Predecessor(h, size[l])] IN
          /\ next' \in [Addrs -> Pointer] /\ previous' \in [Addrs -> Pointer]
          /\ \A a \in Addrs :
               /\ next'[a] = IF a = n THEN next[q] ELSE IF a = q THEN n ELSE next[a]
               /\ previous'[a] = IF a = n THEN q ELSE IF a = next[q] THEN n ELSE previous[a]
      BY <2>4, <3>2
    <3>5. /\ live' = live \cup {n} /\ item' = [item EXCEPT ![n] = x]
          /\ size' = [size EXCEPT ![l] = @ + 1]
      BY <2>2
    <3>6. root' \in [AllLists -> Pointer] /\ position' \in [AllLists -> Pointer]
      BY <2>9, <2>10
    <3>7. \A k \in AllLists : k # l => root'[k] = root[k] /\ position'[k] = position[k]
      BY <2>10
    <3>8. position'[l] = chain'[l][i]
      BY <2>9
    <3> QED BY <1>2, <3>1, <3>3, <3>4, <3>5, <3>6, <3>7, <3>8, Links, ZenonT(60)
  <2> QED BY <1>5, <2>11 DEF h, i, j
<1> QED BY <1>4, <1>5

LEMMA InsertIs ==
  ASSUME HeapOK, NEW l \in Lists, Whole(l), NEW x \in Items, Insert(l, x)
  PROVE  LET j == Index(l) IN
         /\ HeapOK' /\ Whole(l)'
         /\ size[l] = 0 => ItemsOf(l)' = <<x>> /\ Cursor(l)' = 1
         /\ size[l] # 0 => /\ ItemsOf(l)' = Abstract!InsertedAt(ItemsOf(l), j, x)
                           /\ Cursor(l)' = IF j = 1 THEN 1 ELSE j + 1
         /\ \A k \in AllLists : k # l => Same(k)
<1> DEFINE c == chain[l]
           m == Len(c)
           j == Index(l)
           p == position[l]
           q == previous[p]
<1>1. PICK n \in Fresh(live) :
       /\ live' = live \cup {n}
       /\ item' = [item EXCEPT ![n] = x]
       /\ size' = [size EXCEPT ![l] = @ + 1]
       /\ IF size[l] = 0
          THEN /\ next' = [next EXCEPT ![n] = n]
               /\ previous' = [previous EXCEPT ![n] = n]
               /\ root' = [root EXCEPT ![l] = n]
               /\ position' = [position EXCEPT ![l] = n]
               /\ chain' = [chain EXCEPT ![l] = <<n>>]
          ELSE /\ next' = [next EXCEPT ![q] = n, ![n] = p]
               /\ previous' = [previous EXCEPT ![n] = q, ![p] = n]
               /\ root' = [root EXCEPT ![l] = IF p = @ THEN n ELSE @]
               /\ position' = [position EXCEPT ![l] = IF p = root[l] THEN n ELSE @]
               /\ chain' = [chain EXCEPT ![l] = Abstract!InsertedAt(@, Index(l), n)]
  BY DEF Insert
<1>2. n \in Addrs \ live /\ l \in AllLists
  BY FreshAssumption DEF HeapOK, AllLists
<1>3. c \in Seq(Addrs) /\ m \in Nat /\ size[l] = m /\ (m = 0 => c = <<>>)
  BY <1>2, WholeIs
<1>4. CASE size[l] = 0
  <2>1. /\ next' = [next EXCEPT ![n] = n] /\ previous' = [previous EXCEPT ![n] = n]
        /\ live' = live \cup {n} /\ item' = [item EXCEPT ![n] = x]
        /\ size' = [size EXCEPT ![l] = 1] /\ chain' = [chain EXCEPT ![l] = <<n>>]
        /\ root' = [root EXCEPT ![l] = n] /\ position' = [position EXCEPT ![l] = n]
    BY <1>1, <1>4
  <2>2. chain[l] = <<>>
    BY <1>3, <1>4
  <2> QED BY <1>2, <1>4, <2>1, <2>2, LinksFirst
<1>5. CASE size[l] # 0
  <2>1. /\ j \in 1..m /\ p = c[j] /\ m > 0 /\ Cells(c) \subseteq live
        /\ Ring(c, next, previous) /\ Distinct(c) /\ root[l] = c[1]
    BY <1>2, <1>3, <1>5, WholeIs DEF Nodes
  <2>2. /\ next' = [[next EXCEPT ![q] = n] EXCEPT ![n] = p]
        /\ previous' = [[previous EXCEPT ![n] = q] EXCEPT ![p] = n]
        /\ root' = [root EXCEPT ![l] = IF p = root[l] THEN n ELSE root[l]]
        /\ position' = [position EXCEPT ![l] = IF p = root[l] THEN n ELSE p]
        /\ chain' = [chain EXCEPT ![l] = Abstract!InsertedAt(@, j, n)]
    BY <1>1, <1>5
  <2>3. live' = live \cup {n} /\ item' = [item EXCEPT ![n] = x]
        /\ size' = [size EXCEPT ![l] = @ + 1]
    BY <1>1
  <2> HIDE DEF c, j
  <2>4. /\ p \in live /\ q \in live /\ live \subseteq Addrs
        /\ q = c[Predecessor(j, m)] /\ next[q] = p /\ m \in Nat
    <3>1. Predecessor(j, m) \in 1..m /\ Successor(Predecessor(j, m), m) = j
      BY <1>3, <2>1 DEF Predecessor, Successor
    <3>2. q = c[Predecessor(j, m)]
      BY <1>3, <2>1, RingBack
    <3>3. next[q] = p
      BY <2>1, <3>1, <3>2 DEF Ring
    <3> QED BY <1>3, <2>1, <3>1, <3>2, <3>3 DEF HeapOK, Cells
  <2>5. p = c[1] <=> j = 1
    BY <1>3, <2>1 DEF Distinct
  <2> HIDE DEF p, q
  <2>6. /\ next' \in [Addrs -> Pointer] /\ previous' \in [Addrs -> Pointer]
        /\ \A a \in Addrs :
             /\ next'[a] = IF a = n THEN next[q] ELSE IF a = q THEN n ELSE next[a]
             /\ previous'[a] = IF a = n THEN q ELSE IF a = next[q] THEN n ELSE previous[a]
    <3> DEFINE f == [next EXCEPT ![q] = n]
               g == [previous EXCEPT ![n] = q]
    <3>1. /\ f \in [Addrs -> Pointer] /\ g \in [Addrs -> Pointer]
          /\ \A a \in Addrs : /\ f[a] = IF a = q THEN n ELSE next[a]
                              /\ g[a] = IF a = n THEN q ELSE previous[a]
      BY <1>2, <2>4 DEF HeapOK, Pointer
    <3> HIDE DEF f, g
    <3>2. next' = [f EXCEPT ![n] = p] /\ previous' = [g EXCEPT ![p] = n]
      BY <2>2 DEF f, g
    <3> QED BY <1>2, <2>4, <3>1, <3>2 DEF Pointer
  <2> DEFINE i == IF j = 1 THEN 1 ELSE j + 1
  <2>7. /\ j \in 1..(size[l] + 1) /\ i \in 1..(size[l] + 1) /\ size[l] > 0
        /\ chain[l][Predecessor(j, size[l])] = q
    BY <1>3, <2>1, <2>4 DEF c
  <2>8. chain'[l][i] = IF j = 1 THEN n ELSE p
    <3>1. chain'[l] = Abstract!InsertedAt(c, j, n)
      BY <1>2, <2>2 DEF HeapOK, c
    <3>2. Abstract!InsertedAt(c, j, n)[i] = IF i < j THEN c[i] ELSE IF i = j THEN n ELSE c[i - 1]
      BY <1>3, <2>7 DEF Abstract!InsertedAt
    <3> QED BY <1>3, <2>1, <3>1, <3>2 DEF p
  <2>9. /\ root' \in [AllLists -> Pointer] /\ position' \in [AllLists -> Pointer]
        /\ root'[l] = IF j = 1 THEN n ELSE root[l]
        /\ position'[l] = chain'[l][i]
    BY <1>2, <2>1, <2>2, <2>4, <2>5, <2>8 DEF HeapOK, Pointer
  <2>10. \A k \in AllLists : k # l => root'[k] = root[k] /\ position'[k] = position[k]
    BY <1>2, <2>2 DEF HeapOK
  <2> HIDE DEF i
  <2>11. LET r == chain[l][Predecessor(j, size[l])] IN
          /\ next' \in [Addrs -> Pointer] /\ previous' \in [Addrs -> Pointer]
          /\ \A a \in Addrs :
               /\ next'[a] = IF a = n THEN next[r] ELSE IF a = r THEN n ELSE next[a]
               /\ previous'[a] = IF a = n THEN r ELSE IF a = next[r] THEN n ELSE previous[a]
    BY <2>6, <2>7
  <2>12. chain' = [chain EXCEPT ![l] = Abstract!InsertedAt(@, j, n)]
    BY <2>2
  <2>13. /\ HeapOK' /\ Whole(l)' /\ Cursor(l)' = i
         /\ ItemsOf(l)' = Abstract!InsertedAt(ItemsOf(l), j, x)
         /\ \A k \in AllLists : k # l => Same(k)
    BY <1>2, <2>3, <2>7, <2>9, <2>10, <2>11, <2>12, Links
  <2> QED BY <1>5, <2>13 DEF i, j
<1> QED BY <1>4, <1>5

LEMMA ReplaceIs ==
  ASSUME HeapOK, NEW l \in AllLists, Whole(l), size[l] > 0, NEW x \in Items,
         item' = [item EXCEPT ![position[l]] = x], UNCHANGED <<next, previous, live, objects>>
  PROVE  /\ HeapOK' /\ Whole(l)' /\ Cursor(l)' = Cursor(l)
         /\ ItemsOf(l)' = [ItemsOf(l) EXCEPT ![Index(l)] = x]
         /\ \A k \in AllLists : k # l => Same(k)
<1> DEFINE c == chain[l]
           m == Len(c)
           j == Index(l)
           p == c[j]
           s == ItemsOf(l)
           t == [s EXCEPT ![j] = x]
<1>1. /\ c \in Seq(Addrs) /\ m \in Nat /\ j \in 1..m /\ position[l] = p
      /\ Distinct(c) /\ Cells(c) \subseteq live
  BY WholeIs DEF Nodes
<1>2. s \in Seq(Items) /\ Len(s) = m /\ (\A i \in 1..m : s[i] = item[c[i]])
  BY ItemsOfIs
<1>3. /\ next' = next /\ previous' = previous /\ live' = live
      /\ root' = root /\ position' = position /\ size' = size /\ chain' = chain
  BY DEF objects
<1> HIDE DEF c, j, s
<1>4. p \in live /\ live \subseteq Addrs
  BY <1>1 DEF Cells, HeapOK
<1>5. item' = [item EXCEPT ![p] = x]
  BY <1>1
<1>6. HeapOK'
  <2>1. item' \in [Addrs -> Items \cup {0}] /\ \A a \in live' : item'[a] \in Items
    BY <1>3, <1>4, <1>5 DEF HeapOK
  <2>2. Owned(chain', live')
    BY <1>3 DEF HeapOK
  <2> QED BY <1>3, <2>1, <2>2 DEF HeapOK
<1>7. Whole(l)'
  BY <1>3 DEF Whole
<1>8. Cursor(l)' = Cursor(l)
  BY <1>3 DEF Cursor, Index
<1>9. ItemsOf(l)' = t
  <2>1. t \in [1..m -> Items]
    <3>1. s \in [1..m -> Items]
      BY <1>2, LenProperties
    <3> QED BY <3>1
  <2>2. t \in Seq(Items) /\ Len(t) = m
    <3> HIDE DEF t, m
    <3>1. t \in Seq(Items)
      BY <1>1, <2>1, SeqDef
    <3> QED BY <1>1, <2>1, <3>1, LenProperties
  <2>3. ASSUME NEW i \in 1..m PROVE item'[c[i]] = t[i]
    <3>1. DOMAIN s = 1..m
      BY <1>2, LenProperties
    <3>2. c[i] = p => i = j
      BY <1>1 DEF Distinct
    <3>3. c[i] \in Addrs
      BY <1>1
    <3>4. item'[c[i]] = IF c[i] = p THEN x ELSE item[c[i]]
      BY <1>5, <3>3 DEF HeapOK
    <3>5. t[i] = IF i = j THEN x ELSE s[i]
      BY <3>1
    <3> QED BY <1>2, <3>2, <3>4, <3>5
  <2> HIDE DEF t, m
  <2>4. Len(t) = Len(chain'[l]) /\ \A i \in 1..Len(t) : item'[chain'[l][i]] = t[i]
    BY <1>3, <2>2, <2>3 DEF c, m
  <2> QED BY <1>6, <2>2, <2>4, ItemsOfNext
<1>10. ASSUME NEW k \in AllLists, k # l PROVE Same(k)
  <2>1. \A a \in live : a \notin Nodes(l) =>
           next'[a] = next[a] /\ previous'[a] = previous[a] /\ item'[a] = item[a]
    BY <1>1, <1>3, <1>4, <1>5 DEF Nodes, Cells, HeapOK, c
  <2> QED BY <1>3, <1>10, <2>1, SameWhen
<1> QED BY <1>6, <1>7, <1>8, <1>9, <1>10 DEF t, s, j

LEMMA MoveIs ==
  ASSUME HeapOK, NEW l \in AllLists, Whole(l), NEW i \in 1..Len(chain[l]),
         position' = [position EXCEPT ![l] = chain[l][i]], UNCHANGED <<heap, root, size, chain>>
  PROVE  /\ HeapOK' /\ Whole(l)' /\ Cursor(l)' = i /\ Index(l)' = i /\ ItemsOf(l)' = ItemsOf(l)
         /\ \A k \in AllLists : k # l => Same(k)
<1>1. /\ next' = next /\ previous' = previous /\ item' = item /\ live' = live
      /\ root' = root /\ size' = size /\ chain' = chain
  BY DEF heap
<1>2. chain[l] \in Seq(Addrs) /\ Len(chain[l]) \in Nat /\ size[l] = Len(chain[l])
  BY WholeIs
<1>3. chain[l][i] \in Addrs /\ position'[l] = chain[l][i]
  BY <1>2 DEF HeapOK
<1>4. HeapOK'
  <2>1. position' \in [AllLists -> Pointer]
    BY <1>3 DEF HeapOK, Pointer
  <2>2. Owned(chain', live')
    BY <1>1 DEF HeapOK
  <2> QED BY <1>1, <2>1, <2>2 DEF HeapOK
<1>5. Whole(l)'
  <2>1. Len(chain[l]) > 0
    BY <1>2
  <2> QED BY <1>1, <1>3, <2>1 DEF Whole
<1>6. Cursor(l)' = i /\ Index(l)' = i
  BY <1>1, <1>2, <1>3, <1>4, IndexNext
<1>7. ItemsOf(l)' = ItemsOf(l)
  BY <1>1 DEF ItemsOf
<1>8. ASSUME NEW k \in AllLists, k # l PROVE Same(k)
  BY <1>1, <1>8 DEF Same, HeapOK
<1> QED BY <1>4, <1>5, <1>6, <1>7, <1>8

LEMMA Neighbours ==
  ASSUME HeapOK, NEW l \in AllLists, Whole(l), size[l] # 0
  PROVE  LET c == chain[l]  n == Len(c)  j == Index(l) IN
         /\ j \in 1..n /\ n \in Nat /\ Successor(j, n) \in 1..n /\ Predecessor(j, n) \in 1..n
         /\ position[l] = c[j] /\ root[l] = c[1]
         /\ next[position[l]] = c[Successor(j, n)] /\ previous[position[l]] = c[Predecessor(j, n)]
         /\ previous[root[l]] = c[n] /\ (next[position[l]] = root[l] <=> j = n)
         /\ (position[l] = root[l] <=> j = 1)
<1> DEFINE c == chain[l]
           n == Len(c)
           j == Index(l)
<1>1. /\ c \in Seq(Addrs) /\ n \in Nat /\ n > 0 /\ j \in 1..n /\ position[l] = c[j]
      /\ root[l] = c[1] /\ Distinct(c) /\ Ring(c, next, previous)
  BY WholeIs
<1> HIDE DEF c, j
<1>2. Successor(j, n) \in 1..n /\ Predecessor(j, n) \in 1..n /\ 1 \in 1..n /\ Predecessor(1, n) = n
  BY <1>1 DEF Successor, Predecessor
<1>3. \A i \in 1..n : next[c[i]] = c[Successor(i, n)] /\ previous[c[i]] = c[Predecessor(i, n)]
  BY <1>1, RingBack
<1>4. previous[root[l]] = c[n]
  BY <1>1, <1>2, <1>3
<1>5. \A i \in 1..n : c[i] = c[1] <=> i = 1
  BY <1>1, <1>2 DEF Distinct
<1>6. Successor(j, n) = 1 <=> j = n
  BY <1>1 DEF Successor
<1> QED BY <1>1, <1>2, <1>3, <1>4, <1>5, <1>6 DEF c, j

-----------------------------------------------------------------------------
(* Calls of one step.                                                       *)

LEMMA RestAfter ==
  ASSUME HeapOK, Resting, NEW l \in Lists, UNCHANGED <<todo, current>>, HeapOK', Whole(l)',
         \A k \in AllLists : k # l => Same(k)
  PROVE  /\ Resting' /\ Idle /\ Idle'
         /\ Contents' = [Contents EXCEPT ![l] = ItemsOf(l)']
         /\ Cursors' = [Cursors EXCEPT ![l] = Cursor(l)']
<1>1. /\ Idle /\ current = Null /\ \A k \in Lists : Whole(k)
      /\ Whole(Temp) /\ chain[Temp] = <<>>
  BY DEF Resting, IsEmpty
<1>2. Lists \subseteq AllLists /\ Temp \in AllLists /\ Temp # l
  BY ListAssumption DEF AllLists
<1>3. \A k \in AllLists : k # l => /\ Cursor(k)' = Cursor(k) /\ ItemsOf(k)' = ItemsOf(k)
                                   /\ Whole(k) => Whole(k)'
  BY SameIs
<1>4. IsEmpty(Temp)'
  <2>1. Same(Temp)
    BY <1>2
  <2>2. chain'[Temp] = <<>>
    BY <1>1, <2>1 DEF Same
  <2> QED BY <1>1, <1>2, <1>3, <2>2 DEF IsEmpty
<1>5. \A k \in Lists : Whole(k)'
  BY <1>1, <1>2, <1>3
<1>6. Resting'
  BY <1>1, <1>4, <1>5 DEF Resting, Idle
<1>7. Contents' = [Contents EXCEPT ![l] = ItemsOf(l)']
  <2>1. Contents' = [k \in Lists |-> ItemsOf(k)'] /\ Contents = [k \in Lists |-> ItemsOf(k)]
    BY DEF Contents
  <2>2. \A k \in Lists : k # l => ItemsOf(k)' = ItemsOf(k)
    BY <1>2, <1>3
  <2> QED BY <2>1, <2>2
<1>8. Cursors' = [Cursors EXCEPT ![l] = Cursor(l)']
  <2>1. Cursors' = [k \in Lists |-> Cursor(k)'] /\ Cursors = [k \in Lists |-> Cursor(k)]
    BY DEF Cursors, Cursor
  <2>2. \A k \in Lists : k # l => Cursor(k)' = Cursor(k)
    BY <1>2, <1>3
  <2> QED BY <2>1, <2>2
<1> QED BY <1>1, <1>6, <1>7, <1>8 DEF Idle

USE DEF Shown, ShownCursors

LEMMA Seen ==
  ASSUME NEW l \in Lists
  PROVE  Contents[l] = ItemsOf(l) /\ Cursors[l] = Cursor(l)
BY DEF Contents, Cursors, Cursor

LEMMA SeenAs ==
  Contents = [k \in Lists |-> ItemsOf(k)] /\ Cursors = [k \in Lists |-> Cursor(k)]
BY DEF Contents, Cursors, Cursor

LEMMA SeenUnchanged ==
  ASSUME UNCHANGED <<item, position, size, chain>>
  PROVE  Contents' = Contents /\ Cursors' = Cursors
BY DEF Contents, Cursors, ItemsOf, Index

LEMMA Becomes ==
  ASSUME Idle, Idle', NEW l, NEW s, NEW c,
         Contents' = [Contents EXCEPT ![l] = s], Cursors' = [Cursors EXCEPT ![l] = c]
  PROVE  Abstract!Become(l, s, c)
BY DEF Abstract!Become

LEMMA CurrentItem ==
  ASSUME HeapOK, NEW l \in AllLists, Whole(l), size[l] # 0
  PROVE  /\ item[position[l]] = ItemsOf(l)[Cursor(l)] /\ item[position[l]] \in Items
         /\ Cursor(l) \in 1..Len(ItemsOf(l)) /\ Cursor(l) = Index(l)
         /\ ItemsOf(l) # <<>> /\ Len(ItemsOf(l)) = size[l]
<1> DEFINE c == chain[l]
           n == Len(c)
           j == Index(l)
           s == ItemsOf(l)
<1>1. /\ n \in Nat /\ n > 0 /\ j \in 1..n /\ position[l] = c[j] /\ Cursor(l) = j /\ size[l] = n
  BY WholeIs
<1>2. s \in Seq(Items) /\ Len(s) = n /\ \A i \in 1..n : s[i] = item[c[i]]
  BY ItemsOfIs
<1> HIDE DEF c, j, s
<1>3. s[j] \in Items /\ s # <<>>
  BY <1>1, <1>2, ElementOfSeq, EmptySeq
<1> QED BY <1>1, <1>2, <1>3 DEF s, j

LEMMA CurrentItemNext ==
  ASSUME NEW l \in AllLists
  PROVE  (HeapOK /\ Whole(l) /\ size[l] # 0
            => item[position[l]] = ItemsOf(l)[Cursor(l)] /\ item[position[l]] \in Items)'
<1>1. HeapOK /\ Whole(l) /\ size[l] # 0
        => item[position[l]] = ItemsOf(l)[Cursor(l)] /\ item[position[l]] \in Items
  BY CurrentItem
<1> QED BY <1>1, PTL

(* What such a call leaves behind, and which step of CursorList it is.      *)
Rests ==
  /\ HeapOK' /\ Resting' /\ PromisedOrNamed
  /\ value' \in Items \cup {0} /\ found' \in BOOLEAN /\ done' \in Calls

LEMMA InsertStep ==
  ASSUME HeapOK, Resting, NEW l \in Lists, NEW x \in Items, Insert(l, x)
  PROVE  Rests
<1> DEFINE j == Index(l)
           s == ItemsOf(l)
<1>1. l \in AllLists /\ Whole(l) /\ UNCHANGED <<todo, current>>
  BY DEF AllLists, Resting, Insert, registers
<1>2. /\ HeapOK' /\ Whole(l)'
      /\ (size[l] = 0 => ItemsOf(l)' = <<x>> /\ Cursor(l)' = 1)
      /\ (size[l] # 0 => /\ ItemsOf(l)' = Abstract!InsertedAt(s, j, x)
                         /\ Cursor(l)' = IF j = 1 THEN 1 ELSE j + 1)
      /\ \A k \in AllLists : k # l => Same(k)
  BY <1>1, InsertIs
<1>3. /\ Resting' /\ Idle /\ Idle'
      /\ Contents' = [Contents EXCEPT ![l] = ItemsOf(l)']
      /\ Cursors' = [Cursors EXCEPT ![l] = Cursor(l)']
  BY <1>1, <1>2, RestAfter
<1>4. Contents[l] = s /\ Cursors[l] = Cursor(l)
  BY Seen
<1>5. s \in Seq(Items) /\ Len(s) = size[l] /\ (size[l] = 0 => s = <<>>)
      /\ (size[l] = 0 => Cursor(l) = 0) /\ (size[l] # 0 => Cursor(l) = j /\ j \in 1..size[l])
  BY <1>1, ItemsOfIs, WholeIs DEF Cursor
<1> HIDE DEF j, s
<1>6. IF Cursor(l) <= 1 THEN Abstract!Become(l, <<x>> \o s, 1)
      ELSE Abstract!Become(l, Abstract!InsertedAt(s, Cursor(l), x), Cursor(l) + 1)
  <2>1. Abstract!Become(l, ItemsOf(l)', Cursor(l)')
    BY <1>3, Becomes
  <2>2. CASE size[l] = 0
    <3>1. Cursor(l) <= 1 /\ <<x>> \o s = <<x>>
      BY <1>5, <2>2
    <3> QED BY <1>2, <2>1, <2>2, <3>1
  <2>3. CASE size[l] # 0 /\ j = 1
    <3>1. Cursor(l) <= 1
      BY <1>5, <2>3
    <3>2. Abstract!InsertedAt(s, 1, x) = <<x>> \o s
      <4> DEFINE n == Len(s)
      <4>1. n \in Nat
        BY <1>5
      <4>2. Abstract!InsertedAt(s, 1, x) =
              [k \in 1..(n + 1) |-> IF k < 1 THEN s[k] ELSE IF k = 1 THEN x ELSE s[k - 1]]
        BY DEF Abstract!InsertedAt
      <4>3. <<x>> \in Seq(Items) /\ Len(<<x>>) = 1 /\ <<x>>[1] = x
        OBVIOUS
      <4>4. /\ <<x>> \o s \in Seq(Items) /\ Len(<<x>> \o s) = 1 + n
            /\ \A k \in 1..(1 + n) : (<<x>> \o s)[k] = IF k <= 1 THEN <<x>>[k] ELSE s[k - 1]
        BY <1>5, <4>3, ConcatProperties
      <4> DEFINE t == <<x>> \o s
      <4>8. t \in Seq(Items) /\ Len(t) = n + 1
        BY <4>1, <4>4
      <4> HIDE DEF t, n
      <4>5. DOMAIN t = 1..(n + 1) /\ t \in [1..(n + 1) -> Items]
        BY <4>8, LenProperties
      <4>6. \A k \in 1..(n + 1) : t[k] = IF k < 1 THEN s[k] ELSE IF k = 1 THEN x ELSE s[k - 1]
        BY <4>1, <4>3, <4>4 DEF t, n
      <4>7. t = [k \in 1..(n + 1) |-> IF k < 1 THEN s[k] ELSE IF k = 1 THEN x ELSE s[k - 1]]
        BY <4>5, <4>6
      <4> QED BY <4>2, <4>7 DEF t
    <3> QED BY <1>2, <2>1, <2>3, <3>1, <3>2
  <2>4. CASE size[l] # 0 /\ j # 1
    <3>1. ~(Cursor(l) <= 1) /\ Cursor(l) = j
      BY <1>5, <2>4
    <3> QED BY <1>2, <2>1, <2>4, <3>1
  <2> QED BY <2>2, <2>3, <2>4
<1>7. /\ done' = "Insert" /\ value' = 0 /\ found' = FALSE
  BY DEF Insert, NoResult, Returns
<1>8. Abstract!Insert(l, x)
  BY <1>3, <1>4, <1>6, <1>7 DEF Abstract!Insert, Abstract!NoResult, Abstract!Returns
<1>9. PromisedOrNamed
  BY <1>8 DEF Abstract!Next, PromisedOrNamed
<1>10. value' \in Items \cup {0} /\ found' \in BOOLEAN /\ done' \in Calls
  BY <1>7 DEF Calls
<1> QED BY <1>2, <1>3, <1>9, <1>10, Zenon DEF Rests

LEMMA AddStep ==
  ASSUME HeapOK, Resting, NEW l \in Lists, NEW x \in Items, Add(l, x)
  PROVE  Rests
<1> DEFINE j == Index(l)
           s == ItemsOf(l)
           v == IF size[l] = 1 THEN item'[position'[l]] ELSE x
<1>1. l \in AllLists /\ Whole(l) /\ UNCHANGED <<todo, current>> /\ AddNode(l, x, FALSE)
      /\ done' = "Add" /\ value' = v /\ found' = FALSE
  BY DEF AllLists, Resting, Add, registers, Returns
<1>2. /\ HeapOK' /\ Whole(l)'
      /\ (size[l] = 0 => ItemsOf(l)' = <<x>> /\ Cursor(l)' = 1)
      /\ (size[l] # 0 => /\ ItemsOf(l)' = Abstract!InsertedAt(s, j + 1, x)
                         /\ Cursor(l)' = j)
      /\ \A k \in AllLists : k # l => Same(k)
  BY <1>1, AddNodeIs
<1>3. /\ Resting' /\ Idle /\ Idle'
      /\ Contents' = [Contents EXCEPT ![l] = ItemsOf(l)']
      /\ Cursors' = [Cursors EXCEPT ![l] = Cursor(l)']
  BY <1>1, <1>2, RestAfter
<1>4. Contents[l] = s /\ Cursors[l] = Cursor(l)
  BY Seen
<1>5. s \in Seq(Items) /\ Len(s) = size[l] /\ (size[l] = 0 => s = <<>>)
      /\ (size[l] = 0 => Cursor(l) = 0) /\ (size[l] # 0 => Cursor(l) = j /\ j \in 1..size[l])
  BY <1>1, ItemsOfIs, WholeIs DEF Cursor
<1> HIDE DEF j, s
<1>6. IF Cursor(l) = 0 THEN Abstract!Become(l, <<x>>, 1)
      ELSE Abstract!Become(l, Abstract!InsertedAt(s, Cursor(l) + 1, x), Cursor(l))
  <2>1. Abstract!Become(l, ItemsOf(l)', Cursor(l)')
    BY <1>3, Becomes
  <2>2. CASE size[l] = 0
    BY <1>2, <1>5, <2>1, <2>2
  <2>3. CASE size[l] # 0
    <3>1. Cursor(l) # 0 /\ Cursor(l) = j
      BY <1>5, <2>3
    <3> QED BY <1>2, <2>1, <2>3, <3>1
  <2> QED BY <2>2, <2>3
<1>7. v = (IF Len(s) = 1 THEN s[1] ELSE x) /\ v \in Items
  <2>1. CASE size[l] = 1
    <3>1. j = 1 /\ Len(s) = 1
      BY <1>5, <2>1
    <3>2. Cursor(l)' = 1 /\ ItemsOf(l)' = Abstract!InsertedAt(s, 2, x)
      BY <1>2, <2>1, <3>1
    <3>3. Abstract!InsertedAt(s, 2, x)[1] = s[1]
      BY <3>1 DEF Abstract!InsertedAt
    <3>4. size'[l] # 0
      BY <1>1, <2>1 DEF AddNode, HeapOK
    <3>5. item'[position'[l]] = ItemsOf(l)'[Cursor(l)'] /\ item'[position'[l]] \in Items
      BY <1>1, <1>2, <3>4, CurrentItemNext
    <3> QED BY <2>1, <3>1, <3>2, <3>3, <3>5
  <2>2. CASE size[l] # 1
    BY <1>5, <2>2
  <2> QED BY <2>1, <2>2
<1> HIDE DEF v
<1>p. PICK v0 : v0 = Shown
  OBVIOUS
<1>8. ASSUME Len(s) = 1
      PROVE  PromisedOrNamed
  <2>1. v0[l] = s /\ Cursor(l) = 1 /\ Cursor(l) + 1 = 2 /\ Cursor(l) # 0
    BY <1>3, <1>4, <1>5, <1>8, <1>p
  <2>2. Abstract!Returns("Add", s[1], FALSE)
    BY <1>1, <1>7, <1>8 DEF Abstract!Returns
  <2>3. Abstract!Become(l, Abstract!InsertedAt(s, 2, x), 1)
    BY <1>6, <2>1
  <2>4. ReturnsOldItem(l, x)
    BY <1>8, <1>p, <2>1, <2>2, <2>3, Zenon DEF ReturnsOldItem
  <2> QED BY <2>4 DEF Departs, PromisedOrNamed
<1>9. ASSUME Len(s) # 1
      PROVE  PromisedOrNamed
  <2>1. Abstract!Returns("Add", x, FALSE)
    BY <1>1, <1>7, <1>9 DEF Abstract!Returns
  <2>2. Abstract!Add(l, x)
    BY <1>3, <1>4, <1>6, <2>1 DEF Abstract!Add
  <2> QED BY <2>2 DEF Abstract!Next, PromisedOrNamed
<1>10. value' \in Items \cup {0} /\ found' \in BOOLEAN /\ done' \in Calls
  BY <1>1, <1>7 DEF Calls
<1>11. PromisedOrNamed
  BY <1>8, <1>9
<1> QED BY <1>2, <1>3, <1>11, <1>10, Zenon DEF Rests

LEMMA ReplaceStep ==
  ASSUME HeapOK, Resting, NEW l \in Lists, NEW x \in Items, Replace(l, x)
  PROVE  Rests
<1> DEFINE j == Index(l)
           s == ItemsOf(l)
           t == [s EXCEPT ![j] = x]
<1>1. /\ l \in AllLists /\ Whole(l) /\ UNCHANGED <<todo, current>> /\ size[l] # 0 /\ size[l] > 0
      /\ item' = [item EXCEPT ![position[l]] = x] /\ UNCHANGED <<next, previous, live, objects>>
      /\ done' = "Replace" /\ value' = 0 /\ found' = FALSE
  BY DEF AllLists, Resting, Replace, registers, NoResult, Returns
<1>2. /\ HeapOK' /\ Whole(l)' /\ ItemsOf(l)' = t /\ Cursor(l)' = Cursor(l)
      /\ \A k \in AllLists : k # l => Same(k)
  BY <1>1, ReplaceIs
<1>3. /\ Resting' /\ Idle /\ Idle'
      /\ Contents' = [Contents EXCEPT ![l] = ItemsOf(l)']
      /\ Cursors' = [Cursors EXCEPT ![l] = Cursor(l)']
  BY <1>1, <1>2, RestAfter
<1>4. Contents[l] = s /\ Cursors[l] = Cursor(l)
  BY Seen
<1>5. s # <<>> /\ Cursor(l) = j
  BY <1>1, CurrentItem
<1> HIDE DEF s, j
<1>6. Cursors' = Cursors
  <2>1. Cursors' = [Cursors EXCEPT ![l] = Cursors[l]]
    BY <1>2, <1>3, <1>4
  <2> QED BY <2>1 DEF Cursors
<1>7. Contents' = [Contents EXCEPT ![l] = IF Contents[l] = <<>> THEN Contents[l]
                                          ELSE [Contents[l] EXCEPT ![Cursors[l]] = x]]
  BY <1>2, <1>3, <1>4, <1>5
<1>8. Abstract!Replace(l, x)
  BY <1>1, <1>3, <1>6, <1>7 DEF Abstract!Replace, Abstract!NoResult, Abstract!Returns
<1>9. PromisedOrNamed
  BY <1>8 DEF Abstract!Next, PromisedOrNamed
<1>10. value' \in Items \cup {0} /\ found' \in BOOLEAN /\ done' \in Calls
  BY <1>1 DEF Calls
<1> QED BY <1>2, <1>3, <1>9, <1>10, Zenon DEF Rests

(* Removal of the current item.                                             *)
LEMMA UnlinkIs ==
  ASSUME HeapOK, Resting, NEW l \in Lists, size[l] > 0, Unlink(l), UNCHANGED <<todo, current>>
  PROVE  HeapOK' /\ Resting' /\ Abstract!Removed(l) /\ Idle /\ Idle'
<1> DEFINE j == Index(l)
           s == ItemsOf(l)
           n == size[l]
           c == IF n = 1 THEN 0 ELSE IF j = n THEN 1 ELSE j
<1>1. l \in AllLists /\ Whole(l) /\ n \in Nat
  BY DEF AllLists, Resting, HeapOK
<1>2. /\ HeapOK' /\ Whole(l)' /\ ItemsOf(l)' = Abstract!Without(s, j) /\ Cursor(l)' = c
      /\ \A k \in AllLists : k # l => Same(k)
  <2>1. CASE n = 1
    <3>1. /\ HeapOK' /\ IsEmpty(l)' /\ ItemsOf(l)' = <<>> /\ Cursor(l)' = 0
          /\ \A k \in AllLists : k # l => Same(k)
      BY <1>1, <2>1, UnlinksLast
    <3>2. Abstract!Without(s, j) = <<>>
      <4>1. s \in Seq(Items) /\ Len(s) = 1 /\ j \in 1..Len(s)
        <5>1. s \in Seq(Items)
          BY <1>1, ItemsOfIs
        <5>2. Len(s) = n /\ j \in 1..Len(s)
          <6>1. size[l] # 0
            BY <2>1
          <6>2. Cursor(l) \in 1..Len(s) /\ Cursor(l) = j /\ Len(s) = n
            BY <1>1, <6>1, CurrentItem
          <6> QED BY <6>2
        <5> QED BY <2>1, <5>1, <5>2
      <4> DEFINE t == Abstract!Without(s, j)
      <4> HIDE DEF s, j
      <4>2. t \in Seq(Items) /\ Len(t) = Len(s) - 1
        BY <4>1, WithoutIs
      <4> HIDE DEF t
      <4>3. t = <<>>
        BY <4>1, <4>2, EmptySeq
      <4> QED BY <4>3 DEF t
    <3> QED BY <2>1, <3>1, <3>2 DEF IsEmpty
  <2>2. CASE n # 1
    <3>1. n > 1
      BY <1>1, <2>2
    <3> QED BY <1>1, <2>2, <3>1, Unlinks
  <2> QED BY <2>1, <2>2
<1>3. /\ Resting' /\ Idle /\ Idle'
      /\ Contents' = [Contents EXCEPT ![l] = ItemsOf(l)']
      /\ Cursors' = [Cursors EXCEPT ![l] = Cursor(l)']
  BY <1>1, <1>2, RestAfter
<1>4. Contents[l] = s /\ Cursors[l] = Cursor(l)
  BY Seen
<1>5. Len(s) = n /\ Cursor(l) = j
  BY <1>1, CurrentItem
<1> HIDE DEF s, j, n
<1>6. Abstract!Become(l, Abstract!Without(s, j), c)
  BY <1>2, <1>3, Becomes
<1> QED BY <1>2, <1>3, <1>4, <1>5, <1>6 DEF Abstract!Removed

LEMMA RemovalStep ==
  ASSUME HeapOK, Resting, NEW l \in Lists, Del(l) \/ Pop(l)
  PROVE  Rests
<1> DEFINE s == ItemsOf(l)
<1>1. /\ l \in AllLists /\ Whole(l) /\ size[l] > 0 /\ Unlink(l) /\ UNCHANGED <<todo, current>>
      /\ size[l] # 0
  <2>1. /\ l \in AllLists /\ Whole(l) /\ size[l] > 0 /\ Unlink(l) /\ todo' = todo
        /\ registers' = registers
    BY DEF AllLists, Resting, Del, Pop
  <2>2. current' = current
    BY <2>1 DEF registers
  <2> QED BY <2>1, <2>2
<1>2. HeapOK' /\ Resting' /\ Abstract!Removed(l) /\ Idle /\ Idle'
  BY <1>1, UnlinkIs
<1>3. Contents[l] = s /\ Cursors[l] = Cursor(l)
  BY Seen
<1>4. s # <<>> /\ item[position[l]] = s[Cursor(l)] /\ item[position[l]] \in Items
  BY <1>1, CurrentItem
<1> HIDE DEF s
<1>5. PromisedOrNamed /\ value' \in Items \cup {0} /\ found' \in BOOLEAN /\ done' \in Calls
  <2>1. CASE Del(l)
    <3>1. done' = "Del" /\ value' = 0 /\ found' = FALSE
      BY <2>1 DEF Del, NoResult, Returns
    <3>2. Abstract!Del(l)
      BY <1>2, <1>3, <1>4, <3>1 DEF Abstract!Del, Abstract!NoResult, Abstract!Returns
    <3> QED BY <3>1, <3>2 DEF Abstract!Next, PromisedOrNamed, Calls
  <2>2. CASE Pop(l)
    <3>1. done' = "Pop" /\ value' = item[position[l]] /\ found' = FALSE
      BY <2>2 DEF Pop, Returns
    <3>2. Abstract!Pop(l)
      BY <1>2, <1>3, <1>4, <3>1 DEF Abstract!Pop, Abstract!Returns
    <3>3. PromisedOrNamed
      BY <3>2 DEF Abstract!Next, PromisedOrNamed
    <3> QED BY <1>4, <3>1, <3>3 DEF Calls
  <2> QED BY <2>1, <2>2
<1> QED BY <1>2, <1>5, Zenon DEF Rests

LEMMA PeekStep ==
  ASSUME HeapOK, Resting, NEW l \in Lists, Peek(l)
  PROVE  Rests
<1> DEFINE s == ItemsOf(l)
           i == Index(l)
<1>1. /\ l \in AllLists /\ Whole(l) /\ size[l] # 0 /\ UNCHANGED <<todo, current>>
      /\ UNCHANGED <<heap, objects>>
      /\ done' = "Peek" /\ value' = item[position[l]] /\ found' = FALSE
  BY DEF AllLists, Resting, Peek, registers, Returns, HeapOK
<1>2. s # <<>> /\ item[position[l]] = s[Cursor(l)] /\ item[position[l]] \in Items
  BY <1>1, CurrentItem
<1>3. HeapOK' /\ Resting' /\ Contents' = Contents /\ Cursors' = Cursors /\ Idle /\ Idle'
  <2>1. /\ next' = next /\ previous' = previous /\ item' = item /\ live' = live
        /\ root' = root /\ position' = position /\ size' = size /\ chain' = chain
        /\ todo' = todo /\ current' = current
    BY <1>1 DEF heap, objects
  <2>2. HeapOK'
    BY <2>1 DEF HeapOK
  <2>3. Resting' /\ Idle /\ Idle'
    BY <2>1 DEF Resting, Idle, Whole, IsEmpty
  <2>4. Contents' = Contents /\ Cursors' = Cursors
    BY <2>1 DEF Contents, Cursors, ItemsOf, Index
  <2> QED BY <2>2, <2>3, <2>4
<1>4. Contents[l] = s /\ Cursors[l] = Cursor(l)
  BY Seen
<1> HIDE DEF s
<1>5. Abstract!Peek(l)
  BY <1>1, <1>2, <1>3, <1>4 DEF Abstract!Peek, Abstract!Returns
<1>6. PromisedOrNamed
  BY <1>5 DEF Abstract!Next, PromisedOrNamed
<1>7. value' \in Items \cup {0} /\ found' \in BOOLEAN /\ done' \in Calls
  BY <1>1, <1>2 DEF Calls
<1> QED BY <1>3, <1>6, <1>7, Zenon DEF Rests

LEMMA MoveStep ==
  ASSUME HeapOK, Resting, NEW l \in Lists,
         \/ Increment(l) \/ Decrement(l) \/ IncrementLinked(l) \/ DecrementLinked(l)
         \/ Beginning(l) \/ End(l)
  PROVE  Rests
<1> DEFINE s == ItemsOf(l)
           c == chain[l]
           n == Len(c)
           j == Index(l)
<1>1. l \in AllLists /\ Whole(l) /\ size[l] # 0
  BY DEF AllLists, Resting, Increment, Decrement, IncrementLinked, DecrementLinked, Beginning,
         End, Moves
<1>2. /\ j \in 1..n /\ n \in Nat /\ Successor(j, n) \in 1..n /\ Predecessor(j, n) \in 1..n
      /\ position[l] = c[j] /\ root[l] = c[1]
      /\ next[position[l]] = c[Successor(j, n)] /\ previous[position[l]] = c[Predecessor(j, n)]
      /\ previous[root[l]] = c[n] /\ (next[position[l]] = root[l] <=> j = n)
      /\ (position[l] = root[l] <=> j = 1)
  BY <1>1, Neighbours
<1>3. Contents[l] = s /\ Cursors[l] = Cursor(l)
  BY Seen
<1>4. s # <<>> /\ Len(s) = n /\ Cursor(l) = j
  BY <1>1, CurrentItem, WholeIs
<1> HIDE DEF s, c, j, n
<1>5. ASSUME NEW i \in 1..n, MoveTo(l, c[i])
      PROVE  /\ HeapOK' /\ Resting' /\ Idle /\ Idle' /\ Abstract!MoveTo(l, i)
             /\ value' \in Items \cup {0} /\ found' \in BOOLEAN /\ done' \in Calls
  <2>1. /\ position' = [position EXCEPT ![l] = chain[l][i]]
        /\ UNCHANGED <<heap, root, size, chain>> /\ UNCHANGED <<todo, current>>
        /\ done' = "move" /\ value' = 0 /\ found' = FALSE
    BY <1>5 DEF MoveTo, NoResult, Returns, registers, c
  <2>2. /\ HeapOK' /\ Whole(l)' /\ Cursor(l)' = i /\ ItemsOf(l)' = s
        /\ \A k \in AllLists : k # l => Same(k)
    BY <1>1, <2>1, MoveIs DEF n, c, s
  <2>3. /\ Resting' /\ Idle /\ Idle'
        /\ Contents' = [Contents EXCEPT ![l] = ItemsOf(l)']
        /\ Cursors' = [Cursors EXCEPT ![l] = Cursor(l)']
    BY <1>1, <2>1, <2>2, RestAfter
  <2>4. Abstract!Become(l, s, i)
    BY <2>2, <2>3, Becomes
  <2>5. Abstract!MoveTo(l, i)
    BY <1>3, <2>1, <2>3, <2>4 DEF Abstract!MoveTo, Abstract!NoResult, Abstract!Returns
  <2> QED BY <2>1, <2>2, <2>3, <2>5 DEF Calls
<1>6. HeapOK' /\ Resting' /\ value' \in Items \cup {0} /\ found' \in BOOLEAN /\ done' \in Calls
      /\ PromisedOrNamed
  <2>1. ASSUME NEW wraps \in BOOLEAN, Abstract!Forward(l, wraps) \/ Abstract!Back(l, wraps)
        PROVE  PromisedOrNamed
    BY <2>1 DEF Abstract!Next, PromisedOrNamed
  <2>2. CASE Increment(l)
    <3> DEFINE i == Successor(j, n)
    <3>1. MoveTo(l, c[i]) /\ i \in 1..n
      BY <1>2, <2>2 DEF Increment
    <3> HIDE DEF i
    <3>2. /\ HeapOK' /\ Resting' /\ Idle /\ Abstract!MoveTo(l, i)
          /\ value' \in Items \cup {0} /\ found' \in BOOLEAN /\ done' \in Calls
      BY <1>5, <3>1
    <3>3. i = IF j < n THEN j + 1 ELSE IF TRUE THEN 1 ELSE j
      BY <1>2 DEF Successor, i
    <3>4. Abstract!Forward(l, TRUE)
      BY <1>3, <1>4, <3>2, <3>3 DEF Abstract!Forward
    <3> QED BY <2>1, <3>2, <3>4
  <2>3. CASE IncrementLinked(l)
    <3> DEFINE i == Successor(j, n)
    <3>1. MoveTo(l, c[i]) /\ i \in 1..n /\ j # n
      BY <1>2, <2>3 DEF IncrementLinked
    <3> HIDE DEF i
    <3>2. /\ HeapOK' /\ Resting' /\ Idle /\ Abstract!MoveTo(l, i)
          /\ value' \in Items \cup {0} /\ found' \in BOOLEAN /\ done' \in Calls
      BY <1>5, <3>1
    <3>3. i = IF j < n THEN j + 1 ELSE IF FALSE THEN 1 ELSE j
      BY <1>2, <3>1 DEF Successor, i
    <3>4. Abstract!Forward(l, FALSE)
      BY <1>3, <1>4, <3>2, <3>3 DEF Abstract!Forward
    <3> QED BY <2>1, <3>2, <3>4
  <2>4. CASE Decrement(l)
    <3> DEFINE i == Predecessor(j, n)
    <3>1. MoveTo(l, c[i]) /\ i \in 1..n
      BY <1>2, <2>4 DEF Decrement
    <3> HIDE DEF i
    <3>2. /\ HeapOK' /\ Resting' /\ Idle /\ Abstract!MoveTo(l, i)
          /\ value' \in Items \cup {0} /\ found' \in BOOLEAN /\ done' \in Calls
      BY <1>5, <3>1
    <3>3. i = IF j > 1 THEN j - 1 ELSE IF TRUE THEN n ELSE j
      BY <1>2 DEF Predecessor, i
    <3>4. Abstract!Back(l, TRUE)
      BY <1>3, <1>4, <3>2, <3>3 DEF Abstract!Back
    <3> QED BY <2>1, <3>2, <3>4
  <2>5. CASE DecrementLinked(l)
    <3> DEFINE i == Predecessor(j, n)
    <3>1. MoveTo(l, c[i]) /\ i \in 1..n /\ j # 1
      BY <1>2, <2>5 DEF DecrementLinked
    <3> HIDE DEF i
    <3>2. /\ HeapOK' /\ Resting' /\ Idle /\ Abstract!MoveTo(l, i)
          /\ value' \in Items \cup {0} /\ found' \in BOOLEAN /\ done' \in Calls
      BY <1>5, <3>1
    <3>3. i = IF j > 1 THEN j - 1 ELSE IF FALSE THEN n ELSE j
      BY <1>2, <3>1 DEF Predecessor, i
    <3>4. Abstract!Back(l, FALSE)
      BY <1>3, <1>4, <3>2, <3>3 DEF Abstract!Back
    <3> QED BY <2>1, <3>2, <3>4
  <2>6. CASE Beginning(l)
    <3>1. MoveTo(l, c[1]) /\ 1 \in 1..n
      BY <1>2, <2>6 DEF Beginning
    <3>2. /\ HeapOK' /\ Resting' /\ Idle /\ Abstract!MoveTo(l, 1)
          /\ value' \in Items \cup {0} /\ found' \in BOOLEAN /\ done' \in Calls
      BY <1>5, <3>1
    <3>3. Abstract!Beginning(l)
      BY <1>3, <1>4, <3>2 DEF Abstract!Beginning
    <3> QED BY <3>2, <3>3 DEF Abstract!Next, PromisedOrNamed
  <2>7. CASE End(l)
    <3>1. MoveTo(l, c[n]) /\ n \in 1..n
      BY <1>2, <2>7 DEF End
    <3>2. /\ HeapOK' /\ Resting' /\ Idle /\ Abstract!MoveTo(l, n)
          /\ value' \in Items \cup {0} /\ found' \in BOOLEAN /\ done' \in Calls
      BY <1>5, <3>1
    <3>3. Abstract!End(l)
      BY <1>3, <1>4, <3>2 DEF Abstract!End
    <3> QED BY <3>2, <3>3 DEF Abstract!Next, PromisedOrNamed
  <2> QED BY <2>2, <2>3, <2>4, <2>5, <2>6, <2>7
<1> QED BY <1>6, Zenon DEF Rests

-----------------------------------------------------------------------------
(* The tasks of a call.                                                     *)

Tasks == [do : {"search", "find", "clear", "copy", "append", "read", "build", "rewind"},
          list : AllLists, source : AllLists, input : Items \cup {0}]

LEMMA TaskIs ==
  ASSUME NEW d \in {"search", "find", "clear", "copy", "append", "read", "build", "rewind"},
         NEW l \in AllLists, NEW m \in AllLists, NEW x \in Items \cup {0}
  PROVE  LET t == Task(d, l, m, x) IN
         t \in Tasks /\ t.do = d /\ t.list = l /\ t.source = m /\ t.input = x
BY DEF Task, Tasks

LEMMA AtIs ==
  ASSUME NEW plan \in Seq(Tasks), NEW k \in 1..Len(plan), NEW call, At(call, plan, k)
  PROVE  /\ todo # <<>> /\ ~Idle /\ todo[1] = plan[k]
         /\ Done /\ k = Len(plan) => todo' = <<>> /\ held' = <<>> /\ done' = call
         /\ Done /\ k # Len(plan) => /\ At(call, plan, k + 1)' /\ todo' # <<>>
                                     /\ held' = held /\ done' = done
         /\ UNCHANGED <<todo, held>> => At(call, plan, k)'
<1> DEFINE n == Len(plan)
           r == SubSeq(plan, k, n)
<1>1. todo = r /\ held.call = call /\ n \in Nat
  BY LenProperties DEF At
<1>2. r \in Seq(Tasks) /\ Len(r) = n - k + 1 /\ \A i \in 1..(n - k + 1) : r[i] = plan[k + i - 1]
  <2>1. k \in 1..(n + 1) /\ n \in (k - 1)..n /\ k \in Nat /\ k <= n
    BY <1>1
  <2> HIDE DEF n
  <2>2. /\ SubSeq(plan, k, n) \in Seq(Tasks) /\ Len(SubSeq(plan, k, n)) = IF k <= n THEN n - k + 1 ELSE 0
        /\ \A i \in 1..(n - k + 1) : SubSeq(plan, k, n)[i] = plan[k + i - 1]
    BY <2>1, SubSeqProperties DEF n
  <2> QED BY <2>1, <2>2
<1> HIDE DEF n, r
<1>3. r # <<>> /\ r[1] = plan[k]
  <2>1. 1 \in 1..(n - k + 1) /\ k + 1 - 1 = k /\ n - k + 1 # 0
    BY <1>1 DEF n
  <2> QED BY <1>2, <2>1, EmptySeq
<1>4. /\ Tail(r) \in Seq(Tasks) /\ Len(Tail(r)) = n - k
      /\ \A i \in 1..(n - k) : Tail(r)[i] = plan[k + i]
  <2>1. /\ Tail(r) \in Seq(Tasks) /\ Len(Tail(r)) = Len(r) - 1
        /\ \A i \in 1..Len(Tail(r)) : Tail(r)[i] = r[i + 1]
    BY <1>2, <1>3, HeadTailProperties
  <2>2. Len(Tail(r)) = n - k
    BY <1>1, <1>2, <2>1
  <2>3. ASSUME NEW i \in 1..(n - k) PROVE Tail(r)[i] = plan[k + i]
    <3>1. i + 1 \in 1..(n - k + 1) /\ k + (i + 1) - 1 = k + i
      BY <1>1
    <3> DEFINE h == i + 1
    <3> HIDE DEF h
    <3>2. r[h] = plan[k + h - 1]
      BY <1>2, <3>1 DEF h
    <3> QED BY <2>1, <2>2, <3>1, <3>2 DEF h
  <2> QED BY <2>1, <2>2, <2>3
<1>5. CASE k = n
  <2>1. Tail(r) = <<>>
    <3>1. Len(Tail(r)) = 0
      BY <1>1, <1>4, <1>5
    <3> QED BY <1>4, <3>1, EmptySeq
  <2> QED BY <1>1, <1>3, <1>5, <2>1 DEF Done, Idle, At, n
<1>6. CASE k # n
  <2>1. k + 1 \in 1..(n + 1) /\ n \in k..n /\ k + 1 <= n /\ n - k # 0 /\ k \in Nat
    BY <1>1, <1>6 DEF n
  <2>2. Tail(r) # <<>>
    <3>1. Len(Tail(r)) # 0
      BY <1>4, <2>1
    <3> QED BY <3>1, EmptySeq
  <2>3. Tail(r) = SubSeq(plan, k + 1, n)
    <3> DEFINE h == k + 1
               q == SubSeq(plan, h, n)
    <3>1. h \in 1..(n + 1) /\ n \in (h - 1)..n /\ h <= n
      BY <1>1, <2>1
    <3> HIDE DEF h
    <3>2. q \in Seq(Tasks) /\ Len(q) = IF h <= n THEN n - h + 1 ELSE 0
      BY <3>1, SubSeqProperties DEF n
    <3>3. \A i \in 1..(n - h + 1) : q[i] = plan[h + i - 1]
      BY <3>1, SubSeqProperties DEF n
    <3> HIDE DEF q
    <3>4. Len(q) = n - k
      BY <1>1, <3>1, <3>2 DEF h
    <3>5. ASSUME NEW i \in 1..(n - k) PROVE q[i] = plan[k + i]
      <4>1. i \in 1..(n - h + 1) /\ h + i - 1 = k + i
        BY <1>1, <2>1 DEF h
      <4> QED BY <3>3, <4>1
    <3>6. \A i \in 1..(n - k) : Tail(r)[i] = q[i]
      BY <1>4, <3>5
    <3>7. Tail(r) = q
      BY <1>4, <3>2, <3>4, <3>6, SeqEqual
    <3> QED BY <3>7 DEF q, h
  <2> QED BY <1>1, <1>3, <1>6, <2>1, <2>2, <2>3 DEF Done, Idle, At, n
<1> QED BY <1>5, <1>6 DEF n

LEMMA StepIs ==
  ASSUME Step
  PROVE  /\ todo[1].do = "search" => Search("search")
         /\ todo[1].do = "find" => Search("find")
         /\ todo[1].do = "clear" => ClearNode
         /\ todo[1].do = "copy" => CopyRoot \/ CopyNode
         /\ todo[1].do = "append" => AppendBegins \/ AppendNode
         /\ todo[1].do = "read" => SortReads
         /\ todo[1].do = "build" => SortBuilds
         /\ todo[1].do = "rewind" => SortRewinds
<1>1. /\ Search("search") => todo[1].do = "search"
      /\ Search("find") => todo[1].do = "find"
      /\ ClearNode => todo[1].do = "clear"
      /\ CopyRoot \/ CopyNode => todo[1].do = "copy"
      /\ AppendBegins \/ AppendNode => todo[1].do = "append"
      /\ SortReads => todo[1].do = "read"
      /\ SortBuilds => todo[1].do = "build"
      /\ SortRewinds => todo[1].do = "rewind"
  BY DEF Search, ClearNode, CopyRoot, CopyNode, AppendBegins, AppendNode, SortReads, SortBuilds,
         SortRewinds, Running
<1>2. \/ Search("search") \/ Search("find") \/ ClearNode \/ CopyRoot \/ CopyNode
      \/ AppendBegins \/ AppendNode \/ SortReads \/ SortBuilds \/ SortRewinds
  BY DEF Step
<1> QED BY <1>1, <1>2

-----------------------------------------------------------------------------
(* Clear: one iteration.                                                    *)

LEMMA TailIs ==
  ASSUME NEW S, NEW c \in Seq(S), Len(c) > 0, Distinct(c)
  PROVE  LET d == Tail(c) IN
         /\ d \in Seq(S) /\ Len(d) = Len(c) - 1 /\ \A i \in 1..(Len(c) - 1) : d[i] = c[i + 1]
         /\ Distinct(d) /\ Cells(d) = Cells(c) \ {c[1]}
<1> DEFINE d == Tail(c)
           n == Len(c)
<1>1. n \in Nat /\ n > 0 /\ c # <<>> /\ 1 \in 1..n
  BY LenProperties, EmptySeq
<1>2. d \in Seq(S) /\ Len(d) = n - 1 /\ \A i \in 1..Len(d) : d[i] = c[i + 1]
  BY <1>1, HeadTailProperties
<1> HIDE DEF d, n
<1>3. \A i \in 1..(n - 1) : d[i] = c[i + 1]
  BY <1>2
<1>4. \A i, j \in 1..n : c[i] = c[j] => i = j
  BY DEF Distinct, n
<1>5. Distinct(d)
  <2> SUFFICES ASSUME NEW i \in 1..(n - 1), NEW j \in 1..(n - 1), d[i] = d[j] PROVE i = j
    BY <1>2 DEF Distinct
  <2>1. i + 1 \in 1..n /\ j + 1 \in 1..n /\ c[i + 1] = c[j + 1]
    BY <1>1, <1>3
  <2>2. i + 1 = j + 1
    BY <1>4, <2>1
  <2> QED BY <2>2
<1>6. \A a : a \in Cells(d) <=> a \in Cells(c) \ {c[1]}
  <2>1. ASSUME NEW i \in 1..(n - 1) PROVE d[i] \in Cells(c) \ {c[1]}
    <3>1. i + 1 \in 1..n /\ i + 1 # 1 /\ d[i] = c[i + 1]
      BY <1>1, <1>3
    <3> DEFINE k == i + 1
    <3> HIDE DEF k
    <3>2. k \in 1..n /\ k # 1 /\ d[i] = c[k]
      BY <3>1 DEF k
    <3> QED BY <1>1, <1>4, <3>2 DEF Cells, n
  <2>2. ASSUME NEW i \in 1..n, c[i] # c[1] PROVE \E k \in 1..(n - 1) : d[k] = c[i]
    <3>1. i # 1
      BY <2>2
    <3>2. i - 1 \in 1..(n - 1) /\ i - 1 + 1 = i
      BY <1>1, <3>1
    <3>3. d[i - 1] = c[i]
      BY <1>3, <3>2
    <3> QED BY <3>2, <3>3
  <2>3. Cells(d) = {d[i] : i \in 1..(n - 1)} /\ Cells(c) = {c[i] : i \in 1..n}
    BY <1>2 DEF Cells, n
  <2>4. ASSUME NEW a \in Cells(d) PROVE a \in Cells(c) \ {c[1]}
    BY <2>1, <2>3
  <2>5. ASSUME NEW a \in Cells(c), a # c[1] PROVE a \in Cells(d)
    <3>1. PICK i \in 1..n : a = c[i]
      BY <2>3
    <3>2. \E k \in 1..(n - 1) : d[k] = a
      BY <2>2, <2>5, <3>1
    <3> QED BY <2>3, <3>2
  <2> QED BY <2>4, <2>5
<1> QED BY <1>2, <1>3, <1>5, <1>6 DEF d, n

(* The loop goes on.                                                        *)
Continues ==
  /\ UNCHANGED <<todo, held, done>> /\ current' \in Addrs /\ saved' \in Pointer
  /\ counter' # counter => counter' \in Nat /\ todo[1].do = "append"

LEMMA ClearStep ==
  ASSUME HeapOK, saved \in Pointer, ClearNode, NEW l \in AllLists, List = l, Emptying(l)
  PROVE  /\ HeapOK' /\ \A k \in AllLists : k # l => Same(k)
         /\ \/ Done /\ IsEmpty(l)' /\ ItemsOf(l)' = <<>> /\ Cursor(l)' = 0
            \/ Continues /\ Emptying(l)'
         /\ UNCHANGED <<values, value, found>>
<1> DEFINE c == chain[l]
           n == Len(c)
           p == c[1]
           d == Tail(c)
<1>0. UNCHANGED <<values, value, found>>
  BY DEF ClearNode
<1>1. c \in Seq(Addrs) /\ n \in Nat /\ Distinct(c) /\ Cells(c) \subseteq live /\ live \subseteq Addrs
      /\ (n = 0 => c = <<>>)
  BY LenProperties, EmptySeq DEF HeapOK, Owned
<1>2. CASE size[l] = 0
  <2>1. current = Null /\ Whole(l)
    BY <1>2 DEF Emptying, Clearing
  <2>2. c = <<>> /\ root[l] = Null /\ position[l] = Null
    BY <1>2, <2>1, WholeIs
  <2>3. Done /\ UNCHANGED <<heap, objects>>
    BY <1>2 DEF ClearNode
  <2>4. /\ next' = next /\ previous' = previous /\ item' = item /\ live' = live
        /\ root' = root /\ position' = position /\ size' = size /\ chain' = chain
    BY <2>3 DEF heap, objects
  <2>5. HeapOK'
    BY <2>4 DEF HeapOK
  <2>6. IsEmpty(l)' /\ ItemsOf(l)' = <<>> /\ Cursor(l)' = 0
    BY <1>2, <2>2, <2>4, <2>5, EmptyNext
  <2>7. \A k \in AllLists : Same(k)
    BY <2>4 DEF Same
  <2> QED BY <1>0, <2>3, <2>5, <2>6, <2>7
<1>3. CASE size[l] # 0
  <2>1. /\ n > 0 /\ Walker(l) = p
        /\ \A i \in 1..n : next[c[i]] = IF i = n THEN root[l] ELSE c[i + 1]
        /\ n > 1 => c[2] # root[l]
        /\ root[l] \in Addrs /\ (root[l] = p \/ root[l] \notin live)
    <3>1. CASE current = Null
      <4>1. Whole(l)
        BY <3>1 DEF Emptying
      <4>2. n > 0 /\ root[l] = p /\ \A i \in 1..n : next[c[i]] = c[Successor(i, n)]
        BY <1>1, <1>3, <4>1, WholeIs DEF Ring
      <4>3. \A i \in 1..n : next[c[i]] = IF i = n THEN root[l] ELSE c[i + 1]
        BY <1>1, <4>2 DEF Successor
      <4>4. n > 1 => c[2] # root[l]
        BY <1>1, <4>2 DEF Distinct
      <4>5. p \in Addrs
        BY <1>1, <4>2
      <4> QED BY <3>1, <4>2, <4>3, <4>4, <4>5 DEF Walker
    <3>2. CASE current # Null
      <4>1. /\ 1 \in 1..n /\ current = p /\ root[l] \in Addrs \ live
            /\ \A i \in 1..n : next[c[i]] = IF i = n THEN root[l] ELSE c[i + 1]
        BY <3>2 DEF Emptying, Clearing, Walked
      <4>2. n > 0
        BY <1>1, <4>1
      <4>3. n > 1 => c[2] # root[l]
        BY <1>1, <4>1 DEF Cells
      <4> QED BY <3>2, <4>1, <4>2, <4>3 DEF Walker
    <3> QED BY <3>1, <3>2
  <2>2. p \in Cells(c) /\ p \in Addrs /\ 1 \in 1..n
    BY <1>1, <2>1 DEF Cells
  <2>3. /\ d \in Seq(Addrs) /\ Len(d) = n - 1 /\ Distinct(d) /\ Cells(d) = Cells(c) \ {p}
        /\ \A i \in 1..(n - 1) : d[i] = c[i + 1]
    BY <1>1, <2>1, TailIs
  <2>4. /\ live' = live \ {p}
        /\ next' = [next EXCEPT ![p] = Null] /\ previous' = [previous EXCEPT ![p] = Null]
        /\ item' = [item EXCEPT ![p] = 0]
        /\ chain' = [chain EXCEPT ![l] = d]
        /\ IF next[p] = root[l]
           THEN /\ size' = [size EXCEPT ![l] = 0]
                /\ root' = [root EXCEPT ![l] = Null]
                /\ position' = [position EXCEPT ![l] = Null]
                /\ Done
           ELSE Continue(next[p]) /\ UNCHANGED <<root, position, size, saved, counter>>
    BY <1>3, <2>1 DEF ClearNode, Free
  <2>5. chain'[l] = d
    BY <2>4 DEF HeapOK
  <2> HIDE DEF c, d
  <2>6. HeapOK'
    <3>1. Owned(chain', live')
      <4>1. Owned([chain EXCEPT ![l] = d], live \ {p})
        BY <2>2, <2>3, OwnedRemove DEF HeapOK, c
      <4> QED BY <2>4, <4>1
    <3>2. next' \in [Addrs -> Pointer] /\ previous' \in [Addrs -> Pointer]
      BY <2>4 DEF HeapOK, Pointer
    <3>3. /\ root' \in [AllLists -> Pointer] /\ position' \in [AllLists -> Pointer]
          /\ size' \in [AllLists -> Nat]
      <4>1. CASE next[p] = root[l]
        <5>1. /\ size' = [size EXCEPT ![l] = 0] /\ root' = [root EXCEPT ![l] = Null]
              /\ position' = [position EXCEPT ![l] = Null]
          BY <2>4, <4>1
        <5> QED BY <5>1 DEF HeapOK, Pointer
      <4>2. CASE next[p] # root[l]
        BY <2>4, <4>2 DEF HeapOK
      <4> QED BY <4>1, <4>2
    <3>4. chain' \in [AllLists -> Seq(Addrs)]
      BY <2>3, <2>4 DEF HeapOK
    <3>5. item' \in [Addrs -> Items \cup {0}] /\ (\A a \in live' : item'[a] \in Items)
          /\ live' \subseteq Addrs
      BY <2>4 DEF HeapOK
    <3> QED BY <3>1, <3>2, <3>3, <3>4, <3>5 DEF HeapOK
  <2>7. ASSUME NEW k \in AllLists, k # l PROVE Same(k)
    <3>1. \A e \in AllLists : e # l => /\ chain'[e] = chain[e] /\ size'[e] = size[e]
                                       /\ root'[e] = root[e] /\ position'[e] = position[e]
      <4>1. CASE next[p] = root[l]
        BY <2>4, <4>1 DEF HeapOK
      <4>2. CASE next[p] # root[l]
        BY <2>4, <4>2 DEF HeapOK
      <4> QED BY <4>1, <4>2
    <3>2. \A a \in live : a \notin Nodes(l) =>
             next'[a] = next[a] /\ previous'[a] = previous[a] /\ item'[a] = item[a]
      BY <2>2, <2>4 DEF HeapOK, Nodes, c
    <3> QED BY <2>7, <3>1, <3>2, SameWhen
  <2>8. CASE n = 1
    <3>1. next[p] = root[l]
      BY <2>1, <2>2, <2>8
    <3>2. d = <<>>
      <4>1. Len(d) = 0
        BY <2>3, <2>8
      <4> QED BY <2>3, <4>1, EmptySeq
    <3>3. chain'[l] = <<>> /\ size'[l] = 0 /\ root'[l] = Null /\ position'[l] = Null /\ Done
      BY <2>4, <2>5, <3>1, <3>2 DEF HeapOK
    <3>4. IsEmpty(l)' /\ ItemsOf(l)' = <<>> /\ Cursor(l)' = 0
      BY <2>6, <3>3, EmptyNext
    <3> QED BY <1>0, <2>6, <2>7, <3>3, <3>4
  <2>9. CASE n # 1
    <3>1. n > 1 /\ 1 + 1 = 2 /\ 2 \in 1..n /\ 1 \in 1..(n - 1)
      <4>1. n \in Nat /\ n > 0 /\ n # 1
        BY <1>1, <2>1, <2>9
      <4> HIDE DEF n
      <4> QED BY <4>1
    <3>2. next[p] = c[2] /\ next[p] # root[l]
      BY <2>1, <2>2, <2>9, <3>1
    <3>3. /\ current' = c[2] /\ UNCHANGED <<todo, held, done, saved, counter>>
          /\ root' = root /\ size' = size
      BY <2>4, <3>2 DEF Continue
    <3>4. c[2] = d[1] /\ c[2] \in Addrs
      BY <1>1, <2>3, <3>1
    <3>5. current' # Null
      BY <3>3, <3>4, NullAssumption
    <3>6. Walked(l, 1)' /\ size'[l] # 0 /\ root'[l] \in Addrs \ live'
      BY <1>1, <1>3, <2>1, <2>3, <2>4, <2>5, <3>1, <3>3, <3>4 DEF Walked
    <3>7. ASSUME NEW i \in 1..(n - 1)
          PROVE  next'[d[i]] = IF i = n - 1 THEN root'[l] ELSE d[i + 1]
      <4> DEFINE k == i + 1
      <4>1. k \in 1..n /\ d[i] = c[k] /\ k # 1 /\ (k = n <=> i = n - 1)
        BY <2>3, <3>1
      <4>2. i # n - 1 => d[i + 1] = c[k + 1]
        BY <2>3, <3>1
      <4> HIDE DEF k
      <4>3. c[k] # p /\ c[k] \in Addrs
        BY <1>1, <2>2, <4>1 DEF Distinct
      <4>4. next'[c[k]] = next[c[k]]
        BY <2>4, <4>3 DEF HeapOK
      <4>5. next[c[k]] = IF k = n THEN root[l] ELSE c[k + 1]
        BY <2>1, <4>1
      <4> QED BY <3>3, <4>1, <4>2, <4>4, <4>5
    <3>8. Clearing(l)'
      BY <2>3, <2>5, <3>6, <3>7 DEF Clearing
    <3>9. Emptying(l)' /\ Continues
      BY <3>3, <3>4, <3>5, <3>8 DEF Emptying, Continues
    <3> QED BY <1>0, <2>6, <2>7, <3>9
  <2> QED BY <2>8, <2>9
<1> QED BY <1>2, <1>3

-----------------------------------------------------------------------------
(* The copies: one iteration.                                               *)

LEMMA AppendIs ==
  ASSUME NEW S, NEW c \in Seq(S), NEW x \in S, Distinct(c), x \notin Cells(c)
  PROVE  LET d == Append(c, x)  n == Len(c) IN
         /\ d \in Seq(S) /\ Len(d) = n + 1 /\ d[n + 1] = x /\ \A i \in 1..n : d[i] = c[i]
         /\ Distinct(d) /\ Cells(d) = Cells(c) \cup {x}
<1> DEFINE d == Append(c, x)
           n == Len(c)
<1>1. n \in Nat /\ d \in Seq(S) /\ Len(d) = n + 1 /\ d[n + 1] = x /\ \A i \in 1..n : d[i] = c[i]
  BY LenProperties, AppendProperties
<1> HIDE DEF d, n
<1>2. \A i \in 1..(n + 1) : i = n + 1 \/ i \in 1..n
  BY <1>1
<1>3. /\ \A i, j \in 1..n : c[i] = c[j] => i = j
      /\ \A i \in 1..n : c[i] # x
  BY DEF Distinct, Cells, n
<1>4. Distinct(d)
  <2> SUFFICES ASSUME NEW i \in 1..(n + 1), NEW j \in 1..(n + 1), d[i] = d[j] PROVE i = j
    BY <1>1 DEF Distinct
  <2> QED BY <1>1, <1>2, <1>3
<1>5. Cells(d) = Cells(c) \cup {x}
  <2>1. Cells(d) = {d[i] : i \in 1..(n + 1)} /\ Cells(c) = {c[i] : i \in 1..n}
    BY <1>1 DEF Cells, n
  <2>2. ASSUME NEW a \in Cells(d) PROVE a \in Cells(c) \cup {x}
    BY <1>1, <1>2, <2>1
  <2>3. ASSUME NEW a \in Cells(c) PROVE a \in Cells(d)
    <3>1. PICK i \in 1..n : a = c[i]
      BY <2>1
    <3>2. i \in 1..(n + 1) /\ d[i] = a
      BY <1>1, <3>1
    <3> QED BY <2>1, <3>2
  <2>4. x \in Cells(d)
    <3>1. n + 1 \in 1..(n + 1)
      BY <1>1
    <3> QED BY <1>1, <2>1, <3>1
  <2> QED BY <2>2, <2>3, <2>4
<1> QED BY <1>1, <1>4, <1>5 DEF d, n

(* A new node, not linked to its list's ring yet.                           *)
LEMMA Grows ==
  ASSUME HeapOK, NEW l \in AllLists, NEW x \in Addrs \ live, NEW v \in Items,
         next' \in [Addrs -> Pointer], previous' \in [Addrs -> Pointer],
         \A a \in live : a \notin Nodes(l) => next'[a] = next[a] /\ previous'[a] = previous[a],
         live' = live \cup {x}, item' = [item EXCEPT ![x] = v],
         chain' = [chain EXCEPT ![l] = Append(@, x)],
         root' \in [AllLists -> Pointer], position' \in [AllLists -> Pointer],
         size' \in [AllLists -> Nat],
         \A k \in AllLists : k # l =>
           root'[k] = root[k] /\ position'[k] = position[k] /\ size'[k] = size[k]
  PROVE  LET c == chain[l]  d == chain'[l]  n == Len(c) IN
         /\ HeapOK' /\ \A k \in AllLists : k # l => Same(k)
         /\ c \in Seq(Addrs) /\ d \in Seq(Addrs) /\ n \in Nat /\ Len(d) = n + 1 /\ Distinct(d)
         /\ d[n + 1] = x /\ (\A i \in 1..n : d[i] = c[i] /\ c[i] \in live /\ c[i] # x) /\ item'[x] = v
         /\ \A a \in live : item'[a] = item[a]
<1> DEFINE c == chain[l]
           n == Len(c)
           d == Append(c, x)
<1>1. c \in Seq(Addrs) /\ n \in Nat /\ Distinct(c) /\ Cells(c) \subseteq live /\ live \subseteq Addrs
  BY LenProperties DEF HeapOK, Owned
<1>2. x \notin Cells(c) /\ x \in Addrs /\ x \notin live /\ \A i \in 1..n : c[i] \in live /\ c[i] # x
  BY <1>1 DEF Cells
<1>3. /\ d \in Seq(Addrs) /\ Len(d) = n + 1 /\ d[n + 1] = x /\ \A i \in 1..n : d[i] = c[i]
      /\ Distinct(d) /\ Cells(d) = Cells(c) \cup {x}
  <2> HIDE DEF c
  <2>1. d \in Seq(Addrs) /\ Len(d) = n + 1 /\ d[n + 1] = x /\ \A i \in 1..n : d[i] = c[i]
    BY <1>1, <1>2, AppendIs
  <2>2. Distinct(d) /\ Cells(d) = Cells(c) \cup {x}
    BY <1>1, <1>2, AppendIs
  <2> QED BY <2>1, <2>2
<1>4. chain' = [chain EXCEPT ![l] = d] /\ chain'[l] = d
  BY DEF HeapOK
<1> HIDE DEF c, d, n
<1>5. HeapOK'
  <2>1. Owned(chain', live')
    <3>1. Owned([chain EXCEPT ![l] = d], live \cup {x})
      BY <1>2, <1>3, OwnedAdd DEF HeapOK, c
    <3> QED BY <1>4, <3>1
  <2>2. chain' \in [AllLists -> Seq(Addrs)]
    BY <1>3, <1>4 DEF HeapOK
  <2>3. item' \in [Addrs -> Items \cup {0}] /\ (\A a \in live' : item'[a] \in Items)
        /\ live' \subseteq Addrs
    BY <1>1, <1>2 DEF HeapOK
  <2> QED BY <2>1, <2>2, <2>3 DEF HeapOK
<1>6. item'[x] = v /\ \A a \in live : item'[a] = item[a]
  BY <1>1, <1>2 DEF HeapOK
<1>7. ASSUME NEW k \in AllLists, k # l PROVE Same(k)
  <2>1. \A e \in AllLists : e # l => /\ chain'[e] = chain[e] /\ size'[e] = size[e]
                                     /\ root'[e] = root[e] /\ position'[e] = position[e]
    BY <1>4 DEF HeapOK
  <2>2. \A a \in live : a \notin Nodes(l) =>
           next'[a] = next[a] /\ previous'[a] = previous[a] /\ item'[a] = item[a]
    BY <1>6
  <2> QED BY <1>7, <2>1, <2>2, SameWhen
<1> QED BY <1>1, <1>2, <1>3, <1>4, <1>5, <1>6, <1>7 DEF c, n

Copied(l, m) == Done /\ Whole(l)' /\ ItemsOf(l)' = ItemsOf(m) /\ Cursor(l)' = Cursor(m)

LEMMA CopyRootStep ==
  ASSUME HeapOK, CopyRoot, NEW l \in AllLists, NEW m \in AllLists, l # m, List = l, Source = m,
         Whole(m), Filling(l, m)
  PROVE  /\ HeapOK' /\ \A k \in AllLists : k # l => Same(k)
         /\ Copied(l, m) \/ (Continues /\ Filling(l, m)')
         /\ UNCHANGED <<values, value, found>>
<1> DEFINE cm == chain[m]
           n == Len(cm)
           s == ItemsOf(m)
<1>1. /\ IsEmpty(l) /\ Whole(l) /\ chain[l] = <<>> /\ current = Null /\ UNCHANGED <<values, value, found>>
  BY DEF CopyRoot, Filling, IsEmpty
<1>2. /\ cm \in Seq(Addrs) /\ n \in Nat /\ size[m] = n /\ Distinct(cm) /\ Cells(cm) \subseteq live
      /\ (n > 0 => Index(m) \in 1..n /\ position[m] = cm[Index(m)] /\ root[m] = cm[1]
                   /\ Cursor(m) = Index(m))
  BY WholeIs DEF Nodes
<1>3. s \in Seq(Items) /\ Len(s) = n /\ (\A i \in 1..n : s[i] = item[cm[i]])
      /\ (s = <<>> <=> cm = <<>>)
  BY ItemsOfIs
<1>4. size[l] = 0 /\ ItemsOf(l) = <<>> /\ Cursor(l) = 0
  <2>1. size[l] = 0
    BY <1>1, WholeIs
  <2>2. ItemsOf(l) = <<>>
    BY <1>1, ItemsOfIs
  <2> QED BY <2>1, <2>2 DEF Cursor
<1> HIDE DEF cm, n, s
<1>5. CASE n = 0
  <2>1. Done /\ UNCHANGED <<heap, objects>>
    BY <1>2, <1>5 DEF CopyRoot
  <2>2. /\ next' = next /\ previous' = previous /\ item' = item /\ live' = live
        /\ root' = root /\ position' = position /\ size' = size /\ chain' = chain
    BY <2>1 DEF heap, objects
  <2>3. HeapOK'
    BY <2>2 DEF HeapOK
  <2>4. \A k \in AllLists : Same(k)
    BY <2>2 DEF Same
  <2>5. Whole(l)' /\ ItemsOf(l)' = ItemsOf(l) /\ Cursor(l)' = Cursor(l)
    BY <1>1, <2>4, SameIs
  <2>6. s = <<>> /\ Cursor(m) = 0
    <3>1. Len(s) = 0
      BY <1>3, <1>5
    <3>2. s = <<>>
      BY <1>3, <3>1, EmptySeq
    <3> QED BY <1>2, <1>5, <3>2 DEF Cursor
  <2> QED BY <1>1, <1>4, <2>1, <2>3, <2>4, <2>5, <2>6 DEF Copied, s
<1>6. CASE n # 0
  <2>1. n > 0
    BY <1>2, <1>6
  <2>2. PICK x \in Fresh(live) :
          /\ live' = live \cup {x}
          /\ item' = [item EXCEPT ![x] = item[root[m]]]
          /\ root' = [root EXCEPT ![l] = x]
          /\ position' = [position EXCEPT ![l] = x]
          /\ chain' = [chain EXCEPT ![l] = <<x>>]
          /\ IF size[m] = 1
             THEN /\ next' = [next EXCEPT ![x] = x]
                  /\ previous' = [previous EXCEPT ![x] = x]
                  /\ size' = [size EXCEPT ![l] = 1]
                  /\ Done
             ELSE /\ Continue(root[m])
                  /\ saved' = IF root[m] = position[m] THEN x ELSE Null
                  /\ UNCHANGED <<next, previous, size, counter>>
    BY <1>2, <1>6 DEF CopyRoot
  <2> DEFINE v == item[root[m]]
  <2>3. x \in Addrs \ live
    BY FreshAssumption DEF HeapOK
  <2>4. root[m] = cm[1] /\ 1 \in 1..n /\ cm[1] \in live /\ s[1] = v /\ v \in Items
    <3>1. 1 \in 1..n /\ root[m] = cm[1]
      BY <1>2, <2>1
    <3>2. cm[1] \in live
      BY <1>2, <3>1 DEF Cells, n
    <3> QED BY <1>3, <3>1, <3>2 DEF HeapOK
  <2> HIDE DEF v
  <2>5. CASE n = 1
    <3>1. /\ next' = [next EXCEPT ![x] = x] /\ previous' = [previous EXCEPT ![x] = x]
          /\ live' = live \cup {x} /\ item' = [item EXCEPT ![x] = v]
          /\ size' = [size EXCEPT ![l] = 1] /\ chain' = [chain EXCEPT ![l] = <<x>>]
          /\ root' = [root EXCEPT ![l] = x] /\ position' = [position EXCEPT ![l] = x]
          /\ Done
      BY <1>2, <2>2, <2>5 DEF v
    <3>2. /\ HeapOK' /\ Whole(l)' /\ Cursor(l)' = 1 /\ ItemsOf(l)' = <<v>>
          /\ \A k \in AllLists : k # l => Same(k)
      BY <1>1, <2>3, <2>4, <3>1, LinksFirst
    <3>3. s = <<v>>
      <4>1. <<v>> \in Seq(Items) /\ Len(<<v>>) = 1 /\ \A i \in 1..1 : <<v>>[i] = v /\ s[i] = v
        BY <2>4
      <4> QED BY <1>3, <2>5, <4>1, SeqEqual
    <3>4. Cursor(m) = 1
      BY <1>2, <2>5
    <3> QED BY <1>1, <3>1, <3>2, <3>3, <3>4 DEF Copied, s
  <2>6. CASE n # 1
    <3>1. /\ Continue(root[m]) /\ saved' = (IF root[m] = position[m] THEN x ELSE Null)
          /\ next' = next /\ previous' = previous /\ size' = size /\ counter' = counter
          /\ live' = live \cup {x} /\ item' = [item EXCEPT ![x] = v]
          /\ root' = [root EXCEPT ![l] = x] /\ position' = [position EXCEPT ![l] = x]
          /\ chain' = [chain EXCEPT ![l] = <<x>>]
      BY <1>2, <2>2, <2>6 DEF v
    <3>2. chain' = [chain EXCEPT ![l] = Append(@, x)]
      <4>1. Append(chain[l], x) = <<x>>
        BY <1>1
      <4> QED BY <3>1, <4>1
    <3>3. /\ root' \in [AllLists -> Pointer] /\ position' \in [AllLists -> Pointer]
          /\ size' \in [AllLists -> Nat]
          /\ next' \in [Addrs -> Pointer] /\ previous' \in [Addrs -> Pointer]
          /\ \A k \in AllLists : k # l =>
               root'[k] = root[k] /\ position'[k] = position[k] /\ size'[k] = size[k]
      BY <2>3, <3>1 DEF HeapOK, Pointer
    <3>4. /\ HeapOK' /\ (\A k \in AllLists : k # l => Same(k)) /\ item'[x] = v
          /\ \A a \in live : item'[a] = item[a]
      <4>1. /\ live' = live \cup {x} /\ item' = [item EXCEPT ![x] = v]
            /\ \A a \in live : a \notin Nodes(l) => next'[a] = next[a] /\ previous'[a] = previous[a]
        BY <3>1
      <4>2. HeapOK' /\ \A k \in AllLists : k # l => Same(k)
        BY <2>3, <2>4, <3>2, <3>3, <4>1, Grows
      <4>3. item'[x] = v /\ \A a \in live : item'[a] = item[a]
        BY <2>3, <4>1 DEF HeapOK
      <4> QED BY <4>2, <4>3
    <3>5. chain'[l] = <<x>> /\ root'[l] = x /\ position'[l] = x /\ size'[l] = 0
      BY <1>4, <3>1 DEF HeapOK
    <3>6. /\ chain'[m] = cm /\ Index(m)' = Index(m)
      <4>1. Same(m)
        BY <3>4
      <4> QED BY <4>1, SameIs DEF Same, cm
    <3>7. root[m] = position[m] <=> Index(m) = 1
      BY <1>2, <2>1, <2>4 DEF Distinct, n
    <3>8. saved' = (IF Index(m) <= 1 THEN <<x>>[Index(m)] ELSE Null) /\ saved' \in Pointer
      <4>1. Index(m) <= 1 <=> Index(m) = 1
        BY <1>2, <2>1
      <4>2. <<x>>[1] = x
        OBVIOUS
      <4> QED BY <2>3, <3>1, <3>7, <4>1, <4>2 DEF Pointer
    <3>9. current' = cm[1] /\ cm[1] \in Addrs /\ UNCHANGED <<todo, held, done>>
      BY <2>4, <3>1 DEF Continue, HeapOK
    <3>10. Copying(l, m)'
      <4>1. Len(<<x>>) = 1 /\ 1 > 0 /\ 1 < n /\ <<x>>[1] = x /\ 1..(1 - 1) = {}
        BY <1>2, <2>1, <2>6
      <4>2. Linked(<<x>>, 1)'
        BY <4>1 DEF Linked
      <4>3. Walked(m, 1)'
        BY <2>4, <3>6, <3>9 DEF Walked, n
      <4>4. item'[x] = item'[cm[1]]
        BY <1>3, <2>4, <3>4
      <4>5. \A i \in 1..1 : item'[<<x>>[i]] = item'[cm[i]]
        BY <4>1, <4>4
      <4> QED BY <3>5, <3>6, <3>8, <4>1, <4>2, <4>3, <4>5 DEF Copying, n
    <3>11. Filling(l, m)' /\ Continues
      BY <3>1, <3>8, <3>9, <3>10, NullAssumption DEF Filling, Continues
    <3> QED BY <1>1, <3>4, <3>11
  <2> QED BY <2>5, <2>6
<1> QED BY <1>5, <1>6

LEMMA CopyNodeStep ==
  ASSUME HeapOK, saved \in Pointer, CopyNode, NEW l \in AllLists, NEW m \in AllLists, l # m,
         List = l, Source = m, Whole(m), Filling(l, m)
  PROVE  /\ HeapOK' /\ \A k \in AllLists : k # l => Same(k)
         /\ Copied(l, m) \/ (Continues /\ Filling(l, m)')
         /\ UNCHANGED <<values, value, found>>
<1> DEFINE c == chain[l]
           n == Len(c)
           h == n + 1
           cm == chain[m]
           e == Len(cm)
           s == ItemsOf(m)
           d == chain'[l]
           j == Index(m)
           from == cm[h]
           last == c[n]
           first == c[1]
           v == item[from]
<1>1. /\ current # Null /\ UNCHANGED <<values, value, found>>
      /\ n > 0 /\ n < e /\ n \in 1..e /\ current = cm[n]
      /\ root[l] = first /\ position[l] = last /\ size[l] = 0
      /\ Linked(c, n)
      /\ \A i \in 1..n : item[c[i]] = item[cm[i]]
      /\ saved = IF j <= n THEN c[j] ELSE Null
  BY DEF CopyNode, Filling, Copying, Walked
<1>2. /\ cm \in Seq(Addrs) /\ e \in Nat /\ size[m] = e /\ Distinct(cm) /\ Cells(cm) \subseteq live
      /\ j \in 1..e /\ position[m] = cm[j] /\ root[m] = cm[1] /\ Cursor(m) = j
      /\ Ring(cm, next, previous)
  <2>1. e > 0
    <3>1. e \in Nat
      BY WholeIs
    <3> QED BY <1>1, <3>1
  <2> QED BY <2>1, WholeIs DEF Nodes
<1>3. s \in Seq(Items) /\ Len(s) = e /\ \A i \in 1..e : s[i] = item[cm[i]]
  BY ItemsOfIs
<1>4. c \in Seq(Addrs) /\ n \in Nat /\ Distinct(c) /\ Cells(c) \subseteq live /\ live \subseteq Addrs
  BY LenProperties DEF HeapOK, Owned
<1> HIDE DEF c, cm, s, j
<1>5. /\ h \in 1..e /\ h \in Nat /\ h > 1 /\ 1 \in 1..n /\ n \in 1..n /\ 1 \in 1..h
      /\ (n \in 1..e) /\ 1 \in 1..e /\ Successor(n, e) = h /\ Successor(h, e) = IF h = e THEN 1 ELSE h + 1
  BY <1>1, <1>2, <1>4 DEF Successor
<1> HIDE DEF n, h, e
<1>6. next[current] = from /\ next[from] = cm[Successor(h, e)]
      /\ (next[from] = root[m] <=> h = e) /\ (from = position[m] <=> j = h)
  <2>1. \A i \in 1..e : next[cm[i]] = cm[Successor(i, e)]
    BY <1>2 DEF Ring, e
  <2>2. next[current] = from /\ next[from] = cm[Successor(h, e)]
    BY <1>1, <1>5, <2>1
  <2>3. Successor(h, e) \in 1..e /\ (Successor(h, e) = 1 <=> h = e)
    BY <1>2, <1>5 DEF Successor
  <2>4. next[from] = root[m] <=> h = e
    BY <1>2, <1>5, <2>2, <2>3 DEF Distinct, e
  <2>5. from = position[m] <=> j = h
    BY <1>2, <1>5 DEF Distinct, e
  <2> QED BY <2>2, <2>4, <2>5
<1>7. first \in live /\ last \in live /\ from \in live /\ first \in Cells(c) /\ last \in Cells(c)
  <2>1. first \in Cells(c) /\ last \in Cells(c) /\ from \in Cells(cm)
    BY <1>5 DEF Cells, n, e
  <2> QED BY <1>2, <1>4, <2>1
<1> HIDE DEF from, last, first
<1>8. PICK x \in Fresh(live) :
       LET keep == IF from = position[m] THEN x ELSE saved IN
       /\ live' = live \cup {x}
       /\ item' = [item EXCEPT ![x] = v]
       /\ chain' = [chain EXCEPT ![l] = Append(@, x)]
       /\ IF h = e
          THEN /\ next' = [next EXCEPT ![last] = x, ![x] = first]
               /\ previous' = [previous EXCEPT ![x] = last, ![first] = x]
               /\ size' = [size EXCEPT ![l] = size[m]]
               /\ position' = [position EXCEPT ![l] = keep]
               /\ Done
          ELSE /\ next' = [next EXCEPT ![last] = x]
               /\ previous' = [previous EXCEPT ![x] = last]
               /\ position' = [position EXCEPT ![l] = x]
               /\ saved' = keep
               /\ Continue(from)
               /\ UNCHANGED <<size, counter>>
  BY <1>1, <1>6 DEF CopyNode
<1>9. x \in Addrs \ live /\ v \in Items /\ root' = root
  BY <1>7, FreshAssumption DEF HeapOK, CopyNode
<1> HIDE DEF v
<1> DEFINE keep == IF from = position[m] THEN x ELSE saved
<1>10. keep = (IF j <= h THEN IF j = h THEN x ELSE c[j] ELSE Null) /\ keep \in Pointer
  <2>1. j <= h <=> j = h \/ j <= n
    BY <1>2, <1>4 DEF h, e
  <2> QED BY <1>1, <1>6, <1>9, <2>1 DEF Pointer
<1> HIDE DEF keep
<1>11. /\ next' \in [Addrs -> Pointer] /\ previous' \in [Addrs -> Pointer]
       /\ next'[last] = x /\ previous'[x] = last
       /\ (h = e => next'[x] = first /\ previous'[first] = x)
       /\ \A a \in live : /\ a # last => next'[a] = next[a]
                          /\ a # first => previous'[a] = previous[a]
       /\ h # e => \A a \in live : previous'[a] = previous[a]
  <2>1. last \in Addrs /\ first \in Addrs /\ x \in Addrs /\ x # last /\ x # first
    BY <1>4, <1>7, <1>9
  <2>2. CASE h = e
    <3> DEFINE f == [next EXCEPT ![last] = x]
               g == [previous EXCEPT ![x] = last]
    <3>1. /\ f \in [Addrs -> Pointer] /\ g \in [Addrs -> Pointer]
          /\ \A a \in Addrs : /\ f[a] = IF a = last THEN x ELSE next[a]
                              /\ g[a] = IF a = x THEN last ELSE previous[a]
      BY <2>1 DEF HeapOK, Pointer
    <3>2. next' = [f EXCEPT ![x] = first] /\ previous' = [g EXCEPT ![first] = x]
      BY <1>8, <2>2
    <3> HIDE DEF f, g
    <3>3. /\ next' \in [Addrs -> Pointer] /\ previous' \in [Addrs -> Pointer]
          /\ \A a \in Addrs : /\ next'[a] = IF a = x THEN first ELSE f[a]
                              /\ previous'[a] = IF a = first THEN x ELSE g[a]
      BY <2>1, <3>1, <3>2 DEF Pointer
    <3> QED BY <1>4, <1>9, <2>1, <2>2, <3>1, <3>3
  <2>3. CASE h # e
    <3>1. next' = [next EXCEPT ![last] = x] /\ previous' = [previous EXCEPT ![x] = last]
      BY <1>8, <2>3
    <3>2. /\ next' \in [Addrs -> Pointer] /\ previous' \in [Addrs -> Pointer]
          /\ \A a \in Addrs : /\ next'[a] = IF a = last THEN x ELSE next[a]
                              /\ previous'[a] = IF a = x THEN last ELSE previous[a]
      BY <2>1, <3>1 DEF HeapOK, Pointer
    <3> QED BY <1>4, <1>9, <2>1, <2>3, <3>2
  <2> QED BY <2>2, <2>3
<1>12. /\ root' \in [AllLists -> Pointer] /\ position' \in [AllLists -> Pointer]
       /\ size' \in [AllLists -> Nat]
       /\ (\A k \in AllLists : k # l =>
             root'[k] = root[k] /\ position'[k] = position[k] /\ size'[k] = size[k])
       /\ root'[l] = first
  <2>1. CASE h = e
    <3>1. size' = [size EXCEPT ![l] = size[m]] /\ position' = [position EXCEPT ![l] = keep]
      BY <1>8, <2>1 DEF keep
    <3> QED BY <1>1, <1>9, <1>10, <3>1 DEF HeapOK
  <2>2. CASE h # e
    <3>1. size' = size /\ position' = [position EXCEPT ![l] = x] /\ x \in Pointer
      BY <1>8, <1>9, <2>2 DEF Pointer
    <3> QED BY <1>1, <1>9, <3>1 DEF HeapOK
  <2> QED BY <2>1, <2>2
<1>13. /\ live' = live \cup {x} /\ item' = [item EXCEPT ![x] = v]
       /\ chain' = [chain EXCEPT ![l] = Append(@, x)]
  BY <1>8
<1>14. /\ HeapOK' /\ (\A k \in AllLists : k # l => Same(k))
       /\ d \in Seq(Addrs) /\ Len(d) = h /\ Distinct(d)
       /\ d[h] = x /\ (\A i \in 1..n : d[i] = c[i] /\ c[i] \in live /\ c[i] # x)
       /\ item'[x] = v /\ \A a \in live : item'[a] = item[a]
  <2>1. \A a \in live : a \notin Nodes(l) => next'[a] = next[a] /\ previous'[a] = previous[a]
    BY <1>7, <1>11 DEF Nodes, c
  <2>2. /\ HeapOK' /\ (\A k \in AllLists : k # l => Same(k))
    BY <1>9, <1>11, <1>12, <1>13, <2>1, Grows
  <2>3. /\ d \in Seq(Addrs) /\ Len(d) = n + 1 /\ Distinct(d) /\ d[n + 1] = x
    <3>1. /\ chain'[l] \in Seq(Addrs) /\ Len(chain'[l]) = Len(chain[l]) + 1
          /\ Distinct(chain'[l]) /\ chain'[l][Len(chain[l]) + 1] = x
      BY <1>9, <1>11, <1>12, <1>13, <2>1, Grows, Zenon
    <3> QED BY <3>1 DEF c, n
  <2>4. \A i \in 1..n : d[i] = c[i] /\ c[i] \in live /\ c[i] # x
    <3>1. \A i \in 1..Len(chain[l]) : chain'[l][i] = chain[l][i]
      BY <1>9, <1>11, <1>12, <1>13, <2>1, Grows
    <3>2. \A i \in 1..n : c[i] \in live
      BY <1>4 DEF Cells, n
    <3> QED BY <1>9, <3>1, <3>2 DEF c, n
  <2>5. item'[x] = v /\ \A a \in live : item'[a] = item[a]
    BY <1>9, <1>13 DEF HeapOK
  <2> QED BY <2>2, <2>3, <2>4, <2>5 DEF h
<1>15. chain'[m] = cm /\ Index(m)' = j /\ Whole(m)'
  <2>1. Same(m)
    BY <1>14
  <2>2. chain'[m] = cm
    BY <2>1 DEF Same, cm
  <2>3. Index(m)' = j /\ Whole(m)'
    BY <2>1, SameIs DEF j
  <2> QED BY <2>2, <2>3
<1> HIDE DEF d
<1>16. \A i \in 1..h : item'[d[i]] = item'[cm[i]] /\ item'[cm[i]] = item[cm[i]]
  <2>1. ASSUME NEW i \in 1..h PROVE item'[d[i]] = item'[cm[i]] /\ item'[cm[i]] = item[cm[i]]
    <3>1. i \in 1..e
      BY <1>2, <1>5
    <3>2. cm[i] \in live
      BY <1>2, <3>1 DEF Cells, e
    <3>3. item'[cm[i]] = item[cm[i]]
      BY <1>14, <3>2
    <3>4. CASE i = h
      BY <1>14, <3>3, <3>4 DEF v, from
    <3>5. CASE i # h
      <4>1. i \in 1..n
        BY <1>4, <3>5 DEF h
      <4> QED BY <1>1, <1>14, <3>3, <4>1
    <3> QED BY <3>4, <3>5
  <2> QED BY <2>1
<1>17. \A i \in 1..n : next'[d[i]] = d[i + 1] /\ previous'[d[i + 1]] = d[i]
  <2> SUFFICES ASSUME NEW i \in 1..n PROVE next'[d[i]] = d[i + 1] /\ previous'[d[i + 1]] = d[i]
    OBVIOUS
  <2>1. CASE i = n
    <3>1. d[n] = last /\ d[n + 1] = x
      BY <1>5, <1>14 DEF h, last
    <3> QED BY <1>11, <2>1, <3>1
  <2>2. CASE i # n
    <3> DEFINE k == i + 1
    <3>1. k \in 1..n /\ i \in 1..(n - 1) /\ k # 1
      BY <1>4, <2>2
    <3>2. next[c[i]] = c[k] /\ previous[c[k]] = c[i]
      BY <1>1, <3>1 DEF Linked
    <3> HIDE DEF k
    <3>3. c[i] # last /\ c[k] # first
      BY <1>4, <1>5, <2>2, <3>1 DEF Distinct, last, first, n
    <3>4. next'[c[i]] = c[k] /\ previous'[c[k]] = c[i]
      BY <1>11, <1>14, <3>1, <3>2, <3>3
    <3>5. d[i] = c[i] /\ d[k] = c[k]
      BY <1>14, <3>1
    <3> QED BY <3>4, <3>5 DEF k
  <2> QED BY <2>1, <2>2
<1>18. d[1] = first
  BY <1>5, <1>14 DEF first
<1>19. CASE h = e
  <2>1. Done /\ size'[l] = h /\ position'[l] = keep
    BY <1>2, <1>8, <1>19 DEF keep, HeapOK
  <2>2. j \in 1..h /\ keep = d[j]
    <3>1. j \in 1..h /\ j <= h
      BY <1>2, <1>19
    <3>2. CASE j = h
      BY <1>10, <1>14, <3>1, <3>2
    <3>3. CASE j # h
      <4>1. j \in 1..n
        BY <1>4, <3>1, <3>3 DEF h
      <4> QED BY <1>10, <1>14, <3>1, <3>3, <4>1
    <3> QED BY <3>2, <3>3
  <2>3. Ring(d, next', previous')
    <3>1. ASSUME NEW i \in 1..h
          PROVE  next'[d[i]] = d[Successor(i, h)] /\ previous'[d[Successor(i, h)]] = d[i]
      <4>1. CASE i = h
        BY <1>11, <1>14, <1>18, <1>19, <4>1 DEF Successor
      <4>2. CASE i # h
        <5>1. i \in 1..n
          BY <1>4, <4>2 DEF h
        <5> QED BY <1>17, <4>2, <5>1 DEF Successor
      <4> QED BY <4>1, <4>2
    <3> QED BY <1>14, <3>1 DEF Ring
  <2>4. Whole(l)'
    <3>1. h # 0 /\ h > 0
      BY <1>5
    <3> QED BY <1>12, <1>14, <1>18, <2>1, <2>2, <2>3, <3>1 DEF Whole, Ring, d
  <2>5. Cursor(l)' = j
    BY <1>14, <2>1, <2>2, IndexNext DEF d
  <2>6. ItemsOf(l)' = s
    <3>1. Len(s) = Len(chain'[l]) /\ \A i \in 1..Len(s) : item'[chain'[l][i]] = s[i]
      BY <1>3, <1>14, <1>16, <1>19 DEF d
    <3> QED BY <1>3, <1>14, <3>1, ItemsOfNext
  <2> QED BY <1>1, <1>2, <1>14, <2>1, <2>4, <2>5, <2>6 DEF Copied, s
<1>20. CASE h # e
  <2>1. /\ current' = from /\ UNCHANGED <<todo, held, done, counter>>
        /\ saved' = keep /\ size'[l] = 0 /\ position'[l] = x
    BY <1>1, <1>8, <1>20 DEF keep, HeapOK, Continue
  <2>2. h < e /\ h > 0
    BY <1>2, <1>5, <1>20
  <2>3. keep = IF j <= h THEN d[j] ELSE Null
    <3>1. CASE j = h
      BY <1>10, <1>14, <3>1
    <3>2. CASE j <= h /\ j # h
      <4>1. j \in 1..n
        BY <1>2, <1>4, <3>2 DEF h
      <4> QED BY <1>10, <1>14, <3>2, <4>1
    <3>3. CASE ~(j <= h)
      BY <1>10, <3>3
    <3>4. j = h => j <= h
      BY <1>5
    <3> QED BY <3>1, <3>2, <3>3, <3>4
  <2>4. \A i \in 1..(h - 1) : next'[d[i]] = d[i + 1] /\ previous'[d[i + 1]] = d[i]
    <3>1. h - 1 = n
      BY <1>4 DEF h
    <3> QED BY <1>17, <3>1
  <2>5. Copying(l, m)'
    <3>0. PICK g \in Nat : g = h
      BY <1>5
    <3>1. g \in 1..Len(chain'[m]) /\ current' = chain'[m][g] /\ g < Len(chain'[m])
      BY <1>5, <1>15, <2>1, <2>2, <3>0 DEF from, e
    <3>2. Len(chain'[l]) = g /\ root'[l] = chain'[l][1] /\ position'[l] = chain'[l][g] /\ g > 0
          /\ size'[l] = 0
      BY <1>12, <1>14, <1>18, <2>1, <2>2, <3>0 DEF d
    <3>3. \A i \in 1..g : item'[chain'[l][i]] = item'[chain'[m][i]]
      BY <1>15, <1>16, <3>0 DEF d
    <3>4. Linked(chain[l], g)'
      BY <2>4, <3>0 DEF Linked, d
    <3>5. Walked(m, g)'
      BY <3>1 DEF Walked
    <3>6. saved' = IF Index(m)' <= g THEN chain'[l][Index(m)'] ELSE Null
      BY <1>15, <2>1, <2>3, <3>0 DEF d
    <3> QED BY <3>1, <3>2, <3>3, <3>4, <3>5, <3>6 DEF Copying
  <2>6. Filling(l, m)' /\ Continues
    <3>1. from \in Addrs
      BY <1>4, <1>7
    <3> QED BY <1>10, <2>1, <2>5, <3>1, NullAssumption DEF Filling, Continues
  <2> QED BY <1>1, <1>14, <2>6
<1> QED BY <1>19, <1>20

-----------------------------------------------------------------------------
(* Concatenate: one iteration.                                              *)

LEMMA LengthsNext ==
  ASSUME NEW l \in AllLists
  PROVE  (HeapOK /\ Whole(l) =>
            /\ Len(ItemsOf(l)) = Len(chain[l]) /\ Len(chain[l]) \in Nat
            /\ Len(chain[l]) > 0 => Cursor(l) = Index(l))'
<1>1. HeapOK /\ Whole(l) =>
            /\ Len(ItemsOf(l)) = Len(chain[l]) /\ Len(chain[l]) \in Nat
            /\ Len(chain[l]) > 0 => Cursor(l) = Index(l)
  BY WholeIs, ItemsOfIs
<1> QED BY <1>1, PTL

LEMMA InsertedLast ==
  ASSUME NEW S, NEW c \in Seq(S), NEW x \in S
  PROVE  Abstract!InsertedAt(c, Len(c) + 1, x) = Append(c, x)
<1> DEFINE n == Len(c)
           a == Append(c, x)
           d == Abstract!InsertedAt(c, n + 1, x)
<1>1. n \in Nat /\ a \in Seq(S) /\ Len(a) = n + 1 /\ a[n + 1] = x /\ \A i \in 1..n : a[i] = c[i]
  BY LenProperties, AppendProperties
<1>2. d = [k \in 1..(n + 1) |-> IF k < n + 1 THEN c[k] ELSE IF k = n + 1 THEN x ELSE c[k - 1]]
  BY DEF Abstract!InsertedAt
<1> HIDE DEF a, d, n
<1>3. a \in [1..(n + 1) -> S]
  BY <1>1, LenProperties
<1>4. ASSUME NEW k \in 1..(n + 1) PROVE a[k] = d[k]
  BY <1>1, <1>2
<1> QED BY <1>2, <1>3, <1>4 DEF a, d, n

LEMMA PrefixGrows ==
  ASSUME NEW S, NEW s \in Seq(S), NEW t \in Seq(S), NEW k \in Nat, k < Len(t)
  PROVE  /\ Append(s \o SubSeq(t, 1, k), t[k + 1]) = s \o SubSeq(t, 1, k + 1)
         /\ s \o SubSeq(t, 1, 0) = s /\ SubSeq(t, 1, Len(t)) = t
         /\ s \o SubSeq(t, 1, k) \in Seq(S) /\ Len(s \o SubSeq(t, 1, k)) = Len(s) + k
<1> DEFINE n == Len(s)
           e == Len(t)
           h == k + 1
           u == SubSeq(t, 1, k)
           v == SubSeq(t, 1, h)
<1>1. n \in Nat /\ e \in Nat /\ h \in 1..e /\ t[h] \in S /\ h - 1 = k /\ h \in Nat
  BY LenProperties, ElementOfSeq
<1> HIDE DEF n, e, h
<1>2. u \in Seq(S) /\ Len(u) = k /\ \A i \in 1..k : u[i] = t[i]
  <2>1. \A i \in 1..k : t[i] \in S
    BY <1>1, ElementOfSeq DEF e, h
  <2>2. /\ u \in Seq(S) /\ Len(u) = (IF 1 <= k THEN k - 1 + 1 ELSE 0)
        /\ \A i \in 1..(k - 1 + 1) : u[i] = t[1 + i - 1]
    BY <2>1, SubSeqProperties
  <2> HIDE DEF u
  <2>3. k - 1 + 1 = k /\ Len(u) = k
    BY <2>2
  <2>4. ASSUME NEW i \in 1..k PROVE u[i] = t[i]
    <3>1. 1 + i - 1 = i /\ i \in 1..(k - 1 + 1)
      BY <2>3
    <3> QED BY <2>2, <3>1
  <2> QED BY <2>2, <2>3, <2>4
<1>3. v \in Seq(S) /\ Len(v) = h /\ \A i \in 1..h : v[i] = t[i]
  <2>1. \A i \in 1..h : t[i] \in S
    BY <1>1, ElementOfSeq DEF e
  <2>2. /\ v \in Seq(S) /\ Len(v) = (IF 1 <= h THEN h - 1 + 1 ELSE 0)
        /\ \A i \in 1..(h - 1 + 1) : v[i] = t[1 + i - 1]
    BY <1>1, <2>1, SubSeqProperties
  <2> HIDE DEF v
  <2>3. h - 1 + 1 = h /\ Len(v) = h
    BY <1>1, <2>2
  <2>4. ASSUME NEW i \in 1..h PROVE v[i] = t[i]
    <3>1. 1 + i - 1 = i /\ i \in 1..(h - 1 + 1)
      BY <2>3
    <3> QED BY <2>2, <3>1
  <2> QED BY <2>2, <2>3, <2>4
<1> HIDE DEF u, v
<1>4. /\ s \o u \in Seq(S) /\ Len(s \o u) = n + k
      /\ \A i \in 1..(n + k) : (s \o u)[i] = IF i <= n THEN s[i] ELSE u[i - n]
  BY <1>2, ConcatProperties DEF n
<1>5. /\ s \o v \in Seq(S) /\ Len(s \o v) = n + h
      /\ \A i \in 1..(n + h) : (s \o v)[i] = IF i <= n THEN s[i] ELSE v[i - n]
  BY <1>3, ConcatProperties DEF n
<1> DEFINE a == s \o u
           b == s \o v
           p == Append(a, t[h])
<1> HIDE DEF a, b
<1>6. /\ p \in Seq(S) /\ Len(p) = n + k + 1 /\ p[n + k + 1] = t[h]
      /\ \A i \in 1..(n + k) : p[i] = a[i]
  BY <1>1, <1>4, AppendProperties DEF a
<1> HIDE DEF p
<1>7. p = b
  <2>1. n + k + 1 = n + h
    BY <1>1 DEF h
  <2>2. ASSUME NEW i \in 1..(n + h) PROVE p[i] = b[i]
    <3>1. CASE i <= n
      <4>1. i \in 1..(n + k)
        BY <1>1, <3>1
      <4> QED BY <1>4, <1>5, <1>6, <3>1, <4>1 DEF a, b
    <3>2. CASE i > n /\ i # n + h
      <4>1. i \in 1..(n + k) /\ i - n \in 1..k /\ i - n \in 1..h /\ ~(i <= n)
        BY <1>1, <2>1, <3>2
      <4>2. a[i] = u[i - n] /\ b[i] = v[i - n]
        BY <1>4, <1>5, <4>1 DEF a, b
      <4> QED BY <1>2, <1>3, <1>6, <4>1, <4>2
    <3>3. CASE i = n + h
      <4>1. i - n = h /\ ~(i <= n) /\ h \in 1..h
        BY <1>1, <3>3
      <4>2. b[i] = v[h]
        BY <1>5, <4>1 DEF b
      <4> QED BY <1>3, <1>6, <2>1, <3>3, <4>1, <4>2
    <3> QED BY <1>1, <3>1, <3>2, <3>3
  <2> QED BY <1>5, <1>6, <2>1, <2>2, SeqEqual DEF b
<1>8. s \o SubSeq(t, 1, 0) = s
  <2>1. SubSeq(t, 1, 0) = <<>>
    BY SubSeqEmpty
  <2> QED BY <2>1, ConcatEmptySeq
<1>9. SubSeq(t, 1, Len(t)) = t
  BY SubSeqFull
<1> QED BY <1>4, <1>7, <1>8, <1>9 DEF p, a, b, u, v, h, n

Appended(l, m, s) ==
  /\ Done /\ Whole(l)' /\ ItemsOf(l)' = s \o ItemsOf(m) /\ Cursor(l)' = Len(s \o ItemsOf(m))

LEMMA AppendBeginsStep ==
  ASSUME HeapOK, saved \in Pointer, AppendBegins, NEW l \in AllLists, NEW m \in AllLists, l # m,
         List = l, Source = m, Whole(m), size[m] # 0, NEW s \in Seq(Items), Appending(l, m, s),
         counter = 0
  PROVE  /\ HeapOK' /\ (\A k \in AllLists : k # l => Same(k))
         /\ Continues /\ Appending(l, m, s)'
         /\ UNCHANGED <<values, value, found>>
<1> DEFINE c == chain[l]
           n == Len(c)
           cm == chain[m]
           t == ItemsOf(m)
<1>1. /\ current = Null /\ Whole(l) /\ s # <<>> /\ ItemsOf(l) = s
      /\ position' = [position EXCEPT ![l] = previous[root[l]]]
      /\ Continue(root[m])
      /\ UNCHANGED <<heap, root, size, chain, saved, counter, values, value, found>>
  BY DEF AppendBegins, Appending
<1>2. /\ size[l] # 0 /\ c \in Seq(Addrs) /\ n \in Nat /\ size[l] = n
  <2>1. c # <<>>
    BY <1>1, ItemsOfIs
  <2>2. c \in Seq(Addrs) /\ n \in Nat /\ size[l] = n /\ (n = 0 => c = <<>>)
    BY <1>1, WholeIs
  <2> QED BY <2>1, <2>2
<1>3. previous[root[l]] = c[n] /\ n \in 1..n
  BY <1>1, <1>2, Neighbours
<1>4. /\ HeapOK' /\ Whole(l)' /\ Index(l)' = n /\ ItemsOf(l)' = s
      /\ \A k \in AllLists : k # l => Same(k)
  <2>1. /\ position' = [position EXCEPT ![l] = chain[l][n]]
        /\ UNCHANGED <<heap, root, size, chain>>
    BY <1>1, <1>3
  <2> HIDE DEF n
  <2> QED BY <1>1, <1>3, <2>1, MoveIs DEF n
<1>5. /\ chain'[m] = cm /\ ItemsOf(m)' = t
  <2>1. Same(m)
    BY <1>4
  <2> QED BY <2>1, SameIs DEF Same
<1>6. 1 \in 1..Len(cm) /\ root[m] = cm[1] /\ cm[1] \in Addrs /\ t \in Seq(Items)
      /\ Len(t) = Len(cm) /\ 0 < Len(t)
  <2>1. cm \in Seq(Addrs) /\ Len(cm) \in Nat /\ size[m] = Len(cm)
    BY WholeIs
  <2>2. 1 \in 1..Len(cm) /\ Len(cm) > 0
    BY <2>1
  <2>3. root[m] = cm[1]
    BY <2>2, WholeIs
  <2>4. cm[1] \in Addrs
    BY <2>1, <2>2, ElementOfSeq
  <2>5. t \in Seq(Items) /\ Len(t) = Len(cm)
    BY ItemsOfIs
  <2> QED BY <2>2, <2>3, <2>4, <2>5
<1>7. current' = cm[1] /\ UNCHANGED <<todo, held, done>> /\ counter' = 0 /\ chain' = chain
      /\ saved' = saved
  BY <1>1, <1>6 DEF Continue
<1>8. s \o SubSeq(t, 1, 0) = s
  BY <1>6, PrefixGrows
<1>9. Walked(m, counter + 1)'
  BY <1>6, <1>7 DEF Walked
<1>10. Appending(l, m, s)'
  BY <1>1, <1>4, <1>5, <1>6, <1>7, <1>8, <1>9, NullAssumption DEF Appending
<1>11. Continues
  BY <1>6, <1>7 DEF Continues
<1> QED BY <1>1, <1>4, <1>10, <1>11

LEMMA AppendNodeStep ==
  ASSUME HeapOK, saved \in Pointer, AppendNode, NEW l \in AllLists, NEW m \in AllLists, l # m,
         List = l, Source = m, Whole(m), size[m] # 0, NEW s \in Seq(Items), Appending(l, m, s),
         counter \in Nat, todo[1].do = "append"
  PROVE  /\ HeapOK' /\ (\A k \in AllLists : k # l => Same(k))
         /\ Appended(l, m, s) \/ (Continues /\ Appending(l, m, s)')
         /\ UNCHANGED <<values, value, found>>
<1> DEFINE c == chain[l]
           n == Len(c)
           cm == chain[m]
           e == Len(cm)
           t == ItemsOf(m)
           r == ItemsOf(l)
<1>0. PICK k \in Nat : k = counter
  OBVIOUS
<1> DEFINE h == k + 1
           x == item[current]
<1>1. /\ current # Null /\ Whole(l) /\ s # <<>> /\ h \in 1..e /\ current = cm[h]
      /\ Index(l) = n /\ r = s \o SubSeq(t, 1, k)
      /\ UNCHANGED <<values, value, found>> /\ AddNode(l, x, TRUE)
  BY <1>0 DEF AppendNode, Appending, Walked
<1>2. /\ cm \in Seq(Addrs) /\ e \in Nat /\ size[m] = e /\ Ring(cm, next, previous)
      /\ Cells(cm) \subseteq live /\ live \subseteq Addrs
  BY WholeIs DEF Nodes, HeapOK
<1>3. t \in Seq(Items) /\ Len(t) = e /\ (\A i \in 1..e : t[i] = item[cm[i]])
  BY ItemsOfIs
<1>4. r \in Seq(Items) /\ Len(r) = n /\ n \in Nat /\ size[l] = n
  BY <1>1, ItemsOfIs, WholeIs
<1> HIDE DEF c, cm, t, r, n
<1>5. /\ Append(r, t[h]) = s \o SubSeq(t, 1, h) /\ SubSeq(t, 1, e) = t /\ k < e
  <2>1. k < Len(t)
    BY <1>1, <1>2, <1>3
  <2>2. Append(s \o SubSeq(t, 1, k), t[h]) = s \o SubSeq(t, 1, h) /\ SubSeq(t, 1, Len(t)) = t
    BY <1>3, <2>1, PrefixGrows
  <2> QED BY <1>1, <1>3, <2>1, <2>2
<1>6. n # 0 /\ Len(s \o SubSeq(t, 1, k)) = Len(s) + k
  <2>1. k < Len(t)
    BY <1>3, <1>5
  <2>2. Len(s \o SubSeq(t, 1, k)) = Len(s) + k
    BY <1>3, <2>1, PrefixGrows
  <2>3. Len(s) \in Nat /\ Len(s) # 0
    BY <1>1, LenProperties, EmptySeq
  <2> QED BY <1>1, <1>4, <2>2, <2>3
<1>7. x = t[h] /\ x \in Items
  BY <1>1, <1>3, ElementOfSeq
<1> HIDE DEF h, x
<1>8. /\ HeapOK' /\ Whole(l)' /\ ItemsOf(l)' = Append(r, x) /\ Cursor(l)' = n + 1
      /\ \A i \in AllLists : i # l => Same(i)
  <2>1. /\ HeapOK' /\ Whole(l)'
        /\ ItemsOf(l)' = Abstract!InsertedAt(ItemsOf(l), Index(l) + 1, x)
        /\ Cursor(l)' = Index(l) + 1
        /\ \A i \in AllLists : i # l => Same(i)
    <3>1. TRUE \in BOOLEAN /\ size[l] # 0
      BY <1>4, <1>6
    <3> QED BY <1>1, <1>7, <3>1, AddNodeIs
  <2>2. Abstract!InsertedAt(r, n + 1, x) = Append(r, x)
    BY <1>4, <1>7, InsertedLast
  <2> QED BY <1>1, <2>1, <2>2 DEF r
<1>9. ItemsOf(l)' = s \o SubSeq(t, 1, h)
  BY <1>5, <1>7, <1>8
<1>10. /\ chain'[m] = cm /\ ItemsOf(m)' = t
  <2>1. Same(m)
    BY <1>8
  <2> QED BY <2>1, SameIs DEF Same, cm, t
<1>11. Len(ItemsOf(l)') = n + 1
  <2>1. Len(Append(r, x)) = Len(r) + 1
    BY <1>4, <1>7, AppendProperties
  <2> QED BY <1>4, <1>8, <2>1
<1>12. CASE h = e
  <2>1. Done
    BY <1>0, <1>2, <1>12 DEF AppendNode, h
  <2>2. ItemsOf(l)' = s \o t
    BY <1>5, <1>9, <1>12
  <2> QED BY <1>1, <1>8, <1>11, <2>1, <2>2 DEF Appended, t
<1>13. CASE h # e
  <2>1. Continue(next[current]) /\ counter' = h /\ saved' = saved
    BY <1>0, <1>2, <1>13 DEF AppendNode, h
  <2>2. h \in Nat /\ h + 1 \in 1..e /\ Successor(h, e) = h + 1
    BY <1>1, <1>2, <1>13 DEF Successor, h
  <2>3. next[current] = cm[h + 1]
    BY <1>1, <1>2, <2>2 DEF Ring, e
  <2>4. cm[h + 1] \in Addrs
    BY <1>2, <2>2, ElementOfSeq DEF e
  <2>5. Walked(m, counter + 1)'
    BY <1>10, <2>1, <2>2, <2>3 DEF Walked, Continue, e
  <2>6. Index(l)' = Len(chain'[l])
    <3>1. /\ Len(ItemsOf(l)') = Len(chain'[l]) /\ Len(chain'[l]) \in Nat
          /\ Len(chain'[l]) > 0 => Cursor(l)' = Index(l)'
      BY <1>8, LengthsNext
    <3>2. Len(chain'[l]) = n + 1 /\ n + 1 > 0
      BY <1>4, <1>11, <3>1
    <3> QED BY <1>8, <3>1, <3>2
  <2>7. current' # Null
    BY <2>1, <2>3, <2>4, NullAssumption DEF Continue
  <2>8. Appending(l, m, s)'
    BY <1>1, <1>8, <1>9, <1>10, <2>1, <2>5, <2>6, <2>7 DEF Appending
  <2>9. Continues
    BY <2>1, <2>2, <2>3, <2>4 DEF Continues, Continue
  <2> QED BY <1>1, <1>8, <2>8, <2>9
<1> QED BY <1>12, <1>13

-----------------------------------------------------------------------------
(* FindPointer: one node of the walk.                                       *)

LEMMA SearchStep ==
  ASSUME HeapOK, saved \in Pointer, NEW do \in {"search", "find"}, Search(do),
         NEW l \in AllLists, List = l, NEW x \in Items, todo[1].input = x, Whole(l),
         Searching(l, x)
  PROVE  LET s == ItemsOf(l)  o == Abstract!Occurrences(s, x) IN
         /\ HeapOK' /\ Whole(l)' /\ ItemsOf(l)' = s
         /\ \A k \in AllLists : k # l => Same(k)
         /\ \/ Continues /\ Cursor(l)' = Cursor(l) /\ Searching(l, x)' /\ found' = found
            \/ /\ Done /\ found' = (o # {})
               /\ IF found' /\ do = "find"
                  THEN Cursor(l)' \in o /\ \A k \in o : Cursor(l)' <= k
                  ELSE Cursor(l)' = Cursor(l)
         /\ UNCHANGED <<values, value>>
<1> DEFINE c == chain[l]
           n == Len(c)
           s == ItemsOf(l)
           o == Abstract!Occurrences(s, x)
           w == Walker(l)
           hit == size[l] # 0 /\ item[w] = x
           others == \A k \in AllLists : k # l => Same(k)
<1>1. /\ UNCHANGED <<heap, root, size, chain, values, value>>
      /\ IF hit \/ size[l] = 0 \/ next[w] = root[l]
         THEN /\ found' = hit
              /\ position' = [position EXCEPT ![l] = IF hit /\ do = "find" THEN w ELSE @]
              /\ Done
         ELSE Continue(next[w]) /\ UNCHANGED <<position, saved, counter, found>>
  BY DEF Search
<1>2. /\ c \in Seq(Addrs) /\ n \in Nat /\ size[l] = n /\ Distinct(c) /\ Cells(c) \subseteq live
      /\ Ring(c, next, previous) /\ live \subseteq Addrs
  BY WholeIs DEF Nodes, HeapOK
<1>3. s \in Seq(Items) /\ Len(s) = n /\ DOMAIN s = 1..n /\ \A i \in 1..n : s[i] = item[c[i]]
  BY ItemsOfIs
<1>4. o = {i \in 1..n : s[i] = x}
  BY <1>3 DEF Abstract!Occurrences
<1>5. UNCHANGED <<values, value>>
  BY <1>1
<1>6. ASSUME position' = position
      PROVE  HeapOK' /\ Whole(l)' /\ ItemsOf(l)' = s /\ others /\ Cursor(l)' = Cursor(l)
  <2>1. /\ next' = next /\ previous' = previous /\ item' = item /\ live' = live
        /\ root' = root /\ position' = position /\ size' = size /\ chain' = chain
    BY <1>1, <1>6 DEF heap
  <2>2. HeapOK'
    BY <2>1 DEF HeapOK
  <2>3. \A k \in AllLists : Same(k)
    BY <2>1 DEF Same
  <2>4. Whole(l)' /\ ItemsOf(l)' = ItemsOf(l) /\ Cursor(l)' = Cursor(l)
    BY <2>3, SameIs
  <2> QED BY <2>2, <2>3, <2>4
<1> HIDE DEF s, o, others, c, n, w, hit
<1>n. n \in Nat
  BY <1>2
<1>7. CASE size[l] = 0
  <2>1. Done /\ found' = FALSE /\ position' = [position EXCEPT ![l] = position[l]]
    BY <1>1, <1>7 DEF hit
  <2>2. position' = position
    BY <2>1 DEF HeapOK
  <2>3. o = {}
    BY <1>2, <1>4, <1>7
  <2> QED BY <1>5, <1>6, <2>1, <2>2, <2>3 DEF s, o, others
<1>8. CASE size[l] # 0
  <2>1. PICK k \in 1..n : w = c[k] /\ \A i \in 1..(k - 1) : s[i] # x
    <3>1. CASE current = Null
      <4>1. 1 \in 1..n /\ 1..(1 - 1) = {} /\ n > 0
        BY <1>2, <1>8
      <4>2. root[l] = c[1]
        BY <4>1, WholeIs DEF c, n
      <4>3. w = c[1]
        BY <3>1, <4>2 DEF Walker, w
      <4> QED BY <4>1, <4>3
    <3>2. CASE current # Null
      <4>1. PICK k \in 1..n : current = c[k] /\ \A i \in 1..(k - 1) : item[c[i]] # x
        BY <3>2 DEF Searching, Walked, c, n
      <4>2. \A i \in 1..(k - 1) : s[i] # x
        <5>1. \A i \in 1..(k - 1) : i \in 1..n
          BY <1>n
        <5> QED BY <1>3, <4>1, <5>1
      <4> QED BY <3>2, <4>1, <4>2 DEF Walker, w
    <3> QED BY <3>1, <3>2
  <2>2. item[w] = s[k] /\ k \in Nat
    BY <1>3, <2>1
  <2>3. next[w] = c[Successor(k, n)] /\ (next[w] = root[l] <=> k = n)
    <3>1. next[w] = c[Successor(k, n)]
      BY <1>2, <2>1 DEF Ring, n
    <3>2. n > 0 /\ Successor(k, n) \in 1..n /\ 1 \in 1..n /\ (Successor(k, n) = 1 <=> k = n)
      BY <1>2, <2>1 DEF Successor
    <3>3. root[l] = c[1]
      BY <3>2, WholeIs DEF c, n
    <3> QED BY <1>2, <3>1, <3>2, <3>3 DEF Distinct, n
  <2>4. CASE s[k] = x
    <3>1. hit /\ Done /\ found' = TRUE
          /\ position' = [position EXCEPT ![l] = IF do = "find" THEN c[k] ELSE position[l]]
      <4>1. hit
        BY <1>8, <2>2, <2>4 DEF hit
      <4> QED BY <1>1, <2>1, <4>1
    <3>2. k \in o /\ \A i \in o : k <= i
      <4>1. k \in o
        BY <1>4, <2>4
      <4>2. ASSUME NEW i \in o PROVE k <= i
        <5>1. i \in 1..n /\ s[i] = x
          BY <1>4
        <5>2. i < k => i \in 1..(k - 1)
          BY <1>2, <5>1
        <5> QED BY <1>2, <2>1, <5>1, <5>2
      <4> QED BY <4>1, <4>2
    <3>3. CASE do = "find"
      <4>1. position' = [position EXCEPT ![l] = chain[l][k]]
        BY <3>1, <3>3 DEF c
      <4>2. /\ HeapOK' /\ Whole(l)' /\ Cursor(l)' = k /\ ItemsOf(l)' = ItemsOf(l)
            /\ \A i \in AllLists : i # l => Same(i)
        <5>1. UNCHANGED <<heap, root, size, chain>>
          BY <1>1
        <5> QED BY <2>1, <4>1, <5>1, MoveIs DEF c, n
      <4> QED BY <1>5, <3>1, <3>2, <3>3, <4>2 DEF s, o, others
    <3>4. CASE do # "find"
      <4>1. position' = position
        BY <3>1, <3>4 DEF HeapOK
      <4>2. o # {}
        BY <3>2
      <4> QED BY <1>5, <1>6, <3>1, <3>4, <4>1, <4>2 DEF s, o, others
    <3> QED BY <3>3, <3>4
  <2>5. CASE s[k] # x /\ k = n
    <3>1. ~hit /\ Done /\ found' = FALSE /\ position' = [position EXCEPT ![l] = position[l]]
      <4>1. ~hit
        BY <2>2, <2>5 DEF hit
      <4> QED BY <1>1, <2>3, <2>5, <4>1
    <3>2. position' = position
      BY <3>1 DEF HeapOK
    <3>3. o = {}
      <4>1. \A i \in 1..n : i \in 1..(k - 1) \/ i = k
        BY <1>2, <2>5
      <4> QED BY <1>4, <2>1, <2>5, <4>1
    <3> QED BY <1>5, <1>6, <3>1, <3>2, <3>3 DEF s, o, others
  <2>6. CASE s[k] # x /\ k # n
    <3>1. Continue(next[w]) /\ UNCHANGED <<position, saved, counter, found>>
      <4>1. ~hit /\ size[l] # 0
        BY <1>8, <2>2, <2>6 DEF hit
      <4> QED BY <1>1, <2>3, <2>6, <4>1
    <3> DEFINE h == k + 1
    <3>2. h \in 1..n /\ Successor(k, n) = h /\ h - 1 = k
      BY <1>2, <2>1, <2>6 DEF Successor
    <3> HIDE DEF h
    <3>3. current' = c[h] /\ UNCHANGED <<todo, held, done>> /\ c[h] \in Addrs
      BY <1>2, <2>3, <3>1, <3>2, ElementOfSeq DEF Continue, n
    <3>4. Searching(l, x)'
      <4>1. chain' = chain /\ item' = item
        BY <1>1 DEF heap
      <4>2. ASSUME NEW i \in 1..(h - 1) PROVE item'[chain'[l][i]] # x
        <5>1. i \in 1..n /\ (i = k \/ i \in 1..(k - 1))
          BY <1>2, <3>2
        <5> QED BY <1>3, <2>1, <2>6, <4>1, <5>1 DEF c
      <4>3. PICK g \in Nat : g = h
        BY <3>2
      <4>4. Walked(l, g)'
        BY <3>2, <3>3, <4>1, <4>3 DEF Walked, c, n
      <4>5. g \in 1..Len(chain'[l]) /\ \A j \in 1..(g - 1) : item'[chain'[l][j]] # x
        BY <3>2, <4>1, <4>2, <4>3 DEF c, n
      <4> QED BY <4>4, <4>5 DEF Searching
    <3>5. Continues
      BY <3>1, <3>3 DEF Continues
    <3>6. position' = position /\ found' = found
      BY <3>1
    <3> QED BY <1>5, <1>6, <3>4, <3>5, <3>6 DEF s, o, others
  <2> QED BY <2>4, <2>5, <2>6
<1> QED BY <1>7, <1>8

-----------------------------------------------------------------------------
(* Sort: an item read, an item written.                                     *)

LEMMA SortReadsStep ==
  ASSUME HeapOK, saved \in Pointer, SortReads, NEW l \in AllLists, List = l, Reading(l),
         values \in Seq(Items)
  PROVE  /\ UNCHANGED <<heap, objects, value, found>>
         /\ \/ Done /\ values' = Mergesort[ItemsOf(l)]
            \/ Continues /\ Reading(l)' /\ values' \in Seq(Items)
<1> DEFINE c == chain[l]
           n == Len(c)
           s == ItemsOf(l)
           w == Walker(l)
<1>0. PICK k \in Nat : k = Len(values)
  BY LenProperties
<1> DEFINE h == k + 1
           r == Append(values, item[w])
<1>1. /\ Whole(l) /\ n > 1 /\ values = SubSeq(s, 1, k) /\ k < n
      /\ IF current = Null THEN values = <<>> ELSE h \in 1..n /\ current = c[h]
  BY <1>0, WholeIs DEF Reading, Walked
<1>2. /\ UNCHANGED <<heap, objects, value, found>>
      /\ IF Len(r) = n
         THEN values' = Mergesort[r] /\ Done
         ELSE values' = r /\ Continue(next[w]) /\ UNCHANGED <<saved, counter>>
  BY <1>1, WholeIs DEF SortReads
<1>3. /\ c \in Seq(Addrs) /\ n \in Nat /\ Ring(c, next, previous) /\ root[l] = c[1] /\ size[l] = n
  BY <1>1, WholeIs
<1>4. s \in Seq(Items) /\ Len(s) = n /\ \A i \in 1..n : s[i] = item[c[i]]
  BY ItemsOfIs
<1> HIDE DEF c, n, s
<1>5. h \in 1..n /\ h - 1 = k /\ h \in Nat /\ 1 \in 1..n
  BY <1>1, <1>3
<1>6. w = c[h]
  <2>1. CASE current = Null
    <3>1. values = <<>>
      BY <1>1, <2>1
    <3>2. k = 0
      BY <1>0, <3>1, EmptySeq
    <3> QED BY <1>3, <2>1, <3>2 DEF Walker
  <2>2. CASE current # Null
    BY <1>1, <2>2 DEF Walker
  <2> QED BY <2>1, <2>2
<1> HIDE DEF h, w, r
<1>7. r = SubSeq(s, 1, h) /\ Len(r) = h /\ r \in Seq(Items)
  <2>1. item[w] = s[h] /\ s[h] \in Items
    BY <1>4, <1>5, <1>6, ElementOfSeq
  <2>2. r = values \o <<s[h]>> /\ Len(r) = Len(values) + 1 /\ r \in Seq(Items)
    BY <2>1, AppendIsConcat, AppendProperties DEF r
  <2>3. SubSeq(s, 1, h) = SubSeq(s, 1, h - 1) \o <<s[h]>>
    <3>1. 1 \in 1..Len(s) /\ h \in 1..Len(s)
      BY <1>4, <1>5
    <3> QED BY <1>4, <1>5, <3>1, SubSeqRecursiveSecond
  <2> QED BY <1>0, <1>1, <1>5, <2>2, <2>3 DEF h
<1>8. CASE h = n
  <2>1. r = s
    BY <1>4, <1>7, <1>8, SubSeqFull
  <2> QED BY <1>2, <1>7, <1>8, <2>1 DEF s
<1>9. CASE h # n
  <2>1. values' = r /\ Continue(next[w]) /\ UNCHANGED <<saved, counter>>
    BY <1>2, <1>7, <1>9
  <2> DEFINE g == h + 1
  <2>2. g \in 1..n /\ Successor(h, n) = g /\ h < n
    BY <1>3, <1>5, <1>9 DEF Successor
  <2> HIDE DEF g
  <2>3. next[w] = c[g] /\ c[g] \in Addrs
    BY <1>3, <1>5, <1>6, <2>2, ElementOfSeq DEF Ring, n
  <2>4. /\ next' = next /\ previous' = previous /\ item' = item /\ live' = live
        /\ root' = root /\ position' = position /\ size' = size /\ chain' = chain
    BY <1>2 DEF heap, objects
  <2>5. Whole(l)' /\ ItemsOf(l)' = s
    <3>1. Same(l)
      BY <2>4 DEF Same
    <3> QED BY <1>1, <3>1, SameIs DEF s
  <2>6. Len(values') = h
    BY <1>7, <2>1
  <2>7. Walked(l, Len(values) + 1)'
    BY <2>1, <2>2, <2>3, <2>4, <2>6 DEF Walked, Continue, c, n, g
  <2>8. Reading(l)'
    <3>1. size'[l] > 1 /\ Len(values') < size'[l]
      BY <1>1, <1>3, <2>2, <2>4, <2>6
    <3>2. values' = SubSeq(ItemsOf(l)', 1, Len(values'))
      BY <1>7, <2>1, <2>5, <2>6
    <3>3. current' # Null
      BY <2>1, <2>3, NullAssumption DEF Continue
    <3> QED BY <2>5, <2>7, <3>1, <3>2, <3>3 DEF Reading
  <2>9. Continues
    BY <2>1, <2>3 DEF Continues, Continue
  <2> QED BY <1>2, <1>7, <2>1, <2>8, <2>9
<1> QED BY <1>8, <1>9

LEMMA SortBuildsStep ==
  ASSUME HeapOK, SortBuilds, NEW l \in Lists, List = Temp, Building(l), values \in Seq(Items)
  PROVE  /\ HeapOK' /\ (\A k \in AllLists : k # Temp => Same(k))
         /\ UNCHANGED <<value, found>> /\ values' \in Seq(Items)
         /\ \/ Done /\ Whole(Temp)' /\ Sorting(ItemsOf(Temp)', l) /\ values' = <<>>
            \/ UNCHANGED <<todo, held, done, saved, counter>> /\ Building(l)'
<1> DEFINE s == ItemsOf(Temp)
           n == Len(s)
           x == Head(values)
           t == Tail(values)
           j == Index(Temp)
<1>1. /\ Temp \in AllLists /\ Whole(Temp) /\ Cursor(Temp) = Len(chain[Temp]) /\ values # <<>>
      /\ Sorting(s \o values, l)
  BY DEF Building, AllLists
<1>2. /\ AddNode(Temp, x, TRUE) /\ values' = t /\ UNCHANGED <<value, found>>
      /\ IF t = <<>> THEN Done
         ELSE Continue(Null) /\ UNCHANGED <<saved, counter>>
  BY DEF SortBuilds
<1>3. x \in Items /\ t \in Seq(Items)
  BY <1>1, HeadTailProperties
<1>4. s \in Seq(Items) /\ n = Len(chain[Temp]) /\ (chain[Temp] = <<>> => s = <<>>)
      /\ n \in Nat
  BY <1>1, ItemsOfIs, LenProperties
<1>5. size[Temp] = n /\ (n # 0 => j = n) /\ (n = 0 => chain[Temp] = <<>>)
  BY <1>1, <1>4, WholeIs
<1> HIDE DEF s, x, t, j, n
<1>6. values = <<x>> \o t /\ <<x>> \in Seq(Items)
  <2>1. /\ values \in Seq(Items) /\ <<x>> \in Seq(Items)
        /\ <<x>> \o t \in Seq(Items)
    BY <1>3, ConcatProperties
  <2>2. values = <<Head(values)>> \o Tail(values)
    <3>1. 1 \in 1..Len(values) /\ Len(values) \in 1..Len(values)
      BY <1>1, LenProperties, EmptySeq
    <3>2. SubSeq(values, 1, Len(values)) = <<values[1]>> \o SubSeq(values, 1 + 1, Len(values))
      BY <3>1, SubSeqRecursiveFirst
    <3>3. Tail(values) = SubSeq(values, 2, Len(values)) /\ 1 + 1 = 2
      BY <1>1, TailIsSubSeq
    <3>4. Head(values) = values[1]
      BY <3>1, HeadTailOfSubSeq, SubSeqFull
    <3> QED BY <3>2, <3>3, <3>4, SubSeqFull
  <2> QED BY <2>1, <2>2 DEF x, t
<1> DEFINE a == Append(s, x)
<1>7. a = s \o <<x>> /\ a \in Seq(Items) /\ Len(a) = n + 1
  BY <1>3, <1>4, AppendIsConcat, AppendProperties DEF n
<1> HIDE DEF a
<1>8. a \o t = s \o values
  BY <1>3, <1>4, <1>6, <1>7, ConcatAssociative
<1>9. /\ HeapOK' /\ Whole(Temp)' /\ ItemsOf(Temp)' = a /\ Cursor(Temp)' = n + 1
      /\ \A k \in AllLists : k # Temp => Same(k)
  <2>1. /\ HeapOK' /\ Whole(Temp)'
        /\ size[Temp] = 0 => ItemsOf(Temp)' = <<x>> /\ Cursor(Temp)' = 1
        /\ size[Temp] # 0 => /\ ItemsOf(Temp)' = Abstract!InsertedAt(ItemsOf(Temp), Index(Temp) + 1, x)
                             /\ Cursor(Temp)' = Index(Temp) + 1
        /\ \A k \in AllLists : k # Temp => Same(k)
    <3>1. TRUE \in BOOLEAN
      OBVIOUS
    <3> QED BY <1>1, <1>2, <1>3, <3>1, AddNodeIs
  <2>2. CASE n = 0
    <3>1. a = <<x>> /\ n + 1 = 1
      <4>1. s = <<>>
        BY <1>4, <1>5, <2>2
      <4>2. <<>> \o <<x>> = <<x>>
        BY <1>6, ConcatEmptySeq
      <4> QED BY <1>7, <2>2, <4>1, <4>2
    <3> QED BY <1>5, <2>1, <2>2, <3>1
  <2>3. CASE n # 0
    <3>1. Abstract!InsertedAt(s, n + 1, x) = a
      BY <1>3, <1>4, InsertedLast DEF a, n
    <3> QED BY <1>5, <2>1, <2>3, <3>1 DEF s, j
  <2> QED BY <2>2, <2>3
<1>10. CASE t = <<>>
  <2>1. a = s \o values
    BY <1>7, <1>8, <1>10, ConcatEmptySeq
  <2> QED BY <1>1, <1>2, <1>3, <1>9, <1>10, <2>1
<1>11. CASE t # <<>>
  <2>1. UNCHANGED <<todo, held, done, saved, counter>> /\ current' = Null
    BY <1>2, <1>11 DEF Continue
  <2>2. Sorting(ItemsOf(Temp) \o values, l)'
    BY <1>1, <1>2, <1>8, <1>9, <2>1 DEF Sorting
  <2>3. Cursor(Temp)' = Len(chain'[Temp])
    <3>1. Len(ItemsOf(Temp)') = Len(chain'[Temp])
      BY <1>1, <1>9, LengthsNext
    <3> QED BY <1>7, <1>9, <3>1
  <2>4. Building(l)'
    BY <1>2, <1>9, <1>11, <2>1, <2>2, <2>3 DEF Building
  <2> QED BY <1>2, <1>3, <1>9, <2>1, <2>4
<1> QED BY <1>10, <1>11

LEMMA SortRewindsStep ==
  ASSUME HeapOK, SortRewinds, NEW l \in AllLists, List = l, Whole(l), ItemsOf(l) # <<>>
  PROVE  /\ HeapOK' /\ Whole(l)' /\ ItemsOf(l)' = ItemsOf(l) /\ Cursor(l)' = 1
         /\ (\A k \in AllLists : k # l => Same(k))
         /\ Done /\ UNCHANGED <<values, value, found>>
<1>1. /\ position' = [position EXCEPT ![l] = root[l]] /\ UNCHANGED <<heap, root, size, chain>>
      /\ Done /\ UNCHANGED <<values, value, found>>
  BY DEF SortRewinds
<1>2. 1 \in 1..Len(chain[l]) /\ root[l] = chain[l][1]
  <2>1. Len(chain[l]) \in Nat /\ Len(chain[l]) # 0
    BY WholeIs, ItemsOfIs
  <2>2. Len(chain[l]) > 0 /\ 1 \in 1..Len(chain[l])
    BY <2>1
  <2> QED BY <2>2, WholeIs
<1> QED BY <1>1, <1>2, MoveIs

-----------------------------------------------------------------------------
(* Recursive functions: a definition by recursion on a rank has a solution. *)

LEMMA SmallestNumber ==
  ASSUME NEW T, T \subseteq Nat, T # {}
  PROVE  \E x \in T : \A y \in T : x <= y
<1> DEFINE R == {e \in Nat \X Nat : e[1] < e[2]}
<1>1. IsWellFoundedOn(R, Nat)
  BY NatLessThanWellFounded DEF OpToRel
<1> HIDE DEF R
<1>2. PICK x \in T : \A y \in T : ~(<<y, x>> \in R)
  BY <1>1, WFMin
<1>3. \A y \in T : ~(y < x)
  BY <1>2 DEF R
<1> QED BY <1>3

LEMMA CountUp ==
  ASSUME NEW T, 0 \in T, \A n \in Nat : n \in T => n + 1 \in T
  PROVE  \A n \in Nat : n \in T
<1> DEFINE U == Nat \ T
<1> SUFFICES ASSUME U # {} PROVE FALSE
  OBVIOUS
<1>1. PICK x \in U : \A y \in U : x <= y
  <2>1. U \subseteq Nat
    OBVIOUS
  <2> HIDE DEF U
  <2> QED BY <2>1, SmallestNumber
<1>2. x \in Nat /\ x # 0
  BY <1>1
<1>3. x - 1 \in Nat /\ x - 1 \in T /\ x - 1 + 1 = x
  BY <1>1, <1>2
<1> QED BY <1>1, <1>3

(* What one gets by repeating a step.                                       *)
Repeats(u, S, h) == u \in [Nat -> S] /\ \A n \in Nat : u[n + 1] = h[u[n]]

LEMMA Repetition ==
  ASSUME NEW S, NEW a \in S, NEW h \in [S -> S]
  PROVE  \E u : Repeats(u, S, h)
<1> DEFINE Part(n, f) == /\ f \in [0..n -> S] /\ f[0] = a
                         /\ \A i \in 0..n : i < n => f[i + 1] = h[f[i]]
           T == {n \in Nat : \E f : Part(n, f)}
           A(n) == CHOOSE f : Part(n, f)
<1>1. \A n \in Nat : \E f : Part(n, f)
  <2>1. 0 \in T
    <3>1. Part(0, [i \in 0..0 |-> a])
      OBVIOUS
    <3> QED BY <3>1
  <2>2. ASSUME NEW n \in Nat, n \in T PROVE n + 1 \in T
    <3>1. PICK f : Part(n, f)
      BY <2>2
    <3> DEFINE g == [i \in 0..(n + 1) |-> IF i <= n THEN f[i] ELSE h[f[n]]]
    <3>2. n \in 0..n /\ f[n] \in S /\ h[f[n]] \in S
      BY <3>1
    <3>3. g \in [0..(n + 1) -> S]
      BY <3>1, <3>2
    <3>4. g[0] = a
      BY <3>1
    <3>5. ASSUME NEW i \in 0..(n + 1), i < n + 1 PROVE g[i + 1] = h[g[i]]
      <4>1. CASE i = n
        <5>1. g[n + 1] = h[f[n]] /\ g[n] = f[n]
          BY SMT
        <5> QED BY <4>1, <5>1
      <4>2. CASE i < n
        <5>1. i \in 0..n /\ i + 1 \in 0..n /\ f[i + 1] = h[f[i]]
          BY <3>1, <4>2
        <5>2. g[i + 1] = f[i + 1] /\ g[i] = f[i]
          BY <5>1
        <5> QED BY <5>1, <5>2
      <4> QED BY <3>5, <4>1, <4>2
    <3> HIDE DEF g
    <3>6. Part(n + 1, g)
      BY <3>3, <3>4, <3>5
    <3>7. n + 1 \in Nat
      OBVIOUS
    <3> QED BY <3>6, <3>7
  <2> HIDE DEF T
  <2>3. \A n \in Nat : n \in T
    BY <2>1, <2>2, CountUp
  <2> QED BY <2>3 DEF T
<1>2. ASSUME NEW m \in Nat, NEW n \in Nat, m <= n, NEW f, Part(m, f), NEW g, Part(n, g)
      PROVE  \A i \in 0..m : f[i] = g[i]
  <2> DEFINE V == {i \in Nat : i <= m => f[i] = g[i]}
  <2>1. 0 \in V
    BY <1>2
  <2>2. ASSUME NEW i \in Nat, i \in V PROVE i + 1 \in V
    <3>1. CASE i + 1 <= m
      <4>1. i \in 0..m /\ i < m /\ i \in 0..n /\ i < n /\ f[i] = g[i]
        BY <1>2, <2>2, <3>1
      <4>2. f[i + 1] = h[f[i]] /\ g[i + 1] = h[g[i]]
        BY <1>2, <4>1
      <4> QED BY <4>1, <4>2
    <3> QED BY <3>1
  <2> HIDE DEF V
  <2>3. \A i \in Nat : i \in V
    BY <2>1, <2>2, CountUp
  <2> QED BY <2>3 DEF V
<1>3. \A n \in Nat : Part(n, A(n))
  BY <1>1
<1> DEFINE u == [n \in Nat |-> A(n)[n]]
<1> HIDE DEF A
<1>4. u \in [Nat -> S]
  BY <1>3
<1>5. ASSUME NEW n \in Nat PROVE u[n + 1] = h[u[n]]
  <2>1. n + 1 \in Nat /\ n <= n + 1 /\ n \in 0..n /\ n \in 0..(n + 1) /\ n < n + 1
    OBVIOUS
  <2>2. Part(n, A(n)) /\ Part(n + 1, A(n + 1))
    BY <1>3, <2>1
  <2> HIDE DEF Part
  <2>3. A(n)[n] = A(n + 1)[n]
    BY <1>2, <2>1, <2>2
  <2>4. A(n + 1)[n + 1] = h[A(n + 1)[n]]
    BY <2>1, <2>2 DEF Part
  <2> QED BY <2>1, <2>3, <2>4
<1> HIDE DEF u
<1> QED BY <1>4, <1>5 DEF Repeats

(* What the next approximation says of s depends on what this one says of   *)
(* those whose rank is less.                                                *)
Descends(h, rank, S, T) ==
  /\ rank \in [S -> Nat] /\ h \in [[S -> T] -> [S -> T]]
  /\ \A f, g \in [S -> T] : \A s \in S :
       (\A r \in S : rank[r] < rank[s] => f[r] = g[r]) => h[f][s] = h[g][s]

LEMMA Recursion ==
  ASSUME NEW S, NEW T, NEW d \in T, NEW rank, NEW h, Descends(h, rank, S, T)
  PROVE  \E f : f \in [S -> T] /\ f = h[f]
<1>d. /\ rank \in [S -> Nat] /\ h \in [[S -> T] -> [S -> T]]
      /\ \A f, g \in [S -> T] : \A s \in S :
           (\A r \in S : rank[r] < rank[s] => f[r] = g[r]) => h[f][s] = h[g][s]
  BY DEF Descends
<1>0. PICK F : F = [S -> T]
  OBVIOUS
<1>1. PICK u : Repeats(u, F, h)
  <2>1. [s \in S |-> d] \in F /\ h \in [F -> F]
    BY <1>0, <1>d
  <2>2. PICK a \in F : TRUE
    BY <2>1
  <2> QED BY <2>1, <2>2, Repetition
<1>2. \A n \in Nat : u[n] \in [S -> T]
  BY <1>0, <1>1 DEF Repeats
<1> DEFINE Settled(n) == \A m \in Nat : m >= n => \A s \in S : rank[s] < n => u[m][s] = u[n][s]
           N == {n \in Nat : Settled(n)}
<1>3. \A n \in Nat : Settled(n)
  <2>1. 0 \in N
    BY <1>d
  <2>2. ASSUME NEW n \in Nat, n \in N PROVE n + 1 \in N
    <3>1. ASSUME NEW m \in Nat, m >= n + 1, NEW s \in S, rank[s] < n + 1
          PROVE  u[m][s] = u[n + 1][s]
      <4>1. PICK e \in Nat : m = e + 1 /\ e >= n
        <5>1. m - 1 \in Nat /\ m = m - 1 + 1 /\ m - 1 >= n
          BY <3>1
        <5> QED BY <5>1
      <4>2. \A r \in S : rank[r] < rank[s] => u[e][r] = u[n][r]
        <5>1. \A r \in S : rank[r] < rank[s] => rank[r] < n
          BY <1>d, <3>1
        <5> QED BY <1>d, <2>2, <4>1, <5>1
      <4>3. h[u[e]][s] = h[u[n]][s]
        BY <1>d, <1>2, <4>2
      <4>4. u[m] = h[u[e]] /\ u[n + 1] = h[u[n]]
        BY <1>1, <4>1 DEF Repeats
      <4> QED BY <4>3, <4>4
    <3> QED BY <3>1
  <2> HIDE DEF N
  <2>3. \A n \in Nat : n \in N
    BY <2>1, <2>2, CountUp
  <2> QED BY <2>3 DEF N
<1> DEFINE f == [s \in S |-> u[rank[s] + 1][s]]
<1>4. f \in [S -> T]
  <2>1. \A s \in S : u[rank[s] + 1] \in [S -> T]
    BY <1>d, <1>2
  <2> QED BY <2>1
<1>5. ASSUME NEW s \in S PROVE f[s] = h[f][s]
  <2>1. PICK n \in Nat : n = rank[s]
    BY <1>d
  <2>2. ASSUME NEW r \in S, rank[r] < rank[s] PROVE f[r] = u[n][r]
    <3>1. PICK k \in Nat : k = rank[r] + 1
      BY <1>d
    <3>2. n >= k /\ rank[r] < k
      BY <1>d, <2>1, <2>2, <3>1
    <3>3. u[n][r] = u[k][r]
      BY <1>3, <3>2
    <3> QED BY <3>1, <3>3
  <2>3. f[s] = u[n + 1][s] /\ u[n + 1] = h[u[n]]
    BY <1>1, <2>1 DEF Repeats
  <2> HIDE DEF f
  <2>4. h[f][s] = h[u[n]][s]
    BY <1>d, <1>2, <1>4, <2>2
  <2> QED BY <2>3, <2>4
<1> HIDE DEF f
<1>6. h[f] \in [S -> T]
  BY <1>d, <1>4
<1>7. f = h[f]
  BY <1>4, <1>5, <1>6
<1> QED BY <1>4, <1>7

-----------------------------------------------------------------------------
(* How often a sequence has an item.                                        *)

Count(s, x) == Cardinality(Abstract!Occurrences(s, x))

LEMMA CountIs ==
  ASSUME NEW S, NEW s \in Seq(S), NEW x
  PROVE  LET o == Abstract!Occurrences(s, x) IN
         /\ o = {i \in 1..Len(s) : s[i] = x}
         /\ IsFiniteSet(o) /\ Count(s, x) = Cardinality(o) /\ Count(s, x) \in Nat
         /\ s = <<>> => Count(s, x) = 0
<1> DEFINE o == Abstract!Occurrences(s, x)
           n == Len(s)
<1>1. n \in Nat /\ o = {i \in 1..n : s[i] = x}
  BY LenProperties DEF Abstract!Occurrences
<1> HIDE DEF o, n
<1>2. IsFiniteSet(o)
  <2>1. IsFiniteSet(1..n) /\ o \in SUBSET (1..n)
    BY <1>1, FS_Interval
  <2> QED BY <2>1, FS_Subset
<1>3. Cardinality(o) \in Nat
  BY <1>2, FS_CardinalityType
<1>4. s = <<>> => Cardinality(o) = 0
  <2>1. s = <<>> => n = 0
    BY EmptySeq DEF n
  <2>2. n = 0 => o = {}
    BY <1>1
  <2> QED BY <2>1, <2>2, FS_EmptySet
<1> QED BY <1>1, <1>2, <1>3, <1>4 DEF o, n, Count

LEMMA CountConcat ==
  ASSUME NEW S, NEW s \in Seq(S), NEW t \in Seq(S), NEW x
  PROVE  Count(s \o t, x) = Count(s, x) + Count(t, x)
<1> DEFINE n == Len(s)
           m == Len(t)
           r == s \o t
           P == Abstract!Occurrences(s, x)
           Q == Abstract!Occurrences(t, x)
           R == Abstract!Occurrences(r, x)
           V == {i \in R : i > n}
           f == [i \in Q |-> i + n]
<1>1. /\ n \in Nat /\ m \in Nat /\ r \in Seq(S) /\ Len(r) = n + m
      /\ \A i \in 1..(n + m) : r[i] = IF i <= n THEN s[i] ELSE t[i - n]
  BY ConcatProperties, LenProperties
<1> HIDE DEF r
<1>2. /\ P = {i \in 1..n : s[i] = x} /\ Q = {i \in 1..m : t[i] = x}
      /\ R = {i \in 1..(n + m) : r[i] = x}
      /\ IsFiniteSet(P) /\ IsFiniteSet(Q) /\ IsFiniteSet(R)
      /\ Cardinality(P) \in Nat /\ Cardinality(Q) \in Nat
  BY <1>1, CountIs
<1> HIDE DEF n, m, P, Q, R
<1>3. IsFiniteSet(V) /\ Cardinality(V) = Cardinality(Q)
  <2>1. ASSUME NEW i \in Q PROVE i + n \in V
    <3>1. i \in 1..m /\ t[i] = x /\ i + n \in 1..(n + m) /\ ~(i + n <= n) /\ i + n - n = i /\ i + n > n
      BY <1>1, <1>2
    <3> QED BY <1>1, <1>2, <3>1
  <2>2. f \in [Q -> V]
    BY <2>1
  <2>3. \A i, j \in Q : f[i] = f[j] => i = j
    BY <1>1, <1>2
  <2>4. ASSUME NEW j \in V PROVE \E i \in Q : f[i] = j
    <3>1. j \in 1..(n + m) /\ r[j] = x /\ j > n
      BY <1>2
    <3>2. j - n \in 1..m /\ t[j - n] = x /\ j - n + n = j
      BY <1>1, <3>1
    <3> QED BY <1>2, <3>2
  <2> HIDE DEF f, V
  <2>5. f \in Bijection(Q, V)
    BY <2>2, <2>3, <2>4, Fun_IsBij
  <2>6. ExistsBijection(Q, V)
    BY <2>5, Fun_ExistsBij
  <2> QED BY <1>2, <2>6, FS_Bijection
<1>4. R = P \cup V /\ P \cap V = {}
  <2>1. \A i : i \in R <=> i \in P \/ i \in V
    BY <1>1, <1>2
  <2>2. \A i \in V : i \notin P
    BY <1>1, <1>2
  <2> HIDE DEF V
  <2> QED BY <2>1, <2>2
<1> HIDE DEF V
<1>5. Cardinality(R) = Cardinality(P) + Cardinality(Q)
  <2>1. Cardinality(P \cup V) = Cardinality(P) + Cardinality(V) - Cardinality(P \cap V)
    BY <1>2, <1>3, FS_Union
  <2>2. Cardinality(P \cap V) = 0
    BY <1>4, FS_EmptySet
  <2>3. Cardinality(R) = Cardinality(P \cup V)
    BY <1>4
  <2>4. Cardinality(R) = Cardinality(P) + Cardinality(Q) - 0
    BY <1>3, <2>1, <2>2, <2>3
  <2>5. Cardinality(P) \in Nat /\ Cardinality(Q) \in Nat
    BY <1>2
  <2> QED BY <2>4, <2>5
<1> QED BY <1>5 DEF Count, P, Q, R, r

(* The order in which Add puts what Mergesort reads into a sublist.         *)
LEMMA AddedIs ==
  ASSUME NEW s \in Seq(Items), s # <<>>
  PROVE  /\ Added(s) \in Seq(Items) /\ Len(Added(s)) = Len(s)
         /\ \A x : Count(Added(s), x) = Count(s, x)
<1> DEFINE n == Len(s)
           t == Added(s)
           at(i) == IF i = 1 THEN 1 ELSE n + 2 - i
<1>1. n \in Nat /\ n > 0 /\ DOMAIN s = 1..n
  BY LenProperties, EmptySeq
<1>2. t = [i \in 1..n |-> s[at(i)]]
  <2>1. t = [i \in 1..n |-> IF i = 1 THEN s[1] ELSE s[n + 2 - i]]
    BY <1>1 DEF Added
  <2> HIDE DEF n
  <2>2. \A i \in 1..n : s[at(i)] = IF i = 1 THEN s[1] ELSE s[n + 2 - i]
    OBVIOUS
  <2> HIDE DEF t
  <2> QED BY <2>1, <2>2
<1> HIDE DEF t, n
<1>3. \A i \in 1..n : at(i) \in 1..n /\ at(at(i)) = i
  BY <1>1
<1>4. \A i \in 1..n : s[i] \in Items
  BY ElementOfSeq DEF n
<1> HIDE DEF at
<1>5. t \in [1..n -> Items]
  BY <1>2, <1>3, <1>4
<1>6. t \in Seq(Items)
  BY <1>1, <1>5, SeqDef
<1>7. Len(t) = n
  BY <1>1, <1>5, <1>6, LenProperties
<1>8. ASSUME NEW x PROVE Count(t, x) = Count(s, x)
  <2> DEFINE P == Abstract!Occurrences(s, x)
             Q == Abstract!Occurrences(t, x)
             f == [i \in P |-> at(i)]
  <2>1. P = {i \in 1..n : s[i] = x} /\ Q = {i \in 1..n : t[i] = x} /\ IsFiniteSet(P)
    BY <1>6, <1>7, CountIs DEF n
  <2> HIDE DEF P, Q
  <2>2. \A i \in P : at(i) \in Q
    BY <1>2, <1>3, <2>1
  <2>3. \A i \in Q : at(i) \in P
    BY <1>2, <1>3, <2>1
  <2>4. f \in [P -> Q]
    BY <2>2
  <2>5. \A i, j \in P : f[i] = f[j] => i = j
    <3>1. \A i \in P : at(at(i)) = i
      BY <1>3, <2>1
    <3> QED BY <3>1
  <2>6. \A j \in Q : \E i \in P : f[i] = j
    <3>1. \A j \in Q : f[at(j)] = j
      BY <1>3, <2>1, <2>3
    <3> QED BY <2>3, <3>1
  <2> HIDE DEF f
  <2>7. ExistsBijection(P, Q)
    <3>1. f \in Bijection(P, Q)
      BY <2>4, <2>5, <2>6, Fun_IsBij
    <3> QED BY <3>1, Fun_ExistsBij
  <2> QED BY <2>1, <2>7, FS_Bijection DEF Count, P, Q
<1> QED BY <1>6, <1>7, <1>8 DEF t, n

-----------------------------------------------------------------------------
(* Merge.                                                                   *)

AtLeast(v, s) == \A i \in 1..Len(s) : v <= s[i]
Merges(m, a, b) ==
  /\ m \in Seq(Items) /\ Len(m) = Len(a) + Len(b)
  /\ \A x : Count(m, x) = Count(a, x) + Count(b, x)
  /\ \A v \in Nat : AtLeast(v, a) /\ AtLeast(v, b) => AtLeast(v, m)
  /\ Abstract!Sorted(a) /\ Abstract!Sorted(b) => Abstract!Sorted(m)

LEMMA HeadAndTail ==
  ASSUME NEW s \in Seq(Items), s # <<>>
  PROVE  /\ s = <<Head(s)>> \o Tail(s) /\ Head(s) \in Items /\ Head(s) \in Nat
         /\ Tail(s) \in Seq(Items) /\ Len(Tail(s)) \in Nat /\ Len(s) = Len(Tail(s)) + 1
<1>1. 1 \in 1..Len(s) /\ Len(s) \in 1..Len(s) /\ Len(s) \in Nat
  BY LenProperties, EmptySeq
<1>2. SubSeq(s, 1, Len(s)) = <<s[1]>> \o SubSeq(s, 1 + 1, Len(s))
  BY <1>1, SubSeqRecursiveFirst
<1>3. Tail(s) = SubSeq(s, 2, Len(s)) /\ 1 + 1 = 2
  BY TailIsSubSeq
<1>4. Head(s) = s[1]
  BY <1>1, HeadTailOfSubSeq, SubSeqFull
<1>5. Head(s) \in Items /\ Tail(s) \in Seq(Items) /\ Len(Tail(s)) = Len(s) - 1
  BY HeadTailProperties
<1>6. Head(s) \in Nat
  BY <1>5, ItemAssumption
<1>7. Len(Tail(s)) \in Nat
  BY <1>5, LenProperties
<1>8. s = <<Head(s)>> \o Tail(s)
  BY <1>2, <1>3, <1>4, SubSeqFull
<1> QED BY <1>1, <1>5, <1>6, <1>7, <1>8

LEMMA InFront ==
  ASSUME NEW h \in Items, NEW r \in Seq(Items)
  PROVE  LET s == <<h>> \o r IN
         /\ s \in Seq(Items) /\ Len(s) = Len(r) + 1 /\ s # <<>>
         /\ \A x : Count(s, x) = Count(<<h>>, x) + Count(r, x)
         /\ \A v \in Nat : AtLeast(v, s) <=> v <= h /\ AtLeast(v, r)
         /\ Abstract!Sorted(s) <=> AtLeast(h, r) /\ Abstract!Sorted(r)
<1> DEFINE s == <<h>> \o r
           n == Len(r)
<1>1. <<h>> \in Seq(Items) /\ Len(<<h>>) = 1 /\ <<h>>[1] = h /\ h \in Nat /\ n \in Nat
  BY ItemAssumption, LenProperties
<1>2. s \in Seq(Items) /\ Len(s) = 1 + n
      /\ \A i \in 1..(1 + n) : s[i] = IF i <= 1 THEN <<h>>[i] ELSE r[i - 1]
  BY <1>1, ConcatProperties
<1>3. \A x : Count(s, x) = Count(<<h>>, x) + Count(r, x)
  BY <1>1, CountConcat
<1> HIDE DEF s, n
<1>4. s[1] = h /\ 1 \in 1..(n + 1) /\ \A i \in 1..n : i + 1 \in 1..(n + 1) /\ s[i + 1] = r[i]
  <2>1. 1 \in 1..(1 + n) /\ s[1] = h
    BY <1>1, <1>2
  <2>2. ASSUME NEW i \in 1..n PROVE i + 1 \in 1..(n + 1) /\ s[i + 1] = r[i]
    <3> DEFINE k == i + 1
    <3>1. k \in 1..(1 + n) /\ ~(k <= 1) /\ k - 1 = i /\ k \in 1..(n + 1)
      BY <1>1
    <3> HIDE DEF k
    <3>2. s[k] = r[k - 1]
      BY <1>2, <3>1
    <3> QED BY <3>1, <3>2 DEF k
  <2> QED BY <1>1, <2>1, <2>2
<1>5. Len(s) = n + 1 /\ Len(s) # 0
  BY <1>1, <1>2
<1>6. s # <<>>
  BY <1>5, EmptySeq
<1>7. ASSUME NEW i \in 1..(n + 1), i # 1 PROVE i - 1 \in 1..n /\ s[i] = r[i - 1]
  <2>1. i - 1 \in 1..n /\ i - 1 + 1 = i
    BY <1>1, <1>7
  <2> QED BY <1>4, <2>1
<1>8. ASSUME NEW v \in Nat PROVE AtLeast(v, s) <=> v <= h /\ AtLeast(v, r)
  <2>1. AtLeast(v, s) => v <= h /\ AtLeast(v, r)
    <3>1. AtLeast(v, s) => v <= h
      BY <1>4, <1>5 DEF AtLeast
    <3>2. AtLeast(v, s) => \A i \in 1..n : v <= s[i + 1]
      <4>1. \A i \in 1..n : i + 1 \in 1..(n + 1)
        BY <1>4
      <4> QED BY <1>5, <4>1 DEF AtLeast
    <3> QED BY <1>4, <3>1, <3>2 DEF AtLeast, n
  <2>2. v <= h /\ AtLeast(v, r) => AtLeast(v, s)
    <3> SUFFICES ASSUME v <= h, \A i \in 1..n : v <= r[i], NEW i \in 1..(n + 1) PROVE v <= s[i]
      BY <1>5 DEF AtLeast, n
    <3>1. CASE i = 1
      BY <1>4, <3>1
    <3>2. CASE i # 1
      BY <1>7, <3>2
    <3> QED BY <3>1, <3>2
  <2> QED BY <2>1, <2>2
<1>9. /\ DOMAIN s = 1..(n + 1) /\ DOMAIN r = 1..n
      /\ (\A i \in 1..(n + 1) : s[i] \in Nat) /\ \A i \in 1..n : r[i] \in Nat
  BY <1>2, <1>5, ElementOfSeq, LenProperties, ItemAssumption DEF n
<1>10. Abstract!Sorted(s) => AtLeast(h, r) /\ Abstract!Sorted(r)
  <2> SUFFICES ASSUME \A i, j \in 1..(n + 1) : i < j => s[i] <= s[j]
               PROVE  AtLeast(h, r) /\ Abstract!Sorted(r)
    BY <1>9 DEF Abstract!Sorted
  <2>1. ASSUME NEW i \in 1..n PROVE h <= r[i]
    <3>1. 1 < i + 1
      BY <1>1
    <3>2. s[1] <= s[i + 1]
      BY <1>4, <3>1
    <3> QED BY <1>4, <3>2
  <2>2. ASSUME NEW i \in 1..n, NEW j \in 1..n, i < j PROVE r[i] <= r[j]
    <3>1. i + 1 < j + 1
      BY <1>1, <2>2
    <3>2. s[i + 1] <= s[j + 1]
      BY <1>4, <3>1
    <3> QED BY <1>4, <3>2
  <2> QED BY <1>9, <2>1, <2>2 DEF AtLeast, Abstract!Sorted, n
<1>11. AtLeast(h, r) /\ Abstract!Sorted(r) => Abstract!Sorted(s)
  <2> SUFFICES ASSUME \A i \in 1..n : h <= r[i], \A i, j \in 1..n : i < j => r[i] <= r[j],
                      NEW i \in 1..(n + 1), NEW j \in 1..(n + 1), i < j
               PROVE  s[i] <= s[j]
    BY <1>9 DEF AtLeast, Abstract!Sorted, n
  <2>1. j # 1 /\ j - 1 \in 1..n /\ s[j] = r[j - 1]
    BY <1>7
  <2>2. CASE i = 1
    BY <1>4, <2>1, <2>2
  <2>3. CASE i # 1
    <3>1. i - 1 \in 1..n /\ s[i] = r[i - 1] /\ i - 1 < j - 1
      BY <1>7, <2>3
    <3> QED BY <2>1, <3>1
  <2> QED BY <2>2, <2>3
<1> QED BY <1>2, <1>3, <1>5, <1>6, <1>8, <1>10, <1>11 DEF s, n

LEMMA MergesInFront ==
  ASSUME NEW h \in Items, NEW a \in Seq(Items), NEW b \in Seq(Items), b # <<>>, h <= Head(b),
         NEW r, Merges(r, a, b)
  PROVE  Merges(<<h>> \o r, <<h>> \o a, b)
<1> DEFINE s == <<h>> \o r
           e == <<h>> \o a
           g == Head(b)
           t == Tail(b)
<1>1. /\ r \in Seq(Items) /\ Len(r) = Len(a) + Len(b)
      /\ \A x : Count(r, x) = Count(a, x) + Count(b, x)
      /\ \A v \in Nat : AtLeast(v, a) /\ AtLeast(v, b) => AtLeast(v, r)
      /\ Abstract!Sorted(a) /\ Abstract!Sorted(b) => Abstract!Sorted(r)
  BY DEF Merges
<1>2. h \in Nat /\ Len(a) \in Nat /\ Len(b) \in Nat
  BY ItemAssumption, LenProperties
<1>3. /\ s \in Seq(Items) /\ Len(s) = Len(r) + 1
      /\ \A x : Count(s, x) = Count(<<h>>, x) + Count(r, x)
      /\ \A v \in Nat : AtLeast(v, s) <=> v <= h /\ AtLeast(v, r)
      /\ Abstract!Sorted(s) <=> AtLeast(h, r) /\ Abstract!Sorted(r)
  BY <1>1, InFront
<1>4. /\ Len(e) = Len(a) + 1
      /\ \A x : Count(e, x) = Count(<<h>>, x) + Count(a, x)
      /\ \A v \in Nat : AtLeast(v, e) <=> v <= h /\ AtLeast(v, a)
      /\ Abstract!Sorted(e) <=> AtLeast(h, a) /\ Abstract!Sorted(a)
  BY InFront
<1>5. g \in Nat /\ (Abstract!Sorted(b) => AtLeast(h, b))
  <2>1. b = <<g>> \o t /\ g \in Items /\ g \in Nat /\ t \in Seq(Items)
    BY HeadAndTail
  <2> HIDE DEF g, t
  <2>2. /\ AtLeast(h, b) <=> h <= g /\ AtLeast(h, t)
        /\ Abstract!Sorted(b) => AtLeast(g, t)
    BY <1>2, <2>1, InFront
  <2>3. \A i \in 1..Len(t) : t[i] \in Nat
    BY <2>1, ElementOfSeq, ItemAssumption
  <2>4. AtLeast(g, t) => AtLeast(h, t)
    BY <1>2, <2>1, <2>3 DEF AtLeast, g
  <2> QED BY <2>1, <2>2, <2>4 DEF g
<1> HIDE DEF s, e
<1>6. Len(s) = Len(e) + Len(b)
  BY <1>1, <1>2, <1>3, <1>4
<1>7. ASSUME NEW x PROVE Count(s, x) = Count(e, x) + Count(b, x)
  <2>1. Count(a, x) \in Nat /\ Count(b, x) \in Nat /\ Count(<<h>>, x) \in Nat
    <3>1. <<h>> \in Seq(Items)
      OBVIOUS
    <3> QED BY <3>1, CountIs
  <2> QED BY <1>1, <1>3, <1>4, <2>1
<1>8. \A v \in Nat : AtLeast(v, e) /\ AtLeast(v, b) => AtLeast(v, s)
  BY <1>1, <1>3, <1>4
<1>9. Abstract!Sorted(e) /\ Abstract!Sorted(b) => Abstract!Sorted(s)
  BY <1>1, <1>2, <1>3, <1>4, <1>5
<1> QED BY <1>3, <1>6, <1>7, <1>8, <1>9 DEF Merges, s, e

LEMMA MergesBack ==
  ASSUME NEW a \in Seq(Items), NEW b \in Seq(Items), NEW m, Merges(m, a, b)
  PROVE  Merges(m, b, a)
<1>1. Len(a) \in Nat /\ Len(b) \in Nat /\ \A x : Count(a, x) \in Nat /\ Count(b, x) \in Nat
  BY LenProperties, CountIs
<1> QED BY <1>1 DEF Merges

LEMMA MergeIs ==
  ASSUME NEW a \in Seq(Items), NEW b \in Seq(Items)
  PROVE  Merge[<<a, b>>] =
           IF a = <<>> \/ b = <<>> THEN a \o b
           ELSE IF Head(a) < Head(b) THEN <<Head(a)>> \o Merge[<<Tail(a), b>>]
                ELSE <<Head(b)>> \o Merge[<<a, Tail(b)>>]
<1> DEFINE Q == Seq(Items)
           D == Q \X Q
           Result(f, x, y) == IF x = <<>> \/ y = <<>> THEN x \o y
                              ELSE IF Head(x) < Head(y) THEN <<Head(x)>> \o f[<<Tail(x), y>>]
                                   ELSE <<Head(y)>> \o f[<<x, Tail(y)>>]
           g == [f \in [D -> Q] |-> [p \in D |-> Result(f, p[1], p[2])]]
           rank == [p \in D |-> Len(p[1]) + Len(p[2])]
<1>1. ASSUME NEW f \in [D -> Q], NEW x \in Q, NEW y \in Q PROVE Result(f, x, y) \in Q
  <2>1. CASE x = <<>> \/ y = <<>>
    BY <2>1, ConcatProperties
  <2>2. CASE x # <<>> /\ y # <<>>
    <3>1. /\ Head(x) \in Items /\ Tail(x) \in Q /\ Head(y) \in Items /\ Tail(y) \in Q
      BY <2>2, HeadTailProperties
    <3>2. f[<<Tail(x), y>>] \in Q /\ f[<<x, Tail(y)>>] \in Q
      BY <3>1
    <3>3. <<Head(x)>> \o f[<<Tail(x), y>>] \in Q /\ <<Head(y)>> \o f[<<x, Tail(y)>>] \in Q
      BY <3>1, <3>2, InFront
    <3> QED BY <2>2, <3>3
  <2> QED BY <2>1, <2>2
<1>2. g \in [[D -> Q] -> [D -> Q]]
  <2> HIDE DEF Result
  <2>1. ASSUME NEW f \in [D -> Q], NEW p \in D PROVE Result(f, p[1], p[2]) \in Q
    BY <1>1
  <2> QED BY <2>1
<1>3. rank \in [D -> Nat]
  <2>1. ASSUME NEW p \in D PROVE Len(p[1]) + Len(p[2]) \in Nat
    BY LenProperties
  <2> QED BY <2>1
<1>4. ASSUME NEW e \in [D -> Q], NEW f \in [D -> Q], NEW p \in D,
             \A r \in D : rank[r] < rank[p] => e[r] = f[r]
      PROVE  g[e][p] = g[f][p]
  <2>1. PICK x \in Q, y \in Q : p = <<x, y>>
    OBVIOUS
  <2>2. Result(e, x, y) = Result(f, x, y)
    <3>1. CASE x = <<>> \/ y = <<>>
      BY <3>1
    <3>2. CASE x # <<>> /\ y # <<>>
      <4>1. /\ Tail(x) \in Q /\ Tail(y) \in Q /\ Len(x) = Len(Tail(x)) + 1
            /\ Len(y) = Len(Tail(y)) + 1 /\ Len(Tail(x)) \in Nat /\ Len(Tail(y)) \in Nat
        BY <3>2, HeadAndTail
      <4>2. /\ rank[<<Tail(x), y>>] = Len(Tail(x)) + Len(y)
            /\ rank[<<x, Tail(y)>>] = Len(x) + Len(Tail(y)) /\ rank[p] = Len(x) + Len(y)
        BY <2>1, <4>1
      <4>3. <<Tail(x), y>> \in D /\ <<x, Tail(y)>> \in D
        BY <4>1
      <4> HIDE DEF rank, D, Q
      <4>4. rank[<<Tail(x), y>>] < rank[p] /\ rank[<<x, Tail(y)>>] < rank[p]
        <5>1. PICK i \in Nat, j \in Nat : i = Len(Tail(x)) /\ j = Len(Tail(y))
          BY <4>1
        <5>2. i + (j + 1) < (i + 1) + (j + 1) /\ (i + 1) + j < (i + 1) + (j + 1)
          OBVIOUS
        <5>3. Len(Tail(x)) + Len(y) < Len(x) + Len(y) /\ Len(x) + Len(Tail(y)) < Len(x) + Len(y)
          BY <4>1, <5>1, <5>2
        <5> QED BY <4>2, <5>3
      <4>5. e[<<Tail(x), y>>] = f[<<Tail(x), y>>] /\ e[<<x, Tail(y)>>] = f[<<x, Tail(y)>>]
        BY <1>4, <4>3, <4>4
      <4> QED BY <4>5
    <3> QED BY <3>1, <3>2
  <2>3. p[1] = x /\ p[2] = y
    BY <2>1
  <2> HIDE DEF Result
  <2> QED BY <2>2, <2>3
<1>5. \E f : f \in [D -> Q] /\ f = g[f]
  <2>1. <<>> \in Q
    BY EmptySeq
  <2> HIDE DEF g, rank, D, Q
  <2>2. \A e, f \in [D -> Q] : \A p \in D :
          (\A r \in D : rank[r] < rank[p] => e[r] = f[r]) => g[e][p] = g[f][p]
    BY <1>4
  <2>3. Descends(g, rank, D, Q)
    BY <1>2, <1>3, <2>2 DEF Descends
  <2> QED BY <2>1, <2>3, Recursion
<1>6. \E f : f = [p \in D |-> Result(f, p[1], p[2])]
  <2> HIDE DEF Result
  <2> QED BY <1>5
<1>7. Merge = [p \in D |-> Result(Merge, p[1], p[2])]
  BY <1>6, Zenon DEF Merge
<1>8. Merge[<<a, b>>] = Result(Merge, a, b)
  <2>1. <<a, b>> \in D /\ <<a, b>>[1] = a /\ <<a, b>>[2] = b
    OBVIOUS
  <2> HIDE DEF Result, D
  <2> QED BY <1>7, <2>1
<1> QED BY <1>8

LEMMA MergeMerges ==
  ASSUME NEW a \in Seq(Items), NEW b \in Seq(Items)
  PROVE  Merges(Merge[<<a, b>>], a, b)
<1> DEFINE Q == Seq(Items)
           T == {n \in Nat : \A x, y \in Q : Len(x) + Len(y) = n => Merges(Merge[<<x, y>>], x, y)}
<1>1. ASSUME NEW x \in Q, NEW y \in Q, x = <<>> \/ y = <<>>
      PROVE  Merges(Merge[<<x, y>>], x, y)
  <2>1. ASSUME NEW s \in Q PROVE Merges(s, <<>>, s) /\ Merges(s, s, <<>>)
    <3>1. /\ <<>> \in Q /\ Len(<<>>) = 0 /\ Len(s) \in Nat
          /\ \A i : Count(<<>>, i) = 0 /\ Count(s, i) \in Nat
      BY CountIs, EmptySeq, LenProperties
    <3>2. Len(s) = 0 + Len(s) /\ \A i : Count(s, i) = 0 + Count(s, i)
      BY <3>1
    <3>3. Merges(s, <<>>, s)
      BY <3>1, <3>2 DEF Merges
    <3> QED BY <3>1, <3>3, MergesBack
  <2>2. Merge[<<x, y>>] = x \o y
    BY <1>1, MergeIs
  <2>3. x \o y = IF x = <<>> THEN y ELSE x
    BY <1>1, ConcatEmptySeq
  <2> QED BY <1>1, <2>1, <2>2, <2>3
<1>2. 0 \in T
  <2>1. ASSUME NEW x \in Q, NEW y \in Q, Len(x) + Len(y) = 0 PROVE x = <<>>
    <3>1. Len(x) = 0
      BY <2>1, LenProperties
    <3> QED BY <3>1, EmptySeq
  <2> QED BY <1>1, <2>1
<1>3. ASSUME NEW n \in Nat, n \in T PROVE n + 1 \in T
  <2> SUFFICES ASSUME NEW x \in Q, NEW y \in Q, Len(x) + Len(y) = n + 1, x # <<>>, y # <<>>
               PROVE  Merges(Merge[<<x, y>>], x, y)
    BY <1>1
  <2> DEFINE g == Head(x)
             t == Tail(x)
             h == Head(y)
             u == Tail(y)
  <2>1. /\ x = <<g>> \o t /\ g \in Items /\ g \in Nat /\ t \in Q /\ Len(t) \in Nat
        /\ Len(x) = Len(t) + 1
    BY HeadAndTail
  <2>2. /\ y = <<h>> \o u /\ h \in Items /\ h \in Nat /\ u \in Q /\ Len(u) \in Nat
        /\ Len(y) = Len(u) + 1
    BY HeadAndTail
  <2>3. Merge[<<x, y>>] = IF g < h THEN <<g>> \o Merge[<<t, y>>] ELSE <<h>> \o Merge[<<x, u>>]
    BY MergeIs
  <2> HIDE DEF g, t, h, u
  <2>4. Len(t) + Len(y) = n /\ Len(x) + Len(u) = n
    <3>1. Len(t) \in Nat /\ Len(u) \in Nat /\ Len(x) = Len(t) + 1 /\ Len(y) = Len(u) + 1
      BY <2>1, <2>2
    <3>2. PICK i \in Nat, j \in Nat : i = Len(t) /\ j = Len(u)
      BY <3>1
    <3>3. (i + 1) + (j + 1) = n + 1
      BY <3>1, <3>2
    <3>4. i + (j + 1) = n /\ (i + 1) + j = n
      BY <3>3
    <3> QED BY <3>1, <3>2, <3>4
  <2>5. Merges(Merge[<<t, y>>], t, y) /\ Merges(Merge[<<x, u>>], x, u)
    BY <1>3, <2>1, <2>2, <2>4
  <2>6. CASE g < h
    <3>1. g <= Head(y)
      BY <2>1, <2>2, <2>6 DEF h
    <3>2. Merges(<<g>> \o Merge[<<t, y>>], <<g>> \o t, y)
      BY <2>1, <2>5, <3>1, MergesInFront
    <3> QED BY <2>1, <2>3, <2>6, <3>2
  <2>7. CASE ~(g < h)
    <3>1. h <= Head(x)
      BY <2>1, <2>2, <2>7 DEF g
    <3>2. Merges(Merge[<<x, u>>], u, x)
      BY <2>2, <2>5, MergesBack
    <3>3. Merges(<<h>> \o Merge[<<x, u>>], <<h>> \o u, x)
      BY <2>2, <3>1, <3>2, MergesInFront
    <3>4. Merges(Merge[<<x, y>>], y, x)
      BY <2>2, <2>3, <2>7, <3>3
    <3> QED BY <3>4, MergesBack
  <2> QED BY <2>6, <2>7
<1>4. \A n \in Nat : n \in T
  <2> HIDE DEF T
  <2> QED BY <1>2, <1>3, CountUp
<1>5. Len(a) + Len(b) \in Nat
  BY LenProperties
<1> QED BY <1>4, <1>5

-----------------------------------------------------------------------------
(* Mergesort.                                                               *)

(* The halves, as Add puts them into their sublists.                        *)
LEMMA Halves ==
  ASSUME NEW s \in Seq(Items), Len(s) > 1
  PROVE  LET half == Len(s) \div 2
             a == Added(SubSeq(s, 1, half))  b == Added(SubSeq(s, half + 1, Len(s))) IN
         /\ a \in Seq(Items) /\ b \in Seq(Items) /\ Len(a) < Len(s) /\ Len(b) < Len(s)
         /\ Len(a) \in Nat /\ Len(b) \in Nat /\ Len(s) = Len(a) + Len(b)
         /\ \A x : Count(s, x) = Count(a, x) + Count(b, x)
<1> DEFINE n == Len(s)
           half == n \div 2
           s1 == SubSeq(s, 1, half)
           s2 == SubSeq(s, half + 1, n)
<1>1. n \in Nat /\ n > 1
  BY LenProperties
<1>5. s1 \o s2 = SubSeq(s, 1, n) /\ SubSeq(s, 1, n) = s
  <2>1. 1 \in 1..(n + 1) /\ half \in (1 - 1)..n /\ n \in half..n
    BY <1>1
  <2> HIDE DEF half
  <2> QED BY <2>1, ConcatAdjacentSubSeq, SubSeqFull
<1>h. half \in Nat /\ half >= 1 /\ half < n
  BY <1>1
<1> HIDE DEF half
<1>2. \A i \in 1..n : s[i] \in Items
  BY ElementOfSeq
<1>3. s1 \in Seq(Items) /\ Len(s1) = half
  <2>1. 1 \in Int /\ half \in Int /\ \A i \in 1..half : s[i] \in Items
    BY <1>1, <1>2, <1>h
  <2>2. s1 \in Seq(Items) /\ Len(s1) = IF 1 <= half THEN half - 1 + 1 ELSE 0
    BY <2>1, SubSeqProperties
  <2> QED BY <1>h, <2>2
<1>4. s2 \in Seq(Items) /\ Len(s2) = n - half
  <2> DEFINE k == half + 1
  <2>1. k \in Int /\ n \in Int /\ k <= n /\ \A i \in k..n : s[i] \in Items
    BY <1>1, <1>2, <1>h
  <2> HIDE DEF k
  <2>2. SubSeq(s, k, n) \in Seq(Items) /\ Len(SubSeq(s, k, n)) = IF k <= n THEN n - k + 1 ELSE 0
    BY <2>1, SubSeqProperties
  <2>3. n - k + 1 = n - half
    BY <1>1, <1>h DEF k
  <2> QED BY <2>1, <2>2, <2>3 DEF k
<1> HIDE DEF s1, s2
<1>6. s1 # <<>> /\ s2 # <<>>
  <2>1. Len(s1) # 0 /\ Len(s2) # 0
    BY <1>1, <1>3, <1>4, <1>h
  <2> QED BY <2>1, EmptySeq
<1> DEFINE a == Added(s1)
           b == Added(s2)
<1>7. /\ a \in Seq(Items) /\ Len(a) = half /\ b \in Seq(Items) /\ Len(b) = n - half
      /\ \A x : Count(a, x) = Count(s1, x) /\ Count(b, x) = Count(s2, x)
  BY <1>3, <1>4, <1>6, AddedIs
<1>8. \A x : Count(s, x) = Count(s1, x) + Count(s2, x)
  <2>1. s = s1 \o s2
    BY <1>5
  <2>2. \A x : Count(s1 \o s2, x) = Count(s1, x) + Count(s2, x)
    BY <1>3, <1>4, CountConcat
  <2> QED BY <2>1, <2>2
<1> HIDE DEF a, b
<1>9. n - half \in Nat /\ n - half < n /\ n = half + (n - half)
  BY <1>1, <1>h
<1>10. \A x : Count(s, x) = Count(a, x) + Count(b, x)
  BY <1>7, <1>8
<1> QED BY <1>7, <1>9, <1>10, <1>h DEF a, b, s1, s2, half, n

LEMMA MergesortIs ==
  ASSUME NEW s \in Seq(Items)
  PROVE  Mergesort[s] =
           IF Len(s) <= 1 THEN s
           ELSE LET half == Len(s) \div 2 IN
                Merge[<<Mergesort[Added(SubSeq(s, 1, half))],
                        Mergesort[Added(SubSeq(s, half + 1, Len(s)))]>>]
<1> DEFINE Q == Seq(Items)
           Half1(r) == Added(SubSeq(r, 1, Len(r) \div 2))
           Half2(r) == Added(SubSeq(r, Len(r) \div 2 + 1, Len(r)))
           Result(f, r) == IF Len(r) <= 1 THEN r ELSE Merge[<<f[Half1(r)], f[Half2(r)]>>]
           g == [f \in [Q -> Q] |-> [r \in Q |-> Result(f, r)]]
           rank == [r \in Q |-> Len(r)]
<1>1. ASSUME NEW r \in Q, Len(r) > 1
      PROVE  /\ Half1(r) \in Q /\ Len(Half1(r)) \in Nat /\ Len(Half1(r)) < Len(r)
             /\ Half2(r) \in Q /\ Len(Half2(r)) \in Nat /\ Len(Half2(r)) < Len(r)
  BY <1>1, Halves
<1> HIDE DEF Half1, Half2
<1>2. \A r \in Q : Len(r) \in Nat
  BY LenProperties
<1>3. g \in [[Q -> Q] -> [Q -> Q]]
  <2>1. ASSUME NEW f \in [Q -> Q], NEW r \in Q PROVE Result(f, r) \in Q
    <3>1. CASE Len(r) <= 1
      BY <3>1
    <3>2. CASE ~(Len(r) <= 1)
      <4>1. f[Half1(r)] \in Q /\ f[Half2(r)] \in Q
        BY <1>1, <1>2, <3>2
      <4>2. Merge[<<f[Half1(r)], f[Half2(r)]>>] \in Q
        BY <4>1, MergeMerges DEF Merges
      <4> QED BY <3>2, <4>2
    <3> QED BY <3>1, <3>2
  <2> HIDE DEF Result
  <2> QED BY <2>1
<1>4. ASSUME NEW e \in [Q -> Q], NEW f \in [Q -> Q], NEW r \in Q,
             \A u \in Q : rank[u] < rank[r] => e[u] = f[u]
      PROVE  g[e][r] = g[f][r]
  <2>1. Result(e, r) = Result(f, r)
    <3>1. CASE Len(r) <= 1
      BY <3>1
    <3>2. CASE ~(Len(r) <= 1)
      <4>1. e[Half1(r)] = f[Half1(r)] /\ e[Half2(r)] = f[Half2(r)]
        BY <1>1, <1>2, <1>4, <3>2
      <4> QED BY <3>2, <4>1
    <3> QED BY <3>1, <3>2
  <2> HIDE DEF Result
  <2> QED BY <2>1
<1>5. \E f : f \in [Q -> Q] /\ f = g[f]
  <2>1. <<>> \in Q /\ rank \in [Q -> Nat]
    BY <1>2, EmptySeq
  <2> HIDE DEF g, rank, Q
  <2>2. \A e, f \in [Q -> Q] : \A r \in Q :
          (\A u \in Q : rank[u] < rank[r] => e[u] = f[u]) => g[e][r] = g[f][r]
    BY <1>4
  <2>3. Descends(g, rank, Q, Q)
    BY <1>3, <2>1, <2>2 DEF Descends
  <2> QED BY <2>1, <2>3, Recursion
<1>6. \E f : f = [r \in Q |-> Result(f, r)]
  <2> HIDE DEF Result
  <2> QED BY <1>5
<1>7. Mergesort = [r \in Q |-> Result(Mergesort, r)]
  BY <1>6, Zenon DEF Mergesort, Half1, Half2
<1>8. Mergesort[s] = Result(Mergesort, s)
  <2> HIDE DEF Result
  <2> QED BY <1>7
<1> QED BY <1>8 DEF Half1, Half2

LEMMA MergesortSorts ==
  ASSUME NEW s \in Seq(Items)
  PROVE  LET t == Mergesort[s] IN
         /\ t \in Seq(Items) /\ Len(t) = Len(s)
         /\ Abstract!Sorted(t) /\ Abstract!SameItems(s, t)
<1> DEFINE Q == Seq(Items)
           Sorts(r, t) == /\ t \in Q /\ Len(t) = Len(r) /\ Abstract!Sorted(t)
                          /\ \A x : Count(t, x) = Count(r, x)
           T == {n \in Nat : \A r \in Q : Len(r) <= n => Sorts(r, Mergesort[r])}
<1>1. ASSUME NEW r \in Q, Len(r) <= 1 PROVE Sorts(r, Mergesort[r])
  <2>1. Mergesort[r] = r
    BY <1>1, MergesortIs
  <2>2. Abstract!Sorted(r)
    <3>1. DOMAIN r = 1..Len(r) /\ Len(r) \in Nat
      BY LenProperties
    <3>2. \A j, k \in 1..Len(r) : ~(j < k)
      BY <1>1, <3>1
    <3> QED BY <3>1, <3>2 DEF Abstract!Sorted
  <2> QED BY <2>1, <2>2
<1>2. 0 \in T
  <2>1. \A r \in Q : Len(r) <= 0 => Len(r) <= 1
    BY LenProperties
  <2> HIDE DEF Sorts
  <2> QED BY <1>1, <2>1
<1>3. ASSUME NEW n \in Nat, n \in T PROVE n + 1 \in T
  <2> SUFFICES ASSUME NEW r \in Q, Len(r) <= n + 1, ~(Len(r) <= 1) PROVE Sorts(r, Mergesort[r])
    BY <1>1
  <2> DEFINE half == Len(r) \div 2
             a == Added(SubSeq(r, 1, half))
             b == Added(SubSeq(r, half + 1, Len(r)))
             c == Mergesort[a]
             d == Mergesort[b]
             t == Merge[<<c, d>>]
  <2>1. Len(r) \in Nat /\ Len(r) > 1
    BY LenProperties
  <2>2. /\ a \in Q /\ b \in Q /\ Len(a) < Len(r) /\ Len(b) < Len(r)
        /\ Len(a) \in Nat /\ Len(b) \in Nat /\ Len(r) = Len(a) + Len(b)
        /\ \A x : Count(r, x) = Count(a, x) + Count(b, x)
    BY <2>1, Halves
  <2>3. Mergesort[r] = t
    BY <2>1, MergesortIs
  <2> HIDE DEF a, b
  <2>4. Len(a) <= n /\ Len(b) <= n
    BY <2>1, <2>2
  <2>5. Sorts(a, c) /\ Sorts(b, d)
    BY <1>3, <2>2, <2>4
  <2> HIDE DEF c, d
  <2>6. Merges(t, c, d)
    BY <2>5, MergeMerges
  <2> HIDE DEF t
  <2>7. t \in Q /\ Abstract!Sorted(t) /\ Len(t) = Len(r)
    BY <2>2, <2>5, <2>6 DEF Merges
  <2>8. \A x : Count(t, x) = Count(r, x)
    BY <2>2, <2>5, <2>6 DEF Merges
  <2> QED BY <2>3, <2>7, <2>8
<1>4. \A n \in Nat : n \in T
  <2> HIDE DEF T
  <2> QED BY <1>2, <1>3, CountUp
<1>5. Sorts(s, Mergesort[s])
  <2>1. Len(s) \in Nat /\ Len(s) <= Len(s)
    BY LenProperties
  <2> HIDE DEF Sorts
  <2> QED BY <1>4, <2>1
<1>6. Abstract!SameItems(s, Mergesort[s])
  <2> DEFINE t == Mergesort[s]
  <2>1. \A x : Count(s, x) = Count(t, x)
    BY <1>5
  <2> HIDE DEF t
  <2>2. \A o : Abstract!Cardinality(o) = Cardinality(o)
    BY Zenon DEF Abstract!Cardinality, Cardinality
  <2> QED BY <2>1, <2>2 DEF Abstract!SameItems, Count, t
<1> QED BY <1>5, <1>6

-----------------------------------------------------------------------------
(* A call goes on, and returns.                                             *)

LEMMA AsBeforeKept ==
  ASSUME HeapOK, NEW k \in Lists, AsBefore(k), Same(k), held' = held
  PROVE  AsBefore(k)'
<1>1. k \in AllLists
  BY DEF AllLists
<1>2. Whole(k)' /\ ItemsOf(k)' = ItemsOf(k) /\ Cursor(k)' = Cursor(k)
  BY <1>1, SameIs DEF AsBefore
<1> QED BY <1>2 DEF AsBefore

LEMMA OthersKept ==
  ASSUME HeapOK, NEW l \in Lists, Others(l), \A k \in Lists \ {l} : Same(k), held' = held
  PROVE  Others(l)'
BY AsBeforeKept DEF Others

LEMMA EmptyKept ==
  ASSUME HeapOK, NEW k \in AllLists, IsEmpty(k), Same(k)
  PROVE  IsEmpty(k)'
<1>1. Whole(k)'
  BY SameIs DEF IsEmpty
<1> QED BY <1>1 DEF IsEmpty, Same

LEMMA Stutters ==
  ASSUME ~Idle, ~Idle', UNCHANGED <<held, value, found, done>>
  PROVE  UNCHANGED Abstract!vars
BY DEF Abstract!vars

(* A call returns: all it has done is done to l.                            *)
LEMMA Concludes ==
  ASSUME HeapOK, ~Idle, todo' = <<>>, current' = Null, NEW l \in Lists, Others(l),
         \A k \in Lists \ {l} : Same(k), Whole(l)', IsEmpty(Temp)',
         Began
  PROVE  /\ Resting' /\ Abstract!Become(l, ItemsOf(l)', Cursor(l)')
         /\ \A k \in Lists : ItemsOf(k)' = IF k = l THEN ItemsOf(l)' ELSE held.items[k]
<1>h. PICK h : h = held
  OBVIOUS
<1>0. h.items \in [Lists -> Seq(Items)] /\ h.cursors \in [Lists -> Nat]
  BY <1>h DEF Began
<1>1. ASSUME NEW k \in Lists, k # l
      PROVE  Whole(k)' /\ ItemsOf(k)' = h.items[k] /\ Cursor(k)' = h.cursors[k]
  <2>1. k \in AllLists /\ AsBefore(k) /\ Same(k)
    BY <1>1 DEF AllLists, Others
  <2> QED BY <1>h, <2>1, SameIs DEF AsBefore
<1>2. Idle' /\ Resting'
  BY <1>1 DEF Idle, Resting
<1>3. Contents' = [h.items EXCEPT ![l] = ItemsOf(l)']
  <2>1. Contents' = [k \in Lists |-> ItemsOf(k)']
    BY DEF Contents
  <2> QED BY <1>0, <1>1, <2>1
<1>4. Cursors' = [h.cursors EXCEPT ![l] = Cursor(l)']
  <2>1. Cursors' = [k \in Lists |-> Cursor(k)']
    BY DEF Cursors, Cursor
  <2> QED BY <1>0, <1>1, <2>1
<1>5. Abstract!Become(l, ItemsOf(l)', Cursor(l)')
  BY <1>h, <1>2, <1>3, <1>4 DEF Abstract!Become
<1> QED BY <1>h, <1>1, <1>2, <1>5

Kept ==
  /\ Registers' /\ values' \in Seq(Items) /\ counter' \in Nat
  /\ current' \in Pointer /\ saved' \in Pointer
Outcome == value' \in Items \cup {0} /\ found' \in BOOLEAN /\ done' \in Calls \cup {"none"}
Goes ==
  /\ HeapOK' /\ Kept /\ Outcome
  /\ (Resting \/ InCall)'
  /\ [PromisedOrNamed]_(Abstract!vars)

LEMMA GoesOn ==
  ASSUME HeapOK, Began, NEW l \in Lists, Others(l), \A k \in Lists \ {l} : Same(k), ~Idle,
         UNCHANGED <<held, value, found, done>>, During(l)', HeapOK', Kept, ~Idle'
  PROVE  Goes
<1>1. InCall'
  <2>1. Others(l)'
    BY OthersKept
  <2>2. Began'
    BY DEF Began
  <2> QED BY <2>1, <2>2 DEF InCall
<1>2. UNCHANGED Abstract!vars
  BY Stutters
<1>3. Outcome
  BY DEF Outcome, Began
<1> QED BY <1>1, <1>2, <1>3 DEF Goes

LEMMA GoesHome ==
  ASSUME HeapOK', Kept, Resting', PromisedOrNamed, Began, value' = 0, found' \in BOOLEAN,
         done' \in Calls
  PROVE  Goes
<1>1. Outcome
  BY DEF Outcome
<1> QED BY <1>1 DEF Goes

(* Pointers, counters and items stay with the task that needs them.         *)
LEMMA RegistersKept ==
  ASSUME Registers, saved \in Pointer, counter \in Nat, values \in Seq(Items), todo # <<>>,
         todo[1].do \notin {"read", "build"}, UNCHANGED values, Done \/ Continues
  PROVE  Kept
<1>1. values = <<>> /\ values' = <<>>
  BY DEF Registers
<1>2. Null \in Pointer
  BY DEF Pointer
<1>3. CASE Done
  <2>1. counter' = 0 /\ current' = Null /\ saved' = Null
    BY <1>3 DEF Done
  <2> QED BY <1>1, <1>2, <2>1 DEF Kept, Registers
<1>4. CASE Continues
  <2>1. /\ todo' = todo /\ current' \in Addrs /\ saved' \in Pointer
        /\ counter' # counter => counter' \in Nat /\ todo[1].do = "append"
    BY <1>4 DEF Continues
  <2>2. current' # Null /\ current' \in Pointer /\ counter' \in Nat
    BY <2>1, NullAssumption DEF Pointer
  <2>3. counter' # 0 => todo[1].do = "append"
    BY <2>1 DEF Registers
  <2> QED BY <1>1, <2>1, <2>2, <2>3 DEF Kept, Registers
<1> QED BY <1>3, <1>4

-----------------------------------------------------------------------------
(* A step of IsIn, of Find, of Clear.                                       *)

LEMMA SearchGoes ==
  ASSUME HeapOK, Registers, Began, saved \in Pointer, counter \in Nat, values \in Seq(Items),
         NEW l \in Lists, Others(l), IsEmpty(Temp), NEW x \in Items, Step,
         NEW do, NEW call,
         (do = "search" /\ call = "IsIn") \/ (do = "find" /\ call = "Find"),
         InSearch(l, x, do, call)
  PROVE  Goes
<1> DEFINE t == Task(do, l, l, x)
           plan == <<t>>
           s == ItemsOf(l)
           o == Abstract!Occurrences(s, x)
<1>1. l \in AllLists /\ Temp \in AllLists /\ Temp # l /\ do \in {"search", "find"}
  BY ListAssumption DEF AllLists
<1>2. t \in Tasks /\ t.do = do /\ t.list = l /\ t.input = x
  BY <1>1, TaskIs
<1>3. plan \in Seq(Tasks) /\ Len(plan) = 1 /\ plan[1] = t /\ 1 \in 1..1
  BY <1>2
<1>4. At(call, plan, 1) /\ AsBefore(l) /\ Searching(l, x)
  BY DEF InSearch
<1> HIDE DEF t, plan
<1>5. /\ todo # <<>> /\ ~Idle /\ todo[1] = t
      /\ Done => todo' = <<>> /\ done' = call
      /\ UNCHANGED <<todo, held>> => At(call, plan, 1)'
  BY <1>3, <1>4, AtIs
<1>6. Search(do)
  BY <1>1, <1>2, <1>5, StepIs
<1>7. /\ HeapOK' /\ Whole(l)' /\ ItemsOf(l)' = s
      /\ (\A k \in AllLists : k # l => Same(k))
      /\ \/ Continues /\ Cursor(l)' = Cursor(l) /\ Searching(l, x)' /\ found' = found
         \/ /\ Done /\ found' = (o # {})
            /\ IF found' /\ do = "find"
               THEN Cursor(l)' \in o /\ \A k \in o : Cursor(l)' <= k
               ELSE Cursor(l)' = Cursor(l)
      /\ UNCHANGED <<values, value>>
  <2>1. List = l /\ todo[1].input = x
    BY <1>2, <1>5 DEF List
  <2>2. Whole(l)
    BY <1>4 DEF AsBefore
  <2> QED BY <1>1, <1>4, <1>6, <2>1, <2>2, SearchStep
<1>8. (\A k \in Lists \ {l} : Same(k)) /\ Same(Temp) /\ IsEmpty(Temp)'
  <2>1. Same(Temp)
    BY <1>1, <1>7
  <2> QED BY <1>1, <1>7, <2>1, EmptyKept DEF AllLists
<1>9. Kept
  <2>1. todo[1].do \notin {"read", "build"}
    <3>1. todo[1].do = do
      BY <1>2, <1>5
    <3>2. do \notin {"read", "build"}
      BY <1>1
    <3> QED BY <3>1, <3>2
  <2> QED BY <1>5, <1>7, <2>1, RegistersKept
<1>10. CASE Continues
  <2>1. UNCHANGED <<todo, held, done>> /\ current' # Null
    BY <1>10, NullAssumption DEF Continues
  <2>2. /\ Cursor(l)' = Cursor(l) /\ Searching(l, x)' /\ found' = found
    <3>1. ~Done
      BY <1>5, <2>1
    <3> QED BY <1>7, <3>1
  <2>3. At(call, plan, 1)'
    BY <1>5, <2>1
  <2>4. AsBefore(l)'
    BY <1>4, <1>7, <2>1, <2>2 DEF AsBefore
  <2>5. InSearch(l, x, do, call)'
    BY <2>2, <2>3, <2>4 DEF InSearch, plan, t
  <2>6. During(l)'
    BY <1>1, <1>8, <2>5 DEF During
  <2>7. ~Idle'
    BY <1>5, <2>1 DEF Idle
  <2> QED BY <1>5, <1>7, <1>8, <1>9, <2>1, <2>2, <2>6, <2>7, GoesOn
<1>11. CASE Done
  <2>1. todo' = <<>> /\ done' = call /\ current' = Null
    BY <1>5, <1>11 DEF Done
  <2>2. /\ found' = (o # {})
        /\ IF found' /\ do = "find"
           THEN Cursor(l)' \in o /\ \A k \in o : Cursor(l)' <= k
           ELSE Cursor(l)' = Cursor(l)
    <3>1. ~Continues
      BY <1>5, <2>1 DEF Continues
    <3> QED BY <1>7, <1>11, <3>1
  <2>3. Resting' /\ Abstract!Become(l, s, Cursor(l)')
    BY <1>5, <1>7, <1>8, <2>1, Concludes
  <2>4. held.items[l] = s /\ held.cursors[l] = Cursor(l)
    BY <1>4 DEF AsBefore
  <2>5. PromisedOrNamed
    <3> PICK v, c : v = (IF Idle THEN Contents ELSE held.items)
                    /\ c = (IF Idle THEN Cursors ELSE held.cursors)
      OBVIOUS
    <3> PICK e : e = Cursor(l)'
      OBVIOUS
    <3>1. /\ v[l] = s /\ c[l] = Cursor(l) /\ v = [v EXCEPT ![l] = s]
          /\ c = [c EXCEPT ![l] = Cursor(l)]
      BY <1>5, <2>4 DEF Began
    <3>2. /\ (IF Idle THEN Contents ELSE held.items)' = v
          /\ (IF Idle THEN Cursors ELSE held.cursors)' = [c EXCEPT ![l] = e]
      BY <2>3, <3>1 DEF Abstract!Become
    <3>3. value' = 0
      BY <1>7 DEF Began
    <3>4. CASE do = "search"
      <4>1. Abstract!IsIn(l, x)
        <5>1. e = Cursor(l)
          BY <2>2, <3>4
        <5>2. (IF Idle THEN Cursors ELSE held.cursors)' = c
          BY <3>1, <3>2, <5>1
        <5> QED BY <2>1, <2>2, <3>1, <3>2, <3>3, <3>4, <5>2 DEF Abstract!IsIn, Abstract!Returns
      <4> QED BY <4>1 DEF Abstract!Next, PromisedOrNamed
    <3>5. CASE do = "find"
      <4>1. Abstract!Find(l, x)
        <5>1. Abstract!Returns("Find", 0, o # {})
          BY <2>1, <2>2, <3>3, <3>5 DEF Abstract!Returns
        <5>2. IF found' THEN /\ e \in o /\ \A k \in o : e <= k
                             /\ (IF Idle THEN Cursors ELSE held.cursors)' = [c EXCEPT ![l] = e]
              ELSE (IF Idle THEN Cursors ELSE held.cursors)' = c
          BY <2>2, <3>1, <3>2, <3>5
        <5> QED BY <3>1, <3>2, <5>1, <5>2 DEF Abstract!Find
      <4> QED BY <4>1 DEF Abstract!Next, PromisedOrNamed
    <3> QED BY <3>4, <3>5
  <2>6. value' = 0 /\ found' \in BOOLEAN /\ done' \in Calls
    BY <1>7, <2>1, <2>2 DEF Began, Calls
  <2> QED BY <1>7, <1>9, <2>3, <2>5, <2>6, GoesHome
<1> QED BY <1>7, <1>10, <1>11

-----------------------------------------------------------------------------
(* A step of a task of a plan: it ends the task, or the task stays.         *)

Ends(call, plan, k) ==
  /\ current' = Null
  /\ IF k = Len(plan) THEN todo' = <<>> /\ done' = call
     ELSE At(call, plan, k + 1)' /\ ~Idle' /\ UNCHANGED <<held, done>>
Stays(call, plan, k) == At(call, plan, k)' /\ ~Idle' /\ UNCHANGED <<held, done>>

LEMMA TaskEnds ==
  ASSUME NEW plan \in Seq(Tasks), NEW k \in 1..Len(plan), NEW call, At(call, plan, k)
  PROVE  /\ ~Idle /\ todo # <<>> /\ todo[1] = plan[k]
         /\ Done => Ends(call, plan, k)
         /\ UNCHANGED <<todo, held, done>> => Stays(call, plan, k)
<1>1. /\ todo # <<>> /\ ~Idle /\ todo[1] = plan[k]
      /\ Done /\ k = Len(plan) => todo' = <<>> /\ held' = <<>> /\ done' = call
      /\ Done /\ k # Len(plan) => /\ At(call, plan, k + 1)' /\ todo' # <<>>
                                  /\ held' = held /\ done' = done
      /\ UNCHANGED <<todo, held>> => At(call, plan, k)'
  BY AtIs
<1>2. Done => current' = Null
  BY DEF Done
<1>3. Idle' <=> todo' = <<>>
  BY DEF Idle
<1>4. Done => Ends(call, plan, k)
  BY <1>1, <1>2, <1>3 DEF Ends
<1>5. UNCHANGED <<todo, held, done>> => Stays(call, plan, k)
  BY <1>1, <1>3 DEF Stays
<1> QED BY <1>1, <1>4, <1>5

LEMMA ClearTask ==
  ASSUME HeapOK, Registers, saved \in Pointer, counter \in Nat, values \in Seq(Items), Step,
         NEW p \in AllLists, NEW m \in AllLists, NEW plan \in Seq(Tasks), NEW k \in 1..Len(plan),
         NEW call, At(call, plan, k), plan[k] = Task("clear", p, m, 0), Emptying(p)
  PROVE  /\ HeapOK' /\ Kept /\ ~Idle /\ UNCHANGED <<value, found>>
         /\ \A q \in AllLists : q # p => Same(q)
         /\ \/ /\ Ends(call, plan, k)
               /\ IsEmpty(p)' /\ ItemsOf(p)' = <<>> /\ Cursor(p)' = 0
            \/ Stays(call, plan, k) /\ Emptying(p)'
<1>1. /\ ~Idle /\ todo # <<>> /\ todo[1] = plan[k]
      /\ Done => Ends(call, plan, k)
      /\ UNCHANGED <<todo, held, done>> => Stays(call, plan, k)
  BY TaskEnds
<1>2. todo[1].do = "clear" /\ List = p
  BY <1>1, TaskIs DEF List
<1>3. ClearNode
  BY <1>2, StepIs
<1>4. /\ HeapOK' /\ (\A q \in AllLists : q # p => Same(q))
      /\ \/ Done /\ IsEmpty(p)' /\ ItemsOf(p)' = <<>> /\ Cursor(p)' = 0
         \/ Continues /\ Emptying(p)'
      /\ UNCHANGED <<values, value, found>>
  BY <1>2, <1>3, ClearStep
<1>5. Kept
  <2>1. todo[1].do \notin {"read", "build"}
    BY <1>2
  <2> QED BY <1>1, <1>4, <2>1, RegistersKept
<1>6. Continues => UNCHANGED <<todo, held, done>>
  BY DEF Continues
<1> QED BY <1>1, <1>4, <1>5, <1>6

LEMMA CopyTask ==
  ASSUME HeapOK, Registers, saved \in Pointer, counter \in Nat, values \in Seq(Items), Step,
         NEW p \in AllLists, NEW m \in AllLists, p # m, NEW plan \in Seq(Tasks),
         NEW k \in 1..Len(plan), NEW call, At(call, plan, k), plan[k] = Task("copy", p, m, 0),
         Filling(p, m), Whole(m)
  PROVE  /\ HeapOK' /\ Kept /\ ~Idle /\ UNCHANGED <<value, found>>
         /\ \A q \in AllLists : q # p => Same(q)
         /\ \/ /\ Ends(call, plan, k)
               /\ Whole(p)' /\ ItemsOf(p)' = ItemsOf(m) /\ Cursor(p)' = Cursor(m)
            \/ Stays(call, plan, k) /\ Filling(p, m)'
<1>1. /\ ~Idle /\ todo # <<>> /\ todo[1] = plan[k]
      /\ Done => Ends(call, plan, k)
      /\ UNCHANGED <<todo, held, done>> => Stays(call, plan, k)
  BY TaskEnds
<1>2. todo[1].do = "copy" /\ List = p /\ Source = m
  BY <1>1, TaskIs DEF List, Source
<1>3. CopyRoot \/ CopyNode
  BY <1>2, StepIs
<1>4. /\ HeapOK' /\ (\A q \in AllLists : q # p => Same(q))
      /\ Copied(p, m) \/ (Continues /\ Filling(p, m)')
      /\ UNCHANGED <<values, value, found>>
  BY <1>2, <1>3, CopyRootStep, CopyNodeStep
<1>5. Kept
  <2>1. todo[1].do \notin {"read", "build"}
    BY <1>2
  <2>2. Done \/ Continues
    BY <1>4 DEF Copied
  <2> QED BY <1>1, <1>4, <2>1, <2>2, RegistersKept
<1>6. Continues => UNCHANGED <<todo, held, done>>
  BY DEF Continues
<1>7. CASE Copied(p, m)
  BY <1>1, <1>4, <1>5, <1>7 DEF Copied
<1>8. CASE Continues /\ Filling(p, m)'
  BY <1>1, <1>4, <1>5, <1>6, <1>8
<1> QED BY <1>4, <1>7, <1>8

LEMMA AppendTask ==
  ASSUME HeapOK, Registers, saved \in Pointer, counter \in Nat, values \in Seq(Items), Step,
         NEW p \in AllLists, NEW m \in AllLists, p # m, NEW plan \in Seq(Tasks),
         NEW k \in 1..Len(plan), NEW call, At(call, plan, k), plan[k] = Task("append", p, m, 0),
         NEW s \in Seq(Items), Appending(p, m, s), Whole(m), size[m] # 0
  PROVE  /\ HeapOK' /\ Kept /\ ~Idle /\ UNCHANGED <<value, found>>
         /\ \A q \in AllLists : q # p => Same(q)
         /\ \/ /\ Ends(call, plan, k)
               /\ Whole(p)' /\ ItemsOf(p)' = s \o ItemsOf(m) /\ Cursor(p)' = Len(s \o ItemsOf(m))
            \/ Stays(call, plan, k) /\ Appending(p, m, s)'
<1>1. /\ ~Idle /\ todo # <<>> /\ todo[1] = plan[k]
      /\ Done => Ends(call, plan, k)
      /\ UNCHANGED <<todo, held, done>> => Stays(call, plan, k)
  BY TaskEnds
<1>2. todo[1].do = "append" /\ List = p /\ Source = m
  BY <1>1, TaskIs DEF List, Source
<1>3. AppendBegins \/ AppendNode
  BY <1>2, StepIs
<1>4. AppendBegins => counter = 0
  BY DEF AppendBegins, Registers
<1>5. /\ HeapOK' /\ (\A q \in AllLists : q # p => Same(q))
      /\ Appended(p, m, s) \/ (Continues /\ Appending(p, m, s)')
      /\ UNCHANGED <<values, value, found>>
  BY <1>2, <1>3, <1>4, AppendBeginsStep, AppendNodeStep
<1>6. Kept
  <2>1. todo[1].do \notin {"read", "build"}
    BY <1>2
  <2>2. Done \/ Continues
    BY <1>5 DEF Appended
  <2> QED BY <1>1, <1>5, <2>1, <2>2, RegistersKept
<1>7. Continues => UNCHANGED <<todo, held, done>>
  BY DEF Continues
<1>8. CASE Appended(p, m, s)
  BY <1>1, <1>5, <1>6, <1>8 DEF Appended
<1>9. CASE Continues /\ Appending(p, m, s)'
  BY <1>1, <1>5, <1>6, <1>7, <1>9
<1> QED BY <1>5, <1>8, <1>9

-----------------------------------------------------------------------------
(* A step of Clear and of operator=.                                        *)

LEMMA PlanIs ==
  ASSUME NEW l \in AllLists, NEW m \in AllLists, NEW k \in AllLists
  PROVE  /\ Clears(l) \in Tasks /\ Copies(l, m) \in Tasks /\ Appends(l, m) \in Tasks
         /\ Task("read", l, l, 0) \in Tasks /\ Task("build", k, l, 0) \in Tasks
         /\ Task("clear", k, l, 0) \in Tasks /\ Task("rewind", l, l, 0) \in Tasks
BY TaskIs DEF Clears, Copies, Appends

LEMMA OthersSame ==
  ASSUME NEW l \in Lists, \A q \in AllLists : q # l => Same(q)
  PROVE  (\A k \in Lists \ {l} : Same(k)) /\ Same(Temp) /\ Temp # l /\ l \in AllLists /\ Temp \in AllLists
BY ListAssumption DEF AllLists

LEMMA ClearGoes ==
  ASSUME HeapOK, Registers, Began, saved \in Pointer, counter \in Nat, values \in Seq(Items),
         NEW l \in Lists, Others(l), IsEmpty(Temp), Step, InClear(l)
  PROVE  Goes
<1> DEFINE plan == <<Clears(l)>>
<1>1. l \in AllLists
  BY DEF AllLists
<1>2. plan \in Seq(Tasks) /\ Len(plan) = 1 /\ plan[1] = Task("clear", l, l, 0) /\ 1 \in 1..Len(plan)
  BY <1>1, PlanIs DEF Clears
<1>3. At("Clear", plan, 1) /\ Emptying(l)
  BY DEF InClear
<1> HIDE DEF plan
<1>4. /\ HeapOK' /\ Kept /\ ~Idle /\ UNCHANGED <<value, found>>
      /\ \A q \in AllLists : q # l => Same(q)
      /\ \/ /\ Ends("Clear", plan, 1)
            /\ IsEmpty(l)' /\ ItemsOf(l)' = <<>> /\ Cursor(l)' = 0
         \/ Stays("Clear", plan, 1) /\ Emptying(l)'
  BY <1>1, <1>2, <1>3, ClearTask
<1>5. (\A k \in Lists \ {l} : Same(k)) /\ IsEmpty(Temp)'
  BY <1>4, OthersSame, EmptyKept
<1>6. CASE Stays("Clear", plan, 1) /\ Emptying(l)'
  <2>1. InClear(l)'
    BY <1>6 DEF Stays, InClear, plan
  <2>2. During(l)'
    BY <1>5, <2>1 DEF During
  <2> QED BY <1>4, <1>5, <1>6, <2>2, GoesOn DEF Stays
<1>7. CASE Ends("Clear", plan, 1) /\ IsEmpty(l)' /\ ItemsOf(l)' = <<>> /\ Cursor(l)' = 0
  <2>1. todo' = <<>> /\ done' = "Clear" /\ current' = Null
    BY <1>2, <1>7 DEF Ends
  <2>2. Whole(l)'
    BY <1>7 DEF IsEmpty
  <2>3. Resting' /\ Abstract!Become(l, ItemsOf(l)', Cursor(l)')
    BY <1>4, <1>5, <2>1, <2>2, Concludes
  <2>4. value' = 0 /\ found' = FALSE
    BY <1>4 DEF Began
  <2>5. Abstract!Clear(l)
    BY <1>7, <2>1, <2>3, <2>4 DEF Abstract!Clear, Abstract!NoResult, Abstract!Returns
  <2>6. PromisedOrNamed
    BY <2>5 DEF Abstract!Next, PromisedOrNamed
  <2>7. done' \in Calls /\ found' \in BOOLEAN
    BY <2>1, <2>4 DEF Calls
  <2> QED BY <1>4, <2>3, <2>4, <2>6, <2>7, GoesHome
<1> QED BY <1>4, <1>6, <1>7

(* The list that is copied or appended is as it was.                        *)
LEMMA SourceIs ==
  ASSUME HeapOK, Began, NEW l \in Lists, Others(l), NEW m \in Lists \ {l}
  PROVE  /\ m \in AllLists /\ Whole(m) /\ ItemsOf(m) = held.items[m] /\ Cursor(m) = held.cursors[m]
         /\ held.items[m] \in Seq(Items)
         /\ held.items[m] # <<>> => size[m] # 0
<1>1. m \in AllLists
  BY DEF AllLists
<1>2. Whole(m) /\ ItemsOf(m) = held.items[m] /\ Cursor(m) = held.cursors[m]
  BY DEF Others, AsBefore
<1>3. held.items[m] # <<>> => size[m] # 0
  BY <1>1, <1>2, WholeIs, ItemsOfIs
<1> QED BY <1>1, <1>2, <1>3 DEF Began

LEMMA AssignGoes ==
  ASSUME HeapOK, Registers, Began, saved \in Pointer, counter \in Nat, values \in Seq(Items),
         NEW l \in Lists, Others(l), IsEmpty(Temp), Step, NEW m \in Lists \ {l}, InAssign(l, m)
  PROVE  Goes
<1> DEFINE plan == <<Clears(l), Copies(l, m)>>
<1>1. l \in AllLists /\ m \in AllLists /\ l # m
  BY DEF AllLists
<1>2. /\ plan \in Seq(Tasks) /\ Len(plan) = 2 /\ 1 \in 1..Len(plan) /\ 2 \in 1..Len(plan)
      /\ plan[1] = Task("clear", l, l, 0) /\ plan[2] = Task("copy", l, m, 0)
  BY <1>1, PlanIs DEF Clears, Copies
<1>3. (At("Assign", plan, 1) /\ Emptying(l)) \/ (At("Assign", plan, 2) /\ Filling(l, m))
  BY DEF InAssign
<1>a. (At("Assign", plan, 1) /\ Emptying(l))' \/ (At("Assign", plan, 2) /\ Filling(l, m))' => InAssign(l, m)'
  BY DEF InAssign
<1> HIDE DEF plan
<1>4. ASSUME /\ HeapOK' /\ Kept /\ ~Idle /\ UNCHANGED <<value, found>>
             /\ \A q \in AllLists : q # l => Same(q),
             ~Idle', UNCHANGED <<held, done>>,
             (At("Assign", plan, 1) /\ Emptying(l))' \/ (At("Assign", plan, 2) /\ Filling(l, m))'
      PROVE  Goes
  <2>1. (\A k \in Lists \ {l} : Same(k)) /\ IsEmpty(Temp)'
    BY <1>4, OthersSame, EmptyKept
  <2>2. During(l)'
    BY <1>a, <1>4, <2>1 DEF During
  <2> QED BY <1>4, <2>1, <2>2, GoesOn
<1>5. CASE At("Assign", plan, 1) /\ Emptying(l)
  <2>1. /\ HeapOK' /\ Kept /\ ~Idle /\ UNCHANGED <<value, found>>
        /\ \A q \in AllLists : q # l => Same(q)
        /\ \/ /\ Ends("Assign", plan, 1)
              /\ IsEmpty(l)' /\ ItemsOf(l)' = <<>> /\ Cursor(l)' = 0
           \/ Stays("Assign", plan, 1) /\ Emptying(l)'
    BY <1>1, <1>2, <1>5, ClearTask
  <2>2. CASE Ends("Assign", plan, 1) /\ IsEmpty(l)'
    <3>1. /\ current' = Null /\ At("Assign", plan, 2)' /\ ~Idle' /\ UNCHANGED <<held, done>>
      BY <1>2, <2>2 DEF Ends
    <3>2. Filling(l, m)'
      BY <2>2, <3>1 DEF Filling
    <3> QED BY <1>4, <2>1, <3>1, <3>2
  <2>3. CASE Stays("Assign", plan, 1) /\ Emptying(l)'
    BY <1>4, <2>1, <2>3 DEF Stays
  <2> QED BY <2>1, <2>2, <2>3
<1>6. CASE At("Assign", plan, 2) /\ Filling(l, m)
  <2>1. /\ Whole(m) /\ ItemsOf(m) = held.items[m] /\ Cursor(m) = held.cursors[m]
    BY SourceIs
  <2>2. /\ HeapOK' /\ Kept /\ ~Idle /\ UNCHANGED <<value, found>>
        /\ \A q \in AllLists : q # l => Same(q)
        /\ \/ /\ Ends("Assign", plan, 2)
              /\ Whole(l)' /\ ItemsOf(l)' = ItemsOf(m) /\ Cursor(l)' = Cursor(m)
           \/ Stays("Assign", plan, 2) /\ Filling(l, m)'
    BY <1>1, <1>2, <1>6, <2>1, CopyTask
  <2>3. CASE Stays("Assign", plan, 2) /\ Filling(l, m)'
    BY <1>4, <2>2, <2>3 DEF Stays
  <2>4. CASE Ends("Assign", plan, 2) /\ Whole(l)' /\ ItemsOf(l)' = ItemsOf(m) /\ Cursor(l)' = Cursor(m)
    <3>1. todo' = <<>> /\ done' = "Assign" /\ current' = Null
      BY <1>2, <2>4 DEF Ends
    <3>2. (\A k \in Lists \ {l} : Same(k)) /\ IsEmpty(Temp)'
      BY <2>2, OthersSame, EmptyKept
    <3>3. Resting' /\ Abstract!Become(l, ItemsOf(l)', Cursor(l)')
      BY <2>2, <2>4, <3>1, <3>2, Concludes
    <3>4. value' = 0 /\ found' = FALSE
      BY <2>2 DEF Began
    <3>5. Abstract!Assign(l, m)
      BY <2>1, <2>2, <2>4, <3>1, <3>3, <3>4 DEF Abstract!Assign, Abstract!NoResult, Abstract!Returns
    <3>6. PromisedOrNamed
      BY <3>5 DEF Abstract!Next, PromisedOrNamed
    <3>7. done' \in Calls /\ found' \in BOOLEAN
      BY <3>1, <3>4 DEF Calls
    <3> QED BY <2>2, <3>3, <3>4, <3>6, <3>7, GoesHome
  <2> QED BY <2>2, <2>3, <2>4
<1> QED BY <1>3, <1>5, <1>6

-----------------------------------------------------------------------------
(* A step of Concatenate.                                                   *)

LEMMA ConcatenateGoes ==
  ASSUME HeapOK, Registers, Began, saved \in Pointer, counter \in Nat, values \in Seq(Items),
         NEW l \in Lists, Others(l), IsEmpty(Temp), Step, NEW m \in Lists \ {l}, InConcatenate(l, m)
  PROVE  Goes
<1> DEFINE plan == <<Clears(l), Copies(l, m), Appends(l, m)>>
           s == IF held.items[l] = <<>> THEN held.items[m] ELSE held.items[l]
           Now == \/ /\ held.items[l] = <<>>
                     /\ \/ At("Concatenate", plan, 1) /\ Emptying(l)
                        \/ At("Concatenate", plan, 2) /\ Filling(l, m)
                  \/ At("Concatenate", plan, 3) /\ Appending(l, m, s)
<1>1. l \in AllLists /\ m \in AllLists /\ l # m
  BY DEF AllLists
<1>2. /\ plan \in Seq(Tasks) /\ Len(plan) = 3
      /\ 1 \in 1..Len(plan) /\ 2 \in 1..Len(plan) /\ 3 \in 1..Len(plan)
      /\ plan[1] = Task("clear", l, l, 0) /\ plan[2] = Task("copy", l, m, 0)
      /\ plan[3] = Task("append", l, m, 0)
  BY <1>1, PlanIs DEF Clears, Copies, Appends
<1>3. held.items[m] # <<>> /\ Now
  BY DEF InConcatenate
<1>a. held'.items[m] # <<>> /\ Now' => InConcatenate(l, m)'
  BY DEF InConcatenate
<1>b. /\ Whole(m) /\ ItemsOf(m) = held.items[m] /\ Cursor(m) = held.cursors[m]
      /\ held.items[m] \in Seq(Items) /\ size[m] # 0
  BY <1>3, SourceIs
<1>c. s \in Seq(Items) /\ s # <<>>
  BY <1>3, <1>b DEF Began
<1> HIDE DEF plan
<1>4. ASSUME /\ HeapOK' /\ Kept /\ ~Idle /\ UNCHANGED <<value, found>>
             /\ \A q \in AllLists : q # l => Same(q),
             ~Idle', UNCHANGED <<held, done>>, Now'
      PROVE  Goes
  <2>1. (\A k \in Lists \ {l} : Same(k)) /\ IsEmpty(Temp)'
    BY <1>4, OthersSame, EmptyKept
  <2>2. InConcatenate(l, m)'
    BY <1>3, <1>a, <1>4
  <2>3. During(l)'
    BY <2>1, <2>2 DEF During
  <2> QED BY <1>4, <2>1, <2>3, GoesOn
<1>5. CASE held.items[l] = <<>> /\ At("Concatenate", plan, 1) /\ Emptying(l)
  <2>1. /\ HeapOK' /\ Kept /\ ~Idle /\ UNCHANGED <<value, found>>
        /\ \A q \in AllLists : q # l => Same(q)
        /\ \/ /\ Ends("Concatenate", plan, 1)
              /\ IsEmpty(l)' /\ ItemsOf(l)' = <<>> /\ Cursor(l)' = 0
           \/ Stays("Concatenate", plan, 1) /\ Emptying(l)'
    BY <1>1, <1>2, <1>5, ClearTask
  <2>2. CASE Ends("Concatenate", plan, 1) /\ IsEmpty(l)'
    <3>1. current' = Null /\ At("Concatenate", plan, 2)' /\ ~Idle' /\ UNCHANGED <<held, done>>
      BY <1>2, <2>2 DEF Ends
    <3>2. Filling(l, m)'
      BY <2>2, <3>1 DEF Filling
    <3> QED BY <1>4, <1>5, <2>1, <3>1, <3>2
  <2>3. CASE Stays("Concatenate", plan, 1) /\ Emptying(l)'
    BY <1>4, <1>5, <2>1, <2>3 DEF Stays
  <2> QED BY <2>1, <2>2, <2>3
<1>6. CASE held.items[l] = <<>> /\ At("Concatenate", plan, 2) /\ Filling(l, m)
  <2>1. /\ HeapOK' /\ Kept /\ ~Idle /\ UNCHANGED <<value, found>>
        /\ \A q \in AllLists : q # l => Same(q)
        /\ \/ /\ Ends("Concatenate", plan, 2)
              /\ Whole(l)' /\ ItemsOf(l)' = ItemsOf(m) /\ Cursor(l)' = Cursor(m)
           \/ Stays("Concatenate", plan, 2) /\ Filling(l, m)'
    BY <1>1, <1>2, <1>6, <1>b, CopyTask
  <2>2. CASE Ends("Concatenate", plan, 2) /\ Whole(l)' /\ ItemsOf(l)' = ItemsOf(m)
    <3>1. current' = Null /\ At("Concatenate", plan, 3)' /\ ~Idle' /\ UNCHANGED <<held, done>>
      BY <1>2, <2>2 DEF Ends
    <3>2. s' = s /\ s = ItemsOf(m)
      BY <1>6, <1>b, <3>1
    <3>3. Appending(l, m, s)'
      BY <1>c, <2>2, <3>1, <3>2 DEF Appending
    <3> QED BY <1>4, <2>1, <3>1, <3>3
  <2>3. CASE Stays("Concatenate", plan, 2) /\ Filling(l, m)'
    BY <1>4, <1>6, <2>1, <2>3 DEF Stays
  <2> QED BY <2>1, <2>2, <2>3
<1>7. CASE At("Concatenate", plan, 3) /\ Appending(l, m, s)
  <2> PICK z : z = s
    OBVIOUS
  <2>1. /\ HeapOK' /\ Kept /\ ~Idle /\ UNCHANGED <<value, found>>
        /\ \A q \in AllLists : q # l => Same(q)
        /\ \/ /\ Ends("Concatenate", plan, 3)
              /\ Whole(l)' /\ ItemsOf(l)' = z \o ItemsOf(m) /\ Cursor(l)' = Len(z \o ItemsOf(m))
           \/ Stays("Concatenate", plan, 3) /\ Appending(l, m, z)'
    <3>1. z \in Seq(Items) /\ Appending(l, m, z)
      BY <1>7, <1>c
    <3> HIDE DEF s
    <3> QED BY <1>1, <1>2, <1>7, <1>b, <3>1, AppendTask
  <2>2. CASE Stays("Concatenate", plan, 3) /\ Appending(l, m, z)'
    <3>1. ~Idle' /\ UNCHANGED <<held, done>> /\ At("Concatenate", plan, 3)'
      BY <2>2 DEF Stays
    <3>2. s' = z
      BY <3>1
    <3> QED BY <1>4, <2>1, <2>2, <3>1, <3>2
  <2>3. CASE Ends("Concatenate", plan, 3) /\ Whole(l)' /\ ItemsOf(l)' = z \o ItemsOf(m)
             /\ Cursor(l)' = Len(z \o ItemsOf(m))
    <3>1. todo' = <<>> /\ done' = "Concatenate" /\ current' = Null
      BY <1>2, <2>3 DEF Ends
    <3>2. (\A k \in Lists \ {l} : Same(k)) /\ IsEmpty(Temp)'
      BY <2>1, OthersSame, EmptyKept
    <3>3. Resting' /\ Abstract!Become(l, ItemsOf(l)', Cursor(l)')
      BY <2>1, <2>3, <3>1, <3>2, Concludes
    <3>4. value' = 0 /\ found' = FALSE
      BY <2>1 DEF Began
    <3>5. PICK v : v = held.items
      OBVIOUS
    <3>6. PromisedOrNamed
      <4>1. Shown = v
        BY <2>1, <3>5 DEF Shown
      <4>2. v[m] # <<>> /\ z = (IF v[l] = <<>> THEN v[m] ELSE v[l]) /\ ItemsOf(m) = v[m]
        BY <1>3, <1>b, <3>5
      <4>3. Abstract!Become(l, z \o v[m], Len(z \o v[m]))
        BY <2>3, <3>3, <4>2
      <4>4. Abstract!NoResult("Concatenate")
        BY <3>1, <3>4 DEF Abstract!NoResult, Abstract!Returns
      <4> HIDE DEF s
      <4>5. CASE v[l] = <<>>
        <5>1. AppendsTwice(l, m)
          BY <4>1, <4>2, <4>3, <4>4, <4>5 DEF AppendsTwice
        <5> QED BY <5>1 DEF PromisedOrNamed, Departs
      <4>6. CASE v[l] # <<>>
        <5>1. Abstract!Concatenate(l, m)
          BY <4>1, <4>2, <4>3, <4>4, <4>6 DEF Abstract!Concatenate
        <5> QED BY <5>1 DEF PromisedOrNamed, Abstract!Next
      <4> QED BY <4>5, <4>6
    <3>7. done' \in Calls /\ found' \in BOOLEAN
      BY <3>1, <3>4 DEF Calls
    <3> QED BY <2>1, <3>3, <3>4, <3>6, <3>7, GoesHome
  <2> QED BY <2>1, <2>2, <2>3
<1> QED BY <1>3, <1>5, <1>6, <1>7

-----------------------------------------------------------------------------
(* A step of Sort.                                                          *)

LEMMA SortedInKept ==
  ASSUME HeapOK, NEW l \in Lists, NEW k \in AllLists, SortedIn(k, l), Same(k), held' = held
  PROVE  SortedIn(k, l)'
<1>1. Whole(k)' /\ ItemsOf(k)' = ItemsOf(k)
  BY SameIs DEF SortedIn
<1> QED BY <1>1 DEF SortedIn, Sorting

LEMMA FirstNext ==
  ASSUME NEW plan \in Seq(Tasks), NEW k \in 1..Len(plan), NEW call
  PROVE  (At(call, plan, k) => todo # <<>> /\ todo[1] = plan[k])'
<1>1. At(call, plan, k) => todo # <<>> /\ todo[1] = plan[k]
  BY AtIs
<1> QED BY <1>1, PTL

LEMMA NoneLost ==
  ASSUME NEW s \in Seq(Items), NEW t \in Seq(Items), s # <<>>, Abstract!SameItems(s, t)
  PROVE  t # <<>>
<1>1. PICK x : x = s[1]
  OBVIOUS
<1>2. x \in Items /\ 1 \in 1..Len(s)
  BY <1>1
<1>3. Abstract!Occurrences(s, x) = {i \in 1..Len(s) : s[i] = x}
      /\ IsFiniteSet(Abstract!Occurrences(s, x)) /\ Count(s, x) = Cardinality(Abstract!Occurrences(s, x))
  BY CountIs
<1>4. Abstract!Occurrences(s, x) # {}
  BY <1>1, <1>2, <1>3
<1>5. Count(s, x) # 0
  BY <1>3, <1>4, FS_EmptySet
<1>6. Count(s, x) = Count(t, x)
  <2>1. \A o : Abstract!Cardinality(o) = Cardinality(o)
    BY Zenon DEF Abstract!Cardinality, Cardinality
  <2> QED BY <1>2, <2>1 DEF Count, Abstract!SameItems
<1>7. t = <<>> => Count(t, x) = 0
  BY CountIs
<1> QED BY <1>5, <1>6, <1>7

LEMMA ReadTask ==
  ASSUME HeapOK, Registers, saved \in Pointer, counter \in Nat, values \in Seq(Items), Step,
         NEW l \in Lists, NEW plan \in Seq(Tasks), NEW k \in 1..Len(plan), k + 1 \in 1..Len(plan),
         NEW call, At(call, plan, k), plan[k] = Task("read", l, l, 0), plan[k + 1].do = "build",
         AsBefore(l), IsEmpty(Temp), Reading(l)
  PROVE  /\ HeapOK' /\ Kept /\ ~Idle /\ UNCHANGED <<value, found>>
         /\ \A q \in AllLists : Same(q)
         /\ AsBefore(l)' \/ held' # held
         /\ \/ Ends(call, plan, k) /\ (Building(l)' \/ held' # held)
            \/ Stays(call, plan, k) /\ Reading(l)'
<1>1. /\ ~Idle /\ todo # <<>> /\ todo[1] = plan[k]
      /\ Done => Ends(call, plan, k)
      /\ UNCHANGED <<todo, held, done>> => Stays(call, plan, k)
  BY TaskEnds
<1>l. l \in AllLists /\ Temp \in AllLists
  BY DEF AllLists
<1>2. todo[1].do = "read" /\ List = l
  BY <1>l, <1>1, TaskIs DEF List
<1>3. SortReads
  BY <1>2, StepIs
<1>4. /\ UNCHANGED <<heap, objects, value, found>>
      /\ \/ Done /\ values' = Mergesort[ItemsOf(l)]
         \/ Continues /\ Reading(l)' /\ values' \in Seq(Items)
  BY <1>l, <1>2, <1>3, SortReadsStep
<1>5. HeapOK' /\ (\A q \in AllLists : Same(q))
  BY <1>4 DEF heap, objects, HeapOK, Owned, Same
<1>6. AsBefore(l)' \/ held' # held
  BY <1>l, <1>5, AsBeforeKept
<1>7. counter = 0
  BY <1>2 DEF Registers
<1>8. CASE Continues /\ Reading(l)' /\ values' \in Seq(Items)
  <2>1. /\ UNCHANGED <<todo, held, done>> /\ current' \in Pointer /\ saved' \in Pointer /\ counter' = 0
    BY <1>2, <1>7, <1>8 DEF Continues, Pointer
  <2>2. Kept
    BY <1>1, <1>2, <1>8, <2>1 DEF Kept, Registers
  <2> QED BY <1>1, <1>4, <1>5, <1>6, <1>8, <2>1, <2>2
<1>9. CASE Done /\ values' = Mergesort[ItemsOf(l)]
  <2>1. PICK s : s = ItemsOf(l)
    OBVIOUS
  <2>2. s \in Seq(Items) /\ Len(s) > 1 /\ s = held.items[l]
    <3>1. size[l] = Len(chain[l])
      BY <1>l, WholeIs DEF AsBefore
    <3> QED BY <1>l, <2>1, <3>1, ItemsOfIs DEF Reading, AsBefore
  <2>3. /\ values' \in Seq(Items) /\ Len(values') = Len(s)
        /\ Abstract!Sorted(values') /\ Abstract!SameItems(s, values')
    BY <1>9, <2>1, <2>2, MergesortSorts
  <2>4. Ends(call, plan, k)
    BY <1>1, <1>9
  <2>5. /\ current' = Null /\ At(call, plan, k + 1)' /\ ~Idle'
    BY <2>4 DEF Ends
  <2>6. /\ counter' = 0 /\ saved' = Null
    BY <1>9 DEF Done
  <2>7. todo' # <<>> /\ todo'[1].do = "build"
    <3> PICK h : h = k + 1
      OBVIOUS
    <3>1. h \in 1..Len(plan) /\ At(call, plan, h)'
      BY <2>5
    <3>2. todo' # <<>> /\ todo'[1] = plan[h]
      BY <3>1, FirstNext
    <3> QED BY <3>2
  <2>8. Kept
    BY <2>3, <2>5, <2>6, <2>7 DEF Kept, Registers, Pointer
  <2>9. Building(l)' \/ held' # held
    <3>1. IsEmpty(Temp)'
      BY <1>l, <1>5, EmptyKept
    <3>2. Whole(Temp)' /\ chain'[Temp] = <<>> /\ size'[Temp] = 0
      BY <3>1 DEF IsEmpty, Whole
    <3>3. ItemsOf(Temp)' = <<>> /\ Cursor(Temp)' = 0
      BY <3>2 DEF ItemsOf, Cursor
    <3>4. values' # <<>> /\ <<>> \o values' = values'
      BY <2>2, <2>3
    <3>5. held' = held => Sorting(ItemsOf(Temp) \o values, l)'
      BY <2>2, <2>3, <3>3, <3>4 DEF Sorting
    <3> QED BY <2>5, <3>2, <3>3, <3>4, <3>5 DEF Building
  <2> QED BY <1>1, <1>4, <1>5, <1>6, <2>4, <2>8, <2>9
<1> QED BY <1>4, <1>8, <1>9

LEMMA BuildTask ==
  ASSUME HeapOK, Registers, saved \in Pointer, counter \in Nat, values \in Seq(Items), Step,
         NEW l \in Lists, NEW plan \in Seq(Tasks), NEW k \in 1..Len(plan),
         NEW call, At(call, plan, k), plan[k] = Task("build", Temp, l, 0), Building(l)
  PROVE  /\ HeapOK' /\ Kept /\ ~Idle /\ UNCHANGED <<value, found>>
         /\ \A q \in AllLists : q # Temp => Same(q)
         /\ \/ Ends(call, plan, k) /\ Whole(Temp)' /\ Sorting(ItemsOf(Temp)', l)
            \/ Stays(call, plan, k) /\ Building(l)'
<1>1. /\ ~Idle /\ todo # <<>> /\ todo[1] = plan[k]
      /\ Done => Ends(call, plan, k)
      /\ UNCHANGED <<todo, held, done>> => Stays(call, plan, k)
  BY TaskEnds
<1>l. l \in AllLists /\ Temp \in AllLists
  BY DEF AllLists
<1>2. todo[1].do = "build" /\ List = Temp
  BY <1>l, <1>1, TaskIs DEF List
<1>3. SortBuilds
  BY <1>2, StepIs
<1>4. /\ HeapOK' /\ (\A q \in AllLists : q # Temp => Same(q))
      /\ UNCHANGED <<value, found>> /\ values' \in Seq(Items)
      /\ \/ Done /\ Whole(Temp)' /\ Sorting(ItemsOf(Temp)', l) /\ values' = <<>>
         \/ UNCHANGED <<todo, held, done, saved, counter>> /\ Building(l)'
  BY <1>2, <1>3, SortBuildsStep
<1>5. counter = 0
  BY <1>2 DEF Registers
<1>6. CASE Done /\ Whole(Temp)' /\ Sorting(ItemsOf(Temp)', l) /\ values' = <<>>
  <2>1. current' = Null /\ saved' = Null /\ counter' = 0
    BY <1>6 DEF Done
  <2>2. Kept
    BY <1>4, <1>6, <2>1 DEF Kept, Registers, Pointer
  <2> QED BY <1>1, <1>4, <1>6, <2>2
<1>7. CASE UNCHANGED <<todo, held, done, saved, counter>> /\ Building(l)'
  <2>1. current' = Null
    BY <1>7 DEF Building
  <2>2. Kept
    BY <1>1, <1>2, <1>4, <1>5, <1>7, <2>1 DEF Kept, Registers, Pointer
  <2> QED BY <1>1, <1>4, <1>7, <2>2
<1> QED BY <1>4, <1>6, <1>7

LEMMA SortGoes ==
  ASSUME HeapOK, Registers, Began, saved \in Pointer, counter \in Nat, values \in Seq(Items),
         NEW l \in Lists, Others(l), Step, InSort(l)
  PROVE  Goes
<1> DEFINE plan == <<Task("read", l, l, 0), Task("build", Temp, l, 0), Clears(l),
                     Copies(l, Temp), Task("clear", Temp, l, 0), Task("rewind", l, l, 0)>>
           Now == \/ At("Sort", plan, 1) /\ AsBefore(l) /\ IsEmpty(Temp) /\ Reading(l)
                  \/ At("Sort", plan, 2) /\ AsBefore(l) /\ Building(l)
                  \/ At("Sort", plan, 3) /\ SortedIn(Temp, l) /\ Emptying(l)
                  \/ At("Sort", plan, 4) /\ SortedIn(Temp, l) /\ Filling(l, Temp)
                  \/ At("Sort", plan, 5) /\ SortedIn(l, l) /\ Emptying(Temp)
                  \/ At("Sort", plan, 6) /\ SortedIn(l, l) /\ IsEmpty(Temp) /\ current = Null
<1>1. l \in AllLists /\ Temp \in AllLists /\ l # Temp
  BY ListAssumption DEF AllLists
<1>2. plan \in Seq(Tasks) /\ Len(plan) = 6
  BY <1>1, PlanIs
<1>3. /\ 1 \in 1..Len(plan) /\ 2 \in 1..Len(plan) /\ 3 \in 1..Len(plan)
      /\ 4 \in 1..Len(plan) /\ 5 \in 1..Len(plan) /\ 6 \in 1..Len(plan)
  BY <1>2
<1>4. /\ plan[1] = Task("read", l, l, 0) /\ plan[2] = Task("build", Temp, l, 0)
      /\ plan[3] = Task("clear", l, l, 0) /\ plan[4] = Task("copy", l, Temp, 0)
      /\ plan[5] = Task("clear", Temp, l, 0) /\ plan[6] = Task("rewind", l, l, 0)
  BY DEF Clears, Copies
<1>5. Len(held.items[l]) > 1 /\ Now
  BY DEF InSort
<1>6. held' = held /\ Now' => InSort(l)'
  BY <1>5 DEF InSort
<1> HIDE DEF plan
<1>7. ASSUME /\ HeapOK' /\ Kept /\ ~Idle /\ UNCHANGED <<value, found>>
             /\ \A k \in Lists \ {l} : Same(k),
             ~Idle', UNCHANGED <<held, done>>, Now'
      PROVE  Goes
  <2>1. During(l)'
    BY <1>6, <1>7 DEF During
  <2> QED BY <1>7, <2>1, GoesOn
<1>8. \A k \in Lists \ {l} : k \in AllLists /\ k # l /\ k # Temp
  BY ListAssumption DEF AllLists
<1>11. CASE At("Sort", plan, 1) /\ AsBefore(l) /\ IsEmpty(Temp) /\ Reading(l)
  <2>1. plan[2].do = "build" /\ 1 + 1 = 2
    BY <1>1, <1>4, TaskIs
  <2>2. /\ HeapOK' /\ Kept /\ ~Idle /\ UNCHANGED <<value, found>>
        /\ \A q \in AllLists : Same(q)
        /\ AsBefore(l)' \/ held' # held
        /\ \/ Ends("Sort", plan, 1) /\ (Building(l)' \/ held' # held)
           \/ Stays("Sort", plan, 1) /\ Reading(l)'
    BY <1>3, <1>2, <1>4, <1>11, <2>1, ReadTask
  <2>3. IsEmpty(Temp)' /\ \A k \in Lists \ {l} : Same(k)
    BY <1>1, <1>8, <1>11, <2>2, EmptyKept
  <2>4. CASE Ends("Sort", plan, 1) /\ (Building(l)' \/ held' # held)
    <3>1. /\ At("Sort", plan, 2)' /\ ~Idle' /\ UNCHANGED <<held, done>>
      BY <1>2, <2>4 DEF Ends
    <3> QED BY <1>7, <2>2, <2>3, <2>4, <3>1
  <2>5. CASE Stays("Sort", plan, 1) /\ Reading(l)'
    <3>1. /\ At("Sort", plan, 1)' /\ ~Idle' /\ UNCHANGED <<held, done>>
      BY <2>5 DEF Stays
    <3> QED BY <1>7, <2>2, <2>3, <2>5, <3>1
  <2> QED BY <2>2, <2>4, <2>5
<1>12. CASE At("Sort", plan, 2) /\ AsBefore(l) /\ Building(l)
  <2>1. /\ HeapOK' /\ Kept /\ ~Idle /\ UNCHANGED <<value, found>>
        /\ \A q \in AllLists : q # Temp => Same(q)
        /\ \/ Ends("Sort", plan, 2) /\ Whole(Temp)' /\ Sorting(ItemsOf(Temp)', l)
           \/ Stays("Sort", plan, 2) /\ Building(l)'
    BY <1>2, <1>3, <1>4, <1>12, BuildTask
  <2>2. Same(l) /\ \A k \in Lists \ {l} : Same(k)
    BY <1>1, <1>8, <2>1
  <2>3. CASE Ends("Sort", plan, 2) /\ Whole(Temp)' /\ Sorting(ItemsOf(Temp)', l)
    <3>1. At("Sort", plan, 3)' /\ ~Idle' /\ UNCHANGED <<held, done>> /\ current' = Null
      BY <1>2, <2>3 DEF Ends
    <3>2. SortedIn(Temp, l)'
      BY <2>3, <3>1 DEF SortedIn, Sorting
    <3>3. Emptying(l)'
      <4>1. AsBefore(l)'
        BY <1>12, <2>2, <3>1, AsBeforeKept
      <4> QED BY <3>1, <4>1 DEF AsBefore, Emptying
    <3> QED BY <1>7, <2>1, <2>2, <3>1, <3>2, <3>3
  <2>4. CASE Stays("Sort", plan, 2) /\ Building(l)'
    <3>1. At("Sort", plan, 2)' /\ ~Idle' /\ UNCHANGED <<held, done>>
      BY <2>4 DEF Stays
    <3>2. AsBefore(l)'
      BY <1>12, <2>2, <3>1, AsBeforeKept
    <3> QED BY <1>7, <2>1, <2>2, <2>4, <3>1, <3>2
  <2> QED BY <2>1, <2>3, <2>4
<1>13. CASE At("Sort", plan, 3) /\ SortedIn(Temp, l) /\ Emptying(l)
  <2>1. /\ HeapOK' /\ Kept /\ ~Idle /\ UNCHANGED <<value, found>>
        /\ \A q \in AllLists : q # l => Same(q)
        /\ \/ /\ Ends("Sort", plan, 3)
              /\ IsEmpty(l)' /\ ItemsOf(l)' = <<>> /\ Cursor(l)' = 0
           \/ Stays("Sort", plan, 3) /\ Emptying(l)'
    BY <1>1, <1>2, <1>3, <1>4, <1>13, ClearTask
  <2>2. Same(Temp) /\ \A k \in Lists \ {l} : Same(k)
    BY <1>1, <1>8, <2>1
  <2>3. CASE Ends("Sort", plan, 3) /\ IsEmpty(l)'
    <3>1. At("Sort", plan, 4)' /\ ~Idle' /\ UNCHANGED <<held, done>> /\ current' = Null
      BY <1>2, <2>3 DEF Ends
    <3>2. SortedIn(Temp, l)'
      BY <1>1, <1>13, <2>2, <3>1, SortedInKept
    <3>3. Filling(l, Temp)'
      BY <2>3, <3>1 DEF Filling
    <3> QED BY <1>7, <2>1, <2>2, <3>1, <3>2, <3>3
  <2>4. CASE Stays("Sort", plan, 3) /\ Emptying(l)'
    <3>1. At("Sort", plan, 3)' /\ ~Idle' /\ UNCHANGED <<held, done>>
      BY <2>4 DEF Stays
    <3>2. SortedIn(Temp, l)'
      BY <1>1, <1>13, <2>2, <3>1, SortedInKept
    <3> QED BY <1>7, <2>1, <2>2, <2>4, <3>1, <3>2
  <2> QED BY <2>1, <2>3, <2>4
<1>14. CASE At("Sort", plan, 4) /\ SortedIn(Temp, l) /\ Filling(l, Temp)
  <2>1. /\ HeapOK' /\ Kept /\ ~Idle /\ UNCHANGED <<value, found>>
        /\ \A q \in AllLists : q # l => Same(q)
        /\ \/ /\ Ends("Sort", plan, 4)
              /\ Whole(l)' /\ ItemsOf(l)' = ItemsOf(Temp) /\ Cursor(l)' = Cursor(Temp)
           \/ Stays("Sort", plan, 4) /\ Filling(l, Temp)'
    <3>1. Whole(Temp)
      BY <1>14 DEF SortedIn
    <3> QED BY <1>1, <1>2, <1>3, <1>4, <1>14, <3>1, CopyTask
  <2>2. Same(Temp) /\ \A k \in Lists \ {l} : Same(k)
    BY <1>1, <1>8, <2>1
  <2>3. CASE Ends("Sort", plan, 4) /\ Whole(l)' /\ ItemsOf(l)' = ItemsOf(Temp)
    <3>1. At("Sort", plan, 5)' /\ ~Idle' /\ UNCHANGED <<held, done>> /\ current' = Null
      BY <1>2, <2>3 DEF Ends
    <3>2. SortedIn(l, l)'
      BY <1>14, <2>3, <3>1 DEF SortedIn, Sorting
    <3>3. Emptying(Temp)'
      <4>1. Whole(Temp)'
        BY <1>1, <1>14, <2>2, SameIs DEF SortedIn
      <4> QED BY <3>1, <4>1 DEF Emptying
    <3> QED BY <1>7, <2>1, <2>2, <3>1, <3>2, <3>3
  <2>4. CASE Stays("Sort", plan, 4) /\ Filling(l, Temp)'
    <3>1. At("Sort", plan, 4)' /\ ~Idle' /\ UNCHANGED <<held, done>>
      BY <2>4 DEF Stays
    <3>2. SortedIn(Temp, l)'
      BY <1>1, <1>14, <2>2, <3>1, SortedInKept
    <3> QED BY <1>7, <2>1, <2>2, <2>4, <3>1, <3>2
  <2> QED BY <2>1, <2>3, <2>4
<1>15. CASE At("Sort", plan, 5) /\ SortedIn(l, l) /\ Emptying(Temp)
  <2>1. /\ HeapOK' /\ Kept /\ ~Idle /\ UNCHANGED <<value, found>>
        /\ \A q \in AllLists : q # Temp => Same(q)
        /\ \/ /\ Ends("Sort", plan, 5)
              /\ IsEmpty(Temp)' /\ ItemsOf(Temp)' = <<>> /\ Cursor(Temp)' = 0
           \/ Stays("Sort", plan, 5) /\ Emptying(Temp)'
    BY <1>1, <1>2, <1>3, <1>4, <1>15, ClearTask
  <2>2. Same(l) /\ \A k \in Lists \ {l} : Same(k)
    BY <1>1, <1>8, <2>1
  <2>3. CASE Ends("Sort", plan, 5) /\ IsEmpty(Temp)'
    <3>1. At("Sort", plan, 6)' /\ ~Idle' /\ UNCHANGED <<held, done>> /\ current' = Null
      BY <1>2, <2>3 DEF Ends
    <3>2. SortedIn(l, l)'
      BY <1>1, <1>15, <2>2, <3>1, SortedInKept
    <3> QED BY <1>7, <2>1, <2>2, <2>3, <3>1, <3>2
  <2>4. CASE Stays("Sort", plan, 5) /\ Emptying(Temp)'
    <3>1. At("Sort", plan, 5)' /\ ~Idle' /\ UNCHANGED <<held, done>>
      BY <2>4 DEF Stays
    <3>2. SortedIn(l, l)'
      BY <1>1, <1>15, <2>2, <3>1, SortedInKept
    <3> QED BY <1>7, <2>1, <2>2, <2>4, <3>1, <3>2
  <2> QED BY <2>1, <2>3, <2>4
<1>16. CASE At("Sort", plan, 6) /\ SortedIn(l, l) /\ IsEmpty(Temp) /\ current = Null
  <2> PICK v : v = held.items
    OBVIOUS
  <2>1. Whole(l) /\ Abstract!Sorted(ItemsOf(l)) /\ Abstract!SameItems(v[l], ItemsOf(l)) /\ Len(v[l]) > 1
    BY <1>5, <1>16 DEF SortedIn, Sorting
  <2>2. ItemsOf(l) # <<>>
    <3>1. v[l] \in Seq(Items)
      BY DEF Began
    <3>2. v[l] # <<>> /\ ItemsOf(l) \in Seq(Items)
      BY <1>1, <2>1, <3>1, ItemsOfIs
    <3> QED BY <2>1, <3>1, <3>2, NoneLost
  <2>3. /\ ~Idle /\ todo # <<>> /\ todo[1] = plan[6] /\ (Done => Ends("Sort", plan, 6))
    BY <1>2, <1>3, <1>16, TaskEnds
  <2>4. todo[1].do = "rewind" /\ List = l
    BY <1>1, <1>4, <2>3, TaskIs DEF List
  <2>5. SortRewinds
    BY <2>4, StepIs
  <2>6. /\ HeapOK' /\ Whole(l)' /\ ItemsOf(l)' = ItemsOf(l) /\ Cursor(l)' = 1
        /\ (\A k \in AllLists : k # l => Same(k))
        /\ Done /\ UNCHANGED <<values, value, found>>
    BY <1>1, <2>1, <2>2, <2>4, <2>5, SortRewindsStep
  <2>7. Kept
    <3>1. todo[1].do \notin {"read", "build"}
      BY <2>4
    <3> QED BY <2>3, <2>6, <3>1, RegistersKept
  <2>8. todo' = <<>> /\ done' = "Sort" /\ current' = Null
    BY <1>2, <2>3, <2>6 DEF Ends
  <2>9. (\A k \in Lists \ {l} : Same(k)) /\ IsEmpty(Temp)'
    BY <1>16, <2>6, OthersSame, EmptyKept
  <2>10. /\ Resting' /\ Abstract!Become(l, ItemsOf(l)', Cursor(l)')
    BY <2>3, <2>6, <2>8, <2>9, Concludes
  <2>11. value' = 0 /\ found' = FALSE
    BY <2>6 DEF Began
  <2>12. Abstract!Sort(l)
    <3> PICK s : s = ItemsOf(l)
      OBVIOUS
    <3>1. (IF Idle THEN Contents ELSE held.items) = v
      BY <2>3
    <3>2. (IF Idle THEN Contents ELSE held.items)'[l] = s
      <4>1. Idle'
        BY <2>10 DEF Resting
      <4>2. Contents'[l] = ItemsOf(l)'
        BY DEF Contents
      <4> QED BY <2>6, <4>1, <4>2
    <3>3. Abstract!Become(l, s, 1)
      BY <2>6, <2>10
    <3>4. Abstract!Sorted(s) /\ Abstract!SameItems(v[l], s)
      BY <2>1
    <3> QED BY <2>1, <2>8, <2>11, <3>1, <3>2, <3>3, <3>4
          DEF Abstract!Sort, Abstract!NoResult, Abstract!Returns
  <2>13. PromisedOrNamed
    BY <2>12 DEF Abstract!Next, PromisedOrNamed
  <2>14. done' \in Calls /\ found' \in BOOLEAN
    BY <2>8, <2>11 DEF Calls
  <2> QED BY <2>6, <2>7, <2>10, <2>11, <2>13, <2>14, GoesHome
<1> QED BY <1>5, <1>11, <1>12, <1>13, <1>14, <1>15, <1>16

-----------------------------------------------------------------------------
(* A call begins.                                                           *)

LEMMA AtFirst ==
  ASSUME NEW plan \in Seq(Tasks), plan # <<>>, NEW call, held'.call = call, todo' = plan
  PROVE  At(call, plan, 1)'
<1>1. Len(plan) \in Nat /\ Len(plan) # 0
  BY EmptySeq, LenProperties
<1>2. todo' = SubSeq(plan, 1, Len(plan)) /\ 1 <= Len(plan)
  BY <1>1, SubSeqFull
<1> QED BY <1>2 DEF At

LEMMA BeginIs ==
  ASSUME HeapOK, Resting, Registers, saved \in Pointer, counter \in Nat, values \in Seq(Items),
         NEW call, NEW tasks, Call(call, tasks), tasks # <<>>
  PROVE  /\ HeapOK' /\ Kept /\ Outcome /\ Began' /\ [PromisedOrNamed]_(Abstract!vars)
         /\ held'.call = call /\ todo' = tasks /\ current' = Null /\ values' = <<>>
         /\ \A k \in Lists : AsBefore(k)' /\ Same(k) /\ held'.items[k] = ItemsOf(k) /\ Whole(k)
         /\ IsEmpty(Temp)'
<1>1. /\ Idle /\ todo' = tasks /\ UNCHANGED <<heap, objects, registers>>
      /\ held'.call = call /\ held'.items = Contents /\ held'.cursors = Cursors
      /\ done' = "none" /\ value' = 0 /\ found' = FALSE
  BY DEF Call, NoResult, Returns
<1>2. HeapOK' /\ \A k \in AllLists : Same(k)
  BY <1>1 DEF heap, objects, HeapOK, Owned, Same
<1>3. counter = 0 /\ values = <<>> /\ current = Null
  BY <1>1 DEF Idle, Registers, Resting
<1>4. UNCHANGED <<current, saved, counter, values>>
  BY <1>1 DEF registers
<1>5. Kept
  BY <1>3, <1>4 DEF Kept, Registers, Pointer
<1>6. Outcome
  BY <1>1 DEF Outcome
<1>7. ASSUME NEW k \in Lists
      PROVE  /\ AsBefore(k)' /\ Same(k) /\ held'.items[k] = ItemsOf(k) /\ Whole(k)
             /\ ItemsOf(k) \in Seq(Items) /\ Cursor(k) \in Nat
  <2>1. k \in AllLists /\ Whole(k)
    BY DEF AllLists, Resting
  <2>2. Contents[k] = ItemsOf(k) /\ Cursors[k] = Cursor(k)
    BY Seen
  <2>3. Same(k) /\ Whole(k)' /\ ItemsOf(k)' = ItemsOf(k) /\ Cursor(k)' = Cursor(k)
    BY <1>2, <2>1, SameIs
  <2>4. Cursor(k) \in Nat
    <3>1. size[k] = Len(chain[k]) /\ Len(chain[k]) \in Nat
          /\ (Len(chain[k]) > 0 => Index(k) \in 1..Len(chain[k]) /\ Cursor(k) = Index(k))
      BY <2>1, WholeIs
    <3> QED BY <3>1 DEF Cursor
  <2> QED BY <1>1, <2>1, <2>2, <2>3, <2>4, ItemsOfIs DEF AsBefore
<1>8. Began'
  <2>1. held'.items = [k \in Lists |-> ItemsOf(k)]
    BY <1>1 DEF Contents
  <2>3. held'.items \in [Lists -> Seq(Items)]
    BY <1>7, <2>1
  <2>4. held'.cursors \in [Lists -> Nat]
    <3>1. \A k \in Lists : Cursor(k) \in Nat
      BY <1>7
    <3> QED BY <1>1, <3>1, SeenAs
  <2> QED BY <1>1, <2>3, <2>4 DEF Began
<1>9. IsEmpty(Temp)'
  BY <1>2, EmptyKept DEF Resting, AllLists
<1>10. PromisedOrNamed
  <2>1. ~Idle'
    BY <1>1 DEF Idle
  <2>2. Abstract!Begin
    BY <1>1, <2>1 DEF Abstract!Begin, Abstract!NoResult, Abstract!Returns
  <2> QED BY <2>2 DEF Abstract!Next, PromisedOrNamed
<1> QED BY <1>1, <1>2, <1>3, <1>4, <1>5, <1>6, <1>7, <1>8, <1>9, <1>10

LEMMA CallGoes ==
  ASSUME HeapOK, Resting, Registers, saved \in Pointer, counter \in Nat, values \in Seq(Items),
         NEW call, NEW tasks, Call(call, tasks), tasks # <<>>, NEW l \in Lists, During(l)'
  PROVE  Goes
<1>1. /\ HeapOK' /\ Kept /\ Outcome /\ Began' /\ [PromisedOrNamed]_(Abstract!vars)
      /\ \A k \in Lists : AsBefore(k)'
  BY BeginIs
<1>2. Others(l)'
  BY <1>1 DEF Others
<1>3. InCall'
  BY <1>1, <1>2 DEF InCall
<1> QED BY <1>1, <1>3 DEF Goes

LEMMA RestsGoes ==
  ASSUME Rests, Idle, Registers, saved \in Pointer, counter \in Nat, values \in Seq(Items),
         Resting, UNCHANGED <<todo, registers>>
  PROVE  Goes
<1>1. counter = 0 /\ values = <<>> /\ current = Null
  BY DEF Idle, Registers, Resting
<1>2. UNCHANGED <<current, saved, counter, values>>
  BY DEF registers
<1>3. Kept
  BY <1>1, <1>2 DEF Kept, Registers, Pointer
<1> QED BY <1>3 DEF Rests, Goes, Outcome

LEMMA SimpleGoes ==
  ASSUME HeapOK, Resting, Registers, saved \in Pointer, counter \in Nat, values \in Seq(Items),
         NEW l \in Lists,
         \/ \E x \in Items : Insert(l, x) \/ Add(l, x) \/ Replace(l, x)
         \/ Del(l) \/ Peek(l) \/ Pop(l)
         \/ Increment(l) \/ Decrement(l) \/ IncrementLinked(l) \/ DecrementLinked(l)
         \/ Beginning(l) \/ End(l)
  PROVE  Goes /\ todo' = todo
<1>1. Rests
  <2>1. CASE \E x \in Items : Insert(l, x) \/ Add(l, x) \/ Replace(l, x)
    BY <2>1, InsertStep, AddStep, ReplaceStep
  <2>2. CASE Del(l) \/ Pop(l)
    BY <2>2, RemovalStep
  <2>3. CASE Peek(l)
    BY <2>3, PeekStep
  <2>4. CASE \/ Increment(l) \/ Decrement(l) \/ IncrementLinked(l) \/ DecrementLinked(l)
             \/ Beginning(l) \/ End(l)
    BY <2>4, MoveStep
  <2> QED BY <2>1, <2>2, <2>3, <2>4
<1>2. UNCHANGED <<todo, registers>>
  BY DEF Insert, Add, Replace, Del, Peek, Pop, Increment, Decrement, IncrementLinked,
         DecrementLinked, Beginning, End, MoveTo
<1>3. Idle
  BY DEF Resting
<1> QED BY <1>1, <1>2, <1>3, RestsGoes

LEMMA SearchBegins ==
  ASSUME HeapOK, Resting, Registers, saved \in Pointer, counter \in Nat, values \in Seq(Items),
         NEW l \in Lists, NEW x \in Items, IsIn(l, x) \/ Find(l, x)
  PROVE  Goes /\ todo' \in Seq(Tasks)
<1> PICK do, call : /\ \/ do = "search" /\ call = "IsIn"
                       \/ do = "find" /\ call = "Find"
                    /\ Call(call, <<Task(do, l, l, x)>>)
  BY DEF IsIn, Find
<1> DEFINE plan == <<Task(do, l, l, x)>>
<1>1. plan \in Seq(Tasks) /\ plan # <<>>
  BY TaskIs DEF AllLists
<1>2. Call(call, plan)
  OBVIOUS
<1>3. InSearch(l, x, do, call)' <=> (At(call, plan, 1) /\ AsBefore(l) /\ Searching(l, x))'
  BY DEF InSearch
<1> HIDE DEF plan
<1>4. /\ held'.call = call /\ todo' = plan /\ current' = Null
      /\ AsBefore(l)' /\ IsEmpty(Temp)'
  BY <1>1, <1>2, BeginIs
<1>5. At(call, plan, 1)'
  BY <1>1, <1>4, AtFirst
<1>6. Searching(l, x)'
  BY <1>4 DEF Searching
<1>7. During(l)'
  BY <1>3, <1>4, <1>5, <1>6 DEF During
<1> QED BY <1>1, <1>2, <1>4, <1>7, CallGoes

LEMMA ClearBegins ==
  ASSUME HeapOK, Resting, Registers, saved \in Pointer, counter \in Nat, values \in Seq(Items),
         NEW l \in Lists, Clear(l)
  PROVE  Goes /\ todo' \in Seq(Tasks)
<1> DEFINE plan == <<Clears(l)>>
<1>1. plan \in Seq(Tasks) /\ plan # <<>>
  BY PlanIs DEF AllLists
<1>2. Call("Clear", plan)
  BY DEF Clear, Clears
<1>3. InClear(l)' <=> (At("Clear", plan, 1) /\ Emptying(l))'
  BY DEF InClear
<1> HIDE DEF plan
<1>4. /\ held'.call = "Clear" /\ todo' = plan /\ current' = Null
      /\ AsBefore(l)' /\ IsEmpty(Temp)'
  BY <1>1, <1>2, BeginIs
<1>5. At("Clear", plan, 1)'
  BY <1>1, <1>4, AtFirst
<1>6. Emptying(l)'
  BY <1>4 DEF Emptying, AsBefore
<1>7. During(l)'
  BY <1>3, <1>4, <1>5, <1>6 DEF During
<1> QED BY <1>1, <1>2, <1>4, <1>7, CallGoes

LEMMA AssignBegins ==
  ASSUME HeapOK, Resting, Registers, saved \in Pointer, counter \in Nat, values \in Seq(Items),
         NEW l \in Lists, NEW m \in Lists, Assign(l, m)
  PROVE  Goes /\ todo' \in Seq(Tasks)
<1> DEFINE plan == <<Clears(l), Copies(l, m)>>
<1>1. plan \in Seq(Tasks) /\ plan # <<>>
  BY PlanIs DEF AllLists
<1>2. Call("Assign", plan) /\ m \in Lists \ {l}
  BY DEF Assign, Clears, Copies
<1>3. (At("Assign", plan, 1) /\ Emptying(l))' => InAssign(l, m)'
  BY DEF InAssign
<1> HIDE DEF plan
<1>4. /\ held'.call = "Assign" /\ todo' = plan /\ current' = Null
      /\ AsBefore(l)' /\ IsEmpty(Temp)'
  BY <1>1, <1>2, BeginIs
<1>5. At("Assign", plan, 1)'
  BY <1>1, <1>4, AtFirst
<1>6. Emptying(l)'
  BY <1>4 DEF Emptying, AsBefore
<1>7. During(l)'
  BY <1>2, <1>3, <1>4, <1>5, <1>6 DEF During
<1> QED BY <1>1, <1>2, <1>4, <1>7, CallGoes

LEMMA ConcatenateBegins ==
  ASSUME HeapOK, Resting, Registers, saved \in Pointer, counter \in Nat, values \in Seq(Items),
         NEW l \in Lists, NEW m \in Lists, Concatenate(l, m)
  PROVE  Goes /\ todo' \in Seq(Tasks)
<1> DEFINE plan == <<Clears(l), Copies(l, m), Appends(l, m)>>
           rest == <<Appends(l, m)>>
<1>1. /\ plan \in Seq(Tasks) /\ plan # <<>> /\ rest \in Seq(Tasks) /\ rest # <<>>
      /\ SubSeq(plan, 3, Len(plan)) = rest /\ 3 <= Len(plan)
  <2>1. /\ plan \in Seq(Tasks) /\ plan # <<>> /\ rest \in Seq(Tasks) /\ rest # <<>>
        /\ Len(plan) = 3 /\ plan[3] = Appends(l, m)
    BY PlanIs DEF AllLists
  <2> HIDE DEF plan
  <2>2. SubSeq(plan, 3, 3) = <<plan[3]>>
    <3> PICK t : t = SubSeq(plan, 3, 3)
      OBVIOUS
    <3>1. t \in Seq(Tasks) /\ Len(t) = 1 /\ t[1] = plan[3]
      BY <2>1
    <3> PICK u : u = <<plan[3]>>
      OBVIOUS
    <3>2. u \in Seq(Tasks) /\ Len(u) = 1 /\ u[1] = plan[3]
      BY <2>1
    <3>3. \A i \in 1..Len(t) : t[i] = u[i]
      BY <3>1, <3>2
    <3>4. t = u
      BY <3>1, <3>2, <3>3, SeqEqual
    <3> QED BY <3>4
  <2> QED BY <2>1, <2>2
<1>2. /\ m \in Lists \ {l} /\ l \in AllLists /\ m \in AllLists /\ size[m] # 0
      /\ Call("Concatenate", IF size[l] = 0 THEN plan ELSE rest)
  BY DEF Concatenate, Clears, Copies, Appends, AllLists
<1>3. InConcatenate(l, m)' <=>
        /\ held'.items[m] # <<>>
        /\ \/ /\ held'.items[l] = <<>>
              /\ \/ (At("Concatenate", plan, 1) /\ Emptying(l))'
                 \/ (At("Concatenate", plan, 2) /\ Filling(l, m))'
           \/ /\ At("Concatenate", plan, 3)'
              /\ Appending(l, m, IF held.items[l] = <<>> THEN held.items[m] ELSE held.items[l])'
  BY DEF InConcatenate
<1> HIDE DEF plan, rest
<1> PICK tasks : tasks = (IF size[l] = 0 THEN plan ELSE rest)
  OBVIOUS
<1>t. tasks \in Seq(Tasks) /\ tasks # <<>> /\ Call("Concatenate", tasks)
  BY <1>1, <1>2
<1>4. /\ held'.call = "Concatenate" /\ todo' = tasks /\ current' = Null
      /\ AsBefore(l)' /\ IsEmpty(Temp)'
      /\ held'.items[m] = ItemsOf(m) /\ held'.items[l] = ItemsOf(l) /\ Whole(l) /\ Whole(m)
  BY <1>2, <1>t, BeginIs
<1>5. held'.items[m] # <<>> /\ (held'.items[l] = <<>> <=> size[l] = 0)
  BY <1>2, <1>4, WholeIs, ItemsOfIs
<1>6. CASE size[l] = 0
  <2>1. At("Concatenate", plan, 1)'
    BY <1>1, <1>4, <1>6, AtFirst
  <2>2. Emptying(l)'
    BY <1>4 DEF Emptying, AsBefore
  <2>3. InConcatenate(l, m)'
    BY <1>3, <1>5, <1>6, <2>1, <2>2
  <2>4. During(l)'
    BY <1>2, <1>4, <2>3 DEF During
  <2> QED BY <1>4, <1>t, <2>4, CallGoes
<1>7. CASE size[l] # 0
  <2>1. At("Concatenate", plan, 3)'
    BY <1>1, <1>4, <1>7 DEF At
  <2>2. Appending(l, m, IF held.items[l] = <<>> THEN held.items[m] ELSE held.items[l])'
    BY <1>4, <1>5, <1>7 DEF Appending, AsBefore
  <2>3. InConcatenate(l, m)'
    BY <1>3, <1>5, <2>1, <2>2
  <2>4. During(l)'
    BY <1>2, <1>4, <2>3 DEF During
  <2> QED BY <1>4, <1>t, <2>4, CallGoes
<1> QED BY <1>6, <1>7

LEMMA SortBegins ==
  ASSUME HeapOK, Resting, Registers, saved \in Pointer, counter \in Nat, values \in Seq(Items),
         NEW l \in Lists, Sort(l)
  PROVE  Goes /\ todo' \in Seq(Tasks)
<1> DEFINE plan == <<Task("read", l, l, 0), Task("build", Temp, l, 0), Clears(l),
                     Copies(l, Temp), Task("clear", Temp, l, 0), Task("rewind", l, l, 0)>>
<1>1. plan \in Seq(Tasks) /\ plan # <<>> /\ l \in AllLists
  BY PlanIs DEF AllLists
<1>2. Call("Sort", plan) /\ size[l] > 1
  BY DEF Sort, Clears, Copies
<1>3. Len(held'.items[l]) > 1 /\ (At("Sort", plan, 1) /\ AsBefore(l) /\ IsEmpty(Temp) /\ Reading(l))'
        => InSort(l)'
  BY DEF InSort
<1> HIDE DEF plan
<1>4. /\ held'.call = "Sort" /\ todo' = plan /\ current' = Null /\ values' = <<>>
      /\ AsBefore(l)' /\ IsEmpty(Temp)' /\ Same(l)
      /\ held'.items[l] = ItemsOf(l) /\ Whole(l)
  BY <1>1, <1>2, BeginIs
<1>5. At("Sort", plan, 1)'
  BY <1>1, <1>4, AtFirst
<1>6. ItemsOf(l) \in Seq(Items) /\ Len(ItemsOf(l)) = size[l] /\ ItemsOf(l)' = ItemsOf(l) /\ size[l] \in Nat
  BY <1>1, <1>4, WholeIs, ItemsOfIs, SameIs
<1>7. Reading(l)'
  <2>1. Whole(l)' /\ size'[l] > 1 /\ Len(values') = 0 /\ Len(values') < size'[l]
    BY <1>2, <1>4, <1>6 DEF AsBefore, Same
  <2>2. values' = SubSeq(ItemsOf(l)', 1, Len(values'))
    BY <1>4, <1>6, <2>1
  <2> QED BY <1>4, <2>1, <2>2 DEF Reading
<1>8. During(l)'
  BY <1>2, <1>3, <1>4, <1>5, <1>6, <1>7 DEF During
<1> QED BY <1>1, <1>2, <1>4, <1>8, CallGoes

-----------------------------------------------------------------------------
(* Every step.                                                              *)

LEMMA UserGoes ==
  ASSUME HeapOK, Resting, Registers, saved \in Pointer, counter \in Nat, values \in Seq(Items),
         todo \in Seq(Tasks), User
  PROVE  Goes /\ todo' \in Seq(Tasks)
<1> PICK l \in Lists :
    \/ \E x \in Items : Insert(l, x) \/ Add(l, x) \/ Replace(l, x) \/ IsIn(l, x) \/ Find(l, x)
    \/ Del(l) \/ Peek(l) \/ Pop(l)
    \/ Increment(l) \/ Decrement(l) \/ IncrementLinked(l) \/ DecrementLinked(l)
    \/ Beginning(l) \/ End(l)
    \/ Clear(l) \/ Sort(l)
    \/ \E m \in Lists : Assign(l, m) \/ Concatenate(l, m)
  BY DEF User
<1>1. CASE \/ \E x \in Items : Insert(l, x) \/ Add(l, x) \/ Replace(l, x)
           \/ Del(l) \/ Peek(l) \/ Pop(l)
           \/ Increment(l) \/ Decrement(l) \/ IncrementLinked(l) \/ DecrementLinked(l)
           \/ Beginning(l) \/ End(l)
  BY <1>1, SimpleGoes
<1>2. CASE \E x \in Items : IsIn(l, x) \/ Find(l, x)
  BY <1>2, SearchBegins
<1>3. CASE Clear(l)
  BY <1>3, ClearBegins
<1>4. CASE Sort(l)
  BY <1>4, SortBegins
<1>5. CASE \E m \in Lists : Assign(l, m)
  BY <1>5, AssignBegins
<1>6. CASE \E m \in Lists : Concatenate(l, m)
  BY <1>6, ConcatenateBegins
<1> QED BY <1>1, <1>2, <1>3, <1>4, <1>5, <1>6

LEMMA StepGoes ==
  ASSUME HeapOK, InCall, Registers, saved \in Pointer, counter \in Nat, values \in Seq(Items), Step
  PROVE  Goes
<1> PICK l \in Lists : Others(l) /\ During(l) /\ Began
  BY DEF InCall
<1>1. CASE InSort(l)
  BY <1>1, SortGoes
<1>2. CASE IsEmpty(Temp) /\ \E x \in Items : InSearch(l, x, "search", "IsIn") \/ InSearch(l, x, "find", "Find")
  <2> PICK x \in Items : InSearch(l, x, "search", "IsIn") \/ InSearch(l, x, "find", "Find")
    BY <1>2
  <2>1. CASE InSearch(l, x, "search", "IsIn")
    BY <1>2, <2>1, SearchGoes
  <2>2. CASE InSearch(l, x, "find", "Find")
    BY <1>2, <2>2, SearchGoes
  <2> QED BY <2>1, <2>2
<1>3. CASE IsEmpty(Temp) /\ InClear(l)
  BY <1>3, ClearGoes
<1>4. CASE IsEmpty(Temp) /\ \E m \in Lists \ {l} : InAssign(l, m)
  BY <1>4, AssignGoes
<1>5. CASE IsEmpty(Temp) /\ \E m \in Lists \ {l} : InConcatenate(l, m)
  BY <1>5, ConcatenateGoes
<1> QED BY <1>1, <1>2, <1>3, <1>4, <1>5 DEF During

(* A call that is in progress has a task to do.                             *)
LEMMA Busy ==
  ASSUME NEW call, NEW tasks, NEW n \in Nat, Len(tasks) = n, NEW k \in 1..n, At(call, tasks, k)
  PROVE  ~Idle
<1>1. todo = SubSeq(tasks, k, n)
  BY DEF At
<1>2. Len(todo) = n - k + 1 /\ n - k + 1 # 0
  BY <1>1
<1>3. Len(<<>>) = 0
  OBVIOUS
<1> QED BY <1>2, <1>3 DEF Idle

LEMMA InCallBusy ==
  ASSUME InCall
  PROVE  ~Idle
<1> PICK l \in Lists : During(l)
  BY DEF InCall
<1>1. CASE InSort(l)
  <2> PICK plan : Len(plan) = 6 /\ \E k \in 1..6 : At("Sort", plan, k)
    BY <1>1 DEF InSort
  <2> QED BY Busy
<1>2. CASE \E x \in Items : InSearch(l, x, "search", "IsIn") \/ InSearch(l, x, "find", "Find")
  <2> PICK plan, call : Len(plan) = 1 /\ At(call, plan, 1)
    BY <1>2 DEF InSearch
  <2>1. 1 \in 1..1
    OBVIOUS
  <2> QED BY <2>1, Busy
<1>3. CASE InClear(l)
  <2> PICK plan : Len(plan) = 1 /\ At("Clear", plan, 1)
    BY <1>3 DEF InClear
  <2>1. 1 \in 1..1
    OBVIOUS
  <2> QED BY <2>1, Busy
<1>4. CASE \E m \in Lists \ {l} : InAssign(l, m)
  <2> PICK plan : Len(plan) = 2 /\ \E k \in 1..2 : At("Assign", plan, k)
    BY <1>4 DEF InAssign
  <2> QED BY Busy
<1>5. CASE \E m \in Lists \ {l} : InConcatenate(l, m)
  <2> PICK plan : Len(plan) = 3 /\ \E k \in 1..3 : At("Concatenate", plan, k)
    BY <1>5 DEF InConcatenate
  <2> QED BY Busy
<1> QED BY <1>1, <1>2, <1>3, <1>4, <1>5 DEF During

LEMMA StepWhen ==
  ASSUME Step, todo \in Seq(Tasks)
  PROVE  ~Idle /\ todo' \in Seq(Tasks)
<1>1. todo # <<>>
  BY DEF Step, Search, ClearNode, CopyRoot, CopyNode, AppendBegins, AppendNode, SortReads,
         SortBuilds, SortRewinds, Running
<1>2. todo' = todo \/ todo' = Tail(todo)
  BY DEF Step, Search, ClearNode, CopyRoot, CopyNode, AppendBegins, AppendNode, SortReads,
         SortBuilds, SortRewinds, Done, Continue
<1>3. Tail(todo) \in Seq(Tasks)
  BY <1>1, HeadTailProperties
<1> QED BY <1>1, <1>2, <1>3 DEF Idle

LEMMA UserWhen ==
  ASSUME User
  PROVE  Idle
BY DEF User, Insert, Add, Replace, Del, Peek, Pop, Increment, Decrement, IncrementLinked,
       DecrementLinked, Beginning, End, Moves, Clear, Sort, Assign, Concatenate, IsIn, Find, Call

LEMMA Unmoved ==
  ASSUME IInv,
         UNCHANGED <<next, previous, item, live, root, position, size, chain, todo, current, saved,
                     counter, values, held, value, found, done>>
  PROVE  IInv'
<1>1. TypeOK'
  BY DEF IInv, TypeOK
<1>2. HeapOK' /\ (\A k \in AllLists : Same(k))
  BY DEF IInv, HeapOK, Owned, Same
<1>3. Registers'
  BY DEF IInv, Registers
<1>4. \A k \in AllLists : /\ Whole(k)' <=> Whole(k)
                          /\ Index(k)' = Index(k) /\ Cursor(k)' = Cursor(k) /\ ItemsOf(k)' = ItemsOf(k)
  <2>1. \A k \in AllLists : Whole(k)' <=> Whole(k)
    BY DEF Whole
  <2> QED BY <1>2, <2>1, SameIs DEF IInv
<1>5. CASE Resting
  BY <1>1, <1>2, <1>3, <1>4, <1>5 DEF Resting, Idle, IsEmpty, AllLists, IInv
<1>6. CASE InCall
  <2>1. /\ Began' <=> Began
        /\ \A call, tasks, k : At(call, tasks, k)' <=> At(call, tasks, k)
    BY DEF Began, At
  <2>2. ASSUME NEW k \in AllLists
        PROVE  /\ AsBefore(k)' <=> AsBefore(k)
               /\ IsEmpty(k)' <=> IsEmpty(k)
               /\ Emptying(k)' <=> Emptying(k)
               /\ \A x : Searching(k, x)' <=> Searching(k, x)
               /\ Reading(k)' <=> Reading(k)
               /\ Building(k)' <=> Building(k)
               /\ \A l : SortedIn(k, l)' <=> SortedIn(k, l)
    <3>1. AsBefore(k)' <=> AsBefore(k)
      BY <1>4 DEF AsBefore
    <3>2. IsEmpty(k)' <=> IsEmpty(k)
      BY <1>4 DEF IsEmpty
    <3>3. Emptying(k)' <=> Emptying(k)
      BY <1>4 DEF Emptying, Clearing, Walked
    <3>4. \A x : Searching(k, x)' <=> Searching(k, x)
      BY DEF Searching, Walked
    <3>5. Reading(k)' <=> Reading(k)
      BY <1>4 DEF Reading, Walked
    <3>6. Building(k)' <=> Building(k)
      <4>1. Temp \in AllLists
        BY DEF AllLists
      <4> QED BY <1>4, <4>1 DEF Building, Sorting
    <3>7. \A l : SortedIn(k, l)' <=> SortedIn(k, l)
      BY <1>4 DEF SortedIn, Sorting
    <3> QED BY <3>1, <3>2, <3>3, <3>4, <3>5, <3>6, <3>7
  <2>3. ASSUME NEW k \in AllLists, NEW m \in AllLists
        PROVE  Filling(k, m)' <=> Filling(k, m)
    BY <1>4, <2>2 DEF Filling, Copying, Linked, Walked
  <2>4. ASSUME NEW k \in AllLists, NEW m \in AllLists, NEW s
        PROVE  Appending(k, m, s)' <=> Appending(k, m, s)
    BY <1>4 DEF Appending, Walked
  <2> PICK l \in Lists : Others(l) /\ During(l) /\ Began
    BY <1>6 DEF InCall
  <2>5. l \in AllLists /\ Temp \in AllLists /\ Lists \subseteq AllLists
    BY DEF AllLists
  <2>6. Others(l)'
    BY <2>2, <2>5 DEF Others
  <2>7. During(l)'
    <3>1. CASE InSort(l)
      <4>1. InSort(l)'
        BY <2>1, <2>2, <2>3, <2>5, <3>1 DEF InSort
      <4> QED BY <4>1 DEF During
    <3>2. IsEmpty(Temp)' <=> IsEmpty(Temp)
      BY <2>2, <2>5
    <3>3. \A x, do, call : InSearch(l, x, do, call)' <=> InSearch(l, x, do, call)
      BY <2>1, <2>2, <2>5 DEF InSearch
    <3>4. InClear(l)' <=> InClear(l)
      BY <2>1, <2>2, <2>5 DEF InClear
    <3>5. \A m \in Lists \ {l} : InAssign(l, m)' <=> InAssign(l, m)
      BY <2>1, <2>2, <2>3, <2>5 DEF InAssign
    <3>6. \A m \in Lists \ {l} : InConcatenate(l, m)' <=> InConcatenate(l, m)
      BY <2>1, <2>2, <2>3, <2>4, <2>5 DEF InConcatenate
    <3> QED BY <3>1, <3>2, <3>3, <3>4, <3>5, <3>6 DEF During
  <2> QED BY <1>1, <1>2, <1>3, <2>1, <2>6, <2>7 DEF InCall, IInv
<1> QED BY <1>5, <1>6 DEF IInv

LEMMA NextInv ==
  ASSUME IInv, [Next]_vars
  PROVE  IInv' /\ [PromisedOrNamed]_(Abstract!vars)
<1>1. CASE Next
  <2>1. HeapOK /\ Registers /\ saved \in Pointer /\ counter \in Nat /\ values \in Seq(Items)
        /\ todo \in Seq(Tasks)
    BY DEF IInv, TypeOK, Tasks
  <2>2. Goes /\ todo' \in Seq(Tasks)
    <3>1. CASE Step
      <4>1. ~Idle /\ todo' \in Seq(Tasks)
        BY <2>1, <3>1, StepWhen
      <4>2. InCall
        BY <4>1 DEF IInv, Resting
      <4> QED BY <2>1, <3>1, <4>1, <4>2, StepGoes
    <3>2. CASE User
      <4>1. Resting
        BY <3>2, UserWhen, InCallBusy DEF IInv
      <4> QED BY <2>1, <3>2, <4>1, UserGoes
    <3> QED BY <1>1, <3>1, <3>2 DEF Next
  <2>3. TypeOK'
    BY <2>2 DEF Goes, Kept, Outcome, HeapOK, TypeOK, Tasks
  <2> QED BY <2>2, <2>3 DEF Goes, Kept, IInv
<1>2. CASE UNCHANGED vars
  <2>1. UNCHANGED <<next, previous, item, live, root, position, size, chain, todo, current, saved,
                    counter, values, held, value, found, done>>
    BY <1>2 DEF vars, heap, objects, registers, results
  <2>2. UNCHANGED Abstract!vars
    <3>1. Contents' = Contents /\ Cursors' = Cursors /\ Idle' = Idle
      BY <2>1, SeenUnchanged DEF Idle
    <3> QED BY <2>1, <3>1 DEF Abstract!vars
  <2>3. IInv'
    BY <2>1, Unmoved
  <2> QED BY <2>2, <2>3
<1> QED BY <1>1, <1>2

LEMMA InitInv ==
  ASSUME Init
  PROVE  IInv /\ Abstract!Init
<1>1. Null \in Pointer /\ 0 \in Items \cup {0} /\ <<>> \in Seq(Addrs) /\ <<>> \in Seq(Items)
  BY DEF Pointer
<1>2. \A l \in AllLists : /\ chain[l] = <<>> /\ size[l] = 0 /\ root[l] = Null /\ position[l] = Null
                          /\ Len(chain[l]) = 0
  BY DEF Init
<1>3. TypeOK
  BY <1>1, EmptySeq DEF Init, TypeOK, Tasks
<1>4. HeapOK
  <2>1. \A l \in AllLists : Cells(chain[l]) = {} /\ Distinct(chain[l])
    BY <1>2 DEF Cells, Distinct
  <2>2. Owned(chain, live)
    BY <2>1 DEF Init, Owned
  <2> QED BY <1>3, <2>2 DEF HeapOK, TypeOK, Init
<1>5. \A l \in AllLists : IsEmpty(l)
  BY <1>2 DEF IsEmpty, Whole
<1>6. Resting
  BY <1>5 DEF Init, Resting, Idle, IsEmpty, AllLists
<1>7. Registers
  BY DEF Init, Registers
<1>8. Abstract!Init
  <2>1. Idle
    BY DEF Init, Idle
  <2>2. \A l \in Lists : ItemsOf(l) = <<>> /\ Cursor(l) = 0
    BY <1>2 DEF ItemsOf, Cursor, AllLists
  <2>3. Contents = [l \in Lists |-> <<>>]
    BY <2>2 DEF Contents
  <2>4. Cursors = [l \in Lists |-> 0]
    BY <2>2, SeenAs
  <2> QED BY <2>1, <2>3, <2>4 DEF Abstract!Init, Init
<1> QED BY <1>3, <1>4, <1>6, <1>7 , <1>8 DEF IInv

-----------------------------------------------------------------------------
(* What follows from the invariant.                                         *)

LEMMA RingsInCall ==
  ASSUME IInv, NEW k \in AllLists
  PROVE  AtWork(k) \/ Whole(k)
<1>1. CASE Resting
  BY <1>1 DEF Resting, IsEmpty, AllLists
<1>2. CASE InCall
  <2> PICK l \in Lists : Others(l) /\ During(l)
    BY <1>2 DEF InCall
  <2>0. l \in AllLists /\ Temp \in AllLists
    BY DEF AllLists
  <2>t. ~Idle
    BY <1>2, InCallBusy
  <2>1. CASE k \in Lists \ {l}
    BY <2>1 DEF Others, AsBefore
  <2>2. CASE k = l
    <3>1. CASE \E x \in Items : InSearch(l, x, "search", "IsIn") \/ InSearch(l, x, "find", "Find")
      BY <2>2, <3>1 DEF InSearch, AsBefore
    <3>2. ASSUME NEW call, NEW plan \in Seq(Tasks), NEW i \in 1..Len(plan), At(call, plan, i),
                 plan[i].do \in {"clear", "copy"}, plan[i].list = l, Emptying(l) \/ \E m : Filling(l, m)
          PROVE  AtWork(l) \/ Whole(l)
      <4>1. todo # <<>> /\ todo[1] = plan[i]
        BY <3>2, AtIs
      <4>2. current = Null => Whole(l)
        BY <3>2 DEF Emptying, Filling, IsEmpty
      <4> QED BY <3>2, <4>1, <4>2 DEF AtWork, List
    <3>3. CASE InClear(l)
      <4> DEFINE plan == <<Clears(l)>>
      <4>1. plan \in Seq(Tasks) /\ 1 \in 1..Len(plan) /\ plan[1].do = "clear" /\ plan[1].list = l
        BY <2>0, TaskIs DEF Clears
      <4>2. At("Clear", plan, 1) /\ Emptying(l)
        BY <3>3 DEF InClear
      <4> HIDE DEF plan
      <4> QED BY <2>2, <3>2, <4>1, <4>2
    <3>4. ASSUME NEW m \in Lists \ {l}, InAssign(l, m)
          PROVE  AtWork(l) \/ Whole(l)
      <4> DEFINE plan == <<Clears(l), Copies(l, m)>>
      <4>1. /\ plan \in Seq(Tasks) /\ 1 \in 1..Len(plan) /\ 2 \in 1..Len(plan)
            /\ plan[1].do = "clear" /\ plan[1].list = l /\ plan[2].do = "copy" /\ plan[2].list = l
        BY <2>0, TaskIs DEF Clears, Copies, AllLists
      <4>2. (At("Assign", plan, 1) /\ Emptying(l)) \/ (At("Assign", plan, 2) /\ Filling(l, m))
        BY <3>4 DEF InAssign
      <4> HIDE DEF plan
      <4> QED BY <3>2, <4>1, <4>2
    <3>5. ASSUME NEW m \in Lists \ {l}, InConcatenate(l, m)
          PROVE  AtWork(l) \/ Whole(l)
      <4> DEFINE plan == <<Clears(l), Copies(l, m), Appends(l, m)>>
      <4>1. /\ plan \in Seq(Tasks) /\ 1 \in 1..Len(plan) /\ 2 \in 1..Len(plan)
            /\ plan[1].do = "clear" /\ plan[1].list = l /\ plan[2].do = "copy" /\ plan[2].list = l
        BY <2>0, TaskIs DEF Clears, Copies, Appends, AllLists
      <4>2. \/ At("Concatenate", plan, 1) /\ Emptying(l)
            \/ At("Concatenate", plan, 2) /\ Filling(l, m)
            \/ Whole(l)
        BY <3>5 DEF InConcatenate, Appending
      <4> HIDE DEF plan
      <4> QED BY <3>2, <4>1, <4>2
    <3>6. CASE InSort(l)
      <4> DEFINE plan == <<Task("read", l, l, 0), Task("build", Temp, l, 0), Clears(l),
                           Copies(l, Temp), Task("clear", Temp, l, 0), Task("rewind", l, l, 0)>>
      <4>1. /\ plan \in Seq(Tasks) /\ 3 \in 1..Len(plan) /\ 4 \in 1..Len(plan)
            /\ plan[3].do = "clear" /\ plan[3].list = l /\ plan[4].do = "copy" /\ plan[4].list = l
        BY <2>0, TaskIs DEF Clears, Copies
      <4>2. \/ At("Sort", plan, 3) /\ Emptying(l)
            \/ At("Sort", plan, 4) /\ Filling(l, Temp)
            \/ Whole(l)
        BY <3>6 DEF InSort, SortedIn, AsBefore
      <4> HIDE DEF plan
      <4> QED BY <2>2, <3>2, <4>1, <4>2
    <3> QED BY <2>2, <3>1, <3>3, <3>4, <3>5, <3>6 DEF During
  <2>3. CASE k = Temp
    <3>1. CASE IsEmpty(Temp)
      BY <2>3, <3>1 DEF IsEmpty
    <3>2. CASE InSort(l)
      <4> DEFINE plan == <<Task("read", l, l, 0), Task("build", Temp, l, 0), Clears(l),
                           Copies(l, Temp), Task("clear", Temp, l, 0), Task("rewind", l, l, 0)>>
      <4>1. /\ plan \in Seq(Tasks) /\ 5 \in 1..Len(plan)
            /\ plan[5].do = "clear" /\ plan[5].list = Temp
        BY <2>0, TaskIs DEF Clears, Copies
      <4>2. (At("Sort", plan, 5) /\ Emptying(Temp)) \/ Whole(Temp)
        BY <3>2 DEF InSort, SortedIn, IsEmpty, Building
      <4> HIDE DEF plan
      <4>3. At("Sort", plan, 5) => todo # <<>> /\ todo[1] = plan[5]
        BY <4>1, AtIs
      <4> QED BY <2>3, <4>1, <4>2, <4>3 DEF AtWork, List, Emptying
    <3> QED BY <3>1, <3>2 DEF During
  <2> QED BY <2>1, <2>2, <2>3 DEF AllLists
<1> QED BY <1>1, <1>2 DEF IInv

LEMMA OwnedMeans ==
  ASSUME HeapOK
  PROVE  NodesAreOwned
<1>1. \A l \in AllLists : /\ DOMAIN chain[l] = 1..Len(chain[l])
                          /\ {chain[l][i] : i \in DOMAIN chain[l]} = Cells(chain[l])
  BY DEF HeapOK, Cells
<1>2. live = UNION {{chain[l][i] : i \in DOMAIN chain[l]} : l \in AllLists}
  BY <1>1 DEF HeapOK, Owned
<1>3. ASSUME NEW l \in AllLists, NEW m \in AllLists, NEW i \in DOMAIN chain[l], NEW j \in DOMAIN chain[m],
             chain[l][i] = chain[m][j]
      PROVE  l = m /\ i = j
  <2>1. i \in 1..Len(chain[l]) /\ j \in 1..Len(chain[m])
    BY <1>1
  <2>2. chain[l][i] \in Cells(chain[l]) /\ chain[l][i] \in Cells(chain[m])
    BY <1>3, <2>1 DEF Cells
  <2>3. l = m
    BY <2>2 DEF HeapOK, Owned
  <2>4. Distinct(chain[l])
    BY DEF HeapOK, Owned
  <2> QED BY <1>3, <2>1, <2>3, <2>4 DEF Distinct
<1> QED BY <1>2, <1>3 DEF NodesAreOwned

-----------------------------------------------------------------------------
(* Every step keeps IInv.                                                   *)
THEOREM Invariance == Spec => []IInv
<1>1. IInv /\ [Next]_vars => IInv'
  BY NextInv
<1>2. Init => IInv
  BY InitInv
<1> QED BY <1>1, <1>2, PTL DEF Spec

(* Next and previous form one ring of list_size nodes in every list, except *)
(* in the one that Clear or a copy is at work on                            *)
(* (DS_LinkedList.h:446-814, 956-1247).                                     *)
THEOREM RingsHold == Spec => []RingsAreWhole
<1>1. IInv => RingsAreWhole
  BY RingsInCall DEF RingsAreWhole, IInv
<1> QED BY <1>1, Invariance, PTL

(* Every node in use belongs to one list, once: nothing leaks, nothing is   *)
(* shared, nothing freed is in use (DS_LinkedList.h:446-618, 956-987).      *)
THEOREM NodesHaveOwners == Spec => []NodesAreOwned
<1>1. IInv => NodesAreOwned
  BY OwnedMeans DEF IInv
<1> QED BY <1>1, Invariance, PTL

(* Every call does to the lists what CursorList says, node by node though   *)
(* it works, Sort included, or departs from it as ReturnsOldItem and        *)
(* AppendsTwice say (DS_LinkedList.h:620-1247).                             *)
THEOREM ListsImplementCursorList == Spec => ImplementsCursorList
<1>1. IInv /\ [Next]_vars => [PromisedOrNamed]_(Abstract!vars)
  BY NextInv
<1>2. Init => Abstract!Init
  BY InitInv
<1> QED BY <1>1, <1>2, Invariance, PTL DEF Spec, ImplementsCursorList
=============================================================================
