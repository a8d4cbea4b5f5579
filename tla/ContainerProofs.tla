-------------------------- MODULE ContainerProofs ---------------------------
(***************************************************************************)
(* Theorems about the containers that keep their items in one array: Map,  *)
(* for any keys and data, and Queue and List, for any objects and items.   *)
(* Maps, queues and lists are of any size, within the bounds on memory.    *)
(*                                                                         *)
(* Map.  SavedIsRight and SearchIsRight rest on the order of the nodes,    *)
(* and that rests on SearchIsRight, since a node is inserted where a       *)
(* search has failed.  The rest of the invariant is what a call in         *)
(* progress may rely on: its caller has kept the preconditions of Allowed. *)
(*                                                                         *)
(* Queue and List.  ArraysInv says of each object what its methods rely    *)
(* on.  For each way they make new fields of old ones a lemma says that    *)
(* the result is such an object again and which sequence it holds: the     *)
(* ring that grows, loses its head or closes a gap holds the items it      *)
(* held, but for the one the call is for.  QueueBecomes and ListBecomes    *)
(* carry that from the fields to the state, and the Seen lemmas from there *)
(* to the steps of SequenceStore.                                          *)
(***************************************************************************)
EXTENDS OrderedMap, MCArrays, SequenceTheorems, FiniteSetTheorems, FunctionTheorems, TLAPS

USE KeyAssumption

Ascends(s) == \A i, j \in DOMAIN s : i < j => s[i].key < s[j].key

(* What a search in progress knows of its call.                             *)
Expects(c) ==
  /\ c.op \in {"Get", "GetIndexAtKey", "Pop", "SetExisting"} => Present(c.map, c.key)
  /\ c.op = "SetNew" => ~Present(c.map, c.key)
  /\ (c.data # Nothing) = (c.op \in {"Set", "SetExisting", "SetNew"})

Inv == TypeOK /\ KeysAscend /\ SavedIsRight /\ SearchIsRight /\ (~Idle => Expects(call))

(* The nodes of a map, and the one at an index.                             *)
LEMMA NodesType ==
  ASSUME NEW s \in Seq(Node)
  PROVE  /\ Len(s) \in Nat /\ DOMAIN s = 1..Len(s)
         /\ \A i \in 1..Len(s) : /\ s[i] \in Node /\ s[i].data \in Data
                                 /\ s[i].key \in Keys /\ s[i].key \in Int /\ s[i].key # Nothing
<1>1. Len(s) \in Nat /\ DOMAIN s = 1..Len(s) /\ \A i \in 1..Len(s) : s[i] \in Node
  OBVIOUS
<1>2. \A n \in Node : n.data \in Data /\ n.key \in Keys /\ n.key \in Int /\ n.key # Nothing
  BY KeyAssumption DEF Node
<1> QED BY <1>1, <1>2

(* Taking a node out keeps the others in order.                             *)
LEMMA RemovedType ==
  ASSUME NEW s \in Seq(Node), NEW i \in Nat, i < Len(s)
  PROVE  /\ Removed(s, i) \in Seq(Node)
         /\ Len(Removed(s, i)) = Len(s) - 1
         /\ Ascends(s) => Ascends(Removed(s, i))
<1>1. Len(s) \in Nat /\ Len(s) - 1 \in Nat /\ DOMAIN s = 1..Len(s)
  OBVIOUS
<1>2. \A j \in 1..(Len(s) - 1) : (IF j <= i THEN s[j] ELSE s[j + 1]) \in Node
  BY <1>1
<1>3. Removed(s, i) \in Seq(Node) /\ Len(Removed(s, i)) = Len(s) - 1
  BY <1>1, <1>2 DEF Removed
<1>4. ASSUME Ascends(s) PROVE Ascends(Removed(s, i))
  <2> SUFFICES ASSUME NEW j \in 1..(Len(s) - 1), NEW k \in 1..(Len(s) - 1), j < k
               PROVE  Removed(s, i)[j].key < Removed(s, i)[k].key
    BY <1>1 DEF Ascends, Removed
  <2>1. PICK a \in 1..Len(s) : Removed(s, i)[j] = s[a] /\ (a = j \/ a = j + 1) /\ (a = j <=> j <= i)
    BY <1>1 DEF Removed
  <2>2. PICK b \in 1..Len(s) : Removed(s, i)[k] = s[b] /\ (b = k \/ b = k + 1) /\ (b = k <=> k <= i)
    BY <1>1 DEF Removed
  <2>3. a < b
    BY <2>1, <2>2, <1>1
  <2> QED BY <1>1, <1>4, <2>1, <2>2, <2>3 DEF Ascends
<1> QED BY <1>3, <1>4

(* A node goes in between smaller and greater ones.                         *)
LEMMA InsertedType ==
  ASSUME NEW s \in Seq(Node), NEW i \in Nat, i <= Len(s), NEW n \in Node
  PROVE  /\ Inserted(s, i, n) \in Seq(Node)
         /\ Len(Inserted(s, i, n)) = Len(s) + 1
         /\ Inserted(s, i, n)[i + 1] = n
         /\ \A j \in 1..Len(s) : /\ j <= i => Inserted(s, i, n)[j] = s[j]
                                 /\ j > i => Inserted(s, i, n)[j + 1] = s[j]
         /\ (/\ Ascends(s)
             /\ \A j \in 1..i : s[j].key < n.key
             /\ \A j \in (i + 1)..Len(s) : s[j].key > n.key)
            => Ascends(Inserted(s, i, n))
<1> DEFINE t == Inserted(s, i, n)
<1>1. Len(s) \in Nat /\ Len(s) + 1 \in Nat /\ DOMAIN s = 1..Len(s)
  OBVIOUS
<1>2. \A j \in 1..(Len(s) + 1) :
        (IF j <= i THEN s[j] ELSE IF j = i + 1 THEN n ELSE s[j - 1]) \in Node
  BY <1>1
<1>3. t \in Seq(Node) /\ Len(t) = Len(s) + 1
  BY <1>1, <1>2 DEF Inserted
<1>4. /\ t[i + 1] = n
      /\ \A j \in 1..Len(s) : (j <= i => t[j] = s[j]) /\ (j > i => t[j + 1] = s[j])
  BY <1>1 DEF Inserted
<1>5. ASSUME Ascends(s), \A j \in 1..i : s[j].key < n.key,
             \A j \in (i + 1)..Len(s) : s[j].key > n.key
      PROVE  Ascends(t)
  <2> SUFFICES ASSUME NEW j \in 1..(Len(s) + 1), NEW k \in 1..(Len(s) + 1), j < k
               PROVE  t[j].key < t[k].key
    BY <1>1 DEF Ascends, Inserted
  <2> HIDE DEF t
  <2>0. n.key \in Int /\ \A a \in 1..Len(s) : s[a].key \in Int
    BY NodesType DEF Node
  <2>1. CASE j <= i /\ k <= i
    BY <1>1, <1>4, <1>5, <2>1 DEF Ascends
  <2>2. CASE j <= i /\ k = i + 1
    BY <1>1, <1>4, <1>5, <2>2
  <2>3. CASE j <= i /\ k > i + 1
    <3>1. t[j] = s[j] /\ k - 1 \in 1..Len(s) /\ t[(k - 1) + 1] = s[k - 1] /\ j < k - 1 /\ j \in 1..Len(s)
      BY <1>1, <1>4, <2>3
    <3>2. (k - 1) + 1 = k
      OBVIOUS
    <3> QED BY <1>1, <1>5, <3>1, <3>2 DEF Ascends
  <2>4. CASE j = i + 1
    <3>1. k - 1 \in (i + 1)..Len(s) /\ t[(k - 1) + 1] = s[k - 1] /\ (k - 1) + 1 = k
      BY <1>1, <1>4, <2>4
    <3> QED BY <1>4, <1>5, <2>0, <2>4, <3>1
  <2>5. CASE j > i + 1
    <3>1. /\ j - 1 \in 1..Len(s) /\ t[(j - 1) + 1] = s[j - 1] /\ (j - 1) + 1 = j
          /\ k - 1 \in 1..Len(s) /\ t[(k - 1) + 1] = s[k - 1] /\ (k - 1) + 1 = k
          /\ j - 1 < k - 1
      BY <1>1, <1>4, <2>5
    <3> QED BY <1>1, <1>5, <3>1 DEF Ascends
  <2> QED BY <2>1, <2>2, <2>3, <2>4, <2>5
<1> QED BY <1>3, <1>4, <1>5

-----------------------------------------------------------------------------
Saved == [valid : BOOLEAN, key : Keys \cup {Nothing}, index : Nat]
Result == [data : Data \cup {Nothing}, key : Keys \cup {Nothing}, found : BOOLEAN, index : Nat]

(* The saved result r is right for the nodes s.                             *)
RightFor(r, s) == r.valid => r.index < Len(s) /\ s[r.index + 1].key = r.key

(* What the calls have to maintain of the maps.                             *)
MapsOK ==
  /\ nodes \in [Maps -> Seq(Node)]
  /\ saved \in [Maps -> Saved]
  /\ \A m \in Maps : Ascends(nodes[m]) /\ RightFor(saved[m], nodes[m])

LEMMA MapsOKMeaning ==
  Inv <=> /\ MapsOK /\ call \in Call \cup {Nothing} /\ result \in Result
          /\ lower \in Nat /\ upper \in Int /\ index \in Nat
          /\ SearchIsRight /\ (~Idle => Expects(call))
BY DEF Inv, TypeOK, KeysAscend, SavedIsRight, MapsOK, Ascends, RightFor, Saved, Result, Size, At

LEMMA InvAfter ==
  ASSUME MapsOK', call' \in Call \cup {Nothing}, result' \in Result,
         lower' \in Nat, upper' \in Int, index' \in Nat,
         SearchIsRight', Idle' \/ Expects(call)'
  PROVE  Inv'
BY DEF Inv, TypeOK, KeysAscend, SavedIsRight, MapsOK, Ascends, RightFor, Saved, Result, Size, At

(* A step that changes one map and its saved result.                        *)
LEMMA MapStep ==
  ASSUME MapsOK, NEW m \in Maps, NEW s \in Seq(Node), NEW r \in Saved,
         Ascends(s), RightFor(r, s),
         nodes' = [nodes EXCEPT ![m] = s], saved' = [saved EXCEPT ![m] = r]
  PROVE  MapsOK'
BY DEF MapsOK

LEMMA SavedType ==
  /\ Unsaved \in Saved /\ ~Unsaved.valid
  /\ \A k \in Keys, i \in Nat : [valid |-> TRUE, key |-> k, index |-> i] \in Saved
BY DEF Unsaved, Saved

(* Where the key of a call is, or belongs.                                  *)
Located(c, found, i) ==
  /\ i \in Nat
  /\ found => i < Len(nodes[c.map]) /\ nodes[c.map][i + 1].key = c.key
  /\ ~found => /\ i <= Len(nodes[c.map])
               /\ \A j \in 1..i : nodes[c.map][j].key < c.key
               /\ \A j \in (i + 1)..Len(nodes[c.map]) : nodes[c.map][j].key > c.key

IsTheSaved(c, i) == saved[c.map].valid /\ saved[c.map].key = c.key /\ saved[c.map].index = i

(* The caller's preconditions leave the calls that need the key no miss,    *)
(* and SetNew no hit.                                                       *)
LEMMA FoundOrNot ==
  ASSUME MapsOK, NEW c \in Call, NEW found \in BOOLEAN, NEW i, Located(c, found, i), Expects(c)
  PROVE  /\ c.op \in {"Get", "GetIndexAtKey", "Pop", "SetExisting"} => found
         /\ c.op = "SetNew" => ~found
         /\ c.map \in Maps /\ c.key \in Keys /\ c.key \in Int
         /\ c.op \in {"Set", "SetExisting", "SetNew"} => c.data \in Data
<1>1. c.map \in Maps /\ c.key \in Keys /\ c.data \in Data \cup {Nothing}
  BY DEF Call
<1>2. c.key \in Int
  BY <1>1
<1>3. Len(nodes[c.map]) \in Nat /\ DOMAIN nodes[c.map] = 1..Len(nodes[c.map])
  BY <1>1, NodesType DEF MapsOK
<1>4. found => Present(c.map, c.key)
  BY <1>3 DEF Located, Present
<1>5. ~found => ~Present(c.map, c.key)
  <2>1. ASSUME ~found, NEW j \in 1..Len(nodes[c.map]) PROVE nodes[c.map][j].key # c.key
    <3>1. nodes[c.map][j].key \in Int /\ i \in Nat
      BY <1>1, NodesType DEF MapsOK, Located
    <3>2. j \in 1..i \/ j \in (i + 1)..Len(nodes[c.map])
      BY <1>3, <3>1
    <3> QED BY <1>2, <2>1, <3>1, <3>2 DEF Located
  <2> QED BY <1>3, <2>1 DEF Present
<1> QED BY <1>1, <1>2, <1>4, <1>5 DEF Expects

(* What a call does with its index keeps the maps in order and the saved    *)
(* results right.                                                           *)
LEMMA CompleteStep ==
  ASSUME MapsOK, NEW c \in Call, NEW found \in BOOLEAN, NEW i, NEW isSaved \in BOOLEAN,
         Located(c, found, i), Expects(c), isSaved => found /\ IsTheSaved(c, i),
         Complete(c, found, i, isSaved)
  PROVE  MapsOK' /\ result' \in Result
<1> DEFINE m == c.map
           s == nodes[m]
           r == [valid |-> TRUE, key |-> c.key, index |-> i]
<1>1. /\ m \in Maps /\ c.key \in Keys /\ c.key \in Int /\ i \in Nat
      /\ c.op \in {"Get", "GetIndexAtKey", "Pop", "SetExisting"} => found
      /\ c.op = "SetNew" => ~found
      /\ c.op \in {"Set", "SetExisting", "SetNew"} => c.data \in Data
  BY FoundOrNot DEF Located
<1>2. s \in Seq(Node) /\ saved[m] \in Saved /\ Ascends(s) /\ RightFor(saved[m], s)
  BY <1>1 DEF MapsOK
<1>3. nodes = [nodes EXCEPT ![m] = s] /\ saved = [saved EXCEPT ![m] = saved[m]]
  BY <1>1 DEF MapsOK
<1>4. r \in Saved
  BY <1>1, SavedType
<1>5. found => i + 1 \in 1..Len(s) /\ s[i + 1] \in Node /\ s[i + 1].key = c.key
               /\ s[i + 1].data \in Data
  <2>1. Len(s) \in Nat
    BY <1>2
  <2>2. found => i + 1 \in 1..Len(s) /\ s[i + 1].key = c.key
    BY <1>1, <2>1 DEF Located
  <2> QED BY <1>2, <2>2, NodesType
<1>6. ASSUME found, Remember(c, i, isSaved), NEW t \in Seq(Node), Ascends(t), Len(t) = Len(s),
             \A j \in 1..Len(s) : t[j].key = s[j].key, nodes' = [nodes EXCEPT ![m] = t]
      PROVE  MapsOK'
  <2>1. RightFor(r, t)
    BY <1>1, <1>5, <1>6 DEF RightFor, Located
  <2>2. RightFor(saved[m], t)
    <3>1. saved[m].valid => saved[m].index \in Nat /\ saved[m].index + 1 \in 1..Len(s)
      BY <1>2 DEF RightFor, Saved
    <3> QED BY <1>2, <1>6, <3>1 DEF RightFor
  <2>3. CASE isSaved
    BY <1>1, <1>2, <1>3, <1>6, <2>2, <2>3, MapStep DEF Remember
  <2>4. CASE ~isSaved
    <3>1. saved' = [saved EXCEPT ![m] = r]
      BY <1>6, <2>4 DEF Remember, SaveLastSearch
    <3> HIDE DEF r
    <3> QED BY <1>1, <1>4, <1>6, <2>1, <3>1, MapStep
  <2> QED BY <2>3, <2>4
<1>7. CASE c.op \in {"Get", "GetIndexAtKey", "Has"} /\ Reads(c, found, i, isSaved)
  <2>1. result' \in Result
    BY <1>1, <1>5, <1>7 DEF Reads, Abstract!Returns, Result, At
  <2>2. nodes' = [nodes EXCEPT ![m] = s]
    BY <1>3, <1>7 DEF Reads
  <2>3. CASE found
    BY <1>2, <1>6, <1>7, <2>1, <2>2, <2>3 DEF Reads
  <2>4. CASE ~found
    BY <1>1, <1>2, <1>3, <1>7, <2>1, <2>2, <2>4, MapStep DEF Reads
  <2> QED BY <2>3, <2>4
<1>8. CASE c.op \in {"Pop", "Delete"} /\ Removes(c, found, i)
  <2>1. result' \in Result
    BY <1>1, <1>5, <1>8 DEF Removes, Abstract!Returns, Result, At
  <2>2. CASE found
    <3>1. /\ Removed(s, i) \in Seq(Node) /\ Ascends(Removed(s, i))
      BY <1>1, <1>2, <2>2, RemovedType DEF Located
    <3>2. nodes' = [nodes EXCEPT ![m] = Removed(s, i)] /\ saved' = [saved EXCEPT ![m] = Unsaved]
      BY <1>8, <2>2 DEF Removes, Invalidate
    <3>3. RightFor(Unsaved, Removed(s, i)) /\ Unsaved \in Saved
      BY SavedType DEF RightFor
    <3> QED BY <1>1, <2>1, <3>1, <3>2, <3>3, MapStep
  <2>3. CASE ~found
    BY <1>8, <2>1, <2>3 DEF Removes, MapsOK
  <2> QED BY <2>2, <2>3
<1>9. CASE c.op \in {"Set", "SetExisting", "SetNew"} /\ Stores(c, found, i, isSaved)
  <2>1. result' \in Result
    BY <1>1, <1>9 DEF Stores, Abstract!Returns, Result
  <2>2. CASE found
    <3> DEFINE t == [s EXCEPT ![i + 1].data = c.data]
    <3>1. nodes' = [nodes EXCEPT ![m] = t]
      BY <1>9, <2>2 DEF Stores
    <3>2. [s[i + 1] EXCEPT !.data = c.data] \in Node
      BY <1>1, <1>5, <1>9, <2>2 DEF Node
    <3>3. t \in Seq(Node) /\ Len(t) = Len(s)
      BY <1>2, <1>5, <2>2, <3>2
    <3>4. \A j \in 1..Len(s) : t[j].key = s[j].key
      <4>1. \A j \in 1..Len(s) : s[j] \in Node
        BY <1>2, NodesType
      <4>2. [s[i + 1] EXCEPT !.data = c.data].key = s[i + 1].key
        BY <1>5, <2>2 DEF Node
      <4> QED BY <1>2, <1>5, <2>2, <4>1, <4>2
    <3>5. Ascends(t)
      <4>1. DOMAIN t = 1..Len(s) /\ DOMAIN s = 1..Len(s)
        BY <1>2
      <4> HIDE DEF t
      <4> QED BY <1>2, <3>4, <4>1 DEF Ascends
    <3> HIDE DEF t
    <3>6. Remember(c, i, isSaved)
      BY <1>9 DEF Stores
    <3> QED BY <1>6, <2>1, <2>2, <3>1, <3>3, <3>4, <3>5, <3>6
  <2>3. CASE ~found
    <3> DEFINE n == [key |-> c.key, data |-> c.data]
               t == Inserted(s, i, n)
    <3>1. n \in Node /\ n.key = c.key
      BY <1>1, <1>9 DEF Node
    <3>2. nodes' = [nodes EXCEPT ![m] = t] /\ saved' = [saved EXCEPT ![m] = r]
      BY <1>9, <2>3 DEF Stores, Remember, SaveLastSearch
    <3> HIDE DEF n
    <3>3. /\ i <= Len(s) /\ \A j \in 1..i : s[j].key < n.key
          /\ \A j \in (i + 1)..Len(s) : s[j].key > n.key
      BY <2>3, <3>1 DEF Located
    <3>4. t \in Seq(Node) /\ Len(t) = Len(s) + 1 /\ t[i + 1] = n /\ Ascends(t)
      <4>1. s \in Seq(Node) /\ Ascends(s) /\ i \in Nat /\ n \in Node
        BY <1>1, <1>2, <3>1
      <4> HIDE DEF s
      <4> QED BY ONLY <3>3, <4>1, InsertedType
    <3> HIDE DEF t
    <3>5. i < Len(t)
      BY <1>1, <1>2, <3>3, <3>4
    <3>6. RightFor(r, t)
      BY <3>1, <3>4, <3>5 DEF RightFor
    <3> HIDE DEF r
    <3> QED BY <1>1, <1>4, <2>1, <3>2, <3>4, <3>6, MapStep
  <2> QED BY <2>2, <2>3
<1> QED BY <1>7, <1>8, <1>9 DEF Complete

-----------------------------------------------------------------------------
LEMMA InitInv == Init => Inv
<1> SUFFICES ASSUME Init PROVE Inv
  OBVIOUS
<1>1. MapsOK
  BY SavedType DEF Init, MapsOK, Ascends, RightFor
<1>2. result \in Result
  BY DEF Init, Result, Abstract!NoResult, Abstract!Returns
<1> QED BY <1>1, <1>2, MapsOKMeaning DEF Init, SearchIsRight, Idle

(* A step that leaves no search in progress.                                *)
LEMMA IdleInv ==
  ASSUME MapsOK', result' \in Result, call' = Nothing, lower' \in Nat, upper' \in Int, index' \in Nat
  PROVE  Inv'
<1>1. Idle'
  BY DEF Idle
<1> QED BY <1>1, InvAfter DEF SearchIsRight

LEMMA NoResultType == Abstract!NoResult \in Result
BY DEF Abstract!NoResult, Abstract!Returns, Result

LEMMA AllowedExpects == ASSUME NEW c \in Call, Allowed(c) PROVE Expects(c)
BY DEF Allowed, Expects

(* A call does its work with the right index.                               *)
Concludes(c, found, i, isSaved) ==
  /\ MapsOK /\ Located(c, found, i) /\ Expects(c)
  /\ isSaved => found /\ IsTheSaved(c, i)
  /\ Complete(c, found, i, isSaved)

(* A call that need not search.                                             *)
LEMMA CallSavedConcludes ==
  ASSUME Inv, NEW c \in Call, CallSaved(c)
  PROVE  Concludes(c, TRUE, saved[c.map].index, TRUE)
<1>1. MapsOK /\ Expects(c) /\ c.map \in Maps
  BY MapsOKMeaning, AllowedExpects DEF CallSaved, Call
<1>2. IsTheSaved(c, saved[c.map].index)
  BY DEF CallSaved, HasSavedSearchResult, IsTheSaved
<1>3. Located(c, TRUE, saved[c.map].index)
  BY <1>1, <1>2 DEF MapsOK, RightFor, Saved, IsTheSaved, Located
<1> QED BY <1>1, <1>2, <1>3 DEF CallSaved, Concludes

LEMMA CallSavedStep == ASSUME Inv, NEW c \in Call, CallSaved(c) PROVE Inv'
<1>1. lower \in Nat /\ upper \in Int /\ index \in Nat
  BY MapsOKMeaning
<1>2. MapsOK' /\ result' \in Result
  BY CallSavedConcludes, CompleteStep DEF Concludes
<1>3. call' = Nothing /\ lower' = lower /\ upper' = upper /\ index' = index
  BY DEF CallSaved, search, Idle
<1> QED BY <1>1, <1>2, <1>3, IdleInv

LEMMA CallEmptyConcludes ==
  ASSUME Inv, NEW c \in Call, CallEmpty(c)
  PROVE  Concludes(c, FALSE, 0, FALSE)
<1>1. MapsOK /\ Expects(c)
  BY MapsOKMeaning, AllowedExpects DEF CallEmpty
<1>2. Located(c, FALSE, 0)
  BY DEF CallEmpty, Size, Located
<1> QED BY <1>1, <1>2 DEF CallEmpty, Concludes

LEMMA CallEmptyStep == ASSUME Inv, NEW c \in Call, CallEmpty(c) PROVE Inv'
<1>1. lower \in Nat /\ upper \in Int /\ index \in Nat
  BY MapsOKMeaning
<1>2. MapsOK' /\ result' \in Result
  BY CallEmptyConcludes, CompleteStep DEF Concludes
<1>3. call' = Nothing /\ lower' = lower /\ upper' = upper /\ index' = index
  BY DEF CallEmpty, search, Idle
<1> QED BY <1>1, <1>2, <1>3, IdleInv

LEMMA CallSearchesStep == ASSUME Inv, NEW c \in Call, CallSearches(c) PROVE Inv'
<1>1. MapsOK /\ Expects(c) /\ c.map \in Maps
  BY MapsOKMeaning, AllowedExpects DEF CallSearches, Call
<1> DEFINE n == Len(nodes[c.map])
<1>2. n \in Nat /\ n > 0
  BY <1>1 DEF CallSearches, Size, MapsOK
<1>3. /\ call' = c /\ lower' = 0 /\ upper' = n - 1 /\ index' = n \div 2
      /\ nodes' = nodes /\ saved' = saved /\ result' = Abstract!NoResult
  BY DEF CallSearches, Size
<1>4. MapsOK' /\ Expects(c)'
  BY <1>1, <1>3 DEF MapsOK, Expects, Present
<1>5. /\ lower' \in Nat /\ upper' \in Int /\ index' \in Nat
      /\ lower' <= index' /\ index' <= upper' /\ upper' < n
  <2>1. \A k \in Nat \ {0} : k \div 2 \in Nat /\ 0 <= k \div 2 /\ k \div 2 <= k - 1
    OBVIOUS
  <2> HIDE DEF n
  <2> QED BY <1>2, <1>3, <2>1
<1>6. SearchIsRight'
  <2>1. /\ Len(nodes'[call'.map]) = n
        /\ \A i : i \notin 0..(0 - 1) /\ i \notin ((n - 1) + 1)..(n - 1)
    <3> HIDE DEF n
    <3> QED BY <1>2, <1>3 DEF n
  <2> HIDE DEF n
  <2> QED BY <1>3, <1>5, <2>1 DEF SearchIsRight, Size
<1>7. Expects(call)'
  BY <1>3, <1>4 DEF Expects, Present
<1> QED BY <1>3, <1>4, <1>5, <1>6, <1>7, NoResultType, InvAfter

(* Where a search stands.                                                   *)
LEMMA SearchFacts ==
  ASSUME Inv, ~Idle
  PROVE  /\ MapsOK /\ call \in Call /\ Expects(call)
         /\ nodes[call.map] \in Seq(Node) /\ Len(nodes[call.map]) \in Nat
         /\ Ascends(nodes[call.map])
         /\ call.key \in Int
         /\ lower \in Nat /\ index \in Nat /\ upper \in Int
         /\ lower <= index /\ index <= upper /\ upper < Len(nodes[call.map])
         /\ \A i \in 1..Len(nodes[call.map]) : nodes[call.map][i].key \in Int
         /\ index + 1 \in 1..Len(nodes[call.map])
         /\ Probe = nodes[call.map][index + 1].key
         /\ \A j \in 1..lower : nodes[call.map][j].key < call.key
         /\ \A j \in (upper + 2)..Len(nodes[call.map]) : nodes[call.map][j].key > call.key
<1>1. /\ MapsOK /\ call \in Call /\ Expects(call) /\ lower \in Nat /\ index \in Nat /\ upper \in Int
      /\ SearchIsRight
  BY MapsOKMeaning DEF Idle
<1> DEFINE s == nodes[call.map]
<1>2. call.map \in Maps /\ call.key \in Int
  BY <1>1, KeyAssumption DEF Call
<1>3. /\ s \in Seq(Node) /\ Ascends(s) /\ Len(s) \in Nat
      /\ \A i \in 1..Len(s) : s[i].key \in Int
  BY <1>1, <1>2, NodesType DEF MapsOK
<1>4. /\ lower <= index /\ index <= upper /\ upper < Len(s)
      /\ \A i \in 0..(lower - 1) : s[i + 1].key < call.key
      /\ \A i \in (upper + 1)..(Len(s) - 1) : s[i + 1].key > call.key
  BY <1>1 DEF SearchIsRight, Size, At
<1>5. index + 1 \in 1..Len(s) /\ Probe = s[index + 1].key
  <2>1. Probe = s[index + 1].key
    BY DEF Probe, At
  <2> HIDE DEF s
  <2> QED BY <1>1, <1>3, <1>4, <2>1
<1>6. ASSUME NEW j \in 1..lower PROVE s[j].key < call.key
  <2>1. j - 1 \in 0..(lower - 1) /\ (j - 1) + 1 = j
    BY <1>1
  <2> QED BY <1>4, <2>1
<1>7. ASSUME NEW j \in (upper + 2)..Len(s) PROVE s[j].key > call.key
  <2>1. j - 1 \in (upper + 1)..(Len(s) - 1) /\ (j - 1) + 1 = j
    BY <1>1, <1>3
  <2> QED BY <1>4, <2>1
<1> QED BY <1>1, <1>2, <1>3, <1>4, <1>5, <1>6, <1>7

(* A comparison excludes nothing that could hold the key.                   *)
LEMMA Narrowed ==
  ASSUME Inv, ~Idle, call.key # Probe
  PROVE  /\ NextLower \in Nat /\ NextUpper \in Int
         /\ NextLower <= Len(nodes[call.map]) /\ NextUpper < Len(nodes[call.map])
         /\ \A j \in 1..NextLower : nodes[call.map][j].key < call.key
         /\ \A j \in (NextUpper + 2)..Len(nodes[call.map]) : nodes[call.map][j].key > call.key
<1> DEFINE s == nodes[call.map]
           p == Probe
<1>1. /\ s \in Seq(Node) /\ Len(s) \in Nat /\ Ascends(s) /\ call.key \in Int
      /\ lower \in Nat /\ index \in Nat /\ upper \in Int
      /\ lower <= index /\ index <= upper /\ upper < Len(s)
      /\ \A i \in 1..Len(s) : s[i].key \in Int
      /\ index + 1 \in 1..Len(s) /\ p = s[index + 1].key
      /\ \A j \in 1..lower : s[j].key < call.key
      /\ \A j \in (upper + 2)..Len(s) : s[j].key > call.key
  BY SearchFacts
<1>2. /\ NextLower = IF call.key > p THEN index + 1 ELSE lower
      /\ NextUpper = IF call.key < p THEN index - 1 ELSE upper
      /\ call.key # p
  BY DEF NextLower, NextUpper
<1> HIDE DEF p, s
<1>3. p \in Int
  BY <1>1
<1>4. DOMAIN s = 1..Len(s)
  BY <1>1
<1>5. ASSUME call.key > p, NEW j \in 1..(index + 1) PROVE s[j].key < call.key
  <2>1. j \in 1..Len(s) /\ (j < index + 1 \/ j = index + 1)
    BY <1>1
  <2>2. s[j].key <= p /\ s[j].key \in Int
    BY <1>1, <1>3, <1>4, <2>1 DEF Ascends
  <2> QED BY <1>1, <1>3, <1>5, <2>2
<1>6. ASSUME call.key < p, NEW j \in (index + 1)..Len(s) PROVE s[j].key > call.key
  <2>1. j \in 1..Len(s) /\ (j > index + 1 \/ j = index + 1)
    BY <1>1
  <2>2. s[j].key >= p /\ s[j].key \in Int
    BY <1>1, <1>3, <1>4, <2>1 DEF Ascends
  <2> QED BY <1>1, <1>3, <1>6, <2>2
<1>7. CASE call.key > p
  <2>1. NextLower = index + 1 /\ NextUpper = upper
    BY <1>1, <1>2, <1>3, <1>7
  <2> QED BY <1>1, <1>5, <1>7, <2>1 DEF s
<1>8. CASE call.key < p
  <2>1. NextLower = lower /\ NextUpper = index - 1
    BY <1>1, <1>2, <1>3, <1>8
  <2>2. (NextUpper + 2)..Len(s) = (index + 1)..Len(s)
    BY <1>1, <2>1
  <2>3. \A j \in (NextUpper + 2)..Len(s) : s[j].key > call.key
    BY <1>6, <1>8, <2>2
  <2> QED BY <1>1, <2>1, <2>3 DEF s
<1> QED BY <1>1, <1>2, <1>3, <1>7, <1>8

LEMMA HitConcludes ==
  ASSUME Inv, Hit
  PROVE  call \in Call /\ Concludes(call, TRUE, index, FALSE)
<1>1. ~Idle /\ Probe = call.key /\ Complete(call, TRUE, index, FALSE)
  BY DEF Hit
<1>2. /\ MapsOK /\ call \in Call /\ Expects(call) /\ index \in Nat
      /\ index < Len(nodes[call.map]) /\ nodes[call.map][index + 1].key = call.key
  BY <1>1, SearchFacts
<1>3. Located(call, TRUE, index)
  BY <1>2 DEF Located
<1> QED BY <1>1, <1>2, <1>3 DEF Concludes

LEMMA MissConcludes ==
  ASSUME Inv, Miss
  PROVE  call \in Call /\ Concludes(call, FALSE, NextLower, FALSE)
<1>1. /\ ~Idle /\ call.key # Probe /\ NextLower > NextUpper
      /\ Complete(call, FALSE, NextLower, FALSE)
  BY DEF Miss
<1>2. MapsOK /\ call \in Call /\ Expects(call) /\ Len(nodes[call.map]) \in Nat
  BY <1>1, SearchFacts
<1>3. Located(call, FALSE, NextLower)
  <2>1. /\ NextLower \in Nat /\ NextUpper \in Int /\ NextLower <= Len(nodes[call.map])
        /\ \A j \in 1..NextLower : nodes[call.map][j].key < call.key
        /\ \A j \in (NextUpper + 2)..Len(nodes[call.map]) : nodes[call.map][j].key > call.key
    BY <1>1, Narrowed
  <2>2. \A j \in (NextLower + 1)..Len(nodes[call.map]) :
          j \in (NextUpper + 2)..Len(nodes[call.map])
    BY <1>1, <1>2, <2>1
  <2> QED BY <2>1, <2>2 DEF Located
<1> QED BY <1>1, <1>2, <1>3 DEF Concludes

LEMMA LastRoundStep == ASSUME Inv, Hit \/ Miss PROVE Inv'
<1>1. call' = Nothing /\ lower' = 0 /\ upper' = 0 /\ index' = 0
  BY DEF Hit, Miss, Done
<1>2. MapsOK' /\ result' \in Result
  <2>1. CASE Hit
    BY <2>1, HitConcludes, CompleteStep DEF Concludes
  <2>2. CASE Miss
    BY <2>2, MissConcludes, CompleteStep DEF Concludes
  <2> QED BY <2>1, <2>2
<1> QED BY <1>1, <1>2, IdleInv

LEMMA HalveStep == ASSUME Inv, Halve PROVE Inv'
<1>1. /\ ~Idle /\ call.key # Probe /\ NextLower <= NextUpper
      /\ lower' = NextLower /\ upper' = NextUpper
      /\ index' = NextLower + (NextUpper - NextLower) \div 2
      /\ nodes' = nodes /\ saved' = saved /\ call' = call /\ result' = result
  BY DEF Halve
<1>2. /\ MapsOK /\ call \in Call /\ Expects(call) /\ result \in Result
      /\ Len(nodes[call.map]) \in Nat
  BY <1>1, SearchFacts, MapsOKMeaning
<1> DEFINE s == nodes[call.map]
<1>3. /\ NextLower \in Nat /\ NextUpper \in Int /\ NextUpper < Len(s)
      /\ \A j \in 1..NextLower : s[j].key < call.key
      /\ \A j \in (NextUpper + 2)..Len(s) : s[j].key > call.key
  BY <1>1, Narrowed
<1>4. lower' \in Nat /\ upper' \in Int /\ index' \in Nat /\ lower' <= index' /\ index' <= upper'
  <2>1. \A a \in Nat, b \in Int :
          a <= b => /\ a + (b - a) \div 2 \in Nat
                    /\ a <= a + (b - a) \div 2 /\ a + (b - a) \div 2 <= b
    OBVIOUS
  <2> QED BY <1>1, <1>3, <2>1
<1>5. ASSUME NEW i \in 0..(lower' - 1) PROVE s[i + 1].key < call.key
  <2>1. i + 1 \in 1..NextLower
    BY <1>1, <1>3, <1>4
  <2> QED BY <1>3, <2>1
<1>6. ASSUME NEW i \in (upper' + 1)..(Len(s) - 1) PROVE s[i + 1].key > call.key
  <2>1. i + 1 \in (NextUpper + 2)..Len(s)
    BY <1>1, <1>2, <1>3
  <2> QED BY <1>3, <2>1
<1>7. SearchIsRight'
  BY <1>1, <1>3, <1>4, <1>5, <1>6 DEF SearchIsRight, Size, At
<1>8. MapsOK' /\ Expects(call)'
  BY <1>1, <1>2 DEF MapsOK, Expects, Present
<1> QED BY <1>1, <1>2, <1>4, <1>7, <1>8, InvAfter

(* The calls by index, Clear and the assignments.                           *)
LEMMA DirectStep ==
  ASSUME Inv, NEW m \in Maps, NEW i \in Nat, NEW from \in Maps,
         GetAtIndex(m, i) \/ RemoveAtIndex(m, i) \/ Clear(m) \/ Assign(m, from)
  PROVE  Inv'
<1>1. /\ MapsOK /\ result \in Result /\ lower \in Nat /\ upper \in Int /\ index \in Nat
      /\ nodes[m] \in Seq(Node) /\ Ascends(nodes[m]) /\ Len(nodes[m]) \in Nat
  BY MapsOKMeaning DEF MapsOK
<1>2. /\ call' = Nothing /\ lower' = lower /\ upper' = upper /\ index' = index
  BY DEF GetAtIndex, RemoveAtIndex, Clear, Assign, search, Idle
<1>3. Unsaved \in Saved /\ \A s : RightFor(Unsaved, s)
  BY SavedType DEF RightFor
<1>4. CASE GetAtIndex(m, i)
  <2>1. i + 1 \in 1..Len(nodes[m])
    BY <1>1, <1>4 DEF GetAtIndex, Size
  <2>2. result' \in Result
    BY <1>1, <1>4, <2>1, NodesType DEF GetAtIndex, Abstract!Returns, Result, At
  <2>3. MapsOK'
    BY <1>1, <1>4 DEF GetAtIndex, MapsOK
  <2> QED BY <1>1, <1>2, <2>2, <2>3, IdleInv
<1>5. CASE RemoveAtIndex(m, i)
  <2> DEFINE s == IF i < Len(nodes[m]) THEN Removed(nodes[m], i) ELSE nodes[m]
  <2>1. s \in Seq(Node) /\ Ascends(s)
    BY <1>1, RemovedType
  <2>2. /\ nodes' = [nodes EXCEPT ![m] = s] /\ saved' = [saved EXCEPT ![m] = Unsaved]
        /\ result' = Abstract!NoResult
    BY <1>5 DEF RemoveAtIndex, Invalidate
  <2> HIDE DEF s
  <2>3. MapsOK'
    BY <1>1, <1>3, <2>1, <2>2, MapStep
  <2> QED BY <1>1, <1>2, <2>2, <2>3, NoResultType, IdleInv
<1>6. CASE Clear(m)
  <2>1. /\ nodes' = [nodes EXCEPT ![m] = <<>>] /\ saved' = [saved EXCEPT ![m] = Unsaved]
        /\ result' = Abstract!NoResult
    BY <1>6 DEF Clear, Invalidate
  <2>2. <<>> \in Seq(Node) /\ Ascends(<<>>)
    BY DEF Ascends
  <2>3. MapsOK'
    BY <1>1, <1>3, <2>1, <2>2, MapStep
  <2> QED BY <1>1, <1>2, <2>1, <2>3, NoResultType, IdleInv
<1>7. CASE Assign(m, from)
  <2>1. /\ nodes' = [nodes EXCEPT ![m] = nodes[from]] /\ saved' = [saved EXCEPT ![m] = saved[from]]
        /\ result' = Abstract!NoResult
    BY <1>7 DEF Assign
  <2>2. /\ nodes[from] \in Seq(Node) /\ Ascends(nodes[from])
        /\ saved[from] \in Saved /\ RightFor(saved[from], nodes[from])
    BY <1>1 DEF MapsOK
  <2>3. MapsOK'
    BY <1>1, <2>1, <2>2, MapStep
  <2> QED BY <1>1, <1>2, <2>1, <2>3, NoResultType, IdleInv
<1> QED BY <1>4, <1>5, <1>6, <1>7

LEMMA NextInv == Inv /\ [Next]_vars => Inv'
<1> SUFFICES ASSUME Inv, [Next]_vars PROVE Inv'
  OBVIOUS
<1>1. CASE Round
  BY <1>1, LastRoundStep, HalveStep DEF Round
<1>2. CASE User
  <2>1. CASE \E c \in Call : CallSaved(c) \/ CallEmpty(c) \/ CallSearches(c)
    BY <2>1, CallSavedStep, CallEmptyStep, CallSearchesStep
  <2>2. CASE \E m \in Maps :
               \/ \E i \in 0..MaxNodes : GetAtIndex(m, i) \/ RemoveAtIndex(m, i)
               \/ Clear(m)
               \/ \E from \in Maps : Assign(m, from)
    <3>1. 0..MaxNodes \subseteq Nat
      OBVIOUS
    <3> QED BY <2>2, <3>1, DirectStep
  <2> QED BY <1>2, <2>1, <2>2 DEF User
<1>3. CASE UNCHANGED vars
  BY <1>3 DEF vars, search, Inv, TypeOK, KeysAscend, SavedIsRight, SearchIsRight, Expects, Present,
     Size, At, Idle
<1> QED BY <1>1, <1>2, <1>3 DEF Next

(* The invariant holds in every state of every behaviour.                   *)
THEOREM Invariance == Spec => []Inv
BY InitInv, NextInv, PTL DEF Spec

(* Every variable of a map keeps its type (DS_Map.h:80-98).                 *)
THEOREM TypeCorrect == Spec => []TypeOK
BY Invariance, PTL DEF Inv

(* The nodes of every map ascend by their keys, none twice: Insert puts a   *)
(* node where the search failed (DS_OrderedList.h:107-174).                 *)
THEOREM NodesAscend == Spec => []KeysAscend
BY Invariance, PTL DEF Inv

(* The saved index always is that of the saved key (DS_Map.h:298-310).      *)
THEOREM SavedResultIsRight == Spec => []SavedIsRight
BY Invariance, PTL DEF Inv

(* A search stays inside the list and excludes nothing that could hold its  *)
(* key (DS_OrderedList.h:119-150).                                          *)
THEOREM SearchesAreRight == Spec => []SearchIsRight
BY Invariance, PTL DEF Inv

-----------------------------------------------------------------------------
(* The refinement: what the nodes are to KeyedStore.                        *)

LEMMA AscendsMeaning ==
  ASSUME NEW s \in Seq(Node), Ascends(s)
  PROVE  \A i, j \in 1..Len(s) :
           /\ s[i].key = s[j].key => i = j
           /\ s[i].key < s[j].key => i < j
           /\ i < j => s[i].key < s[j].key
<1> SUFFICES ASSUME NEW i \in 1..Len(s), NEW j \in 1..Len(s)
             PROVE  /\ s[i].key = s[j].key => i = j
                    /\ s[i].key < s[j].key => i < j
                    /\ i < j => s[i].key < s[j].key
  OBVIOUS
<1>1. s[i].key \in Int /\ s[j].key \in Int
  BY NodesType
<1>2. (i < j => s[i].key < s[j].key) /\ (j < i => s[j].key < s[i].key)
  BY DEF Ascends
<1> QED BY <1>1, <1>2

(* The first n nodes are n pairs.                                           *)
LEMMA CountPairs ==
  ASSUME NEW s \in Seq(Node), Ascends(s), NEW n \in Nat, n <= Len(s)
  PROVE  Cardinality({s[j] : j \in 1..n}) = n
<1> DEFINE T == {s[j] : j \in 1..n}
           f == [j \in 1..n |-> s[j]]
<1>1. 1..n \subseteq 1..Len(s)
  OBVIOUS
<1>2. f \in Injection(1..n, T)
  <2>1. f \in [1..n -> T]
    OBVIOUS
  <2>2. \A i, j \in 1..n : f[i] = f[j] => i = j
    BY <1>1, AscendsMeaning
  <2> HIDE DEF f, T
  <2> QED BY <2>1, <2>2, Fun_IsInj
<1>3. f \in Surjection(1..n, T)
  <2>1. f \in [1..n -> T] /\ \A t \in T : \E j \in 1..n : f[j] = t
    OBVIOUS
  <2> HIDE DEF f, T
  <2> QED BY <2>1, Fun_IsSurj
<1>4. ExistsBijection(1..n, T)
  BY <1>2, <1>3 DEF ExistsBijection, Bijection
<1>5. Cardinality(T) = n
  <2> HIDE DEF T
  <2> QED BY <1>4, FS_CountingElements
<1> QED BY <1>5

(* The index of a node is the number of pairs before its key.               *)
LEMMA CountBefore ==
  ASSUME NEW s \in Seq(Node), Ascends(s), NEW i \in 1..Len(s)
  PROVE  Cardinality(Abstract!Before(PairsOf(s), s[i].key)) = i - 1
<1>1. Abstract!Before(PairsOf(s), s[i].key) = {s[j] : j \in 1..(i - 1)}
  <2>1. ASSUME NEW p \in PairsOf(s), p.key < s[i].key PROVE p \in {s[j] : j \in 1..(i - 1)}
    <3>1. PICK j \in 1..Len(s) : p = s[j]
      BY DEF PairsOf
    <3>2. j < i
      BY <2>1, <3>1, AscendsMeaning
    <3> QED BY <3>1, <3>2
  <2>2. ASSUME NEW j \in 1..(i - 1) PROVE s[j] \in PairsOf(s) /\ s[j].key < s[i].key
    <3>1. j \in 1..Len(s) /\ j < i
      OBVIOUS
    <3> QED BY <3>1, AscendsMeaning DEF PairsOf
  <2> QED BY <2>1, <2>2 DEF Abstract!Before
<1>2. i - 1 \in Nat /\ i - 1 <= Len(s)
  OBVIOUS
<1> QED BY <1>1, <1>2, CountPairs

(* The pair of a key that is there, and of one that is not.                 *)
LEMMA WithKey ==
  ASSUME NEW s \in Seq(Node), Ascends(s), NEW i \in 1..Len(s)
  PROVE  Abstract!With(PairsOf(s), s[i].key) = {s[i]}
BY AscendsMeaning DEF Abstract!With, PairsOf

LEMMA PairsRemoved ==
  ASSUME NEW s \in Seq(Node), Ascends(s), NEW i \in Nat, i < Len(s)
  PROVE  PairsOf(Removed(s, i)) = PairsOf(s) \ {s[i + 1]}
<1>1. /\ DOMAIN s = 1..Len(s) /\ DOMAIN Removed(s, i) = 1..(Len(s) - 1) /\ i + 1 \in 1..Len(s)
      /\ Len(s) \in Nat
  BY DEF Removed
<1>2. ASSUME NEW j \in 1..(Len(s) - 1)
      PROVE  Removed(s, i)[j] \in PairsOf(s) /\ Removed(s, i)[j] # s[i + 1]
  <2>1. PICK a \in 1..Len(s) : Removed(s, i)[j] = s[a] /\ a # i + 1
    BY <1>1 DEF Removed
  <2> QED BY <1>1, <2>1, AscendsMeaning DEF PairsOf
<1>3. ASSUME NEW a \in 1..Len(s), s[a] # s[i + 1]
      PROVE  \E j \in 1..(Len(s) - 1) : Removed(s, i)[j] = s[a]
  <2>1. CASE a <= i
    <3>1. a \in 1..(Len(s) - 1)
      BY <1>1, <2>1
    <3> QED BY <2>1, <3>1 DEF Removed
  <2>2. CASE a > i + 1
    <3>1. a - 1 \in 1..(Len(s) - 1) /\ ~(a - 1 <= i) /\ (a - 1) + 1 = a
      BY <1>1, <2>2
    <3>2. Removed(s, i)[a - 1] = s[(a - 1) + 1]
      BY <3>1 DEF Removed
    <3> QED BY <3>1, <3>2
  <2>3. a <= i \/ a > i + 1
    BY <1>1, <1>3
  <2> QED BY <2>1, <2>2, <2>3
<1> DEFINE r == Removed(s, i)
<1>4. /\ \A j \in DOMAIN r : r[j] \in PairsOf(s) /\ r[j] # s[i + 1]
      /\ \A a \in DOMAIN s : s[a] # s[i + 1] => \E j \in DOMAIN r : r[j] = s[a]
  BY <1>1, <1>2, <1>3
<1>5. PairsOf(r) = PairsOf(s) \ {s[i + 1]}
  <2> HIDE DEF r
  <2> QED BY <1>4 DEF PairsOf
<1> QED BY <1>5

LEMMA PairsInserted ==
  ASSUME NEW s \in Seq(Node), NEW i \in Nat, i <= Len(s), NEW n \in Node
  PROVE  PairsOf(Inserted(s, i, n)) = PairsOf(s) \cup {n}
<1>1. /\ DOMAIN s = 1..Len(s) /\ DOMAIN Inserted(s, i, n) = 1..(Len(s) + 1)
      /\ Len(s) \in Nat /\ i + 1 \in 1..(Len(s) + 1)
  BY DEF Inserted
<1>2. ASSUME NEW j \in 1..(Len(s) + 1) PROVE Inserted(s, i, n)[j] \in PairsOf(s) \cup {n}
  <2>1. CASE j = i + 1
    BY <1>1, <2>1 DEF Inserted
  <2>2. CASE j # i + 1
    <3>1. PICK a \in 1..Len(s) : Inserted(s, i, n)[j] = s[a]
      BY <1>1, <2>2 DEF Inserted
    <3> QED BY <1>1, <3>1 DEF PairsOf
  <2> QED BY <2>1, <2>2
<1>3. ASSUME NEW a \in 1..Len(s) PROVE \E j \in 1..(Len(s) + 1) : Inserted(s, i, n)[j] = s[a]
  <2>1. a \in 1..(Len(s) + 1) /\ a + 1 \in 1..(Len(s) + 1)
    BY <1>1
  <2>2. (a <= i => Inserted(s, i, n)[a] = s[a]) /\ (a > i => Inserted(s, i, n)[a + 1] = s[a])
    BY InsertedType
  <2>3. a <= i \/ a > i
    OBVIOUS
  <2> QED BY <2>1, <2>2, <2>3
<1>4. Inserted(s, i, n)[i + 1] = n
  BY InsertedType
<1> QED BY <1>1, <1>2, <1>3, <1>4 DEF PairsOf

LEMMA PairsReplaced ==
  ASSUME NEW s \in Seq(Node), Ascends(s), NEW i \in 1..Len(s), NEW n
  PROVE  PairsOf([s EXCEPT ![i] = n]) = (PairsOf(s) \ {s[i]}) \cup {n}
<1> DEFINE t == [s EXCEPT ![i] = n]
<1>1. DOMAIN s = 1..Len(s) /\ DOMAIN t = 1..Len(s) /\ t[i] = n
      /\ \A j \in 1..Len(s) : j # i => t[j] = s[j] /\ s[j] # s[i]
  BY AscendsMeaning
<1> HIDE DEF t
<1>2. PairsOf(t) = (PairsOf(s) \ {s[i]}) \cup {n}
  BY <1>1 DEF PairsOf
<1> QED BY <1>2 DEF t

LEMMA AllPairs ==
  ASSUME NEW s \in Seq(Node), Ascends(s)
  PROVE  Cardinality(PairsOf(s)) = Len(s)
<1>1. PairsOf(s) = {s[j] : j \in 1..Len(s)} /\ Len(s) \in Nat
  BY DEF PairsOf
<1> DEFINE n == Len(s)
<1>2. n \in Nat /\ n <= Len(s)
  BY <1>1
<1> HIDE DEF n
<1>3. Cardinality({s[j] : j \in 1..n}) = n
  BY ONLY <1>2, CountPairs, s \in Seq(Node), Ascends(s)
<1> QED BY <1>1, <1>3, Zenon DEF n

LEMMA ContentsOf ==
  ASSUME MapsOK, NEW m \in Maps
  PROVE  /\ Contents[m] = PairsOf(nodes[m])
         /\ \A s : nodes' = [nodes EXCEPT ![m] = s] => Abstract!Become(m, PairsOf(s))
<1>1. Contents[m] = PairsOf(nodes[m])
  BY DEF Contents
<1>2. ASSUME NEW s, nodes' = [nodes EXCEPT ![m] = s] PROVE Abstract!Become(m, PairsOf(s))
  <2>1. \A k \in Maps : nodes'[k] = IF k = m THEN s ELSE nodes[k]
    BY <1>2 DEF MapsOK
  <2>2. Contents' = [k \in Maps |-> PairsOf(nodes'[k])]
    BY DEF Contents
  <2>3. Contents' = [Contents EXCEPT ![m] = PairsOf(s)]
    BY <2>1, <2>2 DEF Contents
  <2> QED BY <2>3 DEF Abstract!Become
<1> QED BY <1>1, <1>2

LEMMA ContentsStay == nodes' = nodes => Contents' = Contents
BY DEF Contents

(* The instance has the Cardinality of FiniteSets under a name of its own.  *)
LEMMA SameCardinality ==
  ASSUME NEW T
  PROVE  Abstract!Cardinality(T) = Cardinality(T)
BY DEF Cardinality, Abstract!Cardinality

(* The calls by key.                                                        *)
LEMMA KeyedStep ==
  ASSUME NEW m \in Maps, NEW k \in Keys,
         \/ Abstract!Get(m, k) \/ Abstract!GetIndexAtKey(m, k) \/ Abstract!Has(m, k)
         \/ Abstract!Pop(m, k) \/ Abstract!Delete(m, k)
         \/ \E d \in Data : Abstract!Set(m, k, d)
  PROVE  Abstract!Next
BY DEF Abstract!Next

LEMMA CompleteRefines ==
  ASSUME MapsOK, NEW c \in Call, NEW found \in BOOLEAN, NEW i, NEW isSaved \in BOOLEAN,
         Located(c, found, i), Expects(c), Complete(c, found, i, isSaved)
  PROVE  Abstract!Next
<1> DEFINE m == c.map
           k == c.key
           s == nodes[m]
           S == Contents[m]
           p == s[i + 1]
<1>1. /\ m \in Maps /\ k \in Keys /\ k \in Int /\ i \in Nat
      /\ c.op \in {"Get", "GetIndexAtKey", "Pop", "SetExisting"} => found
      /\ c.op = "SetNew" => ~found
      /\ c.op \in {"Set", "SetExisting", "SetNew"} => c.data \in Data
  BY FoundOrNot DEF Located
<1>2. s \in Seq(Node) /\ Ascends(s) /\ S = PairsOf(s) /\ Len(s) \in Nat
  BY <1>1, ContentsOf DEF MapsOK
<1>3. found => /\ i + 1 \in 1..Len(s) /\ i < Len(s) /\ p \in Node /\ p.key = k
               /\ Abstract!With(S, k) = {p}
               /\ Cardinality(Abstract!Before(S, k)) = i
  <2>1. found => i + 1 \in 1..Len(s) /\ i < Len(s) /\ p.key = k
    BY <1>1, <1>2 DEF Located
  <2>2. found => Cardinality(Abstract!Before(S, k)) = (i + 1) - 1
    BY <1>2, <2>1, CountBefore
  <2>3. (i + 1) - 1 = i
    BY <1>1
  <2> QED BY <1>2, <2>1, <2>2, <2>3, WithKey, NodesType
<1>4. ~found => Abstract!With(S, k) = {}
  <2>1. ASSUME ~found, NEW j \in 1..Len(s) PROVE s[j].key # k
    <3>1. s[j].key \in Int
      BY <1>2, NodesType
    <3>2. j \in 1..i \/ j \in (i + 1)..Len(s)
      BY <1>1, <1>2
    <3> QED BY <1>1, <2>1, <3>1, <3>2 DEF Located
  <2>2. DOMAIN s = 1..Len(s)
    BY <1>2
  <2> QED BY <1>2, <2>1, <2>2 DEF Abstract!With, PairsOf
<1> HIDE DEF S
<1>5. CASE c.op \in {"Get", "GetIndexAtKey", "Has"} /\ Reads(c, found, i, isSaved)
  <2>1. Contents' = Contents
    BY <1>5, ContentsStay DEF Reads
  <2>2. CASE c.op = "Get"
    <3>1. Abstract!Get(m, k)
      BY <1>1, <1>3, <1>5, <2>1, <2>2 DEF Reads, At, Abstract!Get, S
    <3> QED BY <1>1, <3>1, KeyedStep
  <2>3. CASE c.op = "GetIndexAtKey"
    <3>1. found /\ result' = Abstract!Returns(k, Nothing, FALSE, i)
      BY <1>1, <1>5, <2>3 DEF Reads
    <3>2. Abstract!With(S, k) # {} /\ Cardinality(Abstract!Before(S, k)) = i
      BY <1>3, <3>1
    <3>3. Abstract!GetIndexAtKey(m, k)
      <4>1. /\ Abstract!With(Contents[m], k) # {}
            /\ Cardinality(Abstract!Before(Contents[m], k)) = i
        BY <3>2 DEF S
      <4>2. result' = Abstract!Returns(k, Nothing, FALSE, Cardinality(Abstract!Before(Contents[m], k)))
        BY <3>1, <4>1
      <4> HIDE DEF m, k
      <4> QED BY ONLY <2>1, <4>1, <4>2, SameCardinality DEF Abstract!GetIndexAtKey
    <3> QED BY <1>1, <3>3, KeyedStep
  <2>4. CASE c.op = "Has"
    <3>1. found <=> Abstract!With(S, k) # {}
      BY <1>3, <1>4
    <3>2. Abstract!Has(m, k)
      BY <1>5, <2>1, <2>4, <3>1 DEF Reads, Abstract!Has, S
    <3> QED BY <1>1, <3>2, KeyedStep
  <2> QED BY <1>5, <2>2, <2>3, <2>4
<1>6. CASE c.op \in {"Pop", "Delete"} /\ Removes(c, found, i)
  <2>1. CASE found
    <3>1. nodes' = [nodes EXCEPT ![m] = Removed(s, i)]
      BY <1>6, <2>1 DEF Removes
    <3>2. Abstract!Become(m, S \ {p})
      <4>1. PairsOf(Removed(s, i)) = S \ {p}
        BY <1>1, <1>2, <1>3, <2>1, PairsRemoved
      <4>2. Abstract!Become(m, PairsOf(Removed(s, i)))
        BY <1>1, <3>1, ContentsOf
      <4> QED BY <4>1, <4>2
    <3>3. CASE c.op = "Pop"
      <4>1. Abstract!Pop(m, k)
        BY <1>3, <1>6, <2>1, <3>2, <3>3 DEF Removes, At, Abstract!Pop, S
      <4> QED BY <1>1, <4>1, KeyedStep
    <3>4. CASE c.op = "Delete"
      <4>1. Abstract!Delete(m, k)
        BY <1>3, <1>6, <2>1, <3>2, <3>4 DEF Removes, Abstract!Delete, S
      <4> QED BY <1>1, <4>1, KeyedStep
    <3> QED BY <1>6, <3>3, <3>4
  <2>2. CASE ~found
    <3>1. c.op = "Delete" /\ nodes' = nodes
      BY <1>1, <1>6, <2>2 DEF Removes
    <3>2. nodes' = [nodes EXCEPT ![m] = s]
      BY <1>1, <3>1 DEF MapsOK
    <3>3. Abstract!Become(m, S)
      BY <1>1, <1>2, <3>2, ContentsOf
    <3>4. Abstract!Delete(m, k)
      <4>1. S \ Abstract!With(S, k) = S
        BY <1>4, <2>2
      <4> QED BY <1>4, <1>6, <2>2, <3>1, <3>3, <4>1 DEF Removes, Abstract!Delete, S
    <3> QED BY <1>1, <3>4, KeyedStep
  <2> QED BY <2>1, <2>2
<1>7. CASE c.op \in {"Set", "SetExisting", "SetNew"} /\ Stores(c, found, i, isSaved)
  <2> DEFINE n == [key |-> k, data |-> c.data]
  <2>1. c.data \in Data /\ n \in Node
    BY <1>1, <1>7 DEF Node
  <2>2. Abstract!Become(m, (S \ Abstract!With(S, k)) \cup {n})
    <3>1. CASE found
      <4>1. [p EXCEPT !.data = c.data] = n
        BY <1>3, <3>1 DEF Node
      <4>2. [s EXCEPT ![i + 1].data = c.data] = [s EXCEPT ![i + 1] = n]
        BY <1>2, <1>3, <3>1, <4>1
      <4>3. nodes' = [nodes EXCEPT ![m] = [s EXCEPT ![i + 1] = n]]
        BY <1>7, <3>1, <4>2 DEF Stores
      <4> HIDE DEF n
      <4>4. PairsOf([s EXCEPT ![i + 1] = n]) = (S \ {p}) \cup {n}
        <5> DEFINE j == i + 1
        <5>1. s \in Seq(Node) /\ Ascends(s) /\ j \in 1..Len(s)
          BY <1>2, <1>3, <3>1
        <5> HIDE DEF s, j
        <5>2. PairsOf([s EXCEPT ![j] = n]) = (PairsOf(s) \ {s[j]}) \cup {n}
          BY ONLY <5>1, PairsReplaced
        <5> QED BY <1>2, <5>2 DEF s, j
      <4>5. Abstract!Become(m, PairsOf([s EXCEPT ![i + 1] = n]))
        BY <1>1, <4>3, ContentsOf
      <4> QED BY <1>3, <3>1, <4>4, <4>5
    <3>2. CASE ~found
      <4>1. nodes' = [nodes EXCEPT ![m] = Inserted(s, i, n)]
        BY <1>7, <3>2 DEF Stores
      <4> HIDE DEF n
      <4>2. i <= Len(s)
        BY <3>2 DEF Located
      <4>3. PairsOf(Inserted(s, i, n)) = S \cup {n}
        BY <1>1, <1>2, <2>1, <4>2, PairsInserted
      <4>4. (S \ Abstract!With(S, k)) \cup {n} = S \cup {n}
        BY <1>4, <3>2
      <4>5. Abstract!Become(m, PairsOf(Inserted(s, i, n)))
        BY <1>1, <4>1, ContentsOf
      <4> QED BY <4>3, <4>4, <4>5
    <3> QED BY <3>1, <3>2
  <2>3. Abstract!Set(m, k, c.data)
    BY <1>7, <2>2 DEF Stores, Abstract!Set, S
  <2> QED BY <1>1, <2>1, <2>3, KeyedStep
<1> QED BY <1>5, <1>6, <1>7 DEF Complete

(* The other calls, and the steps between them.                             *)
LEMMA ByIndexRefines ==
  ASSUME MapsOK, NEW m \in Maps, NEW i \in Nat, GetAtIndex(m, i)
  PROVE  Abstract!Next
<1> DEFINE s == nodes[m]
           n == s[i + 1]
<1>1. s \in Seq(Node) /\ Ascends(s) /\ Len(s) \in Nat /\ i < Len(s)
  BY DEF MapsOK, GetAtIndex, Size
<1>2. i + 1 \in 1..Len(s) /\ (i + 1) - 1 = i
  BY <1>1
<1>3. n \in Contents[m] /\ Contents[m] = PairsOf(s)
  BY <1>1, <1>2, ContentsOf DEF PairsOf
<1>4. Cardinality(Abstract!Before(Contents[m], n.key)) = i
  BY <1>1, <1>2, <1>3, CountBefore
<1>5. Contents' = Contents /\ result' = Abstract!Returns(n.key, n.data, FALSE, 0)
  BY ContentsStay DEF GetAtIndex, At
<1> HIDE DEF s, n
<1>6. Abstract!GetAtIndex(m, i)
  BY <1>3, <1>4, <1>5, SameCardinality DEF Abstract!GetAtIndex
<1>7. i \in 0..Abstract!Cardinality(Contents[m])
  BY <1>1, <1>3, AllPairs, SameCardinality
<1> QED BY <1>6, <1>7 DEF Abstract!Next

LEMMA RemoveAtIndexRefines ==
  ASSUME MapsOK, NEW m \in Maps, NEW i \in Nat, RemoveAtIndex(m, i)
  PROVE  Abstract!Next
<1> DEFINE s == nodes[m]
<1>1. s \in Seq(Node) /\ Ascends(s) /\ Len(s) \in Nat /\ Contents[m] = PairsOf(s)
  BY ContentsOf DEF MapsOK
<1>2. result' = Abstract!NoResult
  BY DEF RemoveAtIndex
<1>3. CASE i < Len(s)
  <2>1. Abstract!Become(m, PairsOf(Removed(s, i)))
    <3>1. nodes' = [nodes EXCEPT ![m] = Removed(s, i)]
      BY <1>3 DEF RemoveAtIndex
    <3> QED BY <3>1, ContentsOf
  <2> HIDE DEF s
  <2>2. PairsOf(Removed(s, i)) = PairsOf(s) \ {s[i + 1]}
    BY <1>1, <1>3, PairsRemoved
  <2>3. ASSUME NEW p \in PairsOf(s)
        PROVE  Cardinality(Abstract!Before(PairsOf(s), p.key)) = i <=> p = s[i + 1]
    <3>1. PICK j \in 1..Len(s) : p = s[j]
      BY <1>1 DEF PairsOf
    <3>2. Cardinality(Abstract!Before(PairsOf(s), p.key)) = j - 1
      BY <1>1, <3>1, CountBefore
    <3>3. i + 1 \in 1..Len(s)
      BY <1>1, <1>3
    <3>4. s[j] = s[i + 1] => j = i + 1
      BY <1>1, <3>3, AscendsMeaning
    <3>5. j - 1 = i <=> j = i + 1
      BY <3>1
    <3> QED BY <3>1, <3>2, <3>4, <3>5
  <2>4. {p \in PairsOf(s) : Cardinality(Abstract!Before(PairsOf(s), p.key)) # i}
          = PairsOf(s) \ {s[i + 1]}
    BY <2>3
  <2>5. Abstract!RemoveAtIndex(m, i)
    BY <1>1, <1>2, <2>1, <2>2, <2>4, SameCardinality DEF Abstract!RemoveAtIndex
  <2>6. i \in 0..Abstract!Cardinality(Contents[m])
    BY <1>1, <1>3, AllPairs, SameCardinality
  <2> QED BY <2>5, <2>6 DEF Abstract!Next
<1>4. CASE ~(i < Len(s))
  <2>1. nodes' = nodes
    BY <1>4 DEF RemoveAtIndex, MapsOK
  <2> QED BY <1>2, <2>1, ContentsStay DEF Abstract!Next, Abstract!Begin
<1> QED BY <1>3, <1>4

LEMMA ReplacedRefines ==
  ASSUME MapsOK, NEW m \in Maps, NEW from \in Maps, Clear(m) \/ Assign(m, from)
  PROVE  Abstract!Next
<1>1. CASE Clear(m)
  <2>1. Abstract!Become(m, PairsOf(<<>>))
    BY <1>1, ContentsOf DEF Clear
  <2>2. PairsOf(<<>>) = {}
    BY DEF PairsOf
  <2>3. Abstract!Become(m, {})
    BY <2>1, <2>2
  <2>4. Abstract!Clear(m)
    BY <1>1, <2>3 DEF Clear, Abstract!Clear
  <2> QED BY <2>4 DEF Abstract!Next
<1>2. CASE Assign(m, from)
  <2>1. Abstract!Become(m, PairsOf(nodes[from])) /\ Contents[from] = PairsOf(nodes[from])
    BY <1>2, ContentsOf DEF Assign
  <2>2. Abstract!Assign(m, from)
    BY <1>2, <2>1 DEF Assign, Abstract!Assign
  <2> QED BY <2>2 DEF Abstract!Next
<1> QED BY <1>1, <1>2

LEMMA NextRefines == Inv /\ [Next]_vars => [Abstract!Next]_(Abstract!vars)
<1> SUFFICES ASSUME Inv, [Next]_vars PROVE Abstract!Next \/ UNCHANGED Abstract!vars
  OBVIOUS
<1>1. MapsOK
  BY MapsOKMeaning
<1>2. CASE Hit
  BY <1>2, HitConcludes, CompleteRefines DEF Concludes
<1>3. CASE Miss
  BY <1>3, MissConcludes, CompleteRefines DEF Concludes
<1>4. CASE Halve \/ UNCHANGED vars
  BY <1>4, ContentsStay DEF Halve, vars, Abstract!vars
<1>5. ASSUME NEW c \in Call, CallSaved(c) PROVE Abstract!Next
  BY <1>5, CallSavedConcludes, CompleteRefines DEF Concludes
<1>6. ASSUME NEW c \in Call, CallEmpty(c) PROVE Abstract!Next
  BY <1>6, CallEmptyConcludes, CompleteRefines DEF Concludes
<1>7. ASSUME NEW c \in Call, CallSearches(c) PROVE Abstract!Next
  BY <1>7, ContentsStay DEF CallSearches, Abstract!Next, Abstract!Begin
<1>8. ASSUME NEW m \in Maps, NEW i \in 0..MaxNodes, GetAtIndex(m, i) \/ RemoveAtIndex(m, i)
      PROVE  Abstract!Next
  BY <1>1, <1>8, ByIndexRefines, RemoveAtIndexRefines
<1>9. ASSUME NEW m \in Maps, NEW from \in Maps, Clear(m) \/ Assign(m, from)
      PROVE  Abstract!Next
  BY <1>1, <1>9, ReplacedRefines
<1>10. ASSUME NEW m \in Maps, Clear(m) PROVE Abstract!Next
  BY <1>9, <1>10
<1> QED BY <1>2, <1>3, <1>4, <1>5, <1>6, <1>7, <1>8, <1>9, <1>10 DEF Next, Round, User

LEMMA InitRefines == Init => Abstract!Init
<1> SUFFICES ASSUME Init PROVE Abstract!Init
  OBVIOUS
<1>1. \A m \in Maps : PairsOf(nodes[m]) = {}
  BY DEF Init, PairsOf
<1> QED BY <1>1 DEF Init, Abstract!Init, Contents

(* Whatever its keys and its size, and whether a call searches or uses the  *)
(* saved result, a map is to its callers a set of pairs with one pair for a *)
(* key, ordered by key (DS_Map.h:95-311).                                   *)
THEOREM MapImplementsStore == Spec => ImplementsKeyedStore
<1>1. Inv /\ [Next]_vars => [Abstract!Next]_(Abstract!vars)
  BY NextRefines
<1> QED BY <1>1, InitRefines, Invariance, PTL DEF Spec, ImplementsKeyedStore, Abstract!Spec

-----------------------------------------------------------------------------
HIDE KeyAssumption
USE ItemAssumption, SizeAssumption

-----------------------------------------------------------------------------
(* The sequences of SequenceStore.                                          *)

LEMMA InsertedAtIs ==
  ASSUME NEW T, NEW s \in Seq(T), NEW i \in 0..Len(s), NEW x \in T
  PROVE  LET t == Store!InsertedAt(s, i, x) IN
         /\ t \in Seq(T) /\ Len(t) = Len(s) + 1
         /\ \A k \in 1..(Len(s) + 1) :
              t[k] = IF k <= i THEN s[k] ELSE IF k = i + 1 THEN x ELSE s[k - 1]
<1> DEFINE n == Len(s)
           t == Store!InsertedAt(s, i, x)
<1>1. n \in Nat /\ \A k \in 1..n : s[k] \in T
  BY LenProperties, ElementOfSeq
<1>2. t = [k \in 1..(n + 1) |-> IF k <= i THEN s[k] ELSE IF k = i + 1 THEN x ELSE s[k - 1]]
  BY DEF Store!InsertedAt
<1> HIDE DEF t, n
<1>3. i \in 0..n
  BY DEF n
<1>4. \A k \in 1..(n + 1) :
        (IF k <= i THEN s[k] ELSE IF k = i + 1 THEN x ELSE s[k - 1]) \in T
  <2> TAKE k \in 1..(n + 1)
  <2>1. CASE k <= i
    BY <1>1, <1>3, <2>1
  <2>2. CASE k = i + 1
    BY <1>1, <1>3, <2>2
  <2>3. CASE k > i + 1
    <3>1. k - 1 \in 1..n
      BY <1>1, <1>3, <2>3
    <3> QED BY <1>1, <1>3, <2>3, <3>1
  <2> QED BY <1>1, <1>3, <2>1, <2>2, <2>3
<1>5. t \in Seq(T) /\ DOMAIN t = 1..(n + 1)
  BY <1>1, <1>2, <1>4, IsASeq
<1>6. Len(t) = n + 1
  BY <1>1, <1>5, LenProperties
<1> QED BY <1>2, <1>5, <1>6 DEF n, t

LEMMA RemovedAtIs ==
  ASSUME NEW T, NEW s \in Seq(T), NEW i \in 0..(Len(s) - 1)
  PROVE  LET t == Store!RemovedAt(s, i) IN
         /\ t \in Seq(T) /\ Len(t) = Len(s) - 1
         /\ \A k \in 1..(Len(s) - 1) : t[k] = IF k <= i THEN s[k] ELSE s[k + 1]
<1> DEFINE n == Len(s)
           t == Store!RemovedAt(s, i)
<1>1. n \in Nat /\ \A k \in 1..n : s[k] \in T
  BY LenProperties, ElementOfSeq
<1>2. t = [k \in 1..(n - 1) |-> IF k <= i THEN s[k] ELSE s[k + 1]]
  BY DEF Store!RemovedAt
<1> HIDE DEF t, n
<1>3. i \in 0..(n - 1) /\ n - 1 \in Nat
  <2>1. i \in 0..(n - 1)
    BY DEF n
  <2> QED BY <1>1, <2>1
<1>4. \A k \in 1..(n - 1) : (IF k <= i THEN s[k] ELSE s[k + 1]) \in T
  <2> TAKE k \in 1..(n - 1)
  <2>1. k \in 1..n /\ k + 1 \in 1..n
    BY <1>1, <1>3
  <2> QED BY <1>1, <2>1
<1>5. t \in Seq(T) /\ DOMAIN t = 1..(n - 1)
  BY <1>2, <1>3, <1>4, IsASeq
<1>6. Len(t) = n - 1
  BY <1>3, <1>5, LenProperties
<1> QED BY <1>2, <1>5, <1>6 DEF n, t

LEMMA IsInserted ==
  ASSUME NEW T, NEW s \in Seq(T), NEW i \in 0..Len(s), NEW x \in T,
         NEW r \in Seq(T), Len(r) = Len(s) + 1,
         \A k \in 1..(Len(s) + 1) :
           r[k] = IF k <= i THEN s[k] ELSE IF k = i + 1 THEN x ELSE s[k - 1]
  PROVE  r = Store!InsertedAt(s, i, x)
<1> DEFINE t == Store!InsertedAt(s, i, x)
<1>1. t \in Seq(T)
  BY InsertedAtIs
<1>2. Len(t) = Len(s) + 1
  BY InsertedAtIs
<1>3. \A k \in 1..(Len(s) + 1) :
        t[k] = IF k <= i THEN s[k] ELSE IF k = i + 1 THEN x ELSE s[k - 1]
  BY InsertedAtIs
<1> HIDE DEF t
<1>4. \A k \in 1..Len(r) : r[k] = t[k]
  BY <1>3
<1>5. r = t
  BY <1>1, <1>2, <1>4, SeqEqual
<1> QED BY <1>5 DEF t

LEMMA IsRemoved ==
  ASSUME NEW T, NEW s \in Seq(T), NEW i \in 0..(Len(s) - 1),
         NEW r \in Seq(T), Len(r) = Len(s) - 1,
         \A k \in 1..(Len(s) - 1) : r[k] = IF k <= i THEN s[k] ELSE s[k + 1]
  PROVE  r = Store!RemovedAt(s, i)
<1> DEFINE t == Store!RemovedAt(s, i)
<1>1. t \in Seq(T)
  BY RemovedAtIs
<1>2. Len(t) = Len(s) - 1
  BY RemovedAtIs
<1>3. \A k \in 1..(Len(s) - 1) : t[k] = IF k <= i THEN s[k] ELSE s[k + 1]
  BY RemovedAtIs
<1> HIDE DEF t
<1>4. \A k \in 1..Len(r) : r[k] = t[k]
  BY <1>3
<1>5. r = t
  BY <1>1, <1>2, <1>4, SeqEqual
<1> QED BY <1>5 DEF t

-----------------------------------------------------------------------------
(* The record a queue is, and what holds of its fields between calls.       *)

QueueForm(q) ==
  q \in [pointer : {q.pointer}, array : {q.array}, head : {q.head}, tail : {q.tail},
         allocation_size : {q.allocation_size}]
GoodQueue(q) == QueueForm(q) /\ Queue!QueueOK(q)
CellValue == Items \cup {Garbage}

LEMMA QueueFields ==
  ASSUME NEW q, GoodQueue(q)
  PROVE  /\ q.allocation_size \in Nat /\ q.head \in Nat /\ q.tail \in Nat
         /\ q.allocation_size = 0 => q.head = 0 /\ q.tail = 0
         /\ q.allocation_size > 0 =>
              /\ q.pointer = "owned"
              /\ q.head \in 0..(q.allocation_size - 1) /\ q.tail \in 0..(q.allocation_size - 1)
              /\ q.array \in [0..(q.allocation_size - 1) -> CellValue]
BY DEF GoodQueue, Queue!QueueOK, Queue!Cells, CellValue, Queue!Garbage, Garbage

LEMMA GoodFromFields ==
  ASSUME NEW q, QueueForm(q), q.pointer = "owned",
         NEW n \in Nat \ {0}, q.allocation_size = n,
         q.head \in 0..(n - 1), q.tail \in 0..(n - 1), q.array \in [0..(n - 1) -> CellValue]
  PROVE  GoodQueue(q)
BY DEF GoodQueue, Queue!QueueOK, Queue!Cells, CellValue, Queue!Garbage, Garbage, Queue!Pointers

LEMMA SizeIs ==
  ASSUME NEW q, GoodQueue(q)
  PROVE  /\ Queue!Size(q) \in Nat
         /\ q.allocation_size = 0 => Queue!Size(q) = 0
         /\ q.allocation_size > 0 => Queue!Size(q) < q.allocation_size
         /\ Queue!Size(q) = 0 => q.head = q.tail
         /\ q.head = q.tail => Queue!Size(q) = 0
BY QueueFields DEF Queue!Size

LEMMA SlotIn ==
  ASSUME NEW q, GoodQueue(q), q.allocation_size > 0, NEW k \in 0..(q.allocation_size - 1)
  PROVE  Queue!Slot(q, k) \in 0..(q.allocation_size - 1)
BY QueueFields DEF Queue!Slot

LEMMA SlotsDiffer ==
  ASSUME NEW q, GoodQueue(q), q.allocation_size > 0, NEW j \in 0..(q.allocation_size - 1),
         NEW k \in 0..(q.allocation_size - 1), j # k
  PROVE  Queue!Slot(q, j) # Queue!Slot(q, k)
BY QueueFields DEF Queue!Slot

LEMMA SlotOfSize ==
  ASSUME NEW q, GoodQueue(q), q.allocation_size > 0
  PROVE  Queue!Slot(q, Queue!Size(q)) = q.tail
BY QueueFields DEF Queue!Slot, Queue!Size

LEMMA ContentsIs ==
  ASSUME NEW q, GoodQueue(q)
  PROVE  /\ Queue!Contents(q) \in Seq(CellValue)
         /\ Len(Queue!Contents(q)) = Queue!Size(q)
         /\ DOMAIN Queue!Contents(q) = 1..Queue!Size(q)
         /\ \A k \in 1..Queue!Size(q) : Queue!Contents(q)[k] = q.array[Queue!Slot(q, k - 1)]
<1> DEFINE n == Queue!Size(q)
           e == q.allocation_size
<1>1. n \in Nat /\ e \in Nat /\ (e = 0 => n = 0) /\ (e > 0 => n < e)
  BY SizeIs, QueueFields
<1> HIDE DEF n, e
<1>2. \A k \in 1..n : q.array[Queue!Slot(q, k - 1)] \in CellValue
  <2> TAKE k \in 1..n
  <2>1. e > 0 /\ k - 1 \in 0..(e - 1)
    BY <1>1
  <2>2. Queue!Slot(q, k - 1) \in 0..(e - 1)
    BY <2>1, SlotIn DEF e
  <2> QED BY <2>1, <2>2, QueueFields DEF e
<1> DEFINE f == [k \in 1..n |-> q.array[Queue!Slot(q, k - 1)]]
<1>3. f \in Seq(CellValue)
  BY <1>1, <1>2, IsASeq
<1>4. DOMAIN f = 1..n
  OBVIOUS
<1>5. Len(f) = n
  BY <1>1, <1>3, <1>4, LenProperties
<1>6. Queue!Contents(q) = f
  BY DEF Queue!Contents, n
<1> HIDE DEF f
<1>7. \A k \in 1..n : f[k] = q.array[Queue!Slot(q, k - 1)]
  BY DEF f
<1> QED BY <1>3, <1>4, <1>5, <1>6, <1>7 DEF n

(* Nothing else makes contents equal.                                       *)
LEMMA ContentsEqual ==
  ASSUME NEW q, GoodQueue(q), NEW s, NEW n \in Nat, Queue!Size(q) = n,
         NEW T, s \in Seq(T), Len(s) = n,
         \A k \in 1..n : q.array[Queue!Slot(q, k - 1)] = s[k]
  PROVE  Queue!Contents(q) = s
<1>1. /\ Queue!Contents(q) \in Seq(CellValue) /\ Len(Queue!Contents(q)) = n
      /\ \A k \in 1..n : Queue!Contents(q)[k] = s[k]
  BY ContentsIs
<1> QED BY <1>1, SeqEqual

LEMMA NoItems ==
  ASSUME NEW q, GoodQueue(q), Queue!Size(q) = 0 PROVE Queue!Contents(q) = <<>>
<1>1. Queue!Contents(q) \in Seq(CellValue) /\ Len(Queue!Contents(q)) = 0
  BY ContentsIs
<1> QED BY <1>1, EmptySeq
-----------------------------------------------------------------------------
(* New arrays.                                                              *)

LEMMA AllocatedIs ==
  ASSUME NEW n \in Nat
  PROVE  LET q == Queue!Allocated(n) IN
         GoodQueue(q) /\ Queue!Size(q) = 0 /\ q.pointer = "owned" /\ Queue!Contents(q) = <<>>
<1> DEFINE q == Queue!Allocated(n)
<1>1. /\ QueueForm(q) /\ q.pointer = "owned" /\ q.head = 0 /\ q.tail = 0 /\ q.allocation_size = n
      /\ q.array = Queue!New(n)
  BY DEF Queue!Allocated, Queue!Filled, QueueForm
<1> HIDE DEF q
<1>2. Queue!New(n) \in [Queue!Cells(n) -> Items \cup {Queue!Garbage}]
  BY DEF Queue!New
<1>3. GoodQueue(q)
  BY <1>1, <1>2 DEF GoodQueue, Queue!QueueOK, Queue!Pointers, Queue!Cells
<1>4. Queue!Size(q) = 0
  BY <1>1, <1>3, SizeIs
<1> QED BY <1>1, <1>3, <1>4, NoItems DEF q

LEMMA WithoutArray ==
  ASSUME NEW q, QueueForm(q), q.pointer \in Queue!Pointers \ {"null"},
         q.head = 0, q.tail = 0, q.allocation_size = 0
  PROVE  GoodQueue(q) /\ Queue!Size(q) = 0 /\ Queue!Contents(q) = <<>>
<1>1. GoodQueue(q)
  BY DEF GoodQueue, Queue!QueueOK
<1>2. Queue!Size(q) = 0
  BY <1>1, SizeIs
<1> QED BY <1>1, <1>2, NoItems

LEMMA BlankIs ==
  LET q == Queue!Blank IN
  GoodQueue(q) /\ Queue!Size(q) = 0 /\ q.pointer = "unset" /\ Queue!Contents(q) = <<>>
<1> DEFINE q == Queue!Blank
<1>1. QueueForm(q) /\ q.pointer = "unset" /\ q.head = 0 /\ q.tail = 0 /\ q.allocation_size = 0
  BY DEF Queue!Blank, Queue!Absent, QueueForm
<1> HIDE DEF q
<1>2. q.pointer \in Queue!Pointers \ {"null"}
  BY <1>1 DEF Queue!Pointers
<1> QED BY <1>1, <1>2, WithoutArray DEF q

LEMMA AbsentIs ==
  LET q == Queue!Absent IN
  GoodQueue(q) /\ Queue!Size(q) = 0 /\ q.pointer = "absent" /\ Queue!Contents(q) = <<>>
<1> DEFINE q == Queue!Absent
<1>1. QueueForm(q) /\ q.pointer = "absent" /\ q.head = 0 /\ q.tail = 0 /\ q.allocation_size = 0
  BY DEF Queue!Absent, QueueForm
<1> HIDE DEF q
<1>2. q.pointer \in Queue!Pointers \ {"null"}
  BY <1>1 DEF Queue!Pointers
<1> QED BY <1>1, <1>2, WithoutArray DEF q

(* A queue is empty after Clear.  It may own nothing then.                  *)
LEMMA ClearedIs ==
  ASSUME NEW q, GoodQueue(q), q.pointer # "absent"
  PROVE  LET r == Queue!Cleared(q) IN
         /\ GoodQueue(r) /\ Queue!Size(r) = 0 /\ r.pointer # "absent" /\ r.head = 0 /\ r.tail = 0
         /\ Queue!Contents(r) = <<>>
<1> DEFINE r == Queue!Cleared(q)
<1>1. CASE q.allocation_size = 0
  <2>1. r = q /\ q.head = 0 /\ q.tail = 0
    BY <1>1, QueueFields DEF Queue!Cleared
  <2>2. Queue!Size(q) = 0
    BY <1>1, SizeIs
  <2> QED BY <2>1, <2>2, NoItems
<1>2. CASE q.allocation_size # 0 /\ q.allocation_size > Large
  <2>1. r = [Queue!Absent EXCEPT !.pointer = "freed"]
    BY <1>2 DEF Queue!Cleared
  <2>2. QueueForm(r) /\ r.pointer = "freed" /\ r.head = 0 /\ r.tail = 0 /\ r.allocation_size = 0
    BY <2>1 DEF Queue!Absent, QueueForm
  <2> HIDE DEF r
  <2>3. r.pointer \in Queue!Pointers \ {"null"}
    BY <2>2 DEF Queue!Pointers
  <2>4. GoodQueue(r) /\ Queue!Size(r) = 0 /\ Queue!Contents(r) = <<>>
    BY <2>2, <2>3, WithoutArray
  <2> QED BY <2>2, <2>4 DEF r
<1>3. CASE q.allocation_size # 0 /\ ~(q.allocation_size > Large)
  <2>1. r = Queue!Allocated(q.allocation_size) /\ q.allocation_size \in Nat
    BY <1>3, QueueFields DEF Queue!Cleared
  <2>2. r.head = 0 /\ r.tail = 0
    BY <2>1 DEF Queue!Allocated, Queue!Filled
  <2> QED BY <2>1, <2>2, AllocatedIs
<1> QED BY <1>1, <1>2, <1>3

LEMMA ForgottenIs ==
  ASSUME NEW q, GoodQueue(q), q.head = 0, q.tail = 0
  PROVE  LET r == [q EXCEPT !.allocation_size = 0] IN
         GoodQueue(r) /\ r.pointer = q.pointer /\ Queue!Size(r) = 0 /\ Queue!Contents(r) = <<>>
<1> DEFINE r == [q EXCEPT !.allocation_size = 0]
<1>1. QueueForm(r) /\ r.pointer = q.pointer /\ r.head = 0 /\ r.tail = 0 /\ r.allocation_size = 0
  BY DEF GoodQueue, QueueForm
<1> HIDE DEF r
<1>2. r.pointer \in Queue!Pointers \ {"null"}
  BY <1>1 DEF GoodQueue, Queue!QueueOK
<1>3. GoodQueue(r) /\ Queue!Size(r) = 0 /\ Queue!Contents(r) = <<>>
  BY <1>1, <1>2, WithoutArray
<1> QED BY <1>1, <1>3 DEF r

(* A new array holds the items, in order, from its first cell.              *)
LEMMA MovedIs ==
  ASSUME NEW q, GoodQueue(q), NEW n \in Nat, n > Queue!Size(q)
  PROVE  LET r == Queue!Moved(q, n) IN
         /\ GoodQueue(r) /\ Queue!Size(r) = Queue!Size(q) /\ r.pointer = "owned"
         /\ Queue!Contents(r) = Queue!Contents(q)
<1> DEFINE r == Queue!Moved(q, n)
           m == Queue!Size(q)
           a == [i \in 0..(n - 1) |-> IF i < m THEN q.array[Queue!Slot(q, i)] ELSE Garbage]
<1>1. /\ QueueForm(r) /\ r.pointer = "owned" /\ r.head = 0 /\ r.tail = m
      /\ r.allocation_size = n /\ r.array = a
  BY DEF Queue!Moved, Queue!Filled, QueueForm, Queue!Cells, Queue!Garbage, Garbage
<1>2. m \in Nat /\ n > 0 /\ m \in 0..(n - 1)
  BY SizeIs
<1>3. \A i \in 0..(n - 1) : i < m => q.array[Queue!Slot(q, i)] = Queue!Contents(q)[i + 1]
  <2> TAKE i \in 0..(n - 1)
  <2> HAVE i < m
  <2>1. i + 1 \in 1..m /\ (i + 1) - 1 = i
    BY <1>2
  <2> QED BY <2>1, ContentsIs
<1>4. /\ Queue!Contents(q) \in Seq(CellValue) /\ Len(Queue!Contents(q)) = m
  BY ContentsIs
<1> HIDE DEF m, r
<1>5. \A i \in 0..(n - 1) : a[i] = IF i < m THEN Queue!Contents(q)[i + 1] ELSE Garbage
  BY <1>3
<1>6. a \in [0..(n - 1) -> CellValue]
  <2>1. \A i \in 0..(n - 1) : i < m => Queue!Contents(q)[i + 1] \in CellValue
    BY <1>2, <1>4, ElementOfSeq
  <2>2. \A i \in 0..(n - 1) : (IF i < m THEN q.array[Queue!Slot(q, i)] ELSE Garbage) \in CellValue
    BY <1>3, <2>1 DEF CellValue
  <2> QED BY <2>2
<1> HIDE DEF a
<1>7. GoodQueue(r)
  BY <1>1, <1>2, <1>6, GoodFromFields
<1>8. Queue!Size(r) = m
  BY <1>1, <1>2 DEF Queue!Size
<1>9. \A k \in 1..m : r.array[Queue!Slot(r, k - 1)] = Queue!Contents(q)[k]
  <2> TAKE k \in 1..m
  <2>1. Queue!Slot(r, k - 1) = k - 1 /\ k - 1 \in 0..(n - 1) /\ k - 1 < m /\ (k - 1) + 1 = k
    BY <1>1, <1>2 DEF Queue!Slot
  <2> QED BY <1>1, <1>5, <2>1
<1>10. Queue!Contents(r) = Queue!Contents(q)
  BY <1>2, <1>4, <1>7, <1>8, <1>9, ContentsEqual
<1> QED BY <1>1, <1>7, <1>8, <1>10 DEF m, r
-----------------------------------------------------------------------------
(* A queue grows by one.                                                    *)

(* When p's tail has come round to its head, its n items fill the array.    *)
LEMMA GrownIs ==
  ASSUME NEW p, GoodQueue(p), p.allocation_size > 0,
         NEW n \in Nat, n = IF p.tail = p.head THEN p.allocation_size ELSE Queue!Size(p)
  PROVE  LET r == Queue!Grown(p) IN
         /\ GoodQueue(r) /\ Queue!Size(r) = n /\ r.pointer = "owned"
         /\ \A k \in 1..n : r.array[Queue!Slot(r, k - 1)] = p.array[Queue!Slot(p, k - 1)]
<1> DEFINE r == Queue!Grown(p)
           e == p.allocation_size
           a == [i \in 0..(2 * e - 1) |-> IF i < e THEN p.array[Queue!Slot(p, i)] ELSE Garbage]
<1>1. CASE p.tail # p.head
  <2>1. r = p /\ n = Queue!Size(p) /\ p.pointer = "owned"
    BY <1>1, QueueFields DEF Queue!Grown
  <2> HIDE DEF r
  <2> QED BY <2>1 DEF r
<1>2. CASE p.tail = p.head
  <2>1. /\ QueueForm(r) /\ r.pointer = "owned" /\ r.head = 0 /\ r.tail = e
        /\ r.allocation_size = 2 * e /\ r.array = a
    BY <1>2 DEF Queue!Grown, Queue!Doubled, Queue!Filled, QueueForm, Queue!Cells, Queue!Garbage,
                Garbage
  <2>2. e \in Nat \ {0} /\ n = e
    BY <1>2, QueueFields
  <2>3. \A i \in 0..(e - 1) : p.array[Queue!Slot(p, i)] \in CellValue
    BY SlotIn, QueueFields
  <2> HIDE DEF r
  <2>4. a \in [0..(2 * e - 1) -> CellValue] /\ \A i \in 0..(e - 1) : a[i] = p.array[Queue!Slot(p, i)]
    <3>1. \A i \in 0..(2 * e - 1) :
            (IF i < e THEN p.array[Queue!Slot(p, i)] ELSE Garbage) \in CellValue
      BY <2>2, <2>3 DEF CellValue
    <3>2. \A i \in 0..(e - 1) : i \in 0..(2 * e - 1) /\ i < e
      BY <2>2
    <3> QED BY <3>1, <3>2
  <2> HIDE DEF a, e
  <2>5. 2 * e \in Nat \ {0} /\ 0 \in 0..(2 * e - 1) /\ e \in 0..(2 * e - 1)
    BY <2>2
  <2>6. GoodQueue(r)
    BY <2>1, <2>4, <2>5, GoodFromFields
  <2>7. Queue!Size(r) = n
    BY <2>1, <2>2 DEF Queue!Size
  <2>8. \A k \in 1..n : r.array[Queue!Slot(r, k - 1)] = p.array[Queue!Slot(p, k - 1)]
    <3> TAKE k \in 1..n
    <3>1. Queue!Slot(r, k - 1) = k - 1 /\ k - 1 \in 0..(e - 1)
      BY <2>1, <2>2 DEF Queue!Slot
    <3> QED BY <2>1, <2>4, <3>1
  <2> QED BY <2>1, <2>6, <2>7, <2>8 DEF r
<1> QED BY <1>1, <1>2

LEMMA RingGrows ==
  ASSUME NEW h \in Nat, NEW t \in Nat, NEW e \in Nat, h < e, t < e,
         NEW u, u = IF t + 1 = e THEN 0 ELSE t + 1
  PROVE  (IF h <= t THEN t - h ELSE e - h + t) + 1 =
           IF u = h THEN e ELSE IF h <= u THEN u - h ELSE e - h + u
OBVIOUS

LEMMA PushedFields ==
  ASSUME NEW q, GoodQueue(q), NEW x
  PROVE  LET p == Queue!Pushed(q, x) IN
         /\ QueueForm(p)
         /\ p.pointer = q.pointer /\ p.head = q.head /\ p.allocation_size = q.allocation_size
         /\ p.tail = Queue!After(q, q.tail)
         /\ p.array = [q.array EXCEPT ![q.tail] = x]
BY DEF GoodQueue, QueueForm, Queue!Pushed

LEMMA PushedIs ==
  ASSUME NEW q, GoodQueue(q), q.allocation_size > 0, NEW x \in Items
  PROVE  LET r == Queue!Grown(Queue!Pushed(q, x)) IN
         /\ GoodQueue(r) /\ Queue!Size(r) = Queue!Size(q) + 1 /\ r.pointer = "owned"
         /\ Queue!Contents(r) = Store!InsertedAt(Queue!Contents(q), Queue!Size(q), x)
<1> DEFINE p == Queue!Pushed(q, x)
           r == Queue!Grown(p)
           e == q.allocation_size
           m == Queue!Size(q)
           t == Store!InsertedAt(Queue!Contents(q), m, x)
<1>1. /\ QueueForm(p)
      /\ p.pointer = q.pointer /\ p.head = q.head /\ p.allocation_size = e
      /\ p.tail = Queue!After(q, q.tail) /\ p.array = [q.array EXCEPT ![q.tail] = x]
  BY PushedFields
<1> HIDE DEF p
<1>2. /\ e \in Nat \ {0} /\ q.head \in 0..(e - 1) /\ q.tail \in 0..(e - 1) /\ q.pointer = "owned"
      /\ q.array \in [0..(e - 1) -> CellValue]
  BY QueueFields
<1>3. m \in 0..(e - 1)
  BY SizeIs, <1>2
<1>4. GoodQueue(p)
  <2>1. p.tail \in 0..(e - 1)
    BY <1>1, <1>2 DEF Queue!After
  <2>2. p.array \in [0..(e - 1) -> CellValue]
    BY <1>1, <1>2 DEF CellValue
  <2> HIDE DEF e
  <2> QED BY <1>1, <1>2, <2>1, <2>2, GoodFromFields
<1>5. m + 1 = IF p.tail = p.head THEN p.allocation_size ELSE Queue!Size(p)
  <2>1. m = IF q.head <= q.tail THEN q.tail - q.head ELSE e - q.head + q.tail
    BY DEF Queue!Size
  <2>2. Queue!Size(p) = IF q.head <= p.tail THEN p.tail - q.head ELSE e - q.head + p.tail
    BY <1>1 DEF Queue!Size
  <2>3. p.tail = IF q.tail + 1 = e THEN 0 ELSE q.tail + 1
    BY <1>1 DEF Queue!After
  <2>4. e \in Nat /\ q.head \in Nat /\ q.tail \in Nat /\ q.head < e /\ q.tail < e
    BY <1>2
  <2>5. p.allocation_size = e /\ p.head = q.head
    BY <1>1
  <2> HIDE DEF e, m
  <2> QED BY <2>1, <2>2, <2>3, <2>4, <2>5, RingGrows
<1>6. \A k \in 1..(m + 1) : p.array[Queue!Slot(p, k - 1)] =
        IF k <= m THEN q.array[Queue!Slot(q, k - 1)] ELSE x
  <2> TAKE k \in 1..(m + 1)
  <2>1. Queue!Slot(p, k - 1) = Queue!Slot(q, k - 1)
    BY <1>1 DEF Queue!Slot
  <2>2. Queue!Slot(q, m) = q.tail
    BY SlotOfSize
  <2>3. CASE k <= m
    <3>1. k - 1 \in 0..(e - 1) /\ k - 1 # m
      <4> HIDE DEF m, e
      <4> QED BY <1>2, <1>3, <2>3
    <3>2. Queue!Slot(q, k - 1) \in 0..(e - 1) /\ Queue!Slot(q, k - 1) # q.tail
      BY <1>3, <2>2, <3>1, SlotIn, SlotsDiffer
    <3> HIDE DEF e, m
    <3> QED BY <1>1, <1>2, <2>1, <2>3, <3>2
  <2>4. CASE ~(k <= m)
    <3>1. k - 1 = m
      BY <1>3, <2>4
    <3> HIDE DEF e, m
    <3> QED BY <1>1, <1>2, <2>1, <2>2, <2>4, <3>1
  <2> QED BY <2>3, <2>4
<1>7. /\ Queue!Contents(q) \in Seq(CellValue) /\ Len(Queue!Contents(q)) = m
      /\ \A k \in 1..m : Queue!Contents(q)[k] = q.array[Queue!Slot(q, k - 1)]
  BY ContentsIs
<1>8. /\ t \in Seq(CellValue) /\ Len(t) = m + 1
      /\ \A k \in 1..(m + 1) : t[k] = IF k <= m THEN Queue!Contents(q)[k]
                                       ELSE IF k = m + 1 THEN x ELSE Queue!Contents(q)[k - 1]
  <2>1. m \in 0..Len(Queue!Contents(q)) /\ x \in CellValue
    BY <1>3, <1>7 DEF CellValue
  <2> DEFINE c == Queue!Contents(q)
  <2> HIDE DEF c, m
  <2>2. c \in Seq(CellValue) /\ m \in 0..Len(c)
    BY <1>7, <2>1 DEF c
  <2>3. x \in CellValue
    BY DEF CellValue
  <2>4. Store!InsertedAt(c, m, x) \in Seq(CellValue)
    BY <2>2, <2>3, InsertedAtIs
  <2>5. Len(Store!InsertedAt(c, m, x)) = Len(c) + 1
    BY <2>2, <2>3, InsertedAtIs
  <2>6. \A k \in 1..(Len(c) + 1) : Store!InsertedAt(c, m, x)[k] =
          IF k <= m THEN c[k] ELSE IF k = m + 1 THEN x ELSE c[k - 1]
    BY <2>2, <2>3, InsertedAtIs
  <2> QED BY <1>7, <2>4, <2>5, <2>6 DEF c
<1> HIDE DEF m, t, r, e
<1>9. /\ GoodQueue(r) /\ Queue!Size(r) = m + 1 /\ r.pointer = "owned"
      /\ \A k \in 1..(m + 1) : r.array[Queue!Slot(r, k - 1)] = p.array[Queue!Slot(p, k - 1)]
  <2>1. m + 1 \in Nat /\ p.allocation_size > 0
    BY <1>1, <1>2, <1>3
  <2> QED BY <1>4, <1>5, <2>1, GrownIs DEF r
<1>10. \A k \in 1..(m + 1) : r.array[Queue!Slot(r, k - 1)] = t[k]
  <2> TAKE k \in 1..(m + 1)
  <2>1. m \in Nat /\ (k <= m => k \in 1..m) /\ (~(k <= m) => k = m + 1)
    BY <1>2, <1>3
  <2> QED BY <1>6, <1>7, <1>8, <1>9, <2>1
<1>11. Queue!Contents(r) = t
  BY <1>3, <1>8, <1>9, <1>10, ContentsEqual
<1> QED BY <1>9, <1>11 DEF r, p, m, t

(* The loop that makes room stays in front of the array's end.              *)
LEMMA PushedAtHeadFields ==
  ASSUME NEW q, GoodQueue(q), NEW x, NEW n
  PROVE  LET p == Queue!PushedAtHead(q, x, n)  h == Queue!Before(q, q.head) IN
         /\ QueueForm(p)
         /\ p.pointer = q.pointer /\ p.tail = q.tail /\ p.allocation_size = q.allocation_size
         /\ p.head = h
         /\ p.array = [i \in DOMAIN q.array |->
                        IF i \in h..(h + n - 1) THEN q.array[i + 1]
                        ELSE IF i = h + n THEN x ELSE q.array[i]]
BY DEF GoodQueue, QueueForm, Queue!PushedAtHead

LEMMA RingGrowsAtHead ==
  ASSUME NEW h \in Nat, NEW t \in Nat, NEW e \in Nat, h < e, t < e,
         NEW u, u = IF h = 0 THEN e - 1 ELSE h - 1
  PROVE  (IF h <= t THEN t - h ELSE e - h + t) + 1 =
           IF t = u THEN e ELSE IF u <= t THEN t - u ELSE e - u + t
OBVIOUS

LEMMA SlotsAtHead ==
  ASSUME NEW h \in Nat, NEW e \in Nat, h < e, NEW u, u = IF h = 0 THEN e - 1 ELSE h - 1,
         NEW k \in Nat, k < e
  PROVE  (IF u + k >= e THEN u + k - e ELSE u + k) =
           IF k = 0 THEN u ELSE IF h + (k - 1) >= e THEN h + (k - 1) - e ELSE h + (k - 1)
OBVIOUS

LEMMA OutsideRun ==
  ASSUME NEW h \in Nat, NEW n \in Nat, NEW s \in Nat, s \notin h..(h + n)
  PROVE  s \notin h..(h + n - 1) /\ s # h + n
OBVIOUS

LEMMA PushedAtHeadIs ==
  ASSUME NEW q, GoodQueue(q), q.allocation_size > 0, NEW x \in Items,
         NEW n \in 0..Queue!Size(q), Queue!Before(q, q.head) + n < q.allocation_size
  PROVE  LET r == Queue!Grown(Queue!PushedAtHead(q, x, n)) IN
         /\ GoodQueue(r) /\ Queue!Size(r) = Queue!Size(q) + 1 /\ r.pointer = "owned"
         /\ Queue!Contents(r) = Store!InsertedAt(Queue!Contents(q), n, x)
<1> DEFINE p == Queue!PushedAtHead(q, x, n)
           r == Queue!Grown(p)
           e == q.allocation_size
           m == Queue!Size(q)
           h == Queue!Before(q, q.head)
<1>1. /\ QueueForm(p)
      /\ p.pointer = q.pointer /\ p.tail = q.tail /\ p.allocation_size = e /\ p.head = h
      /\ p.array = [i \in DOMAIN q.array |->
                     IF i \in h..(h + n - 1) THEN q.array[i + 1]
                     ELSE IF i = h + n THEN x ELSE q.array[i]]
  BY PushedAtHeadFields
<1> HIDE DEF p
<1>2. /\ e \in Nat \ {0} /\ q.head \in 0..(e - 1) /\ q.tail \in 0..(e - 1) /\ q.pointer = "owned"
      /\ q.array \in [0..(e - 1) -> CellValue]
  BY QueueFields
<1>3. m \in 0..(e - 1) /\ n \in 0..m
  BY SizeIs, <1>2
<1>4. h \in 0..(e - 1) /\ h + n < e /\ h = IF q.head = 0 THEN e - 1 ELSE q.head - 1
  BY <1>2 DEF Queue!Before
<1>5. m + 1 = IF p.tail = p.head THEN p.allocation_size ELSE Queue!Size(p)
  <2>1. m = IF q.head <= q.tail THEN q.tail - q.head ELSE e - q.head + q.tail
    BY DEF Queue!Size
  <2>2. Queue!Size(p) = IF h <= q.tail THEN q.tail - h ELSE e - h + q.tail
    BY <1>1 DEF Queue!Size
  <2>3. e \in Nat /\ q.head \in Nat /\ q.tail \in Nat /\ q.head < e /\ q.tail < e
    BY <1>2
  <2>4. p.allocation_size = e /\ p.head = h /\ p.tail = q.tail
    BY <1>1
  <2> HIDE DEF e, m, h
  <2> QED BY <1>4, <2>1, <2>2, <2>3, <2>4, RingGrowsAtHead
<1>6. \A k \in 0..m : /\ Queue!Slot(p, k) = IF k = 0 THEN h ELSE Queue!Slot(q, k - 1)
                      /\ k <= n => Queue!Slot(p, k) = h + k
                      /\ k < n => Queue!Slot(q, k) = h + k + 1
                      /\ k > n => Queue!Slot(p, k) \notin h..(h + n)
                      /\ Queue!Slot(p, k) \in 0..(e - 1)
  <2> TAKE k \in 0..m
  <2>1. Queue!Slot(p, k) = IF h + k >= e THEN h + k - e ELSE h + k
    BY <1>1 DEF Queue!Slot
  <2>2. \A j : Queue!Slot(q, j) = IF q.head + j >= e THEN q.head + j - e ELSE q.head + j
    BY DEF Queue!Slot
  <2>3. e \in Nat /\ q.head \in Nat /\ q.head < e /\ k \in Nat /\ k < e /\ n \in Nat
    <3> HIDE DEF e, m
    <3> QED BY <1>2, <1>3
  <2>9. h \in Nat /\ h < e /\ h + n < e /\ h = IF q.head = 0 THEN e - 1 ELSE q.head - 1
    <3> HIDE DEF e, h
    <3> QED BY <1>2, <1>4
  <2> HIDE DEF e, m, h
  <2>4. Queue!Slot(p, k) = IF k = 0 THEN h ELSE Queue!Slot(q, k - 1)
    BY <2>1, <2>2, <2>3, <2>9, SlotsAtHead
  <2>5. k <= n => Queue!Slot(p, k) = h + k
    BY <2>1, <2>3, <2>9
  <2>6. k < n => Queue!Slot(q, k) = h + k + 1
    BY <2>2, <2>3, <2>9
  <2>7. k > n => Queue!Slot(p, k) \notin h..(h + n)
    BY <2>1, <2>3, <2>9
  <2>8. Queue!Slot(p, k) \in 0..(e - 1)
    BY <2>1, <2>3, <2>9
  <2> QED BY <2>4, <2>5, <2>6, <2>7, <2>8
<1>7. GoodQueue(p)
  <2>1. p.array \in [0..(e - 1) -> CellValue]
    <3>1. \A i \in 0..(e - 1) :
            (IF i \in h..(h + n - 1) THEN q.array[i + 1]
             ELSE IF i = h + n THEN x ELSE q.array[i]) \in CellValue
      <4> TAKE i \in 0..(e - 1)
      <4> HIDE DEF e, h, m
      <4>1. i \in h..(h + n - 1) => i + 1 \in 0..(e - 1)
        BY <1>2, <1>3, <1>4
      <4> QED BY <1>2, <4>1 DEF CellValue
    <3> HIDE DEF e, h
    <3> QED BY <1>1, <1>2, <3>1
  <2> HIDE DEF e, h
  <2> QED BY <1>1, <1>2, <1>4, <2>1, GoodFromFields
<1>8. \A k \in 1..(m + 1) : p.array[Queue!Slot(p, k - 1)] =
        IF k <= n THEN q.array[Queue!Slot(q, k - 1)]
        ELSE IF k = n + 1 THEN x ELSE q.array[Queue!Slot(q, (k - 1) - 1)]
  <2> TAKE k \in 1..(m + 1)
  <2> DEFINE j == k - 1
  <2>1. j \in 0..m /\ (k <= n <=> j < n) /\ (k = n + 1 <=> j = n) /\ m \in Nat /\ n \in Nat
    BY <1>2, <1>3
  <2>2. \A i \in 0..(e - 1) : p.array[i] =
          IF i \in h..(h + n - 1) THEN q.array[i + 1]
          ELSE IF i = h + n THEN x ELSE q.array[i]
    <3> HIDE DEF e, h
    <3> QED BY <1>1, <1>2
  <2> HIDE DEF j, e, m, h
  <2>3. /\ Queue!Slot(p, j) = IF j = 0 THEN h ELSE Queue!Slot(q, j - 1)
        /\ j <= n => Queue!Slot(p, j) = h + j
        /\ j < n => Queue!Slot(q, j) = h + j + 1
        /\ j > n => Queue!Slot(p, j) \notin h..(h + n)
        /\ Queue!Slot(p, j) \in 0..(e - 1)
    BY <1>6, <2>1
  <2>4. CASE j < n
    <3>1. Queue!Slot(p, j) = h + j /\ h + j \in h..(h + n - 1) /\ Queue!Slot(q, j) = (h + j) + 1
      BY <1>4, <1>2, <2>1, <2>3, <2>4
    <3>2. p.array[Queue!Slot(p, j)] = q.array[Queue!Slot(q, j)]
      BY <2>2, <2>3, <3>1
    <3> QED BY <2>1, <2>4, <3>2 DEF j
  <2>5. CASE j = n
    <3>1. Queue!Slot(p, j) = h + n /\ h + n \notin h..(h + n - 1)
      BY <1>4, <1>2, <2>1, <2>3, <2>5
    <3>2. p.array[Queue!Slot(p, j)] = x
      BY <2>2, <2>3, <3>1
    <3> QED BY <2>1, <2>5, <3>2 DEF j
  <2>6. CASE j > n
    <3>1. Queue!Slot(p, j) = Queue!Slot(q, j - 1) /\ Queue!Slot(p, j) \notin h..(h + n)
      BY <2>1, <2>3, <2>6
    <3>2. Queue!Slot(p, j) \notin h..(h + n - 1) /\ Queue!Slot(p, j) # h + n
      <4>1. h \in Nat /\ e \in Nat
        BY <1>2, <1>4
      <4>2. Queue!Slot(p, j) \in Nat
        BY <2>3, <4>1
      <4> QED BY <2>1, <3>1, <4>1, <4>2, OutsideRun
    <3>3. p.array[Queue!Slot(p, j)] = q.array[Queue!Slot(q, j - 1)]
      BY <2>2, <2>3, <3>1, <3>2
    <3> QED BY <2>1, <2>6, <3>3 DEF j
  <2> QED BY <2>1, <2>4, <2>5, <2>6
<1> HIDE DEF r
<1>9. /\ GoodQueue(r) /\ Queue!Size(r) = m + 1 /\ r.pointer = "owned"
      /\ \A k \in 1..(m + 1) : r.array[Queue!Slot(r, k - 1)] = p.array[Queue!Slot(p, k - 1)]
  <2> HIDE DEF e, m, h
  <2>1. m + 1 \in Nat /\ p.allocation_size > 0
    BY <1>1, <1>2, <1>3
  <2> QED BY <1>5, <1>7, <2>1, GrownIs DEF r
<1>10. /\ Queue!Contents(q) \in Seq(CellValue) /\ Len(Queue!Contents(q)) = m
       /\ \A k \in 1..m : Queue!Contents(q)[k] = q.array[Queue!Slot(q, k - 1)]
  BY ContentsIs
<1>11. /\ Queue!Contents(r) \in Seq(CellValue) /\ Len(Queue!Contents(r)) = m + 1
       /\ \A k \in 1..(m + 1) : Queue!Contents(r)[k] = p.array[Queue!Slot(p, k - 1)]
  BY <1>9, ContentsIs
<1>12. \A k \in 1..(m + 1) : Queue!Contents(r)[k] =
         IF k <= n THEN Queue!Contents(q)[k]
         ELSE IF k = n + 1 THEN x ELSE Queue!Contents(q)[k - 1]
  <2> TAKE k \in 1..(m + 1)
  <2> HIDE DEF e, m, h
  <2>1. m \in Nat /\ n \in Nat /\ n <= m
    BY <1>2, <1>3
  <2>2. (k <= n => k \in 1..m) /\ (~(k <= n) /\ k # n + 1 => k - 1 \in 1..m)
    BY <2>1
  <2>3. Queue!Contents(r)[k] = IF k <= n THEN q.array[Queue!Slot(q, k - 1)]
          ELSE IF k = n + 1 THEN x ELSE q.array[Queue!Slot(q, (k - 1) - 1)]
    BY <1>8, <1>11
  <2>4. CASE k <= n
    BY <1>10, <2>2, <2>3, <2>4
  <2>5. CASE k = n + 1
    BY <2>1, <2>3, <2>5
  <2>6. CASE ~(k <= n) /\ k # n + 1
    BY <1>10, <2>2, <2>3, <2>6
  <2> QED BY <2>4, <2>5, <2>6
<1>13. Queue!Contents(r) = Store!InsertedAt(Queue!Contents(q), n, x)
  <2> HIDE DEF e, m, h
  <2>1. x \in CellValue
    BY DEF CellValue
  <2> QED BY <1>3, <1>10, <1>11, <1>12, <2>1, IsInserted
<1> QED BY <1>9, <1>13 DEF r, p, m
-----------------------------------------------------------------------------
(* A queue shrinks by one.                                                  *)

LEMMA RingLosesHead ==
  ASSUME NEW h \in Nat, NEW t \in Nat, NEW e \in Nat, h < e, t < e, h # t,
         NEW u, u = IF h + 1 = e THEN 0 ELSE h + 1
  PROVE  /\ u \in 0..(e - 1)
         /\ (IF u <= t THEN t - u ELSE e - u + t) = (IF h <= t THEN t - h ELSE e - h + t) - 1
OBVIOUS

LEMMA RingLosesTail ==
  ASSUME NEW h \in Nat, NEW t \in Nat, NEW e \in Nat, h < e, t < e, h # t,
         NEW v, v = IF t = 0 THEN e - 1 ELSE t - 1
  PROVE  /\ v \in 0..(e - 1)
         /\ (IF h <= v THEN v - h ELSE e - h + v) = (IF h <= t THEN t - h ELSE e - h + t) - 1
OBVIOUS

LEMMA SlotsStep ==
  ASSUME NEW h \in Nat, NEW e \in Nat, h < e, NEW u, u = IF h + 1 = e THEN 0 ELSE h + 1,
         NEW k \in Nat, k + 1 < e
  PROVE  (IF u + k >= e THEN u + k - e ELSE u + k) =
           (IF h + (k + 1) >= e THEN h + (k + 1) - e ELSE h + (k + 1))
OBVIOUS

PoppedQueue(q) == [q EXCEPT !.head = Queue!After(q, q.head), !.array[q.head] = Garbage]

LEMMA PoppedFields ==
  ASSUME NEW q, GoodQueue(q)
  PROVE  LET p == PoppedQueue(q) IN
         /\ QueueForm(p)
         /\ p.pointer = q.pointer /\ p.tail = q.tail /\ p.allocation_size = q.allocation_size
         /\ p.head = Queue!After(q, q.head)
         /\ p.array = [q.array EXCEPT ![q.head] = Garbage]
BY DEF GoodQueue, QueueForm, PoppedQueue

LEMMA PoppedIs ==
  ASSUME NEW q, GoodQueue(q), Queue!Size(q) > 0
  PROVE  LET p == PoppedQueue(q) IN
         /\ GoodQueue(p) /\ p.pointer = "owned"
         /\ Queue!Contents(p) = Store!RemovedAt(Queue!Contents(q), 0)
         /\ q.array[q.head] = Queue!Contents(q)[1] /\ Queue!Contents(q) # <<>>
<1> DEFINE p == PoppedQueue(q)
           e == q.allocation_size
           m == Queue!Size(q)
<1>1. /\ QueueForm(p)
      /\ p.pointer = q.pointer /\ p.tail = q.tail /\ p.allocation_size = e
      /\ p.head = Queue!After(q, q.head) /\ p.array = [q.array EXCEPT ![q.head] = Garbage]
  BY PoppedFields
<1> HIDE DEF p
<1>2. e > 0
  BY SizeIs, QueueFields
<1>3. /\ e \in Nat \ {0} /\ q.head \in 0..(e - 1) /\ q.tail \in 0..(e - 1) /\ q.pointer = "owned"
      /\ q.array \in [0..(e - 1) -> CellValue]
  BY <1>2, QueueFields
<1>4. m \in Nat /\ m > 0 /\ m < e /\ q.head # q.tail
  BY <1>2, SizeIs
<1>5. Queue!Size(p) = m - 1 /\ p.head \in 0..(e - 1)
  <2>1. m = IF q.head <= q.tail THEN q.tail - q.head ELSE e - q.head + q.tail
    BY DEF Queue!Size
  <2>2. Queue!Size(p) = IF p.head <= q.tail THEN q.tail - p.head ELSE e - p.head + q.tail
    BY <1>1 DEF Queue!Size
  <2>3. p.head = IF q.head + 1 = e THEN 0 ELSE q.head + 1
    BY <1>1 DEF Queue!After
  <2> HIDE DEF e, m
  <2>5. e \in Nat /\ q.head \in Nat /\ q.tail \in Nat /\ q.head < e /\ q.tail < e
    BY <1>3
  <2> QED BY <1>4, <2>1, <2>2, <2>3, <2>5, RingLosesHead
<1>6. GoodQueue(p)
  <2> HIDE DEF e
  <2>1. p.array \in [0..(e - 1) -> CellValue]
    BY <1>1, <1>3 DEF CellValue
  <2> QED BY <1>1, <1>3, <1>5, <2>1, GoodFromFields
<1>7. \A k \in 1..(m - 1) : p.array[Queue!Slot(p, k - 1)] = q.array[Queue!Slot(q, (k + 1) - 1)]
  <2> TAKE k \in 1..(m - 1)
  <2> DEFINE j == k - 1
  <2>1. k \in Nat /\ j \in Nat /\ k = j + 1 /\ j + 1 < e /\ k \in 0..(e - 1) /\ 0 \in 0..(e - 1)
        /\ k # 0 /\ (k + 1) - 1 = k
    <3> HIDE DEF e, m
    <3> QED BY <1>3, <1>4
  <2>2. Queue!Slot(p, j) = Queue!Slot(q, j + 1)
    <3>1. Queue!Slot(p, j) = IF p.head + j >= e THEN p.head + j - e ELSE p.head + j
      BY <1>1 DEF Queue!Slot
    <3>2. Queue!Slot(q, j + 1) =
            IF q.head + (j + 1) >= e THEN q.head + (j + 1) - e ELSE q.head + (j + 1)
      BY DEF Queue!Slot
    <3>3. p.head = IF q.head + 1 = e THEN 0 ELSE q.head + 1
      BY <1>1 DEF Queue!After
    <3> HIDE DEF e, j
    <3>4. e \in Nat /\ q.head \in Nat /\ q.head < e
      BY <1>3
    <3> QED BY <2>1, <3>1, <3>2, <3>3, <3>4, SlotsStep
  <2> HIDE DEF j
  <2>3. Queue!Slot(q, 0) = q.head
    <3>1. q.head \in Nat /\ q.head < e /\ e \in Nat
      BY <1>3
    <3> QED BY <3>1 DEF Queue!Slot
  <2>4. Queue!Slot(q, k) \in 0..(e - 1) /\ Queue!Slot(q, k) # q.head
    BY <1>2, <2>1, <2>3, SlotIn, SlotsDiffer
  <2>5. p.array[Queue!Slot(q, k)] = q.array[Queue!Slot(q, k)]
    <3> HIDE DEF e
    <3> QED BY <1>1, <1>3, <2>4
  <2> QED BY <2>1, <2>2, <2>5 DEF j
<1>8. /\ Queue!Contents(q) \in Seq(CellValue) /\ Len(Queue!Contents(q)) = m
      /\ \A k \in 1..m : Queue!Contents(q)[k] = q.array[Queue!Slot(q, k - 1)]
  BY ContentsIs
<1>9. /\ Queue!Contents(p) \in Seq(CellValue) /\ Len(Queue!Contents(p)) = m - 1
      /\ \A k \in 1..(m - 1) : Queue!Contents(p)[k] = p.array[Queue!Slot(p, k - 1)]
  BY <1>5, <1>6, ContentsIs
<1> HIDE DEF e, m
<1>10. \A k \in 1..(m - 1) : Queue!Contents(p)[k] = Queue!Contents(q)[k + 1]
  <2> TAKE k \in 1..(m - 1)
  <2>1. k + 1 \in 1..m
    BY <1>4
  <2> QED BY <1>7, <1>8, <1>9, <2>1
<1>11. Queue!Contents(p) = Store!RemovedAt(Queue!Contents(q), 0)
  <2>1. 0 \in 0..(m - 1)
    BY <1>4
  <2>2. \A k \in 1..(m - 1) : Queue!Contents(p)[k] =
          IF k <= 0 THEN Queue!Contents(q)[k] ELSE Queue!Contents(q)[k + 1]
    BY <1>10
  <2> QED BY <1>8, <1>9, <2>1, <2>2, IsRemoved
<1>12. q.array[q.head] = Queue!Contents(q)[1] /\ Queue!Contents(q) # <<>>
  <2>1. Queue!Slot(q, 1 - 1) = q.head
    <3>1. q.head \in Nat /\ q.head < q.allocation_size /\ q.allocation_size \in Nat
      BY <1>3 DEF e
    <3> QED BY <3>1 DEF Queue!Slot
  <2>2. 1 \in 1..m
    BY <1>4
  <2>3. Queue!Contents(q)[1] = q.array[Queue!Slot(q, 1 - 1)]
    BY <1>8, <2>2
  <2> QED BY <1>4, <1>8, <2>1, <2>3
<1> QED BY <1>1, <1>3, <1>6, <1>11, <1>12 DEF p

LEMMA DeletedFields ==
  ASSUME NEW q, GoodQueue(q), NEW k
  PROVE  LET p == Queue!Deleted(q, k) IN
         /\ QueueForm(p)
         /\ p.pointer = q.pointer /\ p.head = q.head /\ p.allocation_size = q.allocation_size
         /\ p.tail = Queue!Before(q, q.tail)
         /\ p.array = [i \in DOMAIN q.array |->
                        IF Queue!Distance(q, i) \in k..(Queue!Size(q) - 2)
                        THEN q.array[Queue!After(q, i)]
                        ELSE IF i = Queue!Before(q, q.tail) THEN Garbage ELSE q.array[i]]
BY DEF GoodQueue, QueueForm, Queue!Deleted, Queue!Garbage, Garbage

(* The cell at distance j is the slot of position j, the one after it the   *)
(* slot of the next position.                                               *)
LEMMA DistanceOfSlot ==
  ASSUME NEW q, GoodQueue(q), q.allocation_size > 0, NEW j \in 0..(q.allocation_size - 1)
  PROVE  /\ Queue!Distance(q, Queue!Slot(q, j)) = j
         /\ j + 1 < q.allocation_size => Queue!After(q, Queue!Slot(q, j)) = Queue!Slot(q, j + 1)
<1> DEFINE e == q.allocation_size
           i == Queue!Slot(q, j)
<1>1. e \in Nat /\ q.head \in Nat /\ q.head < e /\ j \in Nat /\ j < e
  BY QueueFields
<1>2. i = IF q.head + j >= e THEN q.head + j - e ELSE q.head + j
  BY DEF Queue!Slot
<1>3. Queue!Distance(q, i) = IF i >= q.head THEN i - q.head ELSE i + e - q.head
  BY DEF Queue!Distance
<1>4. Queue!After(q, i) = IF i + 1 = e THEN 0 ELSE i + 1
  BY DEF Queue!After
<1>5. Queue!Slot(q, j + 1) = IF q.head + (j + 1) >= e THEN q.head + (j + 1) - e ELSE q.head + (j + 1)
  BY DEF Queue!Slot
<1> HIDE DEF e, i
<1>6. Queue!Distance(q, i) = j
  BY <1>1, <1>2, <1>3
<1>7. j + 1 < e => Queue!After(q, i) = Queue!Slot(q, j + 1)
  BY <1>1, <1>2, <1>4, <1>5
<1> QED BY <1>6, <1>7 DEF e, i

LEMMA AfterIn ==
  ASSUME NEW q, GoodQueue(q), q.allocation_size > 0, NEW i \in 0..(q.allocation_size - 1)
  PROVE  Queue!After(q, i) \in 0..(q.allocation_size - 1)
BY QueueFields DEF Queue!After

LEMMA DeletedIs ==
  ASSUME NEW q, GoodQueue(q), NEW k \in Nat, k < Queue!Size(q)
  PROVE  LET p == Queue!Deleted(q, k) IN
         /\ GoodQueue(p) /\ p.pointer = "owned"
         /\ Queue!Contents(p) = Store!RemovedAt(Queue!Contents(q), k)
<1> DEFINE p == Queue!Deleted(q, k)
           e == q.allocation_size
           m == Queue!Size(q)
           last == Queue!Before(q, q.tail)
           cell(i) == IF Queue!Distance(q, i) \in k..(m - 2) THEN q.array[Queue!After(q, i)]
                      ELSE IF i = last THEN Garbage ELSE q.array[i]
<1>1. /\ QueueForm(p)
      /\ p.pointer = q.pointer /\ p.head = q.head /\ p.allocation_size = e /\ p.tail = last
      /\ p.array = [i \in DOMAIN q.array |-> cell(i)]
  BY DeletedFields
<1> HIDE DEF p
<1>2. e > 0 /\ e \in Nat
  BY SizeIs, QueueFields
<1>3. /\ q.head \in 0..(e - 1) /\ q.tail \in 0..(e - 1) /\ q.pointer = "owned"
      /\ q.array \in [0..(e - 1) -> CellValue]
  BY <1>2, QueueFields
<1>4. m \in Nat /\ m > 0 /\ m < e /\ q.head # q.tail
  BY <1>2, SizeIs
<1>5. Queue!Size(p) = m - 1 /\ last \in 0..(e - 1)
  <2>1. m = IF q.head <= q.tail THEN q.tail - q.head ELSE e - q.head + q.tail
    BY DEF Queue!Size
  <2>2. Queue!Size(p) = IF q.head <= last THEN last - q.head ELSE e - q.head + last
    BY <1>1 DEF Queue!Size
  <2>3. last = IF q.tail = 0 THEN e - 1 ELSE q.tail - 1
    BY DEF Queue!Before
  <2> HIDE DEF e, m, last
  <2>5. e \in Nat /\ q.head \in Nat /\ q.tail \in Nat /\ q.head < e /\ q.tail < e
    BY <1>2, <1>3
  <2> QED BY <1>4, <2>1, <2>2, <2>3, <2>5, RingLosesTail
<1>6. Queue!Slot(q, m - 1) = last
  <2>1. m = IF q.head <= q.tail THEN q.tail - q.head ELSE e - q.head + q.tail
    BY DEF Queue!Size
  <2>2. Queue!Slot(q, m - 1) =
          IF q.head + (m - 1) >= e THEN q.head + (m - 1) - e ELSE q.head + (m - 1)
    BY DEF Queue!Slot
  <2>3. last = IF q.tail = 0 THEN e - 1 ELSE q.tail - 1
    BY DEF Queue!Before
  <2> HIDE DEF e, m, last
  <2>5. e \in Nat /\ q.head \in Nat /\ q.tail \in Nat /\ q.head < e /\ q.tail < e
    BY <1>2, <1>3
  <2> QED BY <1>4, <2>1, <2>2, <2>3, <2>5
<1>7. /\ p.array \in [0..(e - 1) -> CellValue]
      /\ \A i \in 0..(e - 1) : p.array[i] = cell(i)
  <2>1. \A i \in 0..(e - 1) : cell(i) \in CellValue
    <3> TAKE i \in 0..(e - 1)
    <3>1. q.array[i] \in CellValue /\ Garbage \in CellValue
      BY <1>3 DEF CellValue
    <3>2. q.array[Queue!After(q, i)] \in CellValue
      BY <1>2, <1>3, AfterIn
    <3> QED BY <3>1, <3>2
  <2>2. DOMAIN q.array = 0..(e - 1)
    BY <1>3
  <2> HIDE DEF e, cell
  <2> QED BY <1>1, <2>1, <2>2
<1>8. GoodQueue(p)
  <2>1. /\ QueueForm(p) /\ p.pointer = "owned" /\ p.head = q.head /\ p.allocation_size = e
        /\ p.tail = last
    BY <1>1, <1>3
  <2>2. e \in Nat \ {0} /\ q.head \in 0..(e - 1) /\ last \in 0..(e - 1)
        /\ p.array \in [0..(e - 1) -> CellValue]
    BY <1>2, <1>3, <1>5, <1>7
  <2> HIDE DEF e, last
  <2> QED BY <2>1, <2>2, GoodFromFields
<1>9. \A j \in 0..(m - 2) : p.array[Queue!Slot(p, j)] =
        IF j < k THEN q.array[Queue!Slot(q, j)] ELSE q.array[Queue!Slot(q, j + 1)]
  <2> TAKE j \in 0..(m - 2)
  <2>1. j \in 0..(e - 1) /\ j + 1 < e /\ j # m - 1 /\ m - 1 \in 0..(e - 1)
    <3> HIDE DEF e, m
    <3> QED BY <1>2, <1>4
  <2>2. Queue!Slot(p, j) = Queue!Slot(q, j)
    BY <1>1 DEF Queue!Slot
  <2>3. /\ Queue!Distance(q, Queue!Slot(q, j)) = j
        /\ Queue!After(q, Queue!Slot(q, j)) = Queue!Slot(q, j + 1)
    BY <1>2, <2>1, DistanceOfSlot
  <2>4. Queue!Slot(q, j) # last /\ Queue!Slot(q, j) \in 0..(e - 1)
    BY <1>2, <1>6, <2>1, SlotIn, SlotsDiffer
  <2>5. p.array[Queue!Slot(q, j)] = cell(Queue!Slot(q, j))
    <3> HIDE DEF cell, e, last
    <3> QED BY <1>7, <2>4
  <2>6. j \in k..(m - 2) <=> ~(j < k)
    <3> HIDE DEF m
    <3> QED BY <1>4
  <2> HIDE DEF m, last, e
  <2> QED BY <2>2, <2>3, <2>4, <2>5, <2>6
<1>10. /\ Queue!Contents(q) \in Seq(CellValue) /\ Len(Queue!Contents(q)) = m
       /\ \A i \in 1..m : Queue!Contents(q)[i] = q.array[Queue!Slot(q, i - 1)]
  BY ContentsIs
<1>11. /\ Queue!Contents(p) \in Seq(CellValue) /\ Len(Queue!Contents(p)) = m - 1
       /\ \A i \in 1..(m - 1) : Queue!Contents(p)[i] = p.array[Queue!Slot(p, i - 1)]
  BY <1>5, <1>8, ContentsIs
<1> HIDE DEF e, m, last, cell
<1>12. \A i \in 1..(m - 1) : Queue!Contents(p)[i] =
         IF i <= k THEN Queue!Contents(q)[i] ELSE Queue!Contents(q)[i + 1]
  <2> TAKE i \in 1..(m - 1)
  <2>1. /\ i - 1 \in 0..(m - 2) /\ (i - 1 < k <=> i <= k) /\ (i - 1) + 1 = i /\ (i + 1) - 1 = i
        /\ i \in 1..m /\ i + 1 \in 1..m
    BY <1>4
  <2>2. Queue!Contents(p)[i] =
          IF i - 1 < k THEN q.array[Queue!Slot(q, i - 1)] ELSE q.array[Queue!Slot(q, (i - 1) + 1)]
    BY <1>9, <1>11, <2>1
  <2>3. /\ Queue!Contents(q)[i] = q.array[Queue!Slot(q, i - 1)]
        /\ Queue!Contents(q)[i + 1] = q.array[Queue!Slot(q, (i + 1) - 1)]
    BY <1>10, <2>1
  <2> QED BY <2>1, <2>2, <2>3
<1>13. Queue!Contents(p) = Store!RemovedAt(Queue!Contents(q), k)
  <2>1. k \in 0..(m - 1)
    BY <1>4 DEF m
  <2> QED BY <1>10, <1>11, <1>12, <2>1, IsRemoved
<1> QED BY <1>1, <1>3, <1>8, <1>13 DEF p

(* The first item of a queue that has no array.                             *)
FirstPushed(x) == Queue!Filled([Queue!New(First) EXCEPT ![0] = x], 1, First)

LEMMA FirstPushedIs ==
  ASSUME NEW x \in Items
  PROVE  LET p == FirstPushed(x) IN
         /\ GoodQueue(p) /\ p.pointer = "owned"
         /\ Queue!Contents(p) = Store!InsertedAt(<<>>, 0, x)
<1> DEFINE p == FirstPushed(x)
<1>1. /\ QueueForm(p) /\ p.pointer = "owned" /\ p.head = 0 /\ p.tail = 1
      /\ p.allocation_size = First /\ p.array = [Queue!New(First) EXCEPT ![0] = x]
  BY DEF FirstPushed, Queue!Filled, QueueForm
<1> HIDE DEF p
<1>2. First \in Nat /\ First > 1
  OBVIOUS
<1>3. Queue!New(First) \in [0..(First - 1) -> CellValue]
  BY DEF Queue!New, Queue!Cells, Queue!Garbage, CellValue, Garbage
<1>4. /\ p.array \in [0..(First - 1) -> CellValue] /\ p.array[0] = x
  BY <1>1, <1>2, <1>3 DEF CellValue
<1>5. GoodQueue(p)
  <2>1. First \in Nat \ {0} /\ p.head \in 0..(First - 1) /\ p.tail \in 0..(First - 1)
    BY <1>1, <1>2
  <2> QED BY <1>1, <1>4, <2>1, GoodFromFields
<1>6. Queue!Size(p) = 1 /\ Queue!Slot(p, 1 - 1) = 0
  BY <1>1, <1>2 DEF Queue!Size, Queue!Slot
<1>7. /\ Queue!Contents(p) \in Seq(CellValue) /\ Len(Queue!Contents(p)) = 1
      /\ Queue!Contents(p)[1] = x
  <2>1. /\ Queue!Contents(p) \in Seq(CellValue) /\ Len(Queue!Contents(p)) = 1
        /\ \A k \in 1..1 : Queue!Contents(p)[k] = p.array[Queue!Slot(p, k - 1)]
    BY <1>5, <1>6, ContentsIs
  <2>2. Queue!Contents(p)[1] = p.array[Queue!Slot(p, 1 - 1)]
    BY <2>1
  <2> QED BY <1>4, <1>6, <2>1, <2>2
<1>8. Queue!Contents(p) = Store!InsertedAt(<<>>, 0, x)
  <2> DEFINE c == Queue!Contents(p)
             s == <<>>
             i == 0
  <2>1. s \in Seq(CellValue) /\ Len(s) = 0 /\ x \in CellValue /\ i \in 0..Len(s)
    BY EmptySeq DEF CellValue
  <2>2. c \in Seq(CellValue) /\ Len(c) = 1 /\ c[1] = x /\ i = 0
    BY <1>7
  <2> HIDE DEF c, s, i
  <2>3. c \in Seq(CellValue) /\ Len(c) = Len(s) + 1
        /\ \A k \in 1..(Len(s) + 1) :
             c[k] = IF k <= i THEN s[k] ELSE IF k = i + 1 THEN x ELSE s[k - 1]
    BY <2>1, <2>2
  <2>4. c = Store!InsertedAt(s, i, x)
    BY <2>1, <2>3, IsInserted
  <2> QED BY <2>4 DEF c, s, i
<1> QED BY <1>1, <1>5, <1>8 DEF p
-----------------------------------------------------------------------------
(* The same for lists, whose items lie at the front of the array.  A list   *)
(* forgets the array that Clear has deleted.                                *)

ListForm(l) ==
  l \in [pointer : {l.pointer}, array : {l.array}, list_size : {l.list_size},
         allocation_size : {l.allocation_size}]
GoodList(l) == ListForm(l) /\ List!ListOK(l) /\ l.pointer # "freed"

LEMMA ListFields ==
  ASSUME NEW l, GoodList(l)
  PROVE  /\ l.allocation_size \in Nat /\ l.list_size \in 0..l.allocation_size
         /\ l.allocation_size > 0 =>
              /\ l.pointer = "owned"
              /\ l.array \in [0..(l.allocation_size - 1) -> CellValue]
BY DEF GoodList, List!ListOK, List!Cells, CellValue, List!Garbage, Garbage

LEMMA GoodListFromFields ==
  ASSUME NEW l, ListForm(l), l.pointer = "owned",
         NEW n \in Nat, l.allocation_size = n, l.list_size \in 0..n,
         l.array \in [0..(n - 1) -> CellValue]
  PROVE  GoodList(l)
BY DEF GoodList, List!ListOK, List!Cells, CellValue, List!Garbage, Garbage, List!Pointers

LEMMA ListContentsIs ==
  ASSUME NEW l, GoodList(l)
  PROVE  /\ List!Contents(l) \in Seq(CellValue)
         /\ Len(List!Contents(l)) = l.list_size
         /\ DOMAIN List!Contents(l) = 1..l.list_size
         /\ \A k \in 1..l.list_size : List!Contents(l)[k] = l.array[k - 1]
<1> DEFINE n == l.list_size
           e == l.allocation_size
           f == [k \in 1..n |-> l.array[k - 1]]
<1>1. /\ e \in Nat /\ n \in 0..e /\ n \in Nat
      /\ e > 0 => l.array \in [0..(e - 1) -> CellValue]
  BY ListFields
<1>2. List!Contents(l) = f
  BY DEF List!Contents
<1> HIDE DEF n, e
<1>3. \A k \in 1..n : l.array[k - 1] \in CellValue
  <2> TAKE k \in 1..n
  <2>1. e > 0 /\ k - 1 \in 0..(e - 1)
    BY <1>1
  <2> QED BY <1>1, <2>1
<1>4. f \in Seq(CellValue)
  BY <1>1, <1>3, IsASeq
<1>5. DOMAIN f = 1..n /\ \A k \in 1..n : f[k] = l.array[k - 1]
  OBVIOUS
<1> HIDE DEF f
<1>6. Len(f) = n
  BY <1>1, <1>4, <1>5, LenProperties
<1> QED BY <1>2, <1>4, <1>5, <1>6 DEF n

LEMMA NoListItems ==
  ASSUME NEW l, GoodList(l), l.list_size = 0 PROVE List!Contents(l) = <<>>
<1>1. List!Contents(l) \in Seq(CellValue) /\ Len(List!Contents(l)) = 0
  BY ListContentsIs
<1> QED BY <1>1, EmptySeq

LEMMA WithoutListArray ==
  ASSUME NEW l, ListForm(l), l.pointer \in List!Pointers \ {"freed"},
         l.list_size = 0, l.allocation_size = 0
  PROVE  GoodList(l) /\ List!Contents(l) = <<>>
<1>1. GoodList(l)
  BY DEF GoodList, List!ListOK
<1> QED BY <1>1, NoListItems

LEMMA ListConstants ==
  /\ GoodList(List!Absent) /\ List!Contents(List!Absent) = <<>> /\ List!Absent.pointer = "absent"
  /\ GoodList(List!Empty) /\ List!Contents(List!Empty) = <<>> /\ List!Empty.pointer = "null"
  /\ GoodList(List!Blank) /\ List!Contents(List!Blank) = <<>> /\ List!Blank.pointer = "unset"
<1> DEFINE a == List!Absent  b == List!Empty  c == List!Blank
<1>1. ListForm(a) /\ a.pointer = "absent" /\ a.list_size = 0 /\ a.allocation_size = 0
  BY DEF List!Absent, ListForm
<1>2. ListForm(b) /\ b.pointer = "null" /\ b.list_size = 0 /\ b.allocation_size = 0
  BY DEF List!Empty, List!Absent, ListForm
<1>3. ListForm(c) /\ c.pointer = "unset" /\ c.list_size = 0 /\ c.allocation_size = 0
  BY DEF List!Blank, List!Absent, ListForm
<1> HIDE DEF a, b, c
<1>4. {"absent", "null", "unset"} \subseteq List!Pointers \ {"freed"}
  BY DEF List!Pointers
<1>5. GoodList(a) /\ List!Contents(a) = <<>>
  BY <1>1, <1>4, WithoutListArray
<1>6. GoodList(b) /\ List!Contents(b) = <<>>
  BY <1>2, <1>4, WithoutListArray
<1>7. GoodList(c) /\ List!Contents(c) = <<>>
  BY <1>3, <1>4, WithoutListArray
<1> QED BY <1>1, <1>2, <1>3, <1>5, <1>6, <1>7 DEF a, b, c

LEMMA ListMovedIs ==
  ASSUME NEW l, GoodList(l), NEW n \in Nat, l.list_size <= n
  PROVE  LET r == List!Moved(l, n) IN
         /\ GoodList(r) /\ r.list_size = l.list_size /\ r.allocation_size = n
         /\ r.pointer = "owned" /\ List!Contents(r) = List!Contents(l)
         /\ r.array \in [0..(n - 1) -> CellValue]
<1> DEFINE r == List!Moved(l, n)
           m == l.list_size
           e == l.allocation_size
           a == [i \in 0..(n - 1) |-> IF i < m THEN l.array[i] ELSE Garbage]
<1>1. /\ ListForm(r) /\ r.pointer = "owned" /\ r.list_size = m /\ r.allocation_size = n /\ r.array = a
  BY DEF List!Moved, GoodList, ListForm, List!Cells, List!Garbage, Garbage
<1> HIDE DEF r
<1>2. /\ e \in Nat /\ m \in 0..e /\ m \in Nat
      /\ e > 0 => l.array \in [0..(e - 1) -> CellValue]
  BY ListFields
<1> HIDE DEF m, e
<1>3. a \in [0..(n - 1) -> CellValue] /\ \A i \in 0..(n - 1) : i < m => a[i] = l.array[i]
  <2>1. \A i \in 0..(n - 1) : (IF i < m THEN l.array[i] ELSE Garbage) \in CellValue
    <3> TAKE i \in 0..(n - 1)
    <3>1. CASE i < m
      <4>1. e > 0 /\ i \in 0..(e - 1)
        BY <1>2, <3>1
      <4> QED BY <1>2, <3>1, <4>1
    <3>2. CASE ~(i < m)
      BY <3>2 DEF CellValue
    <3> QED BY <3>1, <3>2
  <2> QED BY <2>1
<1> HIDE DEF a
<1>4. GoodList(r)
  <2>1. m \in 0..n
    BY <1>2 DEF m
  <2> QED BY <1>1, <1>3, <2>1, GoodListFromFields
<1>5. /\ List!Contents(r) \in Seq(CellValue) /\ Len(List!Contents(r)) = m
      /\ \A k \in 1..m : List!Contents(r)[k] = a[k - 1]
  BY <1>1, <1>4, ListContentsIs
<1>6. /\ List!Contents(l) \in Seq(CellValue) /\ Len(List!Contents(l)) = m
      /\ \A k \in 1..m : List!Contents(l)[k] = l.array[k - 1]
  BY ListContentsIs DEF m
<1>7. \A k \in 1..m : a[k - 1] = l.array[k - 1]
  <2> TAKE k \in 1..m
  <2>1. k - 1 \in 0..(n - 1) /\ k - 1 < m
    BY <1>2 DEF m
  <2> QED BY <1>3, <2>1
<1>8. List!Contents(r) = List!Contents(l)
  <2>1. \A k \in 1..Len(List!Contents(r)) : List!Contents(r)[k] = List!Contents(l)[k]
    BY <1>5, <1>6, <1>7
  <2> QED BY <1>5, <1>6, <2>1, SeqEqual
<1> QED BY <1>1, <1>3, <1>4, <1>8 DEF r, m

LEMMA ListClearedIs ==
  ASSUME NEW l, GoodList(l), l.pointer # "absent", NEW b \in BOOLEAN
  PROVE  LET r == List!Cleared(l, b) IN
         GoodList(r) /\ r.pointer # "absent" /\ List!Contents(r) = <<>>
<1> DEFINE r == List!Cleared(l, b)
           e == l.allocation_size
<1>1. e \in Nat /\ l.list_size \in 0..e /\ (e > 0 => l.pointer = "owned")
  BY ListFields
<1>2. CASE e = 0
  <2>1. r = l
    BY <1>2 DEF List!Cleared
  <2> HIDE DEF r
  <2>2. l.list_size = 0
    BY <1>1, <1>2
  <2> QED BY <2>1, <2>2, NoListItems DEF r
<1>3. CASE e # 0 /\ e > Large /\ ~b
  <2>1. r = List!Empty
    BY <1>3 DEF List!Cleared
  <2> HIDE DEF r
  <2> QED BY <2>1, ListConstants DEF r
<1>4. CASE e # 0 /\ ~(e > Large /\ ~b)
  <2>1. r = [l EXCEPT !.array = List!New(e), !.list_size = 0]
    BY <1>4 DEF List!Cleared
  <2>2. /\ ListForm(r) /\ r.pointer = l.pointer /\ r.array = List!New(e) /\ r.list_size = 0
        /\ r.allocation_size = e
    BY <2>1 DEF GoodList, ListForm
  <2> HIDE DEF r, e
  <2>3. List!New(e) \in [0..(e - 1) -> CellValue]
    BY DEF List!New, List!Cells, List!Garbage, CellValue, Garbage
  <2>4. e \in Nat /\ 0 \in 0..e /\ l.pointer = "owned"
    BY <1>1, <1>4
  <2>5. GoodList(r)
    BY <2>2, <2>3, <2>4, GoodListFromFields
  <2>6. List!Contents(r) = <<>>
    BY <2>2, <2>5, NoListItems
  <2> QED BY <2>2, <2>4, <2>5, <2>6 DEF r
<1> QED BY <1>2, <1>3, <1>4

LEMMA ListForgottenIs ==
  ASSUME NEW l, GoodList(l)
  PROVE  LET r == [l EXCEPT !.list_size = 0, !.allocation_size = 0] IN
         GoodList(r) /\ r.pointer = l.pointer /\ List!Contents(r) = <<>>
<1> DEFINE r == [l EXCEPT !.list_size = 0, !.allocation_size = 0]
<1>1. ListForm(r) /\ r.pointer = l.pointer /\ r.list_size = 0 /\ r.allocation_size = 0
  BY DEF GoodList, ListForm
<1> HIDE DEF r
<1>2. r.pointer \in List!Pointers \ {"freed"}
  BY <1>1 DEF GoodList, List!ListOK
<1>3. GoodList(r) /\ List!Contents(r) = <<>>
  BY <1>1, <1>2, WithoutListArray
<1> QED BY <1>1, <1>3 DEF r

LEMMA ListGrownIs ==
  ASSUME NEW l, GoodList(l)
  PROVE  LET g == List!Grown(l) IN
         /\ GoodList(g) /\ g.list_size = l.list_size /\ g.allocation_size > g.list_size
         /\ g.pointer = "owned" /\ List!Contents(g) = List!Contents(l)
<1> DEFINE g == List!Grown(l)
           n == List!NextSize(l)
<1>1. l.allocation_size \in Nat /\ l.list_size \in 0..l.allocation_size
      /\ (l.allocation_size > 0 => l.pointer = "owned")
  BY ListFields
<1>2. CASE List!IsFull(l)
  <2>1. g = List!Moved(l, n)
    BY <1>2 DEF List!Grown
  <2>2. n \in Nat /\ l.list_size < n
    BY <1>1, <1>2 DEF List!NextSize, List!IsFull
  <2> HIDE DEF g, n
  <2>3. l.list_size <= n
    BY <1>1, <2>2
  <2>4. /\ GoodList(g) /\ g.list_size = l.list_size /\ g.allocation_size = n
        /\ g.pointer = "owned" /\ List!Contents(g) = List!Contents(l)
    BY <2>1, <2>2, <2>3, ListMovedIs
  <2> QED BY <2>2, <2>4 DEF g
<1>3. CASE ~List!IsFull(l)
  <2>1. g = l
    BY <1>3 DEF List!Grown
  <2> HIDE DEF g
  <2>2. l.allocation_size > l.list_size
    BY <1>1, <1>3 DEF List!IsFull
  <2>3. l.pointer = "owned"
    BY <1>1, <2>2
  <2> QED BY <2>1, <2>2, <2>3 DEF g
<1> QED BY <1>2, <1>3

LEMMA ListInsertedIs ==
  ASSUME NEW l, GoodList(l), l.list_size < l.allocation_size, NEW i \in 0..l.list_size,
         NEW x \in Items
  PROVE  LET r == List!Inserted(l, i, x) IN
         /\ GoodList(r) /\ r.pointer = "owned"
         /\ List!Contents(r) = Store!InsertedAt(List!Contents(l), i, x)
<1> DEFINE r == List!Inserted(l, i, x)
           e == l.allocation_size
           m == l.list_size
           a == [k \in 0..(e - 1) |->
                  IF k < i THEN l.array[k] ELSE IF k = i THEN x ELSE l.array[k - 1]]
<1>1. /\ e \in Nat /\ m \in Nat /\ m < e /\ i \in 0..m /\ l.pointer = "owned"
      /\ l.array \in [0..(e - 1) -> CellValue]
  BY ListFields
<1>2. /\ ListForm(r) /\ r.pointer = l.pointer /\ r.allocation_size = e /\ r.list_size = m + 1
      /\ r.array = [k \in DOMAIN l.array |->
                     IF k < i THEN l.array[k] ELSE IF k = i THEN x ELSE l.array[k - 1]]
  BY DEF List!Inserted, GoodList, ListForm
<1>3. r.array = a
  <2> HIDE DEF r, e
  <2> QED BY <1>1, <1>2
<1> HIDE DEF r, e, m
<1>4. a \in [0..(e - 1) -> CellValue]
      /\ \A k \in 0..(e - 1) : a[k] = IF k < i THEN l.array[k] ELSE IF k = i THEN x ELSE l.array[k - 1]
  <2>1. \A k \in 0..(e - 1) :
          (IF k < i THEN l.array[k] ELSE IF k = i THEN x ELSE l.array[k - 1]) \in CellValue
    <3> TAKE k \in 0..(e - 1)
    <3>1. CASE k > i
      <4>1. k - 1 \in 0..(e - 1) /\ ~(k < i) /\ k # i
        BY <1>1, <3>1
      <4> QED BY <1>1, <4>1
    <3>2. CASE k < i
      BY <1>1, <3>2
    <3>3. CASE k = i
      BY <1>1, <3>3 DEF CellValue
    <3> QED BY <1>1, <3>1, <3>2, <3>3
  <2> QED BY <2>1
<1> HIDE DEF a
<1>5. GoodList(r)
  <2>1. m + 1 \in 0..e
    BY <1>1
  <2> QED BY <1>1, <1>2, <1>3, <1>4, <2>1, GoodListFromFields
<1>6. /\ List!Contents(r) \in Seq(CellValue) /\ Len(List!Contents(r)) = m + 1
      /\ \A k \in 1..(m + 1) : List!Contents(r)[k] = a[k - 1]
  BY <1>2, <1>3, <1>5, ListContentsIs
<1>7. /\ List!Contents(l) \in Seq(CellValue) /\ Len(List!Contents(l)) = m
      /\ \A k \in 1..m : List!Contents(l)[k] = l.array[k - 1]
  BY ListContentsIs DEF m
<1>8. \A k \in 1..(m + 1) : List!Contents(r)[k] =
        IF k <= i THEN List!Contents(l)[k] ELSE IF k = i + 1 THEN x ELSE List!Contents(l)[k - 1]
  <2> TAKE k \in 1..(m + 1)
  <2>1. /\ k - 1 \in 0..(e - 1) /\ (k <= i <=> k - 1 < i) /\ (k = i + 1 <=> k - 1 = i)
        /\ (k <= i => k \in 1..m) /\ (~(k <= i) /\ k # i + 1 => k - 1 \in 1..m)
    BY <1>1
  <2>2. List!Contents(r)[k] =
          IF k <= i THEN l.array[k - 1] ELSE IF k = i + 1 THEN x ELSE l.array[(k - 1) - 1]
    BY <1>4, <1>6, <2>1
  <2> QED BY <1>7, <2>1, <2>2
<1>9. List!Contents(r) = Store!InsertedAt(List!Contents(l), i, x)
  <2>1. x \in CellValue
    BY DEF CellValue
  <2> QED BY <1>1, <1>6, <1>7, <1>8, <2>1, IsInserted
<1> QED BY <1>1, <1>2, <1>5, <1>9 DEF r

LEMMA ReachingIs ==
  ASSUME NEW l, GoodList(l), NEW i \in Nat
  PROVE  LET r == List!Reaching(l, i) IN
         /\ GoodList(r) /\ r.list_size = l.list_size /\ i < r.allocation_size
         /\ r.pointer = "owned" /\ List!Contents(r) = List!Contents(l)
<1> DEFINE r == List!Reaching(l, i)
<1>1. l.allocation_size \in Nat /\ l.list_size \in 0..l.allocation_size
      /\ (l.allocation_size > 0 => l.pointer = "owned")
  BY ListFields
<1>2. CASE i >= l.allocation_size
  <2>1. r = List!Moved(l, i + 1)
    BY <1>2 DEF List!Reaching
  <2> HIDE DEF r
  <2>2. i + 1 \in Nat /\ l.list_size <= i + 1
    BY <1>1, <1>2
  <2>3. /\ GoodList(r) /\ r.list_size = l.list_size /\ r.allocation_size = i + 1
        /\ r.pointer = "owned" /\ List!Contents(r) = List!Contents(l)
    BY <2>1, <2>2, ListMovedIs
  <2> QED BY <2>3 DEF r
<1>3. CASE ~(i >= l.allocation_size)
  <2>1. r = l
    BY <1>3 DEF List!Reaching
  <2> HIDE DEF r
  <2>2. i < l.allocation_size /\ l.pointer = "owned"
    BY <1>1, <1>3
  <2> QED BY <2>1, <2>2 DEF r
<1> QED BY <1>2, <1>3

(* Position i of a list.                                                    *)
ReplacedInside(l, i, x) == [l EXCEPT !.array[i] = x]
LEMMA ReplacedInsideIs ==
  ASSUME NEW l, GoodList(l), NEW i \in Nat, i < l.list_size, NEW x \in Items
  PROVE  LET r == ReplacedInside(l, i, x) IN
         /\ GoodList(r) /\ r.pointer = "owned"
         /\ List!Contents(r) =
              [k \in 1..Len(List!Contents(l)) |-> IF k = i + 1 THEN x ELSE List!Contents(l)[k]]
<1> DEFINE r == ReplacedInside(l, i, x)
           e == l.allocation_size
           m == l.list_size
<1>1. m \in 0..e /\ e \in Nat
  BY ListFields
<1>2. /\ m \in Nat /\ i < e /\ i \in 0..(e - 1) /\ l.pointer = "owned"
      /\ l.array \in [0..(e - 1) -> CellValue]
  BY <1>1, ListFields
<1>3. /\ ListForm(r) /\ r.pointer = l.pointer /\ r.allocation_size = e /\ r.list_size = m
      /\ r.array = [l.array EXCEPT ![i] = x]
  BY DEF ReplacedInside, GoodList, ListForm
<1> HIDE DEF r, e, m
<1>4. /\ r.array \in [0..(e - 1) -> CellValue]
      /\ \A k \in 0..(e - 1) : r.array[k] = IF k = i THEN x ELSE l.array[k]
  BY <1>2, <1>3 DEF CellValue
<1>5. GoodList(r)
  BY <1>1, <1>2, <1>3, <1>4, GoodListFromFields
<1>6. \A k \in 1..m : r.array[k - 1] = IF k = i + 1 THEN x ELSE l.array[k - 1]
  <2> TAKE k \in 1..m
  <2>1. k - 1 \in 0..(e - 1) /\ (k = i + 1 <=> k - 1 = i)
    BY <1>1, <1>2
  <2> QED BY <1>4, <2>1
<1>7. Len(List!Contents(l)) = m /\ \A k \in 1..m : List!Contents(l)[k] = l.array[k - 1]
  BY ListContentsIs DEF m
<1>8. List!Contents(r) = [k \in 1..m |-> r.array[k - 1]]
  BY <1>3 DEF List!Contents
<1>9. List!Contents(r) =
        [k \in 1..Len(List!Contents(l)) |-> IF k = i + 1 THEN x ELSE List!Contents(l)[k]]
  BY <1>6, <1>7, <1>8
<1> QED BY <1>2, <1>3, <1>5, <1>9 DEF r

(* ... and one behind the end, up to which the filler comes.                *)
ReplacedBehind(l, r, i, x, filler) ==
  [r EXCEPT !.list_size = i + 1,
            !.array = [k \in DOMAIN @ |->
                        IF k = i THEN x
                        ELSE IF k \in l.list_size..(i - 1) THEN filler
                        ELSE @[k]]]
LEMMA ReplacedBehindIs ==
  ASSUME NEW l, GoodList(l), NEW i \in Nat, ~(i < l.list_size), NEW x \in Items,
         NEW filler \in Items, NEW s, GoodList(s), s.list_size = l.list_size,
         i < s.allocation_size, List!Contents(s) = List!Contents(l)
  PROVE  LET r == ReplacedBehind(l, s, i, x, filler) IN
         /\ GoodList(r) /\ r.pointer = "owned"
         /\ List!Contents(r) =
              [k \in 1..(i + 1) |-> IF k = i + 1 THEN x
                                    ELSE IF k <= Len(List!Contents(l)) THEN List!Contents(l)[k]
                                    ELSE filler]
<1> DEFINE r == ReplacedBehind(l, s, i, x, filler)
           e == s.allocation_size
           m == l.list_size
           cell(k) == IF k = i THEN x ELSE IF k \in m..(i - 1) THEN filler ELSE s.array[k]
<1>1. m \in 0..e /\ e \in Nat
  BY ListFields
<1>2. /\ m \in Nat /\ m <= i /\ i < e /\ s.pointer = "owned"
      /\ s.array \in [0..(e - 1) -> CellValue]
  BY <1>1, ListFields
<1>3. /\ ListForm(r) /\ r.pointer = s.pointer /\ r.allocation_size = e /\ r.list_size = i + 1
      /\ r.array = [k \in DOMAIN s.array |-> cell(k)]
  BY DEF ReplacedBehind, GoodList, ListForm
<1> HIDE DEF r, e
<1>4. /\ r.array \in [0..(e - 1) -> CellValue]
      /\ \A k \in 0..(e - 1) : r.array[k] = cell(k)
  <2>1. \A k \in 0..(e - 1) : cell(k) \in CellValue
    BY <1>2 DEF CellValue
  <2>2. DOMAIN s.array = 0..(e - 1)
    BY <1>2
  <2> HIDE DEF cell
  <2> QED BY <1>3, <2>1, <2>2
<1>5. GoodList(r)
  <2>1. i + 1 \in 0..e
    BY <1>1, <1>2
  <2>2. ListForm(r) /\ r.pointer = "owned" /\ r.allocation_size = e /\ r.list_size = i + 1
    BY <1>2, <1>3
  <2> QED BY <1>1, <1>4, <2>1, <2>2, GoodListFromFields
<1>7. Len(List!Contents(l)) = m /\ \A k \in 1..m : List!Contents(l)[k] = s.array[k - 1]
  <2>1. Len(List!Contents(s)) = m /\ \A k \in 1..m : List!Contents(s)[k] = s.array[k - 1]
    BY ListContentsIs
  <2> QED BY <2>1
<1> HIDE DEF m
<1>6. \A k \in 1..(i + 1) : r.array[k - 1] =
        IF k = i + 1 THEN x ELSE IF k <= m THEN List!Contents(l)[k] ELSE filler
  <2> TAKE k \in 1..(i + 1)
  <2>1. /\ k - 1 \in 0..(e - 1) /\ (k = i + 1 <=> k - 1 = i)
        /\ (k # i + 1 => (k - 1 \in m..(i - 1) <=> ~(k <= m))) /\ (k <= m => k \in 1..m)
    BY <1>1, <1>2
  <2>2. r.array[k - 1] = cell(k - 1)
    <3> HIDE DEF cell
    <3> QED BY <1>4, <2>1
  <2> QED BY <1>7, <2>1, <2>2
<1>8. List!Contents(r) = [k \in 1..(i + 1) |-> r.array[k - 1]]
  BY <1>3 DEF List!Contents
<1>9. List!Contents(r) =
        [k \in 1..(i + 1) |-> IF k = i + 1 THEN x
                              ELSE IF k <= Len(List!Contents(l)) THEN List!Contents(l)[k]
                              ELSE filler]
  <2> HIDE DEF cell
  <2> QED BY <1>6, <1>7, <1>8
<1> QED BY <1>2, <1>3, <1>5, <1>9 DEF r

(* A list loses the items at its end.                                       *)
LEMMA ShortenedIs ==
  ASSUME NEW l, GoodList(l), NEW n \in 0..l.list_size
  PROVE  LET r == List!Shortened(l, n) IN
         /\ GoodList(r) /\ r.pointer = l.pointer
         /\ List!Contents(r) = [k \in 1..n |-> List!Contents(l)[k]]
         /\ Len(List!Contents(r)) = n /\ List!Contents(r) \in Seq(CellValue)
<1> DEFINE r == List!Shortened(l, n)
           e == l.allocation_size
           m == l.list_size
           cell(k) == IF k < n THEN l.array[k] ELSE Garbage
<1>1. /\ e \in Nat /\ m \in 0..e /\ n \in 0..m
      /\ e > 0 => l.pointer = "owned" /\ l.array \in [0..(e - 1) -> CellValue]
  BY ListFields
<1>2. /\ ListForm(r) /\ r.pointer = l.pointer /\ r.allocation_size = e /\ r.list_size = n
      /\ r.array = [k \in DOMAIN l.array |-> cell(k)]
  BY DEF List!Shortened, GoodList, ListForm, List!Garbage, Garbage
<1> HIDE DEF r, e, m
<1>3. CASE e = 0
  <2>1. n = 0 /\ r.list_size = 0 /\ r.allocation_size = 0
    BY <1>1, <1>2, <1>3
  <2>2. r.pointer \in List!Pointers \ {"freed"}
    BY <1>2 DEF GoodList, List!ListOK
  <2> HIDE DEF cell
  <2>3. GoodList(r) /\ List!Contents(r) = <<>>
    BY <1>2, <2>1, <2>2, WithoutListArray
  <2>4. List!Contents(r) = [k \in 1..n |-> List!Contents(l)[k]]
    BY <2>1, <2>3
  <2>5. <<>> \in Seq(CellValue) /\ Len(<<>>) = n
    BY <2>1
  <2> QED BY <1>2, <2>3, <2>4, <2>5 DEF r
<1>4. CASE e > 0
  <2>1. /\ r.array \in [0..(e - 1) -> CellValue]
        /\ \A k \in 0..(e - 1) : r.array[k] = cell(k)
    <3>1. \A k \in 0..(e - 1) : cell(k) \in CellValue
      BY <1>1, <1>4 DEF CellValue
    <3>2. DOMAIN l.array = 0..(e - 1)
      BY <1>1, <1>4
    <3> HIDE DEF cell
    <3> QED BY <1>2, <3>1, <3>2
  <2>2. GoodList(r)
    <3>1. n \in 0..e
      BY <1>1
    <3>2. ListForm(r) /\ r.pointer = "owned" /\ r.allocation_size = e /\ r.list_size = n
      BY <1>1, <1>2, <1>4
    <3> HIDE DEF cell
    <3> QED BY <1>1, <2>1, <3>1, <3>2, GoodListFromFields
  <2>3. /\ List!Contents(r) \in Seq(CellValue) /\ Len(List!Contents(r)) = n
        /\ \A k \in 1..n : List!Contents(r)[k] = r.array[k - 1]
        /\ DOMAIN List!Contents(r) = 1..n
    BY <1>2, <2>2, ListContentsIs
  <2>4. \A k \in 1..m : List!Contents(l)[k] = l.array[k - 1]
    BY ListContentsIs DEF m
  <2>5. \A k \in 1..n : List!Contents(r)[k] = List!Contents(l)[k]
    <3> TAKE k \in 1..n
    <3>1. k \in 1..m /\ k - 1 \in 0..(e - 1) /\ k - 1 < n
      BY <1>1, <1>4
    <3>2. r.array[k - 1] = l.array[k - 1]
      BY <2>1, <3>1
    <3> QED BY <2>3, <2>4, <3>1, <3>2
  <2>6. List!Contents(r) = [k \in 1..n |-> r.array[k - 1]]
    BY <1>2 DEF List!Contents
  <2>7. List!Contents(r) = [k \in 1..n |-> List!Contents(l)[k]]
    <3> HIDE DEF cell
    <3> QED BY <2>3, <2>5, <2>6
  <2> HIDE DEF cell
  <2> QED BY <1>2, <2>2, <2>3, <2>7 DEF r
<1> QED BY <1>1, <1>3, <1>4

LEMMA ListRemovedIs ==
  ASSUME NEW l, GoodList(l), NEW i \in Nat, i < l.list_size
  PROVE  LET r == List!Removed(l, i) IN
         /\ GoodList(r) /\ r.pointer = l.pointer
         /\ List!Contents(r) = Store!RemovedAt(List!Contents(l), i)
<1> DEFINE e == l.allocation_size
           m == l.list_size
           cell(k) == IF k \in i..(m - 2) THEN l.array[k + 1] ELSE l.array[k]
           s == [l EXCEPT !.array = [k \in DOMAIN @ |->
                   IF k \in i..(l.list_size - 2) THEN @[k + 1] ELSE @[k]]]
           r == List!Removed(l, i)
<1>1. e \in Nat /\ m \in 0..e /\ m > 0 /\ m \in Nat /\ i \in 0..(m - 1)
  BY ListFields
<1>2. l.pointer = "owned" /\ l.array \in [0..(e - 1) -> CellValue] /\ e > 0
  BY <1>1, ListFields
<1>3. /\ ListForm(s) /\ s.pointer = l.pointer /\ s.allocation_size = e /\ s.list_size = m
      /\ s.array = [k \in DOMAIN l.array |-> cell(k)]
  BY DEF GoodList, ListForm
<1>4. r = List!Shortened(s, m - 1)
  BY DEF List!Removed
<1> HIDE DEF s, r, e, m
<1>5. /\ s.array \in [0..(e - 1) -> CellValue]
      /\ \A k \in 0..(e - 1) : s.array[k] = cell(k)
  <2>1. \A k \in 0..(e - 1) : cell(k) \in CellValue
    <3> TAKE k \in 0..(e - 1)
    <3>1. k \in i..(m - 2) => k + 1 \in 0..(e - 1)
      BY <1>1, <1>2
    <3> QED BY <1>2, <3>1
  <2>2. DOMAIN l.array = 0..(e - 1)
    BY <1>2
  <2> HIDE DEF cell
  <2> QED BY <1>3, <2>1, <2>2
<1>6. GoodList(s)
  <2>1. ListForm(s) /\ s.pointer = "owned" /\ s.allocation_size = e /\ s.list_size = m
    BY <1>2, <1>3
  <2> HIDE DEF cell
  <2> QED BY <1>1, <1>5, <2>1, GoodListFromFields
<1>7. /\ GoodList(r) /\ r.pointer = l.pointer /\ List!Contents(r) \in Seq(CellValue)
      /\ Len(List!Contents(r)) = m - 1
      /\ List!Contents(r) = [k \in 1..(m - 1) |-> List!Contents(s)[k]]
  <2>1. m - 1 \in 0..s.list_size /\ s.pointer = l.pointer
    <3> HIDE DEF cell
    <3> QED BY <1>1, <1>3
  <2> HIDE DEF cell
  <2> QED BY <1>4, <1>6, <2>1, ShortenedIs
<1>8. \A k \in 1..m : List!Contents(s)[k] = s.array[k - 1]
  <2> HIDE DEF cell
  <2> QED BY <1>3, <1>6, ListContentsIs
<1>9. /\ List!Contents(l) \in Seq(CellValue) /\ Len(List!Contents(l)) = m
      /\ \A k \in 1..m : List!Contents(l)[k] = l.array[k - 1]
  BY ListContentsIs DEF m
<1>10. \A k \in 1..(m - 1) : List!Contents(r)[k] =
         IF k <= i THEN List!Contents(l)[k] ELSE List!Contents(l)[k + 1]
  <2> TAKE k \in 1..(m - 1)
  <2>1. /\ k - 1 \in 0..(e - 1) /\ (k <= i <=> ~(k - 1 \in i..(m - 2))) /\ k \in 1..m
        /\ k + 1 \in 1..m /\ (k - 1) + 1 = k /\ (k + 1) - 1 = k
    BY <1>1
  <2>2. List!Contents(r)[k] = s.array[k - 1]
    <3> HIDE DEF cell
    <3> QED BY <1>7, <1>8, <2>1
  <2>3. s.array[k - 1] = cell(k - 1)
    <3> HIDE DEF cell
    <3> QED BY <1>5, <2>1
  <2>4. List!Contents(l)[k] = l.array[k - 1] /\ List!Contents(l)[k + 1] = l.array[k]
    BY <1>9, <2>1
  <2> QED BY <2>1, <2>2, <2>3, <2>4
<1>11. List!Contents(r) = Store!RemovedAt(List!Contents(l), i)
  <2> HIDE DEF cell
  <2> QED BY <1>1, <1>7, <1>9, <1>10, IsRemoved
<1> QED BY <1>7, <1>11 DEF r
-----------------------------------------------------------------------------
(* The invariant.  FaultHasCause is inductive once the fields of the other  *)
(* calls' objects are known; a list's pointer must never be left where      *)
(* Clear has deleted the array.                                             *)

ArraysInv ==
  /\ container \in {"queue", "list"}
  /\ objects = [o \in Objects |-> objects[o]]
  /\ IsQueue => \A o \in Objects : GoodQueue(objects[o])
  /\ IsList => \A o \in Objects : GoodList(objects[o])
  /\ done \in CallsOrNone /\ value \in Int
  /\ subject \in ObjectOrNone /\ made \in 0..1 /\ freed \in 0..1
  /\ fault \in Faults
  /\ IsQueue => Queue!FaultHasCause
  /\ IsList => List!FaultHasCause

(* The contents that SequenceStore sees.                                    *)
Held == [o \in Objects |-> IF IsQueue THEN Queue!Contents(objects[o])
                                      ELSE List!Contents(objects[o])]
HeldSequences == \A o \in Objects : Held[o] \in Seq(CellValue)

(* What every step must do: keep the invariant, lose no array without an    *)
(* excuse, and be seen as a step of SequenceStore or not at all.            *)
Seen == Store!Next \/ UNCHANGED <<Alive, Held, done, value>>
Sound == ArraysInv' /\ EachIsExcused /\ Seen

LEMMA InvHeld == ArraysInv => HeldSequences
<1> SUFFICES ASSUME ArraysInv, NEW o \in Objects PROVE Held[o] \in Seq(CellValue)
  BY DEF HeldSequences
<1>1. CASE IsQueue
  <2>1. GoodQueue(objects[o])
    BY <1>1 DEF ArraysInv
  <2>2. Queue!Contents(objects[o]) \in Seq(CellValue)
    BY <2>1, ContentsIs
  <2> QED BY <1>1, <2>2 DEF Held
<1>2. CASE ~IsQueue
  <2>1. GoodList(objects[o])
    BY <1>2 DEF ArraysInv, IsQueue, IsList, CallsOrNone
  <2>2. List!Contents(objects[o]) \in Seq(CellValue)
    BY <2>1, ListContentsIs
  <2> QED BY <1>2, <2>2 DEF Held
<1> QED BY <1>1, <1>2

(* The calls as SequenceStore sees them.                                    *)
LEMMA SeenConstruct ==
  ASSUME NEW o \in Objects \ Alive, Alive' = Alive \cup {o}, done' = "Construct", value' = None,
         Held' = [Held EXCEPT ![o] = <<>>]
  PROVE  Store!Next
BY DEF Held, Store!Next, Store!Construct, Store!Returns, Store!None, None

LEMMA SeenCopyConstruct ==
  ASSUME NEW o \in Objects \ Alive, NEW m \in Alive, Alive' = Alive \cup {o},
         done' = "CopyConstruct", value' = None, Held' = [Held EXCEPT ![o] = Held[m]]
  PROVE  Store!Next
BY DEF Held, Store!Next, Store!CopyConstruct, Store!Returns, Store!None, None

LEMMA SeenDestroy ==
  ASSUME NEW o \in Alive, Alive' = Alive \ {o}, done' = "Destroy", value' = None,
         Held' = [Held EXCEPT ![o] = <<>>]
  PROVE  Store!Next
BY DEF Held, Store!Next, Store!Destroy, Store!Returns, Store!None, None

LEMMA SeenAssign ==
  ASSUME NEW o \in Alive, NEW m \in Alive, Alive' = Alive, done' = "Assign", value' = None,
         Held' = [Held EXCEPT ![o] = Held[m]]
  PROVE  Store!Next
BY DEF Held, Store!Next, Store!Assign, Store!Returns, Store!Become, Store!None, None

LEMMA SeenClear ==
  ASSUME NEW o \in Alive, Alive' = Alive, done' = "Clear", value' = None,
         Held' = [Held EXCEPT ![o] = <<>>]
  PROVE  Store!Next
BY DEF Held, Store!Next, Store!Clear, Store!Returns, Store!Become, Store!None, None

LEMMA SeenPop ==
  ASSUME NEW o \in Alive, Alive' = Alive, done' = "Pop", value' = Held[o][1], Held[o] # <<>>,
         Held' = [Held EXCEPT ![o] = Store!RemovedAt(Held[o], 0)]
  PROVE  Store!Next
BY DEF Held, Store!Next, Store!Pop, Store!Returns, Store!Become

LEMMA SeenKept ==
  ASSUME NEW o \in Alive, Alive' = Alive, Held' = Held,
         \/ done' = "Size" /\ value' = Len(Held[o])
         \/ done' = "Compress" /\ value' = None
         \/ \E x \in Items : done' = "Find" /\ value' = IF Store!Holds(Held[o], x) THEN 1 ELSE 0
         \/ \E x \in Items : done' = "GetIndexOf" /\ ~Store!Holds(Held[o], x) /\ value' = -1
         \/ \E x \in Items : \E k \in DOMAIN Held[o] :
              /\ done' = "GetIndexOf" /\ Held[o][k] = x /\ value' = k - 1
              /\ \A j \in 1..(k - 1) : Held[o][j] # x
  PROVE  Store!Next
<1>1. Store!Keep
  BY DEF Store!Keep, Held
<1>2. CASE done' = "Size" /\ value' = Len(Held[o])
  <2>1. Store!Size(o)
    BY <1>1, <1>2 DEF Held, Store!Size, Store!Returns
  <2> QED BY <2>1 DEF Store!Next
<1>3. CASE done' = "Compress" /\ value' = None
  <2>1. Store!Compress(o)
    BY <1>1, <1>3 DEF Store!Compress, Store!Returns, Store!None, None
  <2> QED BY <2>1 DEF Store!Next
<1>4. ASSUME NEW x \in Items, done' = "Find", value' = IF Store!Holds(Held[o], x) THEN 1 ELSE 0
      PROVE  Store!Next
  <2>1. Store!Find(o, x)
    BY <1>1, <1>4 DEF Held, Store!Find, Store!Returns
  <2> QED BY <2>1 DEF Store!Next
<1>5. ASSUME NEW x \in Items, done' = "GetIndexOf", ~Store!Holds(Held[o], x), value' = -1
      PROVE  Store!Next
  <2>1. Store!GetIndexOf(o, x)
    BY <1>1, <1>5 DEF Held, Store!GetIndexOf, Store!Returns
  <2> QED BY <2>1 DEF Store!Next
<1>6. ASSUME NEW x \in Items, NEW k \in DOMAIN Held[o], done' = "GetIndexOf", Held[o][k] = x,
             value' = k - 1, \A j \in 1..(k - 1) : Held[o][j] # x
      PROVE  Store!Next
  <2>1. Store!GetIndexOf(o, x)
    BY <1>1, <1>6 DEF Held, Store!GetIndexOf, Store!Returns
  <2> QED BY <2>1 DEF Store!Next
<1> QED BY <1>2, <1>3, <1>4, <1>5, <1>6

(* Those at a position.                                                     *)
LEMMA SeenAt ==
  ASSUME NEW o \in Alive, Alive' = Alive, NEW i \in Nat, Len(Held[o]) \in Nat, Len(Held'[o]) \in Nat,
         \/ \E x \in Items : /\ done' = "Insert" /\ value' = i /\ i <= Len(Held[o])
                             /\ Held' = [Held EXCEPT ![o] = Store!InsertedAt(Held[o], i, x)]
         \/ /\ done' = "RemoveAt" /\ value' = i /\ i <= Len(Held[o])
            /\ IF i < Len(Held[o]) THEN Held' = [Held EXCEPT ![o] = Store!RemovedAt(Held[o], i)]
                                   ELSE Held' = Held
         \/ /\ done' = "RemoveLast" /\ value' = i /\ i <= Len(Held[o])
            /\ Held' = [Held EXCEPT ![o] = [k \in 1..(Len(Held[o]) - i) |-> Held[o][k]]]
         \/ /\ done' = "Read" /\ i < Len(Held[o]) /\ value' = Held[o][i + 1] /\ Held' = Held
  PROVE  Store!Next
<1> DEFINE is == 0..(Len(Held[o]) + Len(Held'[o]))
<1>1. i <= Len(Held[o]) => i \in is
  <2>1. \A a, b \in Nat : i <= a => i \in 0..(a + b)
    OBVIOUS
  <2> QED BY <2>1
<1>2. ASSUME NEW x \in Items, done' = "Insert", value' = i, i <= Len(Held[o]),
             Held' = [Held EXCEPT ![o] = Store!InsertedAt(Held[o], i, x)]
      PROVE  Store!Next
  <2>1. Store!Insert(o, i, x)
    BY <1>2 DEF Held, Store!Insert, Store!Returns, Store!Become
  <2> QED BY <1>1, <1>2, <2>1 DEF Store!Next, Held
<1>3. CASE /\ done' = "RemoveAt" /\ value' = i /\ i <= Len(Held[o])
           /\ IF i < Len(Held[o]) THEN Held' = [Held EXCEPT ![o] = Store!RemovedAt(Held[o], i)]
                                  ELSE Held' = Held
  <2>1. Store!RemoveAt(o, i)
    BY <1>3 DEF Held, Store!RemoveAt, Store!Returns, Store!Become, Store!Keep
  <2> QED BY <1>1, <1>3, <2>1 DEF Store!Next, Held
<1>4. CASE /\ done' = "RemoveLast" /\ value' = i /\ i <= Len(Held[o])
           /\ Held' = [Held EXCEPT ![o] = [k \in 1..(Len(Held[o]) - i) |-> Held[o][k]]]
  <2>1. Store!RemoveLast(o, i)
    BY <1>4 DEF Held, Store!RemoveLast, Store!Returns, Store!Become
  <2> QED BY <1>1, <1>4, <2>1 DEF Store!Next, Held
<1>5. CASE done' = "Read" /\ i < Len(Held[o]) /\ value' = Held[o][i + 1] /\ Held' = Held
  <2>1. Store!Read(o, i)
    BY <1>5 DEF Held, Store!Read, Store!Returns, Store!Keep
  <2>2. i \in is
    BY <1>1, <1>5
  <2> QED BY <2>1, <2>2 DEF Store!Next, Held
<1> QED BY <1>2, <1>3, <1>4, <1>5

LEMMA SeenReplaceLast ==
  ASSUME NEW o \in Alive, Alive' = Alive, NEW x \in Items, done' = "ReplaceLast", value' = None,
         Held' = [Held EXCEPT ![o] =
                   [k \in DOMAIN Held[o] |-> IF k = Len(Held[o]) THEN x ELSE Held[o][k]]]
  PROVE  Store!Next
<1>1. Store!ReplaceLast(o, x)
  BY DEF Held, Store!ReplaceLast, Store!Returns, Store!Become, Store!None, None
<1> QED BY <1>1 DEF Store!Next

LEMMA SeenReplaceAt ==
  ASSUME NEW o \in Alive, Alive' = Alive, NEW x \in Items, NEW filler \in Items, NEW i \in Nat,
         Len(Held[o]) \in Nat, Len(Held'[o]) \in Nat, i < Len(Held[o]) \/ i < Len(Held'[o]),
         done' = "ReplaceAt", value' = i,
         Held' = [Held EXCEPT ![o] =
                   [k \in 1..(IF i < Len(Held[o]) THEN Len(Held[o]) ELSE i + 1) |->
                     IF k = i + 1 THEN x ELSE IF k <= Len(Held[o]) THEN Held[o][k] ELSE filler]]
  PROVE  Store!Next
<1>1. Store!ReplaceAt(o, i, x, filler)
  BY DEF Held, Store!ReplaceAt, Store!Returns, Store!Become
<1>2. i \in 0..(Len(Held[o]) + Len(Held'[o]))
  <2>1. CASE i < Len(Held[o])
    BY <2>1
  <2>2. CASE i < Len(Held'[o])
    BY <2>2
  <2> QED BY <2>1, <2>2
<1> QED BY <1>1, <1>2 DEF Store!Next, Held
-----------------------------------------------------------------------------
(* What every call has in common.                                           *)

(* A call that gives o the fields r, allocates n arrays and deletes d.      *)
Does(o, r, n, d) ==
  /\ fault = NoFault /\ fault' = fault /\ objects' = [objects EXCEPT ![o] = r]
  /\ subject' = o /\ made' = n /\ freed' = d

(* It loses none without an excuse.                                         *)
Balanced(o, r, n, d) ==
  /\ n \in 0..1 /\ d \in 0..1
  /\ LET lost == Owned(objects[o]) + n - d - Owned(r)
     IN  lost = 0 \/ (lost = 1 /\ MayLose(o))

(* A call that gives nothing new fields.                                    *)
Unmoved == UNCHANGED objects /\ subject' = "none" /\ made' = 0 /\ freed' = 0

LEMMA OwnedIs ==
  ASSUME NEW r
  PROVE  Owned(r) \in 0..1 /\ Queue!Owned(r) = Owned(r) /\ List!Owned(r) = Owned(r)
BY DEF Owned, Queue!Owned, List!Owned

LEMMA UnmovedLosesNothing ==
  ASSUME Unmoved
  PROVE  EachIsExcused
<1>1. \A o \in Objects : Lost(o) = 0
  BY DEF Unmoved, Lost, Owned
<1> QED BY <1>1 DEF Unmoved, EachIsExcused, LossIsExcused

(* A call that is undefined changes nothing more.                           *)
LEMMA Faulty ==
  ASSUME ArraysInv, container' = container, NEW f \in Faults, fault' = f, Unmoved,
         UNCHANGED <<done, value>>, f.object \in Objects,
         IsQueue => Queue!HasCause(f), IsList => List!HasCause(f)
  PROVE  Sound
<1>1. Alive' = Alive /\ Held' = Held /\ objects' = objects
  BY DEF Unmoved, Alive, Held, IsQueue
<1>2. IsQueue' => Queue!FaultHasCause'
  BY <1>1 DEF IsQueue, Queue!FaultHasCause, Queue!HasCause, Queue!Before, Queue!UndefinedIfUnset
<1>3. IsList' => List!FaultHasCause'
  BY <1>1 DEF IsList, List!FaultHasCause, List!HasCause
<1>4. subject' \in ObjectOrNone /\ made' \in 0..1 /\ freed' \in 0..1
  BY DEF Unmoved, ObjectOrNone
<1>5. ArraysInv'
  BY <1>1, <1>2, <1>3, <1>4 DEF ArraysInv, IsQueue, IsList
<1> QED BY <1>1, <1>5, UnmovedLosesNothing DEF Sound, Seen

(* A fault is one of Faults.                                                *)
LEMMA FaultIs ==
  ASSUME NEW method \in Calls, NEW o \in Objects, NEW i \in Int
  PROVE  LET f == [call |-> method, object |-> o, at |-> i] IN
         f \in Faults /\ f.call = method /\ f.object = o /\ f.at = i
BY DEF Faults, CallsOrNone, ObjectOrNone

(* One that keeps the objects.                                              *)
LEMMA Keeps ==
  ASSUME ArraysInv, container' = container, fault = NoFault, UNCHANGED fault, Unmoved,
         done' \in Calls, value' \in Int
  PROVE  ArraysInv' /\ EachIsExcused /\ Alive' = Alive /\ Held' = Held /\ EachIsExcused
<1>1. Queue!FaultHasCause' /\ List!FaultHasCause'
  BY DEF Queue!FaultHasCause, List!FaultHasCause, Queue!NoFault, List!NoFault, NoFault
<1>2. Alive' = Alive /\ Held' = Held /\ objects' = objects
  BY DEF Unmoved, Alive, Held, IsQueue
<1>3. subject' \in ObjectOrNone /\ made' \in 0..1 /\ freed' \in 0..1
  BY DEF Unmoved, ObjectOrNone
<1>4. ArraysInv'
  BY <1>1, <1>2, <1>3 DEF ArraysInv, IsQueue, IsList, CallsOrNone
<1> QED BY <1>2, <1>4, UnmovedLosesNothing

(* One that gives o new fields.                                             *)
LEMMA NewFields ==
  ASSUME ArraysInv, NEW o \in Objects, NEW r, NEW n, NEW d, Does(o, r, n, d), Balanced(o, r, n, d)
  PROVE  /\ \A p \in Objects : objects'[p] = IF p = o THEN r ELSE objects[p]
         /\ objects' = [p \in Objects |-> objects'[p]]
         /\ Alive' = IF r.pointer = "absent" THEN Alive \ {o} ELSE Alive \cup {o}
         /\ Queue!FaultHasCause' /\ List!FaultHasCause'
         /\ subject' \in ObjectOrNone /\ made' \in 0..1 /\ freed' \in 0..1 /\ fault' \in Faults
         /\ EachIsExcused
<1>1. objects' = [p \in Objects |-> IF p = o THEN r ELSE objects[p]]
  BY DEF ArraysInv, Does
<1>2. /\ \A p \in Objects : objects'[p] = IF p = o THEN r ELSE objects[p]
      /\ objects' = [p \in Objects |-> objects'[p]]
  BY <1>1
<1>3. Queue!FaultHasCause' /\ List!FaultHasCause'
  BY DEF Does, Queue!FaultHasCause, List!FaultHasCause, Queue!NoFault, List!NoFault, NoFault
<1>4. subject' \in ObjectOrNone /\ made' \in 0..1 /\ freed' \in 0..1 /\ fault' \in Faults
  BY DEF Does, Balanced, ObjectOrNone, ArraysInv
<1>5. LossIsExcused(o)
  <2>1. Lost(o) = Owned(objects[o]) + n - d - Owned(r)
    BY <1>2 DEF Lost, Does
  <2> QED BY <2>1 DEF Balanced, LossIsExcused
<1>6. EachIsExcused
  BY <1>2, <1>5 DEF Does, EachIsExcused
<1>7. Alive' = IF r.pointer = "absent" THEN Alive \ {o} ELSE Alive \cup {o}
  BY <1>2 DEF Alive
<1> QED BY <1>2, <1>3, <1>4, <1>6, <1>7

LEMMA QueueBecomes ==
  ASSUME ArraysInv, IsQueue, container' = container, done' \in Calls, value' \in Int,
         NEW o \in Objects, NEW r, GoodQueue(r),
         NEW n, NEW d, Does(o, r, n, d), Balanced(o, r, n, d)
  PROVE  /\ ArraysInv' /\ EachIsExcused /\ Held' = [Held EXCEPT ![o] = Queue!Contents(r)]
         /\ Alive' = IF r.pointer = "absent" THEN Alive \ {o} ELSE Alive \cup {o}
<1>1. /\ \A p \in Objects : objects'[p] = IF p = o THEN r ELSE objects[p]
      /\ objects' = [p \in Objects |-> objects'[p]]
      /\ Alive' = IF r.pointer = "absent" THEN Alive \ {o} ELSE Alive \cup {o}
      /\ Queue!FaultHasCause' /\ List!FaultHasCause'
      /\ subject' \in ObjectOrNone /\ made' \in 0..1 /\ freed' \in 0..1 /\ fault' \in Faults
      /\ EachIsExcused
  BY NewFields
<1>2. IsQueue' /\ ~IsList'
  BY DEF IsQueue, IsList
<1>3. \A p \in Objects : GoodQueue(objects'[p])
  BY <1>1 DEF ArraysInv
<1>4. (\A p \in Objects : GoodQueue(objects[p]))'
  BY <1>3
<1>5. ArraysInv'
  BY <1>1, <1>2, <1>4 DEF ArraysInv, CallsOrNone
<1>6. Held' = [p \in Objects |-> Queue!Contents(objects'[p])]
  BY <1>2 DEF Held
<1>7. Held = [p \in Objects |-> Queue!Contents(objects[p])]
  BY DEF Held
<1>8. Held' = [Held EXCEPT ![o] = Queue!Contents(r)]
  BY <1>1, <1>6, <1>7
<1> QED BY <1>1, <1>5, <1>8

LEMMA ListBecomes ==
  ASSUME ArraysInv, IsList, container' = container, done' \in Calls, value' \in Int,
         NEW o \in Objects, NEW r, GoodList(r),
         NEW n, NEW d, Does(o, r, n, d), Balanced(o, r, n, d)
  PROVE  /\ ArraysInv' /\ EachIsExcused /\ Held' = [Held EXCEPT ![o] = List!Contents(r)]
         /\ Alive' = IF r.pointer = "absent" THEN Alive \ {o} ELSE Alive \cup {o}
<1>1. /\ \A p \in Objects : objects'[p] = IF p = o THEN r ELSE objects[p]
      /\ objects' = [p \in Objects |-> objects'[p]]
      /\ Alive' = IF r.pointer = "absent" THEN Alive \ {o} ELSE Alive \cup {o}
      /\ Queue!FaultHasCause' /\ List!FaultHasCause'
      /\ subject' \in ObjectOrNone /\ made' \in 0..1 /\ freed' \in 0..1 /\ fault' \in Faults
      /\ EachIsExcused
  BY NewFields
<1>2. ~IsQueue /\ ~IsQueue' /\ IsList'
  BY DEF IsQueue, IsList
<1>3. \A p \in Objects : GoodList(objects'[p])
  BY <1>1 DEF ArraysInv
<1>4. (\A p \in Objects : GoodList(objects[p]))'
  BY <1>3
<1>5. ArraysInv'
  BY <1>1, <1>2, <1>4 DEF ArraysInv, CallsOrNone
<1>6. Held' = [p \in Objects |-> List!Contents(objects'[p])]
  BY <1>2 DEF Held
<1>7. Held = [p \in Objects |-> List!Contents(objects[p])]
  BY <1>2 DEF Held
<1>8. Held' = [Held EXCEPT ![o] = List!Contents(r)]
  BY <1>1, <1>6, <1>7
<1> QED BY <1>1, <1>5, <1>8

(* The cells that a good object may touch.                                  *)
LEMMA QueueReaches ==
  ASSUME NEW q, GoodQueue(q), NEW cells, cells \subseteq 0..(q.allocation_size - 1)
  PROVE  Queue!Reachable(q, cells)
<1>1. CASE cells = {}
  BY <1>1 DEF Queue!Reachable
<1>2. CASE cells # {}
  <2>1. q.allocation_size > 0
    <3>1. PICK k \in cells : k \in 0..(q.allocation_size - 1)
      BY <1>2
    <3> QED BY <3>1, QueueFields
  <2>2. q.pointer = "owned" /\ DOMAIN q.array = 0..(q.allocation_size - 1)
    BY <2>1, QueueFields
  <2> QED BY <2>2 DEF Queue!Reachable
<1> QED BY <1>1, <1>2

LEMMA ListReaches ==
  ASSUME NEW l, GoodList(l), NEW cells, cells \subseteq 0..(l.allocation_size - 1)
  PROVE  List!Reachable(l, cells)
<1>1. CASE cells = {}
  BY <1>1 DEF List!Reachable
<1>2. CASE cells # {}
  <2>1. l.allocation_size > 0
    <3>1. PICK k \in cells : k \in 0..(l.allocation_size - 1)
      BY <1>2
    <3> QED BY <3>1, ListFields
  <2>2. l.pointer = "owned" /\ DOMAIN l.array = 0..(l.allocation_size - 1)
    BY <2>1, ListFields
  <2> QED BY <2>2 DEF List!Reachable
<1> QED BY <1>1, <1>2

(* The items of a queue from position k on are in its array.                *)
LEMMA SlotsReachable ==
  ASSUME NEW q, GoodQueue(q), NEW k \in Nat
  PROVE  Queue!Reachable(q, {Queue!Slot(q, i) : i \in k..(Queue!Size(q) - 1)})
<1> DEFINE cells == {Queue!Slot(q, i) : i \in k..(Queue!Size(q) - 1)}
<1>1. \A i \in k..(Queue!Size(q) - 1) : Queue!Slot(q, i) \in 0..(q.allocation_size - 1)
  <2> TAKE i \in k..(Queue!Size(q) - 1)
  <2>1. q.allocation_size > 0 /\ i \in 0..(q.allocation_size - 1)
    BY SizeIs, QueueFields
  <2> QED BY <2>1, SlotIn
<1>2. cells \subseteq 0..(q.allocation_size - 1)
  BY <1>1
<1> HIDE DEF cells
<1> QED BY <1>2, QueueReaches DEF cells

LEMMA ItemsReachable ==
  ASSUME NEW q, GoodQueue(q)
  PROVE  Queue!Reachable(q, Queue!ItemCells(q))
<1>1. Queue!ItemCells(q) = {Queue!Slot(q, i) : i \in 0..(Queue!Size(q) - 1)}
  BY DEF Queue!ItemCells, Queue!Cells
<1>2. Queue!Reachable(q, {Queue!Slot(q, i) : i \in 0..(Queue!Size(q) - 1)})
  BY SlotsReachable
<1> QED BY <1>1, <1>2

LEMMA QueueDeletable ==
  ASSUME NEW q, GoodQueue(q), q.allocation_size > 0
  PROVE  Queue!Deletable(q) /\ Queue!IsSet(q) /\ q.pointer = "owned"
BY QueueFields DEF Queue!Deletable, Queue!IsSet

LEMMA ListItemsReachable ==
  ASSUME NEW l, GoodList(l), NEW k \in Nat
  PROVE  /\ List!Reachable(l, List!Cells(l.list_size))
         /\ List!Reachable(l, k..(l.list_size - 1))
<1>1. List!Cells(l.list_size) \subseteq 0..(l.allocation_size - 1)
  BY ListFields DEF List!Cells
<1>2. k..(l.list_size - 1) \subseteq 0..(l.allocation_size - 1)
  BY ListFields
<1> QED BY <1>1, <1>2, ListReaches

LEMMA ListDeletable ==
  ASSUME NEW l, GoodList(l), l.allocation_size > 0
  PROVE  List!Deletable(l) /\ l.pointer = "owned"
BY ListFields DEF List!Deletable

(* Clear deletes the array when it forgets it, and only then.               *)
LEMMA QueueClearBalance ==
  ASSUME NEW q, GoodQueue(q)
  PROVE  /\ Queue!CanClear(q) /\ Queue!ClearFrees(q) \in 0..1
         /\ Queue!ClearFrees(q) = IF q.allocation_size > Large THEN 1 ELSE 0
         /\ Owned(q) = Queue!ClearFrees(q) + Owned(Queue!Cleared(q))
         /\ q.allocation_size > 0 => Owned(q) = 1
<1>1. Large \in Nat /\ q.allocation_size \in Nat /\ (q.allocation_size > 0 => q.pointer = "owned")
  BY SizeAssumption, QueueFields
<1>2. CASE q.allocation_size = 0
  BY <1>1, <1>2 DEF Queue!CanClear, Queue!ClearFrees, Queue!Cleared, Owned
<1>3. CASE q.allocation_size > Large
  <2>1. Queue!Cleared(q).pointer = "freed"
    BY <1>1, <1>3 DEF Queue!Cleared, Queue!Absent
  <2> QED BY <1>1, <1>3, <2>1 DEF Queue!CanClear, Queue!ClearFrees, Owned, Queue!Owned, Queue!Deletable
<1>4. CASE q.allocation_size # 0 /\ ~(q.allocation_size > Large)
  <2>1. Queue!Cleared(q).pointer = "owned"
    BY <1>1, <1>4 DEF Queue!Cleared, Queue!Allocated, Queue!Filled
  <2> QED BY <1>1, <1>4, <2>1 DEF Queue!CanClear, Queue!ClearFrees, Owned
<1> QED BY <1>2, <1>3, <1>4

LEMMA ListClearBalance ==
  ASSUME NEW l, GoodList(l), NEW b \in BOOLEAN
  PROVE  /\ List!CanClear(l)
         /\ List!ClearFrees(l, b) = IF l.allocation_size > Large /\ ~b THEN 1 ELSE 0
         /\ Owned(l) = List!ClearFrees(l, b) + Owned(List!Cleared(l, b))
         /\ l.allocation_size > 0 => Owned(l) = 1
<1>1. Large \in Nat /\ l.allocation_size \in Nat /\ (l.allocation_size > 0 => l.pointer = "owned")
  BY SizeAssumption, ListFields
<1>2. CASE l.allocation_size = 0
  BY <1>1, <1>2 DEF List!CanClear, List!ClearFrees, List!Cleared, Owned
<1>3. CASE l.allocation_size > Large /\ ~b
  <2>1. List!Cleared(l, b).pointer = "null"
    BY <1>1, <1>3 DEF List!Cleared, List!Empty, List!Absent
  <2> QED BY <1>1, <1>3, <2>1 DEF List!CanClear, List!ClearFrees, Owned, List!Owned, List!Deletable
<1>4. CASE l.allocation_size # 0 /\ ~(l.allocation_size > Large /\ ~b)
  <2>1. List!Cleared(l, b).pointer = "owned"
    BY <1>1, <1>4 DEF List!Cleared, GoodList, ListForm
  <2> QED BY <1>1, <1>4, <2>1 DEF List!CanClear, List!ClearFrees, Owned, List!Deletable
<1> QED BY <1>2, <1>3, <1>4

(* What a call that keeps, gains or swaps the array of o loses: nothing.    *)
LEMMA BalancedIs ==
  ASSUME NEW o, NEW r, NEW n, NEW d,
         \/ r.pointer = objects[o].pointer /\ n = 0 /\ d = 0
         \/ r.pointer = "owned" /\ n = 1 /\ d = Owned(objects[o])
  PROVE  Balanced(o, r, n, d)
BY DEF Balanced, Owned

(* The object a call is for.                                                *)
LEMMA AliveQueue ==
  ASSUME ArraysInv, IsQueue, NEW o \in Alive
  PROVE  /\ o \in Objects /\ objects[o].pointer # "absent" /\ GoodQueue(objects[o])
         /\ Held[o] = Queue!Contents(objects[o]) /\ Alive \cup {o} = Alive
BY DEF ArraysInv, Alive, Held

LEMMA AliveList ==
  ASSUME ArraysInv, IsList, NEW o \in Alive
  PROVE  /\ o \in Objects /\ objects[o].pointer # "absent" /\ GoodList(objects[o])
         /\ Held[o] = List!Contents(objects[o]) /\ Alive \cup {o} = Alive
BY DEF ArraysInv, Alive, Held, IsQueue, IsList

LEMMA CellsAreNumbers == CellValue \subseteq Int
BY DEF CellValue, Garbage
-----------------------------------------------------------------------------
(* Each call of a queue.                                                    *)

LEMMA QueueConstructs ==
  ASSUME ArraysInv, IsQueue, container' = container, NEW o \in Objects, Queue!Construct(o)
  PROVE  Sound
<1> DEFINE r == Queue!Allocated(First)
<1>1. /\ Does(o, r, 1, 0) /\ objects[o].pointer = "absent"
      /\ done' = "Construct" /\ value' = None
  BY DEF Queue!Construct, Queue!Checked, Queue!NoFault, NoFault, Queue!Become, Queue!Returns, Queue!None, None, Does
<1>2. GoodQueue(r) /\ r.pointer = "owned" /\ Queue!Contents(r) = <<>>
  BY AllocatedIs
<1> HIDE DEF r
<1>3. /\ done' \in Calls /\ value' \in Int
  BY <1>1 DEF None, Calls
<1>b. Balanced(o, r, 1, 0)
  BY <1>1, <1>2 DEF Balanced, Owned
<1>4. /\ ArraysInv' /\ EachIsExcused /\ Held' = [Held EXCEPT ![o] = <<>>] /\ Alive' = Alive \cup {o}
  BY <1>1, <1>2, <1>3, <1>b, QueueBecomes
<1>5. o \notin Alive
  BY <1>1 DEF Alive
<1> QED BY <1>1, <1>4, <1>5, SeenConstruct DEF Sound, Seen

LEMMA QueueCopies ==
  ASSUME ArraysInv, IsQueue, container' = container, NEW o \in Objects, NEW m \in Alive,
         Queue!CopyConstruct(o, m)
  PROVE  Sound
<1> DEFINE from == objects[m]
           n == Queue!Size(from)
           r == IF n = 0 THEN Queue!Blank ELSE Queue!Moved(from, n + 1)
<1>1. GoodQueue(from) /\ Held[m] = Queue!Contents(from) /\ m \in Objects
  BY AliveQueue
<1>2. objects[o].pointer = "absent" /\ fault = NoFault
  BY DEF Queue!CopyConstruct, Queue!Checked, Queue!NoFault, NoFault
<1> DEFINE f == [call |-> "CopyConstruct", object |-> m, at |-> 0]
<1>3. CASE ~Queue!IsSet(from)
  <2>1. fault' = f /\ Unmoved /\ UNCHANGED <<done, value>>
    BY <1>3 DEF Queue!CopyConstruct, Queue!Checked, Unmoved
  <2>2. f \in Faults /\ f.object = m /\ f.call = "CopyConstruct"
    BY <1>1, FaultIs DEF Calls
  <2> HIDE DEF f
  <2>3. Queue!HasCause(f) /\ ~IsList
    BY <1>3, <2>2 DEF Queue!HasCause, Queue!IsSet, Queue!UndefinedIfUnset, IsQueue, IsList
  <2> QED BY <1>1, <2>1, <2>2, <2>3, Faulty
<1>4. CASE Queue!IsSet(from)
  <2> DEFINE made_ == IF n = 0 THEN 0 ELSE 1
  <2>a. Queue!Reachable(from, Queue!ItemCells(from))
    BY <1>1, ItemsReachable
  <2>1. Does(o, r, made_, 0) /\ done' = "CopyConstruct" /\ value' = None
    BY <1>4, <2>a DEF Queue!CopyConstruct, Queue!Checked, Queue!NoFault, NoFault, Queue!Become,
                      Queue!Returns, Queue!None, None, Does
  <2>b. Balanced(o, r, made_, 0)
    BY <1>2 DEF Balanced, Owned, Queue!Blank, Queue!Absent, Queue!Moved, Queue!Filled
  <2>2. GoodQueue(r) /\ r.pointer # "absent" /\ Queue!Contents(r) = Held[m]
    <3>1. CASE n = 0
      BY <1>1, <3>1, BlankIs, NoItems
    <3>2. CASE n # 0
      <4>1. n + 1 \in Nat /\ n + 1 > n
        BY <1>1, SizeIs
      <4> QED BY <1>1, <3>2, <4>1, MovedIs
    <3> QED BY <3>1, <3>2
  <2> HIDE DEF r, made_
  <2>3. /\ done' \in Calls /\ value' \in Int
    BY <2>1 DEF None, Calls
  <2>4. /\ ArraysInv' /\ EachIsExcused /\ Held' = [Held EXCEPT ![o] = Held[m]] /\ Alive' = Alive \cup {o}
    BY <2>1, <2>b, <2>2, <2>3, QueueBecomes
  <2>5. o \notin Alive
    BY <1>2 DEF Alive
  <2> QED BY <2>1, <2>4, <2>5, SeenCopyConstruct DEF Sound, Seen
<1> QED BY <1>3, <1>4

LEMMA QueueDestroys ==
  ASSUME ArraysInv, IsQueue, container' = container, NEW o \in Alive, Queue!Destroy(o)
  PROVE  Sound
<1> DEFINE q == objects[o]
           r == Queue!Absent
<1>1. o \in Objects /\ GoodQueue(q)
  BY AliveQueue
<1> DEFINE d == IF q.allocation_size > 0 THEN Owned(q) ELSE 0
<1>2. q.allocation_size > 0 => Queue!Deletable(q)
  BY <1>1, QueueDeletable
<1>3. /\ Does(o, r, 0, d) /\ done' = "Destroy" /\ value' = None
  BY <1>2, OwnedIs DEF Queue!Destroy, Queue!Checked, Queue!NoFault, NoFault, Queue!Become, Queue!Returns, Queue!None, None,
              Does
<1>4. GoodQueue(r) /\ r.pointer = "absent" /\ Queue!Contents(r) = <<>>
  BY AbsentIs
<1>b. Balanced(o, r, 0, d)
  BY <1>1, <1>4, QueueFields DEF Balanced, Owned, MayLose, Orphan
<1> HIDE DEF r, d
<1>5. done' \in Calls /\ value' \in Int
  BY <1>3 DEF None, Calls
<1>6. ArraysInv' /\ EachIsExcused /\ Held' = [Held EXCEPT ![o] = <<>>] /\ Alive' = Alive \ {o}
  BY <1>1, <1>3, <1>4, <1>5, <1>b, QueueBecomes
<1> QED BY <1>3, <1>6, SeenDestroy DEF Sound, Seen

LEMMA QueueClears ==
  ASSUME ArraysInv, IsQueue, container' = container, NEW o \in Alive, Queue!Clear(o)
  PROVE  Sound
<1> DEFINE q == objects[o]
           r == Queue!Cleared(q)
<1>1. o \in Objects /\ GoodQueue(q) /\ q.pointer # "absent" /\ Alive \cup {o} = Alive
  BY AliveQueue
<1> DEFINE d == Queue!ClearFrees(q)
<1>2. Queue!CanClear(q) /\ d \in 0..1 /\ Owned(q) = d + Owned(r)
  BY <1>1, QueueClearBalance
<1>3. /\ Does(o, r, 0, d) /\ done' = "Clear" /\ value' = None
  BY <1>2 DEF Queue!Clear, Queue!Checked, Queue!NoFault, NoFault, Queue!Become, Queue!Returns, Queue!None, None, Does
<1>4. GoodQueue(r) /\ r.pointer # "absent" /\ Queue!Contents(r) = <<>>
  BY <1>1, ClearedIs
<1> HIDE DEF r, d
<1>b. Balanced(o, r, 0, d)
  BY <1>2, OwnedIs DEF Balanced
<1>5. done' \in Calls /\ value' \in Int
  BY <1>3 DEF None, Calls
<1>6. ArraysInv' /\ EachIsExcused /\ Held' = [Held EXCEPT ![o] = <<>>] /\ Alive' = Alive
  BY <1>1, <1>3, <1>4, <1>5, <1>b, QueueBecomes
<1> QED BY <1>3, <1>6, SeenClear DEF Sound, Seen

LEMMA QueueForcesAllocation ==
  ASSUME ArraysInv, IsQueue, container' = container, NEW o \in Alive, NEW n \in Nat,
         Queue!ClearAndForceAllocation(o, n)
  PROVE  Sound
<1> DEFINE q == objects[o]
           r == Queue!Allocated(n)
<1>1. o \in Objects /\ GoodQueue(q) /\ q.pointer # "absent" /\ Alive \cup {o} = Alive
  BY AliveQueue
<1>2. CASE ~Queue!Deletable(q)
  <2> DEFINE f == [call |-> "ClearAndForceAllocation", object |-> o, at |-> 0]
  <2>1. fault' = f /\ Unmoved /\ UNCHANGED <<done, value>>
    BY <1>2 DEF Queue!ClearAndForceAllocation, Queue!Checked, Unmoved
  <2>2. q.pointer \in {"freed", "unset"}
    BY <1>1, <1>2 DEF Queue!Deletable, GoodQueue, Queue!QueueOK, Queue!Pointers
  <2>3. f \in Faults /\ f.object = o /\ f.call = "ClearAndForceAllocation"
    BY <1>1, FaultIs DEF Calls
  <2> HIDE DEF f
  <2>4. Queue!HasCause(f) /\ ~IsList
    BY <2>2, <2>3 DEF Queue!HasCause, Queue!UndefinedIfUnset, IsQueue, IsList
  <2> QED BY <1>1, <2>1, <2>3, <2>4, Faulty
<1>3. CASE Queue!Deletable(q)
  <2>1. Does(o, r, 1, Owned(q)) /\ done' = "Clear" /\ value' = None
    BY <1>3, OwnedIs DEF Does, Queue!ClearAndForceAllocation, Queue!Checked, Queue!NoFault, NoFault, Queue!Become, Queue!Returns,
                Queue!None, None
  <2>2. GoodQueue(r) /\ r.pointer = "owned" /\ Queue!Contents(r) = <<>>
    BY AllocatedIs
  <2> HIDE DEF r
  <2>b. Balanced(o, r, 1, Owned(q))
    BY <2>2, BalancedIs
  <2>3. done' \in Calls /\ value' \in Int
    BY <2>1 DEF None, Calls
  <2>4. ArraysInv' /\ EachIsExcused /\ Held' = [Held EXCEPT ![o] = <<>>] /\ Alive' = Alive
    BY <1>1, <2>1, <2>2, <2>3, <2>b, QueueBecomes
  <2> QED BY <2>1, <2>4, SeenClear DEF Sound, Seen
<1> QED BY <1>2, <1>3

LEMMA QueueAssigns ==
  ASSUME ArraysInv, IsQueue, container' = container, NEW o \in Alive, NEW m \in Alive,
         Queue!Assign(o, m)
  PROVE  Sound
<1> DEFINE q == Queue!Cleared(objects[o])
           from == objects[m]
           n == Queue!Size(from)
           r == IF n = 0 THEN [q EXCEPT !.allocation_size = 0] ELSE Queue!Moved(from, n + 1)
<1>1. /\ o \in Objects /\ GoodQueue(objects[o]) /\ objects[o].pointer # "absent"
      /\ Alive \cup {o} = Alive /\ Held[o] = Queue!Contents(objects[o])
      /\ GoodQueue(from) /\ Held[m] = Queue!Contents(from)
  BY AliveQueue
<1>2. fault = NoFault
  BY DEF Queue!Assign, Queue!Checked, Queue!NoFault, NoFault
<1>3. CASE o # m /\ ~Queue!IsSet(from)
  <2> DEFINE f == [call |-> "Assign", object |-> m, at |-> 0]
  <2>1. fault' = f /\ Unmoved /\ UNCHANGED <<done, value>>
    BY <1>3 DEF Queue!Assign, Queue!Checked, Unmoved
  <2>2. m \in Objects
    BY AliveQueue
  <2>3. f \in Faults /\ f.object = m /\ f.call = "Assign"
    BY <2>2, FaultIs DEF Calls
  <2> HIDE DEF f
  <2>4. Queue!HasCause(f) /\ ~IsList
    BY <1>3, <2>3 DEF Queue!HasCause, Queue!IsSet, Queue!UndefinedIfUnset, IsQueue, IsList
  <2> QED BY <2>1, <2>2, <2>3, <2>4, Faulty
<1>4. CASE o = m
  <2>1. UNCHANGED fault /\ Unmoved /\ done' = "Assign" /\ value' = None
    BY <1>4 DEF Unmoved, Queue!Assign, Queue!Checked, Queue!NoFault, NoFault, Queue!Keep, Queue!Returns, Queue!None, None
  <2>2. done' \in Calls /\ value' \in Int
    BY <2>1 DEF None, Calls
  <2>3. ArraysInv' /\ EachIsExcused /\ Alive' = Alive /\ Held' = Held
    BY <1>2, <2>1, <2>2, Keeps
  <2>4. Held' = [Held EXCEPT ![o] = Held[m]]
    BY <1>4, <2>3 DEF Held
  <2> QED BY <2>1, <2>3, <2>4, SeenAssign DEF Sound, Seen
<1>5. CASE o # m /\ Queue!IsSet(from)
  <2> DEFINE made_ == IF n = 0 THEN 0 ELSE 1
             d == Queue!ClearFrees(objects[o])
             old == objects[o]
  <2>a. /\ Queue!CanClear(old) /\ Queue!Reachable(from, Queue!ItemCells(from))
        /\ d \in 0..1 /\ d = IF old.allocation_size > Large THEN 1 ELSE 0
        /\ Owned(old) = d + Owned(q) /\ (old.allocation_size > 0 => Owned(old) = 1)
    BY <1>1, QueueClearBalance, ItemsReachable
  <2>1. Does(o, r, made_, d) /\ done' = "Assign" /\ value' = None
    BY <1>2, <1>5, <2>a DEF Does, Queue!Assign, Queue!Checked, Queue!NoFault, NoFault, Queue!Become, Queue!Returns, Queue!None, None
  <2>2. GoodQueue(r) /\ r.pointer # "absent" /\ Queue!Contents(r) = Held[m]
    <3>1. GoodQueue(q) /\ q.pointer # "absent" /\ q.head = 0 /\ q.tail = 0
      BY <1>1, ClearedIs
    <3>2. CASE n = 0
      <4> HIDE DEF q
      <4>1. Held[m] = <<>>
        BY <1>1, <3>2, NoItems
      <4> QED BY <3>1, <3>2, <4>1, ForgottenIs
    <3>3. CASE n # 0
      <4>1. n + 1 \in Nat /\ n + 1 > n
        BY <1>1, SizeIs
      <4> QED BY <1>1, <3>3, <4>1, MovedIs
    <3> QED BY <3>2, <3>3
  <2>b. Balanced(o, r, made_, d)
    <3>1. CASE n = 0
      <4>1. r.pointer = q.pointer
        <5>1. GoodQueue(q)
          BY <1>1, ClearedIs
        <5> HIDE DEF q
        <5> QED BY <3>1, <5>1 DEF GoodQueue, QueueForm
      <4>2. Owned(r) = Owned(q)
        BY <4>1 DEF Owned
      <4> HIDE DEF r, d, q
      <4> QED BY <2>a, <3>1, <4>2, OwnedIs DEF Balanced
    <3>2. CASE n # 0
      <4>1. Owned(r) = 1
        BY <3>2 DEF Queue!Moved, Queue!Filled, Owned
      <4> HIDE DEF r, d, q
      <4>2. Large \in Nat /\ old.allocation_size \in Nat
        BY <1>1, SizeAssumption, QueueFields
      <4>3. CASE d = 1
        BY <2>a, <3>2, <4>1, <4>3, OwnedIs DEF Balanced
      <4>4. CASE d = 0 /\ old.allocation_size = 0
        <5>1. Owned(old) = 1 => Orphan(old)
          BY <4>4 DEF Owned, Orphan
        <5> QED BY <2>a, <3>2, <4>1, <4>4, <5>1, OwnedIs DEF Balanced, MayLose
      <4>5. CASE d = 0 /\ old.allocation_size # 0
        <5>1. old.allocation_size \in 1..Large
          BY <2>a, <4>2, <4>5
        <5> QED BY <2>1, <2>a, <3>2, <4>1, <4>5, <5>1, OwnedIs DEF Balanced, MayLose
      <4> QED BY <2>a, <4>3, <4>4, <4>5
    <3> QED BY <3>1, <3>2
  <2> HIDE DEF r, d, made_
  <2>3. done' \in Calls /\ value' \in Int
    BY <2>1 DEF None, Calls
  <2>4. ArraysInv' /\ EachIsExcused /\ Held' = [Held EXCEPT ![o] = Held[m]] /\ Alive' = Alive
    BY <1>1, <2>1, <2>2, <2>3, <2>b, QueueBecomes
  <2> QED BY <2>1, <2>4, SeenAssign DEF Sound, Seen
<1> QED BY <1>3, <1>4, <1>5

LEMMA QueueInserted ==
  ASSUME ArraysInv, IsQueue, container' = container, NEW o \in Alive, NEW x \in Items,
         NEW i \in 0..Queue!Size(objects[o]),
         done' = "Insert", value' = i, NEW r, GoodQueue(r), r.pointer = "owned",
         NEW made_, NEW d, Does(o, r, made_, d), Balanced(o, r, made_, d),
         Queue!Contents(r) = Store!InsertedAt(Queue!Contents(objects[o]), i, x)
  PROVE  Sound
<1> DEFINE q == objects[o]
<1>1. o \in Objects /\ GoodQueue(q) /\ Alive \cup {o} = Alive /\ Held[o] = Queue!Contents(q)
  BY AliveQueue
<1>2. Queue!Size(q) \in Nat /\ Len(Held[o]) = Queue!Size(q)
  BY <1>1, SizeIs, ContentsIs
<1>3. i \in Nat /\ i <= Len(Held[o]) /\ Len(Held[o]) \in Nat
  BY <1>2
<1>4. done' \in Calls /\ value' \in Int
  BY <1>3 DEF Calls
<1>5. ArraysInv' /\ EachIsExcused /\ Held' = [Held EXCEPT ![o] = Queue!Contents(r)] /\ Alive' = Alive
  BY <1>1, <1>4, QueueBecomes
<1>6. Len(Held'[o]) \in Nat
  <2>1. HeldSequences'
    BY <1>5, InvHeld, PTL
  <2>2. Held'[o] \in Seq(CellValue)
    BY <1>1, <2>1 DEF HeldSequences, CellValue, Garbage
  <2> QED BY <2>2, LenProperties
<1>7. Held' = [Held EXCEPT ![o] = Store!InsertedAt(Held[o], i, x)]
  BY <1>1, <1>5
<1>8. Store!Next
  BY <1>3, <1>5, <1>6, <1>7, SeenAt
<1> QED BY <1>5, <1>8 DEF Sound, Seen

LEMMA QueuePushes ==
  ASSUME ArraysInv, IsQueue, container' = container, NEW o \in Alive, NEW x \in Items,
         Queue!Push(o, x)
  PROVE  Sound
<1> DEFINE q == objects[o]
           i == Queue!Size(q)
           p == Queue!Pushed(q, x)
           made_ == IF q.allocation_size = 0 \/ p.tail = p.head THEN 1 ELSE 0
           d == IF q.allocation_size > 0 /\ p.tail = p.head THEN Owned(p) ELSE 0
           r == IF q.allocation_size = 0 THEN FirstPushed(x) ELSE Queue!Grown(Queue!Pushed(q, x))
<1>1. o \in Objects /\ GoodQueue(q)
  BY AliveQueue
<1>2. q.allocation_size \in Nat /\ p.pointer = q.pointer /\ p.allocation_size = q.allocation_size
  BY <1>1, QueueFields DEF Queue!Pushed, GoodQueue, QueueForm
<1>f. Owned(p) = Owned(q) /\ (q.allocation_size > 0 => q.pointer = "owned")
  BY <1>1, <1>2, QueueFields DEF Owned
<1>a. q.allocation_size > 0 =>
        Queue!Deletable(q) /\ Queue!Reachable(q, {q.tail}) /\ Queue!Reachable(q, Queue!CellsToGrow(p))
  <2> SUFFICES ASSUME q.allocation_size > 0
               PROVE  Queue!Deletable(q) /\ Queue!Reachable(q, {q.tail})
                      /\ Queue!Reachable(q, Queue!CellsToGrow(p))
    OBVIOUS
  <2>1. {q.tail} \subseteq 0..(q.allocation_size - 1)
    BY <1>1, QueueFields
  <2>2. Queue!CellsToGrow(p) \subseteq 0..(q.allocation_size - 1)
    BY <1>2 DEF Queue!CellsToGrow, Queue!Cells
  <2> QED BY <1>1, <2>1, <2>2, QueueReaches, QueueDeletable
<1>3. Does(o, r, made_, d) /\ done' = "Insert" /\ value' = i
  <2>1. fault = NoFault /\ Queue!Returns("Insert", i)
        /\ IF q.allocation_size = 0 THEN Queue!PushFirst(o, x) ELSE Queue!GrownAfter(o, p)
    BY <1>a DEF Queue!Push, Queue!Checked, Queue!NoFault, NoFault
  <2>2. CASE q.allocation_size = 0
    BY <2>1, <2>2 DEF Queue!PushFirst, Queue!Become, Queue!Returns, FirstPushed, Does
  <2>3. CASE q.allocation_size # 0
    <3>1. q.allocation_size > 0 /\ r = Queue!Grown(p)
      BY <1>2, <2>3
    <3> HIDE DEF p, r
    <3> QED BY <2>1, <2>3, <3>1, OwnedIs DEF Queue!GrownAfter, Queue!Become, Queue!Returns, Does
  <2> QED BY <2>2, <2>3
<1>4. GoodQueue(r) /\ r.pointer = "owned" /\ Queue!Contents(r) = Store!InsertedAt(Queue!Contents(q), i, x)
  <2>1. CASE q.allocation_size = 0
    <3>1. i = 0
      BY <1>1, <2>1, SizeIs
    <3>2. Queue!Contents(q) = <<>>
      BY <1>1, <3>1, NoItems
    <3> QED BY <2>1, <3>1, <3>2, FirstPushedIs
  <2>2. CASE q.allocation_size # 0
    <3>1. q.allocation_size > 0
      BY <1>1, <2>2, QueueFields
    <3> QED BY <1>1, <2>2, <3>1, PushedIs
  <2> QED BY <2>1, <2>2
<1>5. i \in 0..i
  BY <1>1, SizeIs
<1>b. Balanced(o, r, made_, d)
  <2>1. r.pointer = "owned"
    BY <1>4
  <2> HIDE DEF r, p
  <2>2. CASE q.allocation_size = 0
    <3>1. Owned(q) = 1 => Orphan(q)
      BY <2>2 DEF Owned, Orphan
    <3> QED BY <2>1, <2>2, <3>1 DEF Balanced, Owned, MayLose
  <2>3. CASE q.allocation_size > 0
    BY <1>f, <2>1, <2>3 DEF Balanced, Owned
  <2> QED BY <1>2, <2>2, <2>3
<1> HIDE DEF r, made_, d, p
<1> QED BY <1>3, <1>4, <1>5, <1>b, QueueInserted

LEMMA QueuePushesAtHead ==
  ASSUME ArraysInv, IsQueue, container' = container, NEW o \in Alive, NEW x \in Items,
         NEW n \in 0..Queue!Size(objects[o]), Queue!PushAtHead(o, x, n)
  PROVE  Sound
<1> DEFINE q == objects[o]
           p == Queue!PushedAtHead(q, x, n)
           made_ == IF q.allocation_size = 0 \/ p.tail = p.head THEN 1 ELSE 0
           d == IF q.allocation_size > 0 /\ p.tail = p.head THEN Owned(p) ELSE 0
           r == IF q.allocation_size = 0 THEN FirstPushed(x)
                ELSE Queue!Grown(Queue!PushedAtHead(q, x, n))
           h == Queue!Before(q, q.head)
           fits == h + n < q.allocation_size
<1>1. o \in Objects /\ GoodQueue(q)
  BY AliveQueue
<1>2. /\ q.allocation_size \in Nat /\ p.pointer = q.pointer /\ n \in Nat
      /\ p.tail = q.tail /\ p.head = h
  BY <1>1, QueueFields, SizeIs DEF Queue!PushedAtHead, GoodQueue, QueueForm
<1>f. Owned(p) = Owned(q) /\ (q.allocation_size > 0 => q.pointer = "owned")
  BY <1>1, <1>2, QueueFields DEF Owned
<1>h. q.allocation_size > 0 => h \in 0..(q.allocation_size - 1)
  BY <1>1, QueueFields DEF Queue!Before
<1> HIDE DEF h
<1>3. CASE q.allocation_size > 0 /\ ~fits
  <2> DEFINE f == [call |-> "PushAtHead", object |-> o, at |-> n]
  <2>1. ~Queue!Reachable(q, h..(h + n))
    <3>1. h + n \in h..(h + n) /\ h + n \notin 0..(q.allocation_size - 1)
      BY <1>2, <1>3, <1>h
    <3>2. DOMAIN q.array = 0..(q.allocation_size - 1)
      BY <1>1, <1>3, QueueFields
    <3> QED BY <3>1, <3>2 DEF Queue!Reachable
  <2>2. fault' = f /\ Unmoved /\ UNCHANGED <<done, value>>
    BY <1>3, <2>1 DEF Queue!PushAtHead, Queue!Checked, Unmoved, h
  <2>3. f \in Faults /\ f.object = o /\ f.call = "PushAtHead" /\ f.at = n
    BY <1>1, <1>2, FaultIs DEF Calls
  <2> HIDE DEF f
  <2>4. Queue!HasCause(f) /\ ~IsList
    BY <1>2, <1>3, <1>h, <2>3 DEF Queue!HasCause, IsQueue, IsList, h
  <2> QED BY <1>1, <2>2, <2>3, <2>4, Faulty
<1>4. CASE q.allocation_size > 0 => fits
  <2> DEFINE g == [q EXCEPT !.head = h]
  <2>a. q.allocation_size > 0 =>
          /\ Queue!Deletable(q) /\ Queue!Reachable(q, h..(h + n))
          /\ Queue!Reachable(q, Queue!CellsToGrow(g))
    <3> SUFFICES ASSUME q.allocation_size > 0
                 PROVE  /\ Queue!Deletable(q) /\ Queue!Reachable(q, h..(h + n))
                        /\ Queue!Reachable(q, Queue!CellsToGrow(g))
      OBVIOUS
    <3>1. h..(h + n) \subseteq 0..(q.allocation_size - 1)
      BY <1>2, <1>4, <1>h
    <3>2. g.allocation_size = q.allocation_size
      BY <1>1 DEF GoodQueue, QueueForm
    <3>3. Queue!CellsToGrow(g) \subseteq 0..(q.allocation_size - 1)
      BY <1>2, <3>2 DEF Queue!CellsToGrow, Queue!Cells
    <3> HIDE DEF g
    <3> QED BY <1>1, <3>1, <3>3, QueueReaches, QueueDeletable
  <2>1. Does(o, r, made_, d) /\ done' = "Insert" /\ value' = n
    <3>1. fault = NoFault /\ Queue!Returns("Insert", n)
          /\ IF q.allocation_size = 0 THEN Queue!PushFirst(o, x) ELSE Queue!GrownAfter(o, p)
      BY <2>a DEF Queue!PushAtHead, Queue!Checked, Queue!NoFault, NoFault, h
    <3>2. CASE q.allocation_size = 0
      BY <3>1, <3>2 DEF Queue!PushFirst, Queue!Become, Queue!Returns, FirstPushed, Does
    <3>3. CASE q.allocation_size # 0
      <4>1. q.allocation_size > 0 /\ r = Queue!Grown(p)
        BY <1>2, <3>3
      <4> HIDE DEF p, r
      <4> QED BY <3>1, <3>3, <4>1, OwnedIs DEF Queue!GrownAfter, Queue!Become, Queue!Returns, Does
    <3> QED BY <3>2, <3>3
  <2>2. GoodQueue(r) /\ r.pointer = "owned" /\ Queue!Contents(r) = Store!InsertedAt(Queue!Contents(q), n, x)
    <3>1. CASE q.allocation_size = 0
      <4>1. Queue!Size(q) = 0
        BY <1>1, <3>1, SizeIs
      <4>2. Queue!Contents(q) = <<>> /\ n = 0
        BY <1>1, <4>1, NoItems
      <4> QED BY <3>1, <4>2, FirstPushedIs
    <3>2. CASE q.allocation_size # 0
      <4>1. q.allocation_size > 0
        BY <1>1, <3>2, QueueFields
      <4>2. fits
        BY <1>4, <4>1
      <4> QED BY <1>1, <3>2, <4>1, <4>2, PushedAtHeadIs DEF h
    <3> QED BY <3>1, <3>2
  <2>b. Balanced(o, r, made_, d)
    <3>1. r.pointer = "owned"
      BY <2>2
    <3> HIDE DEF r, p
    <3>2. CASE q.allocation_size = 0
      <4>1. Owned(q) = 1 => Orphan(q)
        BY <3>2 DEF Owned, Orphan
      <4> QED BY <3>1, <3>2, <4>1 DEF Balanced, Owned, MayLose
    <3>3. CASE q.allocation_size > 0
      BY <1>f, <3>1, <3>3 DEF Balanced, Owned
    <3> QED BY <1>2, <3>2, <3>3
  <2> HIDE DEF r, made_, d, p
  <2> QED BY <2>1, <2>2, <2>b, QueueInserted
<1> QED BY <1>3, <1>4

LEMMA QueuePops ==
  ASSUME ArraysInv, IsQueue, container' = container, NEW o \in Alive, Queue!Pop(o)
  PROVE  Sound
<1> DEFINE q == objects[o]
           r == PoppedQueue(q)
<1>1. /\ o \in Objects /\ GoodQueue(q) /\ Alive \cup {o} = Alive /\ Held[o] = Queue!Contents(q)
  BY AliveQueue
<1>2. Queue!Size(q) > 0 /\ fault = NoFault
  BY DEF Queue!Pop, Queue!Checked, Queue!NoFault, NoFault
<1>3. GoodQueue(r) /\ r.pointer = "owned" /\ Queue!Contents(r) = Store!RemovedAt(Queue!Contents(q), 0)
      /\ q.array[q.head] = Queue!Contents(q)[1] /\ Queue!Contents(q) # <<>>
  BY <1>1, <1>2, PoppedIs
<1>4. Queue!IsSet(q) /\ q.pointer = "owned" /\ Queue!Reachable(q, {q.head})
  <2>1. q.allocation_size > 0
    BY <1>1, <1>2, SizeIs, QueueFields
  <2>2. {q.head} \subseteq 0..(q.allocation_size - 1)
    BY <1>1, <2>1, QueueFields
  <2> QED BY <1>1, <2>1, <2>2, QueueReaches, QueueDeletable
<1>5. /\ Does(o, r, 0, 0) /\ done' = "Pop" /\ value' = q.array[q.head]
  BY <1>4 DEF Queue!Pop, Queue!Checked, Queue!NoFault, NoFault, Queue!Become, Queue!Returns, PoppedQueue, Queue!Garbage, Garbage, Does
<1> HIDE DEF r
<1>b. Balanced(o, r, 0, 0)
  BY <1>3, <1>4, BalancedIs
<1>6. done' \in Calls /\ value' \in Int
  <2>1. Queue!Contents(q) \in Seq(CellValue) /\ 1 \in 1..Len(Queue!Contents(q))
    BY <1>1, <1>2, SizeIs, ContentsIs
  <2>2. Queue!Contents(q)[1] \in CellValue
    BY <2>1, ElementOfSeq
  <2>3. value' \in CellValue
    BY <1>3, <1>5, <2>2
  <2>4. value' \in Int
    BY <2>3, CellsAreNumbers
  <2> QED BY <1>5, <2>4 DEF Calls
<1>7. ArraysInv' /\ EachIsExcused /\ Held' = [Held EXCEPT ![o] = Queue!Contents(r)] /\ Alive' = Alive
  BY <1>1, <1>3, <1>4, <1>5, <1>6, <1>b, QueueBecomes
<1>8. Held' = [Held EXCEPT ![o] = Store!RemovedAt(Held[o], 0)]
  BY <1>1, <1>3, <1>7
<1>9. value' = Held[o][1] /\ Held[o] # <<>>
  BY <1>1, <1>3, <1>5
<1> QED BY <1>5, <1>7, <1>8, <1>9, SeenPop DEF Sound, Seen

LEMMA QueueDeletes ==
  ASSUME ArraysInv, IsQueue, container' = container, NEW o \in Alive,
         NEW k \in 0..Queue!Size(objects[o]), Queue!Del(o, k)
  PROVE  Sound
<1> DEFINE q == objects[o]
           m == Queue!Size(q)
           r == Queue!Deleted(q, k)
<1>1. /\ o \in Objects /\ GoodQueue(q) /\ Alive \cup {o} = Alive /\ Held[o] = Queue!Contents(q)
  BY AliveQueue
<1>2. m \in Nat /\ Len(Held[o]) = m
  BY <1>1, SizeIs, ContentsIs
<1>3. k \in Nat /\ k <= Len(Held[o]) /\ Len(Held[o]) \in Nat
  BY <1>2
<1>4. CASE ~Queue!IsSet(q)
  <2> DEFINE f == [call |-> "Del", object |-> o, at |-> k]
  <2>1. fault' = f /\ Unmoved /\ UNCHANGED <<done, value>>
    BY <1>4 DEF Queue!Del, Queue!Checked, Unmoved
  <2>2. f \in Faults /\ f.object = o /\ f.call = "Del"
    BY <1>1, <1>3, FaultIs DEF Calls
  <2> HIDE DEF f
  <2>3. Queue!HasCause(f) /\ ~IsList
    BY <1>4, <2>2 DEF Queue!HasCause, Queue!IsSet, Queue!UndefinedIfUnset, IsQueue, IsList
  <2> QED BY <1>1, <2>1, <2>2, <2>3, Faulty
<1>5. CASE Queue!IsSet(q)
  <2>a. Queue!Reachable(q, {Queue!Slot(q, i) : i \in k..(Queue!Size(q) - 1)})
    BY <1>1, <1>3, SlotsReachable
  <2>1. /\ IF k < m THEN Does(o, r, 0, 0) ELSE fault = NoFault /\ UNCHANGED fault /\ Unmoved
        /\ done' = "RemoveAt" /\ value' = k
    BY <1>5, <2>a DEF Does, Unmoved, Queue!Del, Queue!Checked, Queue!NoFault, NoFault, Queue!Become, Queue!Keep, Queue!Returns
  <2>2. done' \in Calls /\ value' \in Int
    BY <1>3, <2>1 DEF Calls
  <2>3. /\ ArraysInv' /\ EachIsExcused /\ Alive' = Alive
        /\ IF k < Len(Held[o]) THEN Held' = [Held EXCEPT ![o] = Store!RemovedAt(Held[o], k)]
                               ELSE Held' = Held
    <3>1. CASE k < m
      <4>1. GoodQueue(r) /\ r.pointer = "owned"
            /\ Queue!Contents(r) = Store!RemovedAt(Queue!Contents(q), k)
        BY <1>1, <1>3, <3>1, DeletedIs
      <4>2. Does(o, r, 0, 0)
        BY <2>1, <3>1
      <4>a. q.pointer = "owned"
        <5>1. q.allocation_size > 0
          BY <1>1, <1>3, <3>1, SizeIs, QueueFields
        <5> QED BY <1>1, <5>1, QueueFields
      <4> HIDE DEF r, m
      <4>b. Balanced(o, r, 0, 0)
        BY <4>1, <4>a, BalancedIs
      <4>3. ArraysInv' /\ EachIsExcused /\ Alive' = Alive /\ Held' = [Held EXCEPT ![o] = Queue!Contents(r)]
        BY <1>1, <2>2, <4>1, <4>2, <4>a, <4>b, QueueBecomes
      <4>4. Held' = [Held EXCEPT ![o] = Store!RemovedAt(Held[o], k)]
        BY <1>1, <4>1, <4>3
      <4> QED BY <1>2, <3>1, <4>3, <4>4
    <3>2. CASE ~(k < m)
      <4>1. ArraysInv' /\ EachIsExcused /\ Alive' = Alive /\ Held' = Held
        BY <2>1, <2>2, <3>2, Keeps
      <4> QED BY <1>2, <3>2, <4>1
    <3> QED BY <3>1, <3>2
  <2>4. Len(Held'[o]) \in Nat
    <3>1. HeldSequences'
      BY <2>3, InvHeld, PTL
    <3>2. Held'[o] \in Seq(CellValue)
      BY <1>1, <3>1 DEF HeldSequences, CellValue, Garbage
    <3> QED BY <3>2, LenProperties
  <2>5. Store!Next
    BY <1>3, <2>1, <2>3, <2>4, SeenAt
  <2> QED BY <2>3, <2>5 DEF Sound, Seen
<1> QED BY <1>4, <1>5

LEMMA QueueReads ==
  ASSUME ArraysInv, IsQueue, container' = container, NEW o \in Alive,
         NEW k \in 0..Queue!Size(objects[o]), Queue!Read(o, k)
  PROVE  Sound
<1> DEFINE q == objects[o]
           m == Queue!Size(q)
<1>1. /\ o \in Objects /\ GoodQueue(q) /\ Alive \cup {o} = Alive /\ Held[o] = Queue!Contents(q)
  BY AliveQueue
<1>2. m \in Nat /\ Len(Held[o]) = m
  BY <1>1, SizeIs, ContentsIs
<1>3. k < m /\ fault = NoFault
  BY DEF Queue!Read, Queue!Checked, Queue!NoFault, NoFault
<1>4. k \in Nat /\ k < Len(Held[o]) /\ Len(Held[o]) \in Nat
  BY <1>2, <1>3
<1>5. Queue!IsSet(q) /\ Queue!Reachable(q, {Queue!Slot(q, k)})
  <2>1. q.allocation_size > 0 /\ k \in 0..(q.allocation_size - 1)
    BY <1>1, <1>3, <1>4, SizeIs, QueueFields
  <2>2. {Queue!Slot(q, k)} \subseteq 0..(q.allocation_size - 1)
    BY <1>1, <2>1, SlotIn
  <2> QED BY <1>1, <2>1, <2>2, QueueReaches, QueueDeletable
<1>6. UNCHANGED fault /\ Unmoved /\ done' = "Read" /\ value' = q.array[Queue!Slot(q, k)]
  BY <1>5 DEF Queue!Read, Queue!Checked, Queue!NoFault, NoFault, Queue!Keep, Queue!Returns, Unmoved
<1>7. value' = Held[o][k + 1] /\ value' \in CellValue
  <2>1. k + 1 \in 1..m /\ (k + 1) - 1 = k
    <3> HIDE DEF m
    <3> QED BY <1>2, <1>3, <1>4
  <2>2. Queue!Contents(q)[k + 1] = q.array[Queue!Slot(q, (k + 1) - 1)]
    BY <1>1, <2>1, ContentsIs
  <2>3. Queue!Contents(q) \in Seq(CellValue) /\ k + 1 \in 1..Len(Queue!Contents(q))
    BY <1>1, <2>1, ContentsIs
  <2>4. Queue!Contents(q)[k + 1] \in CellValue
    BY <2>3, ElementOfSeq
  <2> QED BY <1>1, <1>6, <2>1, <2>2, <2>4
<1>8. done' \in Calls /\ value' \in Int
  BY <1>6, <1>7, CellsAreNumbers DEF Calls
<1>9. ArraysInv' /\ EachIsExcused /\ Alive' = Alive /\ Held' = Held
  BY <1>3, <1>6, <1>8, Keeps
<1>10. Len(Held'[o]) \in Nat
  BY <1>4, <1>9
<1>11. Store!Next
  BY <1>4, <1>6, <1>7, <1>9, <1>10, SeenAt
<1> QED BY <1>9, <1>11 DEF Sound, Seen

LEMMA QueueFinds ==
  ASSUME ArraysInv, IsQueue, container' = container, NEW o \in Alive, NEW x \in Items,
         Queue!Find(o, x)
  PROVE  Sound
<1> DEFINE q == objects[o]
           found == q.allocation_size > 0 /\ Queue!Abstract!Holds(Queue!Contents(q), x)
<1>1. /\ o \in Objects /\ GoodQueue(q) /\ Alive \cup {o} = Alive /\ Held[o] = Queue!Contents(q)
  BY AliveQueue
<1>2. /\ fault = NoFault /\ Queue!Reachable(q, Queue!ItemCells(q))
      /\ (q.allocation_size > 0 => Queue!IsSet(q))
  BY <1>1, QueueDeletable, ItemsReachable DEF Queue!Find, Queue!Checked, Queue!NoFault, NoFault
<1>3. /\ UNCHANGED fault /\ Unmoved
      /\ done' = "Find" /\ value' = IF found THEN 1 ELSE 0
  BY <1>2 DEF Queue!Find, Queue!Checked, Queue!NoFault, NoFault, Queue!Keep, Queue!Returns, Unmoved
<1>4. found <=> Store!Holds(Held[o], x)
  <2>1. Queue!Abstract!Holds(Queue!Contents(q), x) <=> Store!Holds(Held[o], x)
    BY <1>1 DEF Queue!Abstract!Holds, Store!Holds
  <2>2. CASE q.allocation_size = 0
    <3>1. DOMAIN Queue!Contents(q) = {}
      <4>1. Queue!Size(q) = 0
        BY <1>1, <2>2, SizeIs
      <4>2. DOMAIN Queue!Contents(q) = 1..0
        BY <1>1, <4>1, ContentsIs
      <4> QED BY <4>2
    <3>2. ~Queue!Abstract!Holds(Queue!Contents(q), x)
      BY <3>1 DEF Queue!Abstract!Holds
    <3> QED BY <2>1, <3>2
  <2>3. CASE q.allocation_size # 0
    <3>1. q.allocation_size > 0
      BY <1>1, <2>3, QueueFields
    <3> QED BY <2>1, <3>1
  <2> QED BY <2>2, <2>3
<1> HIDE DEF found
<1>5. done' \in Calls /\ value' \in Int
  BY <1>3 DEF Calls
<1>6. ArraysInv' /\ EachIsExcused /\ Alive' = Alive /\ Held' = Held
  BY <1>2, <1>3, <1>5, Keeps
<1>7. \E y \in Items : done' = "Find" /\ value' = IF Store!Holds(Held[o], y) THEN 1 ELSE 0
  BY <1>3, <1>4
<1>8. Store!Next
  BY <1>6, <1>7, SeenKept
<1> QED BY <1>6, <1>8 DEF Sound, Seen

LEMMA QueueTellsSize ==
  ASSUME ArraysInv, IsQueue, container' = container, NEW o \in Alive, Queue!ReadSize(o)
  PROVE  Sound
<1> DEFINE q == objects[o]
<1>1. /\ GoodQueue(q) /\ Held[o] = Queue!Contents(q) /\ fault = NoFault
  BY AliveQueue DEF Queue!ReadSize, Queue!Checked, Queue!NoFault, NoFault
<1>2. CASE ~Queue!IsSet(q)
  <2> DEFINE f == [call |-> "Size", object |-> o, at |-> 0]
  <2>1. fault' = f /\ Unmoved /\ UNCHANGED <<done, value>>
    BY <1>2 DEF Queue!ReadSize, Queue!Checked, Unmoved
  <2>2. o \in Objects
    BY AliveQueue
  <2>3. f \in Faults /\ f.object = o /\ f.call = "Size"
    BY <2>2, FaultIs DEF Calls
  <2> HIDE DEF f
  <2>4. Queue!HasCause(f) /\ ~IsList
    BY <1>2, <2>3 DEF Queue!HasCause, Queue!IsSet, Queue!UndefinedIfUnset, IsQueue, IsList
  <2> QED BY <2>1, <2>2, <2>3, <2>4, Faulty
<1>3. CASE Queue!IsSet(q)
  <2>1. /\ UNCHANGED fault /\ Unmoved
        /\ done' = "Size" /\ value' = Queue!Size(q)
    BY <1>3 DEF Queue!ReadSize, Queue!Checked, Queue!NoFault, NoFault, Queue!Keep, Queue!Returns, Unmoved
  <2>2. Queue!Size(q) \in Nat /\ Len(Held[o]) = Queue!Size(q)
    BY <1>1, SizeIs, ContentsIs
  <2>3. done' \in Calls /\ value' \in Int
    BY <2>1, <2>2 DEF Calls
  <2>4. ArraysInv' /\ EachIsExcused /\ Alive' = Alive /\ Held' = Held
    BY <1>1, <2>1, <2>3, Keeps
  <2>5. Store!Next
    BY <2>1, <2>2, <2>4, SeenKept
  <2> QED BY <2>4, <2>5 DEF Sound, Seen
<1> QED BY <1>2, <1>3

LEMMA QueueCompresses ==
  ASSUME ArraysInv, IsQueue, container' = container, NEW o \in Alive, Queue!Compress(o)
  PROVE  Sound
<1> DEFINE q == objects[o]
<1>1. /\ o \in Objects /\ GoodQueue(q) /\ Alive \cup {o} = Alive /\ Held[o] = Queue!Contents(q)
  BY AliveQueue
<1>2. /\ fault = NoFault /\ Queue!Reachable(q, Queue!ItemCells(q))
      /\ (q.allocation_size > 0 => Queue!Deletable(q))
  BY <1>1, QueueDeletable, ItemsReachable DEF Queue!Compress, Queue!Checked, Queue!NoFault, NoFault
<1>3. done' = "Compress" /\ value' = None
  BY <1>2 DEF Queue!Compress, Queue!Checked, Queue!NoFault, NoFault, Queue!Returns, Queue!None, None
<1>4. done' \in Calls /\ value' \in Int
  BY <1>3 DEF Calls, None
<1>5. ArraysInv' /\ EachIsExcused /\ Alive' = Alive /\ Held' = Held
  <2>1. CASE q.allocation_size = 0
    <3>1. UNCHANGED fault /\ Unmoved
      BY <1>2, <2>1 DEF Unmoved, Queue!Compress, Queue!Checked, Queue!NoFault, NoFault, Queue!Keep
    <3> QED BY <1>2, <1>4, <3>1, Keeps
  <2>2. CASE q.allocation_size # 0
    <3>1. PICK p \in Queue!PowersOfTwo : p > Queue!Size(q) /\ Queue!Become(o, Queue!Moved(q, p), 1, Queue!Owned(q))
      BY <1>2, <2>2 DEF Queue!Compress, Queue!Checked, Queue!NoFault, NoFault
    <3>2. p \in Nat
      BY SizeAssumption DEF Queue!PowersOfTwo
    <3> DEFINE r == Queue!Moved(q, p)
    <3>3. GoodQueue(r) /\ r.pointer = "owned" /\ Queue!Contents(r) = Queue!Contents(q)
      BY <1>1, <3>1, <3>2, MovedIs
    <3>4. Does(o, r, 1, Owned(q))
      BY <1>2, <3>1, OwnedIs DEF Queue!Become, Does
    <3> HIDE DEF r
    <3>b. Balanced(o, r, 1, Owned(q))
      BY <3>3, BalancedIs
    <3>5. ArraysInv' /\ EachIsExcused /\ Alive' = Alive /\ Held' = [Held EXCEPT ![o] = Queue!Contents(r)]
      BY <1>1, <1>4, <3>3, <3>4, <3>b, QueueBecomes
    <3>6. Held' = Held
      BY <1>1, <3>3, <3>5 DEF Held
    <3> QED BY <3>5, <3>6
  <2> QED BY <2>1, <2>2
<1>6. Store!Next
  BY <1>3, <1>5, SeenKept
<1> QED BY <1>5, <1>6 DEF Sound, Seen

-----------------------------------------------------------------------------
(* Each call of a list.                                                     *)

LEMMA ListConstructs ==
  ASSUME ArraysInv, IsList, container' = container, NEW o \in Objects, List!Construct(o)
  PROVE  Sound
<1> DEFINE r == List!Empty
<1>1. /\ Does(o, r, 0, 0) /\ objects[o].pointer = "absent"
      /\ done' = "Construct" /\ value' = None
  BY DEF List!Construct, List!Checked, List!NoFault, NoFault, List!Become, List!Returns, List!None, None, Does
<1>2. GoodList(r) /\ r.pointer = "null" /\ List!Contents(r) = <<>>
  BY ListConstants
<1> HIDE DEF r
<1>3. /\ done' \in Calls /\ value' \in Int
  BY <1>1 DEF None, Calls
<1>b. Balanced(o, r, 0, 0)
  BY <1>1, <1>2 DEF Balanced, Owned
<1>4. /\ ArraysInv' /\ EachIsExcused /\ Held' = [Held EXCEPT ![o] = <<>>] /\ Alive' = Alive \cup {o}
  BY <1>1, <1>2, <1>3, <1>b, ListBecomes
<1>5. o \notin Alive
  BY <1>1 DEF Alive
<1> QED BY <1>1, <1>4, <1>5, SeenConstruct DEF Sound, Seen

LEMMA ListCopies ==
  ASSUME ArraysInv, IsList, container' = container, NEW o \in Objects, NEW m \in Alive,
         List!CopyConstruct(o, m)
  PROVE  Sound
<1> DEFINE from == objects[m]
           n == from.list_size
           r == IF n = 0 THEN List!Blank ELSE List!Moved(from, n)
<1>1. GoodList(from) /\ Held[m] = List!Contents(from) /\ m \in Objects
  BY AliveList
<1> DEFINE made_ == IF n = 0 THEN 0 ELSE 1
<1>a. List!Reachable(from, List!Cells(n))
  BY <1>1, ListItemsReachable
<1>2. /\ Does(o, r, made_, 0) /\ objects[o].pointer = "absent"
      /\ done' = "CopyConstruct" /\ value' = None
  BY <1>a DEF Does, List!CopyConstruct, List!Checked, List!NoFault, NoFault, List!Become, List!Returns, List!None, None
<1>3. GoodList(r) /\ r.pointer # "absent" /\ List!Contents(r) = Held[m]
  <2>1. CASE n = 0
    BY <1>1, <2>1, ListConstants, NoListItems
  <2>2. CASE n # 0
    <3>1. n \in Nat /\ n <= n
      BY <1>1, ListFields
    <3> QED BY <1>1, <2>2, <3>1, ListMovedIs
  <2> QED BY <2>1, <2>2
<1>b. Balanced(o, r, made_, 0)
  <2>1. CASE n = 0
    <3>1. r.pointer = "unset" /\ made_ = 0
      BY <2>1 DEF List!Blank, List!Absent
    <3> HIDE DEF r, made_
    <3> QED BY <1>2, <3>1 DEF Balanced, Owned
  <2>2. CASE n # 0
    <3>1. r.pointer = "owned"
      BY <1>1, <2>2, ListFields, ListMovedIs
    <3> HIDE DEF r
    <3> QED BY <1>2, <2>2, <3>1 DEF Balanced, Owned
  <2> QED BY <2>1, <2>2
<1> HIDE DEF r, made_
<1>4. /\ done' \in Calls /\ value' \in Int
  BY <1>2 DEF None, Calls
<1>5. /\ ArraysInv' /\ EachIsExcused /\ Held' = [Held EXCEPT ![o] = Held[m]] /\ Alive' = Alive \cup {o}
  BY <1>2, <1>3, <1>4, <1>b, ListBecomes
<1>6. o \notin Alive
  BY <1>2 DEF Alive
<1> QED BY <1>2, <1>5, <1>6, SeenCopyConstruct DEF Sound, Seen

LEMMA ListDestroys ==
  ASSUME ArraysInv, IsList, container' = container, NEW o \in Alive, List!Destroy(o)
  PROVE  Sound
<1> DEFINE l == objects[o]
           r == List!Absent
<1>1. o \in Objects /\ GoodList(l)
  BY AliveList
<1> DEFINE d == IF l.allocation_size > 0 THEN Owned(l) ELSE 0
<1>2. l.allocation_size > 0 => List!Deletable(l)
  BY <1>1, ListDeletable
<1>3. /\ Does(o, r, 0, d) /\ done' = "Destroy" /\ value' = None
  BY <1>2, OwnedIs DEF List!Destroy, List!Checked, List!NoFault, NoFault, List!Become, List!Returns, List!None, None,
              Does
<1>4. GoodList(r) /\ r.pointer = "absent" /\ List!Contents(r) = <<>>
  BY ListConstants
<1>b. Balanced(o, r, 0, d)
  BY <1>1, <1>4, ListFields DEF Balanced, Owned, MayLose, Orphan
<1> HIDE DEF r, d
<1>5. done' \in Calls /\ value' \in Int
  BY <1>3 DEF None, Calls
<1>6. ArraysInv' /\ EachIsExcused /\ Held' = [Held EXCEPT ![o] = <<>>] /\ Alive' = Alive \ {o}
  BY <1>1, <1>3, <1>4, <1>5, <1>b, ListBecomes
<1> QED BY <1>3, <1>6, SeenDestroy DEF Sound, Seen

LEMMA ListClears ==
  ASSUME ArraysInv, IsList, container' = container, NEW o \in Alive, NEW b \in BOOLEAN,
         List!Clear(o, b)
  PROVE  Sound
<1> DEFINE l == objects[o]
           r == List!Cleared(l, b)
<1>1. o \in Objects /\ GoodList(l) /\ l.pointer # "absent" /\ Alive \cup {o} = Alive
  BY AliveList
<1> DEFINE d == List!ClearFrees(l, b)
<1>2. List!CanClear(l) /\ d \in 0..1 /\ Owned(l) = d + Owned(r)
  BY <1>1, ListClearBalance
<1>3. /\ Does(o, r, 0, d) /\ done' = "Clear" /\ value' = None
  BY <1>2 DEF List!Clear, List!Checked, List!NoFault, NoFault, List!Become, List!Returns, List!None, None, Does
<1>4. GoodList(r) /\ r.pointer # "absent" /\ List!Contents(r) = <<>>
  BY <1>1, ListClearedIs
<1> HIDE DEF r, d
<1>b. Balanced(o, r, 0, d)
  BY <1>2, OwnedIs DEF Balanced
<1>5. done' \in Calls /\ value' \in Int
  BY <1>3 DEF None, Calls
<1>6. ArraysInv' /\ EachIsExcused /\ Held' = [Held EXCEPT ![o] = <<>>] /\ Alive' = Alive
  BY <1>1, <1>3, <1>4, <1>5, <1>b, ListBecomes
<1> QED BY <1>3, <1>6, SeenClear DEF Sound, Seen

LEMMA ListAssigns ==
  ASSUME ArraysInv, IsList, container' = container, NEW o \in Alive, NEW m \in Alive,
         List!Assign(o, m)
  PROVE  Sound
<1> DEFINE l == List!Cleared(objects[o], FALSE)
           from == objects[m]
           n == from.list_size
           r == IF n = 0 THEN [l EXCEPT !.list_size = 0, !.allocation_size = 0]
                ELSE List!Moved(from, n)
<1>1. /\ o \in Objects /\ GoodList(objects[o]) /\ objects[o].pointer # "absent"
      /\ Alive \cup {o} = Alive /\ Held[o] = List!Contents(objects[o])
      /\ GoodList(from) /\ Held[m] = List!Contents(from)
  BY AliveList
<1>2. fault = NoFault
  BY DEF List!Assign, List!Checked, List!NoFault, NoFault
<1>3. CASE o = m
  <2>1. UNCHANGED fault /\ Unmoved /\ done' = "Assign" /\ value' = None
    BY <1>3 DEF Unmoved, List!Assign, List!Checked, List!NoFault, NoFault, List!Keep, List!Returns, List!None, None
  <2>2. done' \in Calls /\ value' \in Int
    BY <2>1 DEF None, Calls
  <2>3. ArraysInv' /\ EachIsExcused /\ Alive' = Alive /\ Held' = Held
    BY <1>2, <2>1, <2>2, Keeps
  <2>4. Held' = [Held EXCEPT ![o] = Held[m]]
    BY <1>3, <2>3 DEF Held
  <2> QED BY <2>1, <2>3, <2>4, SeenAssign DEF Sound, Seen
<1>4. CASE o # m
  <2> DEFINE made_ == IF n = 0 THEN 0 ELSE 1
             d == List!ClearFrees(objects[o], FALSE)
             old == objects[o]
  <2>a. /\ List!CanClear(old) /\ List!Reachable(from, List!Cells(n))
        /\ d = IF old.allocation_size > Large THEN 1 ELSE 0
        /\ Owned(old) = d + Owned(l) /\ (old.allocation_size > 0 => Owned(old) = 1)
    BY <1>1, ListClearBalance, ListItemsReachable
  <2>1. Does(o, r, made_, d) /\ done' = "Assign" /\ value' = None
    BY <1>2, <1>4, <2>a DEF Does, List!Assign, List!Checked, List!NoFault, NoFault, List!Become, List!Returns, List!None, None
  <2>2. GoodList(r) /\ r.pointer # "absent" /\ List!Contents(r) = Held[m]
    <3>1. GoodList(l) /\ l.pointer # "absent"
      BY <1>1, ListClearedIs
    <3>2. CASE n = 0
      <4> HIDE DEF l
      <4>1. Held[m] = <<>>
        BY <1>1, <3>2, NoListItems
      <4> DEFINE f == [l EXCEPT !.list_size = 0, !.allocation_size = 0]
      <4>2. GoodList(f) /\ f.pointer = l.pointer /\ List!Contents(f) = <<>>
        BY <3>1, ListForgottenIs, Zenon
      <4>3. r = f
        BY <3>2
      <4> HIDE DEF f
      <4> QED BY <3>1, <4>1, <4>2, <4>3
    <3>3. CASE n # 0
      <4>1. n \in Nat /\ n <= n
        BY <1>1, ListFields
      <4> QED BY <1>1, <3>3, <4>1, ListMovedIs
    <3> QED BY <3>2, <3>3
  <2>b. Balanced(o, r, made_, d)
    <3>1. CASE n = 0
      <4>1. r.pointer = l.pointer
        <5>1. GoodList(l)
          BY <1>1, ListClearedIs
        <5> HIDE DEF l
        <5> QED BY <3>1, <5>1 DEF GoodList, ListForm
      <4>2. Owned(r) = Owned(l)
        BY <4>1 DEF Owned
      <4> HIDE DEF r, d, l
      <4> QED BY <2>a, <3>1, <4>2, OwnedIs DEF Balanced
    <3>2. CASE n # 0
      <4>1. r.pointer = "owned"
        BY <1>1, <3>2, ListFields, ListMovedIs
      <4>2. Owned(r) = 1
        BY <4>1 DEF Owned
      <4> HIDE DEF r, d, l
      <4>3. Large \in Nat /\ old.allocation_size \in Nat
        BY <1>1, SizeAssumption, ListFields
      <4>4. CASE d = 1
        BY <2>a, <3>2, <4>2, <4>4, OwnedIs DEF Balanced
      <4>5. CASE d = 0 /\ old.allocation_size = 0
        <5>1. Owned(old) = 1 => Orphan(old)
          BY <4>5 DEF Owned, Orphan
        <5> QED BY <2>a, <3>2, <4>2, <4>5, <5>1, OwnedIs DEF Balanced, MayLose
      <4>6. CASE d = 0 /\ old.allocation_size # 0
        <5>1. old.allocation_size \in 1..Large
          BY <2>a, <4>3, <4>6
        <5> QED BY <2>1, <2>a, <3>2, <4>2, <4>6, <5>1, OwnedIs DEF Balanced, MayLose
      <4> QED BY <2>a, <4>4, <4>5, <4>6
    <3> QED BY <3>1, <3>2
  <2> HIDE DEF r, d, made_
  <2>3. done' \in Calls /\ value' \in Int
    BY <2>1 DEF None, Calls
  <2>4. ArraysInv' /\ EachIsExcused /\ Held' = [Held EXCEPT ![o] = List!Contents(r)] /\ Alive' = Alive
    BY <1>1, <2>1, <2>2, <2>3, <2>b, ListBecomes
  <2>5. Held' = [Held EXCEPT ![o] = Held[m]]
    BY <2>2, <2>4
  <2> QED BY <2>1, <2>4, <2>5, SeenAssign DEF Sound, Seen
<1> QED BY <1>3, <1>4

(* A list whose array cannot be deleted is a copy of an empty one: moving   *)
(* its items is undefined, and that is a cause.                             *)
LEMMA CannotMove ==
  ASSUME NEW l, GoodList(l), l.pointer # "absent", ~List!CanMove(l)
  PROVE  l.pointer = "unset"
<1>1. List!Reachable(l, List!Cells(l.list_size))
  BY ListItemsReachable
<1> QED BY <1>1 DEF List!CanMove, List!Deletable, GoodList, List!ListOK, List!Pointers

LEMMA HeldLength ==
  ASSUME ArraysInv, NEW o \in Objects
  PROVE  Len(Held[o]) \in Nat
<1>1. HeldSequences
  BY InvHeld
<1>2. Held[o] \in Seq(CellValue)
  BY <1>1 DEF HeldSequences
<1> QED BY <1>2, LenProperties

LEMMA HeldLengthAfter ==
  ASSUME ArraysInv', NEW o \in Objects
  PROVE  Len(Held'[o]) \in Nat
<1>1. HeldSequences'
  BY InvHeld, PTL
<1>2. Held'[o] \in Seq(CellValue)
  BY <1>1 DEF HeldSequences, CellValue, Garbage
<1> QED BY <1>2, LenProperties

LEMMA ListInserts ==
  ASSUME ArraysInv, IsList, container' = container, NEW o \in Alive, NEW x \in Items,
         NEW i \in 0..objects[o].list_size, List!Insert(o, i, x)
  PROVE  Sound
<1> DEFINE l == objects[o]
           g == List!Grown(l)
           r == List!Inserted(g, i, x)
           defined == List!IsFull(l) => List!CanMove(l)
           made_ == IF List!IsFull(l) THEN 1 ELSE 0
           d == IF List!IsFull(l) THEN Owned(l) ELSE 0
<1>1. o \in Objects /\ GoodList(l) /\ Alive \cup {o} = Alive /\ Held[o] = List!Contents(l)
      /\ l.pointer # "absent"
  BY AliveList
<1>2. l.list_size \in Nat /\ Len(Held[o]) = l.list_size
  BY <1>1, ListFields, ListContentsIs
<1>3. i \in Nat /\ i <= Len(Held[o]) /\ Len(Held[o]) \in Nat
  BY <1>2
<1>4. fault = NoFault
  BY DEF List!Insert, List!Checked, List!NoFault, NoFault
<1>a. List!Reachable(g, i..l.list_size)
  <2>1. GoodList(g) /\ g.allocation_size > g.list_size /\ g.list_size = l.list_size
    BY <1>1, ListGrownIs
  <2> HIDE DEF g
  <2>2. i..l.list_size \subseteq 0..(g.allocation_size - 1)
    BY <1>2, <1>3, <2>1, ListFields
  <2> QED BY <2>1, <2>2, ListReaches
<1>5. CASE ~defined
  <2> DEFINE f == [call |-> "Insert", object |-> o, at |-> i]
  <2>1. fault' = f /\ Unmoved /\ UNCHANGED <<done, value>>
    BY <1>5, <1>a DEF List!Insert, List!Checked, Unmoved
  <2>2. f \in Faults /\ f.object = o /\ f.call = "Insert"
    BY <1>1, <1>3, FaultIs DEF Calls
  <2> HIDE DEF f
  <2>3. List!HasCause(f) /\ ~IsQueue
    BY <1>1, <1>5, <2>2, CannotMove DEF List!HasCause, IsQueue, IsList
  <2> QED BY <1>1, <2>1, <2>2, <2>3, Faulty
<1>6. CASE defined
  <2>1. Does(o, r, made_, d) /\ done' = "Insert" /\ value' = i
    <3>1. fault = NoFault /\ List!BecomeMoved(o, r, List!IsFull(l)) /\ List!Returns("Insert", i)
      BY <1>6, <1>a DEF List!Insert, List!Checked, List!NoFault, NoFault
    <3> HIDE DEF r, g
    <3> QED BY <3>1, OwnedIs DEF List!BecomeMoved, List!Become, List!Returns, Does
  <2>2. /\ GoodList(g) /\ g.list_size = l.list_size /\ g.allocation_size > g.list_size
        /\ List!Contents(g) = List!Contents(l)
    BY <1>1, ListGrownIs
  <2> HIDE DEF g
  <2>3. g.list_size < g.allocation_size
    BY <2>2, ListFields
  <2>4. GoodList(r) /\ r.pointer = "owned" /\ List!Contents(r) = Store!InsertedAt(List!Contents(l), i, x)
    BY <2>2, <2>3, ListInsertedIs
  <2> HIDE DEF r
  <2>b. Balanced(o, r, made_, d)
    <3>1. CASE List!IsFull(l)
      BY <2>4, <3>1, BalancedIs
    <3>2. CASE ~List!IsFull(l)
      <4>1. l.allocation_size > 0
        BY <1>1, <3>2, ListFields DEF List!IsFull
      <4>2. l.pointer = "owned"
        BY <1>1, <4>1, ListFields
      <4> QED BY <2>4, <3>2, <4>2, BalancedIs
    <3> QED BY <3>1, <3>2
  <2> HIDE DEF made_, d
  <2>5. done' \in Calls /\ value' \in Int
    BY <1>3, <2>1 DEF Calls
  <2>6. ArraysInv' /\ EachIsExcused /\ Held' = [Held EXCEPT ![o] = List!Contents(r)] /\ Alive' = Alive
    BY <1>1, <2>1, <2>4, <2>5, <2>b, ListBecomes
  <2>7. Held' = [Held EXCEPT ![o] = Store!InsertedAt(Held[o], i, x)]
    BY <1>1, <2>4, <2>6
  <2>8. Len(Held'[o]) \in Nat
    BY <1>1, <2>6, HeldLengthAfter
  <2>9. Store!Next
    BY <1>3, <2>1, <2>6, <2>7, <2>8, SeenAt
  <2> QED BY <2>6, <2>9 DEF Sound, Seen
<1> QED BY <1>5, <1>6

LEMMA ListReplacesAt ==
  ASSUME ArraysInv, IsList, container' = container, NEW o \in Alive, NEW x \in Items,
         NEW filler \in Items, NEW i \in 0..MaxArray, List!ReplaceAt(o, i, x, filler)
  PROVE  Sound
<1> DEFINE l == objects[o]
           g == List!Reaching(l, i)
           r == IF i < l.list_size THEN ReplacedInside(l, i, x)
                ELSE ReplacedBehind(l, g, i, x, filler)
           moves == i >= l.allocation_size
           defined == moves => List!CanMove(l)
           made_ == IF moves THEN 1 ELSE 0
           d == IF moves THEN Owned(l) ELSE 0
           s == [k \in 1..(IF i < Len(Held[o]) THEN Len(Held[o]) ELSE i + 1) |->
                  IF k = i + 1 THEN x ELSE IF k <= Len(Held[o]) THEN Held[o][k] ELSE filler]
<1>1. o \in Objects /\ GoodList(l) /\ Alive \cup {o} = Alive /\ Held[o] = List!Contents(l)
      /\ l.pointer # "absent"
  BY AliveList
<1>2. l.list_size \in Nat /\ Len(Held[o]) = l.list_size
  BY <1>1, ListFields, ListContentsIs
<1>3. i \in Nat
  BY SizeAssumption
<1>4. fault = NoFault
  BY DEF List!ReplaceAt, List!Checked, List!NoFault, NoFault
<1>a. List!Reachable(g, {i} \cup l.list_size..i)
  <2>1. GoodList(g) /\ i < g.allocation_size
    BY <1>1, <1>3, ReachingIs
  <2> HIDE DEF g
  <2>2. {i} \cup l.list_size..i \subseteq 0..(g.allocation_size - 1)
    BY <1>2, <1>3, <2>1, ListFields
  <2> QED BY <2>1, <2>2, ListReaches
<1>5. CASE ~defined
  <2> DEFINE f == [call |-> "Replace", object |-> o, at |-> i]
  <2>1. fault' = f /\ Unmoved /\ UNCHANGED <<done, value>>
    BY <1>5, <1>a DEF List!ReplaceAt, List!Checked, Unmoved
  <2>2. f \in Faults /\ f.object = o /\ f.call = "Replace"
    BY <1>1, <1>3, FaultIs DEF Calls
  <2> HIDE DEF f
  <2>3. List!HasCause(f) /\ ~IsQueue
    BY <1>1, <1>5, <2>2, CannotMove DEF List!HasCause, IsQueue, IsList
  <2> QED BY <1>1, <2>1, <2>2, <2>3, Faulty
<1>6. CASE defined
  <2>1. Does(o, r, made_, d) /\ done' = "ReplaceAt" /\ value' = i
    <3>1. fault = NoFault /\ List!BecomeMoved(o, r, moves) /\ List!Returns("ReplaceAt", i)
      BY <1>6, <1>a DEF List!ReplaceAt, List!Checked, List!NoFault, NoFault, ReplacedInside,
                        ReplacedBehind
    <3> HIDE DEF r, g, moves
    <3> QED BY <3>1, OwnedIs DEF List!BecomeMoved, List!Become, List!Returns, Does
  <2>2. GoodList(r) /\ r.pointer = "owned" /\ List!Contents(r) = s
    <3>1. CASE i < l.list_size
      <4> DEFINE p == ReplacedInside(l, i, x)
      <4>1. GoodList(p) /\ p.pointer = "owned"
        BY <1>1, <1>3, <3>1, ReplacedInsideIs
      <4>2. List!Contents(p) = [k \in 1..Len(List!Contents(l)) |->
                                 IF k = i + 1 THEN x ELSE List!Contents(l)[k]]
        BY <1>1, <1>3, <3>1, ReplacedInsideIs
      <4>3. List!Contents(p) = s
        <5>1. i < Len(Held[o])
          BY <1>2, <3>1
        <5>2. \A k \in 1..Len(Held[o]) : k <= Len(Held[o])
          BY <1>2
        <5>3. s = [k \in 1..Len(Held[o]) |-> IF k = i + 1 THEN x ELSE Held[o][k]]
          BY <5>1, <5>2
        <5> HIDE DEF p, s
        <5> QED BY <1>1, <4>2, <5>3
      <4>4. r = p
        BY <3>1
      <4> HIDE DEF p, r, s
      <4> QED BY <4>1, <4>3, <4>4
    <3>2. CASE ~(i < l.list_size)
      <4> DEFINE p == ReplacedBehind(l, g, i, x, filler)
      <4>1. /\ GoodList(g) /\ g.list_size = l.list_size /\ i < g.allocation_size
            /\ List!Contents(g) = List!Contents(l)
        BY <1>1, <1>3, ReachingIs
      <4> HIDE DEF g
      <4>2. GoodList(p) /\ p.pointer = "owned"
        BY <1>1, <1>3, <3>2, <4>1, ReplacedBehindIs
      <4>3. List!Contents(p) =
              [k \in 1..(i + 1) |-> IF k = i + 1 THEN x
                                    ELSE IF k <= Len(List!Contents(l)) THEN List!Contents(l)[k]
                                    ELSE filler]
        BY <1>1, <1>3, <3>2, <4>1, ReplacedBehindIs
      <4>4. List!Contents(p) = s
        <5>1. ~(i < Len(Held[o]))
          BY <1>2, <3>2
        <5>2. s = [k \in 1..(i + 1) |-> IF k = i + 1 THEN x
                                        ELSE IF k <= Len(Held[o]) THEN Held[o][k] ELSE filler]
          BY <5>1
        <5> HIDE DEF p, s
        <5> QED BY <1>1, <4>3, <5>2
      <4>5. r = p
        BY <3>2
      <4> HIDE DEF p, r, s
      <4> QED BY <4>2, <4>4, <4>5
    <3> QED BY <3>1, <3>2
  <2> HIDE DEF r
  <2>b. Balanced(o, r, made_, d)
    <3>1. CASE moves
      BY <2>2, <3>1, BalancedIs
    <3>2. CASE ~moves
      <4>1. l.allocation_size > 0
        BY <1>1, <1>3, <3>2, ListFields
      <4>2. l.pointer = "owned"
        BY <1>1, <4>1, ListFields
      <4> QED BY <2>2, <3>2, <4>2, BalancedIs
    <3> QED BY <3>1, <3>2
  <2> HIDE DEF made_, d
  <2>3. done' \in Calls /\ value' \in Int
    BY <1>3, <2>1 DEF Calls
  <2>4. ArraysInv' /\ EachIsExcused /\ Held' = [Held EXCEPT ![o] = List!Contents(r)] /\ Alive' = Alive
    BY <1>1, <2>1, <2>2, <2>3, <2>b, ListBecomes
  <2>5. Held' = [Held EXCEPT ![o] = s] /\ Held'[o] = s
    BY <1>1, <2>2, <2>4 DEF Held
  <2>6. Len(Held[o]) \in Nat /\ Len(Held'[o]) \in Nat
    BY <1>1, <2>4, HeldLength, HeldLengthAfter
  <2>7. i < Len(Held[o]) \/ i < Len(Held'[o])
    <3>1. CASE i < Len(Held[o])
      BY <3>1
    <3>2. CASE ~(i < Len(Held[o]))
      <4>1. DOMAIN s = 1..(i + 1)
        BY <3>2
      <4>2. Held'[o] \in Seq(CellValue)
        <5>1. HeldSequences'
          BY <2>4, InvHeld, PTL
        <5> QED BY <1>1, <5>1 DEF HeldSequences, CellValue, Garbage
      <4>3. DOMAIN Held'[o] = 1..Len(Held'[o])
        BY <4>2, LenProperties
      <4> HIDE DEF s
      <4>4. 1..Len(Held'[o]) = 1..(i + 1)
        BY <2>5, <4>1, <4>3
      <4>5. Len(Held'[o]) = i + 1
        BY <1>3, <2>6, <4>4
      <4> QED BY <1>3, <4>5
    <3> QED BY <3>1, <3>2
  <2>8. Store!Next
    BY <1>3, <2>1, <2>4, <2>5, <2>6, <2>7, SeenReplaceAt, ZenonT(30)
  <2> QED BY <2>4, <2>8 DEF Sound, Seen
<1> QED BY <1>5, <1>6

LEMMA ListReplacesLast ==
  ASSUME ArraysInv, IsList, container' = container, NEW o \in Alive, NEW x \in Items,
         List!ReplaceLast(o, x)
  PROVE  Sound
<1> DEFINE l == objects[o]
           n == l.list_size
           s == [k \in DOMAIN Held[o] |-> IF k = Len(Held[o]) THEN x ELSE Held[o][k]]
<1>1. /\ o \in Objects /\ GoodList(l) /\ Alive \cup {o} = Alive /\ Held[o] = List!Contents(l)
      /\ Held = [p \in Objects |-> Held[p]]
  BY AliveList DEF Held
<1>2. n \in Nat /\ Len(Held[o]) = n /\ DOMAIN Held[o] = 1..n
  BY <1>1, ListFields, ListContentsIs
<1>a. n > 0 => List!Reachable(l, {n - 1}) /\ l.pointer = "owned"
  <2> SUFFICES ASSUME n > 0 PROVE List!Reachable(l, {n - 1}) /\ l.pointer = "owned"
    OBVIOUS
  <2>1. {n - 1} \subseteq 0..(l.allocation_size - 1) /\ l.allocation_size > 0
    BY <1>1, ListFields
  <2> QED BY <1>1, <2>1, ListReaches, ListFields
<1>3. fault = NoFault /\ fault' = fault /\ done' = "ReplaceLast" /\ value' = None
  BY <1>a DEF List!ReplaceLast, List!Checked, List!NoFault, NoFault, List!Become, List!Keep, List!Returns, List!None, None
<1>4. done' \in Calls /\ value' \in Int
  BY <1>3 DEF Calls, None
<1>5. ArraysInv' /\ EachIsExcused /\ Alive' = Alive /\ Held' = [Held EXCEPT ![o] = s]
  <2>1. CASE n > 0
    <3>1. PICK j \in Nat : j < l.list_size /\ j + 1 = n /\ j = n - 1
      <4>1. n - 1 \in Nat /\ n - 1 < n /\ (n - 1) + 1 = n
        <5> HIDE DEF n
        <5> QED BY <1>2, <2>1
      <4> QED BY <4>1
    <3> DEFINE r == ReplacedInside(l, j, x)
    <3>2. GoodList(r) /\ r.pointer = "owned"
      BY <1>1, <3>1, ReplacedInsideIs
    <3>3. List!Contents(r) = [k \in 1..Len(List!Contents(l)) |->
                               IF k = j + 1 THEN x ELSE List!Contents(l)[k]]
      BY <1>1, <3>1, ReplacedInsideIs, ZenonT(30)
    <3>4. Does(o, r, 0, 0)
      BY <1>3, <1>a, <2>1, <3>1 DEF Does, List!ReplaceLast, List!Checked, List!NoFault, NoFault, List!Become, ReplacedInside
    <3>5. List!Contents(r) = s
      <4> HIDE DEF r, n, l
      <4> QED BY <1>1, <1>2, <3>1, <3>3
    <3> HIDE DEF r, s
    <3>b. Balanced(o, r, 0, 0)
      BY <1>a, <2>1, <3>2, BalancedIs
    <3>6. ArraysInv' /\ EachIsExcused /\ Held' = [Held EXCEPT ![o] = List!Contents(r)] /\ Alive' = Alive
      BY <1>1, <1>4, <3>2, <3>4, <3>b, ListBecomes
    <3> QED BY <3>5, <3>6
  <2>2. CASE ~(n > 0)
    <3>1. Unmoved
      BY <1>a, <2>2 DEF Unmoved, List!ReplaceLast, List!Checked, List!NoFault, NoFault, List!Keep
    <3>2. ArraysInv' /\ EachIsExcused /\ Alive' = Alive /\ Held' = Held
      BY <1>3, <1>4, <3>1, Keeps
    <3>3. s = Held[o]
      <4>1. n = 0
        <5> HIDE DEF n
        <5> QED BY <1>2, <2>2
      <4>2. Held[o] = <<>>
        BY <1>1, <4>1, NoListItems
      <4>3. DOMAIN Held[o] = {}
        BY <1>2, <4>1
      <4> QED BY <4>2, <4>3
    <3> HIDE DEF s
    <3>4. Held' = [Held EXCEPT ![o] = s]
      BY <1>1, <3>2, <3>3
    <3> QED BY <3>2, <3>4
  <2> QED BY <2>1, <2>2
<1>6. Store!Next
  BY <1>3, <1>5, SeenReplaceLast
<1> QED BY <1>5, <1>6 DEF Sound, Seen

LEMMA ListRemoves ==
  ASSUME ArraysInv, IsList, container' = container, NEW o \in Alive,
         NEW i \in 0..objects[o].list_size, List!RemoveAtIndex(o, i)
  PROVE  Sound
<1> DEFINE l == objects[o]
           r == List!Removed(l, i)
<1>1. /\ o \in Objects /\ GoodList(l) /\ Alive \cup {o} = Alive /\ Held[o] = List!Contents(l)
      /\ l.pointer # "absent"
  BY AliveList
<1>2. l.list_size \in Nat /\ Len(Held[o]) = l.list_size
  BY <1>1, ListFields, ListContentsIs
<1>3. i \in Nat /\ i <= Len(Held[o]) /\ Len(Held[o]) \in Nat
  BY <1>2
<1>a. List!Reachable(l, i..(l.list_size - 1))
  BY <1>1, <1>3, ListItemsReachable
<1>4. /\ IF i < l.list_size THEN Does(o, r, 0, 0) ELSE fault = NoFault /\ UNCHANGED fault /\ Unmoved
      /\ done' = "RemoveAt" /\ value' = i
  BY <1>a DEF Does, Unmoved, List!RemoveAtIndex, List!Checked, List!NoFault, NoFault, List!Become, List!Keep, List!Returns
<1>5. done' \in Calls /\ value' \in Int
  BY <1>3, <1>4 DEF Calls
<1>6. /\ ArraysInv' /\ EachIsExcused /\ Alive' = Alive
      /\ IF i < Len(Held[o]) THEN Held' = [Held EXCEPT ![o] = Store!RemovedAt(Held[o], i)]
                             ELSE Held' = Held
  <2>1. CASE i < l.list_size
    <3>1. GoodList(r) /\ r.pointer = l.pointer /\ List!Contents(r) = Store!RemovedAt(List!Contents(l), i)
      BY <1>1, <1>3, <2>1, ListRemovedIs
    <3>2. Does(o, r, 0, 0)
      BY <1>4, <2>1
    <3> HIDE DEF r
    <3>b. Balanced(o, r, 0, 0)
      BY <3>1, BalancedIs
    <3>3. ArraysInv' /\ EachIsExcused /\ Alive' = Alive /\ Held' = [Held EXCEPT ![o] = List!Contents(r)]
      BY <1>1, <1>5, <3>1, <3>2, <3>b, ListBecomes
    <3>4. Held' = [Held EXCEPT ![o] = Store!RemovedAt(Held[o], i)]
      BY <1>1, <3>1, <3>3
    <3> QED BY <1>2, <2>1, <3>3, <3>4
  <2>2. CASE ~(i < l.list_size)
    <3>1. ArraysInv' /\ EachIsExcused /\ Alive' = Alive /\ Held' = Held
      BY <1>4, <1>5, <2>2, Keeps
    <3> QED BY <1>2, <2>2, <3>1
  <2> QED BY <2>1, <2>2
<1>7. Len(Held'[o]) \in Nat
  BY <1>1, <1>6, HeldLengthAfter
<1>8. Store!Next
  BY <1>3, <1>4, <1>6, <1>7, SeenAt
<1> QED BY <1>6, <1>8 DEF Sound, Seen

LEMMA ListDeletes ==
  ASSUME ArraysInv, IsList, container' = container, NEW o \in Alive,
         NEW n \in 0..objects[o].list_size, List!Del(o, n)
  PROVE  Sound
<1> DEFINE l == objects[o]
           m == l.list_size - n
           r == List!Shortened(l, m)
<1>1. /\ o \in Objects /\ GoodList(l) /\ Alive \cup {o} = Alive /\ Held[o] = List!Contents(l)
      /\ l.pointer # "absent"
  BY AliveList
<1>2. l.list_size \in Nat /\ Len(Held[o]) = l.list_size
  BY <1>1, ListFields, ListContentsIs
<1>3. n \in Nat /\ n <= Len(Held[o]) /\ Len(Held[o]) \in Nat /\ m \in 0..l.list_size
  BY <1>2
<1>4. Does(o, r, 0, 0) /\ done' = "RemoveLast" /\ value' = n
  BY DEF Does, List!Del, List!Checked, List!NoFault, NoFault, List!Become, List!Returns
<1>5. done' \in Calls /\ value' \in Int
  BY <1>3, <1>4 DEF Calls
<1> HIDE DEF m
<1>6. /\ GoodList(r) /\ r.pointer = l.pointer
  BY <1>1, <1>3, ShortenedIs
<1>7. List!Contents(r) = [k \in 1..m |-> List!Contents(l)[k]]
  BY <1>1, <1>3, ShortenedIs
<1> HIDE DEF r
<1>b. Balanced(o, r, 0, 0)
  BY <1>6, BalancedIs
<1>8. ArraysInv' /\ EachIsExcused /\ Alive' = Alive /\ Held' = [Held EXCEPT ![o] = List!Contents(r)]
  BY <1>1, <1>4, <1>5, <1>6, <1>b, ListBecomes
<1>9. Held' = [Held EXCEPT ![o] = [k \in 1..(Len(Held[o]) - n) |-> Held[o][k]]]
  BY <1>1, <1>2, <1>7, <1>8 DEF m
<1>10. Len(Held'[o]) \in Nat
  BY <1>1, <1>8, HeldLengthAfter
<1>11. Store!Next
  BY <1>3, <1>4, <1>8, <1>9, <1>10, SeenAt, ZenonT(30)
<1> QED BY <1>8, <1>11 DEF Sound, Seen

LEMMA ListReads ==
  ASSUME ArraysInv, IsList, container' = container, NEW o \in Alive,
         NEW i \in 0..objects[o].list_size, List!Read(o, i)
  PROVE  Sound
<1> DEFINE l == objects[o]
           m == l.list_size
<1>1. /\ o \in Objects /\ GoodList(l) /\ Held[o] = List!Contents(l)
  BY AliveList
<1>2. m \in Nat /\ Len(Held[o]) = m
  BY <1>1, ListFields, ListContentsIs
<1>3. i < m /\ fault = NoFault
  BY DEF List!Read, List!Checked, List!NoFault, NoFault
<1>4. i \in Nat /\ i < Len(Held[o]) /\ Len(Held[o]) \in Nat
  BY <1>2, <1>3
<1>a. List!Reachable(l, {i})
  <2>1. {i} \subseteq 0..(l.allocation_size - 1)
    BY <1>1, <1>3, <1>4, ListFields
  <2> QED BY <1>1, <2>1, ListReaches
<1>5. UNCHANGED fault /\ Unmoved /\ done' = "Read" /\ value' = l.array[i]
  BY <1>a DEF Unmoved, List!Read, List!Checked, List!NoFault, NoFault, List!Keep, List!Returns
<1>6. value' = Held[o][i + 1] /\ value' \in CellValue
  <2>1. i + 1 \in 1..m /\ (i + 1) - 1 = i
    <3> HIDE DEF m
    <3> QED BY <1>2, <1>3, <1>4
  <2>2. List!Contents(l)[i + 1] = l.array[(i + 1) - 1]
    BY <1>1, <2>1, ListContentsIs
  <2>3. List!Contents(l) \in Seq(CellValue) /\ i + 1 \in 1..Len(List!Contents(l))
    BY <1>1, <2>1, ListContentsIs
  <2>4. List!Contents(l)[i + 1] \in CellValue
    BY <2>3, ElementOfSeq
  <2> QED BY <1>1, <1>5, <2>1, <2>2, <2>4
<1>7. done' \in Calls /\ value' \in Int
  BY <1>5, <1>6, CellsAreNumbers DEF Calls
<1>8. ArraysInv' /\ EachIsExcused /\ Alive' = Alive /\ Held' = Held
  BY <1>3, <1>5, <1>7, Keeps
<1>9. Len(Held'[o]) \in Nat
  BY <1>4, <1>8
<1>10. Store!Next
  BY <1>4, <1>5, <1>6, <1>8, <1>9, SeenAt
<1> QED BY <1>8, <1>10 DEF Sound, Seen

LEMMA ListTellsSize ==
  ASSUME ArraysInv, IsList, container' = container, NEW o \in Alive, List!Size(o)
  PROVE  Sound
<1> DEFINE l == objects[o]
<1>1. GoodList(l) /\ Held[o] = List!Contents(l)
  BY AliveList
<1>2. /\ fault = NoFault /\ UNCHANGED fault /\ Unmoved
      /\ done' = "Size" /\ value' = l.list_size
  BY DEF Unmoved, List!Size, List!Checked, List!NoFault, NoFault, List!Keep, List!Returns
<1>3. l.list_size \in Nat /\ Len(Held[o]) = l.list_size
  BY <1>1, ListFields, ListContentsIs
<1>4. done' \in Calls /\ value' \in Int
  BY <1>2, <1>3 DEF Calls
<1>5. ArraysInv' /\ EachIsExcused /\ Alive' = Alive /\ Held' = Held
  BY <1>2, <1>4, Keeps
<1>6. Store!Next
  BY <1>2, <1>3, <1>5, SeenKept
<1> QED BY <1>5, <1>6 DEF Sound, Seen

LEMMA ListCompresses ==
  ASSUME ArraysInv, IsList, container' = container, NEW o \in Alive, List!Compress(o)
  PROVE  Sound
<1> DEFINE l == objects[o]
           r == List!Moved(l, l.allocation_size)
<1>1. o \in Objects /\ GoodList(l) /\ Alive \cup {o} = Alive /\ Held[o] = List!Contents(l)
  BY AliveList
<1>2. l.allocation_size > 0 => List!CanMove(l)
  BY <1>1, ListDeletable, ListItemsReachable DEF List!CanMove
<1>3. /\ fault = NoFault /\ fault' = fault /\ done' = "Compress" /\ value' = None
  BY <1>2 DEF List!Compress, List!Checked, List!NoFault, NoFault, List!Become, List!Keep, List!Returns, List!None, None
<1>4. done' \in Calls /\ value' \in Int
  BY <1>3 DEF Calls, None
<1>5. ArraysInv' /\ EachIsExcused /\ Alive' = Alive /\ Held' = Held
  <2>1. CASE l.allocation_size = 0
    <3>1. Unmoved
      BY <1>2, <2>1 DEF Unmoved, List!Compress, List!Checked, List!NoFault, NoFault, List!Keep
    <3> QED BY <1>3, <1>4, <3>1, Keeps
  <2>2. CASE l.allocation_size # 0
    <3>1. Does(o, r, 1, Owned(l))
      BY <1>2, <1>3, <2>2, OwnedIs DEF Does, List!Compress, List!Checked, List!NoFault, NoFault, List!Become
    <3>2. l.allocation_size \in Nat /\ l.list_size <= l.allocation_size
      BY <1>1, ListFields
    <3>3. GoodList(r) /\ r.pointer = "owned" /\ List!Contents(r) = List!Contents(l)
      BY <1>1, <3>2, ListMovedIs
    <3> HIDE DEF r
    <3>b. Balanced(o, r, 1, Owned(l))
      BY <3>3, BalancedIs
    <3>4. ArraysInv' /\ EachIsExcused /\ Alive' = Alive /\ Held' = [Held EXCEPT ![o] = List!Contents(r)]
      BY <1>1, <1>4, <3>1, <3>3, <3>b, ListBecomes
    <3>5. Held' = Held
      BY <1>1, <3>3, <3>4 DEF Held
    <3> QED BY <3>4, <3>5
  <2> QED BY <2>1, <2>2
<1>6. Store!Next
  BY <1>3, <1>5, SeenKept
<1> QED BY <1>5, <1>6 DEF Sound, Seen

LEMMA ListFinds ==
  ASSUME ArraysInv, IsList, container' = container, NEW o \in Alive, NEW x \in Items,
         List!GetIndexOf(o, x)
  PROVE  Sound
<1> DEFINE l == objects[o]
           n == l.list_size
           c == List!Contents(l)
<1>1. /\ o \in Objects /\ GoodList(l) /\ Held[o] = c
  BY AliveList
<1>2. n \in Nat /\ DOMAIN c = 1..n
  BY <1>1, ListFields, ListContentsIs
<1>3. \A k \in 1..n : c[k] = l.array[k - 1]
  BY <1>1, ListContentsIs
<1>a. List!Reachable(l, List!Cells(n))
  BY <1>1, ListItemsReachable
<1>4. /\ fault = NoFault /\ UNCHANGED fault /\ Unmoved /\ done' = "GetIndexOf"
  BY <1>a DEF Unmoved, List!GetIndexOf, List!Checked, List!NoFault, NoFault, List!Keep, List!Returns
<1>5. \/ \E i \in 0..(n - 1) :
           l.array[i] = x /\ (\A j \in 0..(i - 1) : l.array[j] # x) /\ value' = i
      \/ (\A i \in 0..(n - 1) : l.array[i] # x) /\ value' = -1
  BY <1>a DEF List!GetIndexOf, List!Checked, List!NoFault, NoFault, List!Returns, List!Cells
<1> HIDE DEF n, c
<1>6. CASE \E i \in 0..(n - 1) :
             l.array[i] = x /\ (\A j \in 0..(i - 1) : l.array[j] # x) /\ value' = i
  <2>1. PICK i \in 0..(n - 1) :
          l.array[i] = x /\ (\A j \in 0..(i - 1) : l.array[j] # x) /\ value' = i
    BY <1>6
  <2>2. i \in Nat /\ i + 1 \in 1..n /\ (i + 1) - 1 = i
    BY <1>2
  <2>3. c[i + 1] = x
    BY <1>3, <2>1, <2>2
  <2>4. \A j \in 1..i : c[j] # x
    <3> TAKE j \in 1..i
    <3>1. j \in 1..n /\ j - 1 \in 0..(i - 1)
      BY <1>2, <2>2
    <3> QED BY <1>3, <2>1, <3>1
  <2>5. done' \in Calls /\ value' \in Int
    BY <1>4, <2>1, <2>2 DEF Calls
  <2>6. ArraysInv' /\ EachIsExcused /\ Alive' = Alive /\ Held' = Held
    BY <1>4, <2>5, Keeps
  <2>7. \E y \in Items : \E k \in DOMAIN Held[o] :
          /\ done' = "GetIndexOf" /\ Held[o][k] = y /\ value' = k - 1
          /\ \A j \in 1..(k - 1) : Held[o][j] # y
    <3>1. i + 1 \in DOMAIN Held[o] /\ Held[o][i + 1] = x /\ value' = (i + 1) - 1
      BY <1>1, <1>2, <2>1, <2>2, <2>3
    <3>2. \A j \in 1..((i + 1) - 1) : Held[o][j] # x
      BY <1>1, <2>2, <2>4
    <3> QED BY <1>4, <3>1, <3>2
  <2>8. Store!Next
    BY <2>6, <2>7, SeenKept
  <2> QED BY <2>6, <2>8 DEF Sound, Seen
<1>7. CASE (\A i \in 0..(n - 1) : l.array[i] # x) /\ value' = -1
  <2>1. \A k \in 1..n : c[k] # x
    <3> TAKE k \in 1..n
    <3>1. k - 1 \in 0..(n - 1)
      BY <1>2
    <3> QED BY <1>3, <1>7, <3>1
  <2>2. ~Store!Holds(Held[o], x)
    BY <1>1, <1>2, <2>1 DEF Store!Holds
  <2>3. done' \in Calls /\ value' \in Int
    BY <1>4, <1>7 DEF Calls
  <2>4. ArraysInv' /\ EachIsExcused /\ Alive' = Alive /\ Held' = Held
    BY <1>4, <2>3, Keeps
  <2>5. \E y \in Items : done' = "GetIndexOf" /\ ~Store!Holds(Held[o], y) /\ value' = -1
    BY <1>4, <1>7, <2>2
  <2>6. Store!Next
    BY <2>4, <2>5, SeenKept
  <2> QED BY <2>4, <2>6 DEF Sound, Seen
<1> QED BY <1>5, <1>6, <1>7

-----------------------------------------------------------------------------
(* The steps together.                                                      *)

LEMMA QueueStep ==
  ASSUME ArraysInv, IsQueue, container' = container, Queue!Next
  PROVE  Sound
<1>1. ASSUME NEW o \in Objects, Queue!Construct(o) PROVE Sound
  BY <1>1, QueueConstructs
<1>2. ASSUME NEW o \in Objects, NEW m \in Alive, Queue!CopyConstruct(o, m) PROVE Sound
  BY <1>2, QueueCopies
<1>3. ASSUME NEW o \in Alive,
             \/ Queue!Destroy(o) \/ Queue!Clear(o) \/ Queue!Pop(o) \/ Queue!ReadSize(o)
             \/ Queue!Compress(o)
      PROVE  Sound
  BY <1>3, QueueDestroys, QueueClears, QueuePops, QueueTellsSize, QueueCompresses
<1>4. ASSUME NEW o \in Alive, NEW m \in Alive, Queue!Assign(o, m) PROVE Sound
  BY <1>4, QueueAssigns
<1>5. ASSUME NEW o \in Alive, NEW x \in Items, Queue!Push(o, x) \/ Queue!Find(o, x) PROVE Sound
  BY <1>5, QueuePushes, QueueFinds
<1>6. ASSUME NEW o \in Alive, NEW x \in Items, NEW n \in 0..Queue!Size(objects[o]),
             Queue!PushAtHead(o, x, n)
      PROVE  Sound
  BY <1>6, QueuePushesAtHead
<1>7. ASSUME NEW o \in Alive, NEW k \in 0..Queue!Size(objects[o]),
             Queue!Read(o, k) \/ Queue!Del(o, k)
      PROVE  Sound
  BY <1>7, QueueReads, QueueDeletes
<1>8. ASSUME NEW o \in Alive, NEW n \in 0..MaxArray, Queue!ClearAndForceAllocation(o, n) PROVE Sound
  <2>1. n \in Nat
    BY SizeAssumption
  <2> QED BY <1>8, <2>1, QueueForcesAllocation
<1>9. Queue!Alive = Alive
  BY DEF Queue!Alive, Alive
<1> QED BY <1>1, <1>2, <1>3, <1>4, <1>5, <1>6, <1>7, <1>8, <1>9 DEF Queue!Next

LEMMA ListStep ==
  ASSUME ArraysInv, IsList, container' = container, List!Next
  PROVE  Sound
<1>1. ASSUME NEW o \in Objects, List!Construct(o) PROVE Sound
  BY <1>1, ListConstructs
<1>2. ASSUME NEW o \in Objects, NEW m \in Alive, List!CopyConstruct(o, m) PROVE Sound
  BY <1>2, ListCopies
<1>3. ASSUME NEW o \in Alive, List!Destroy(o) \/ List!Size(o) \/ List!Compress(o) PROVE Sound
  BY <1>3, ListDestroys, ListTellsSize, ListCompresses
<1>4. ASSUME NEW o \in Alive, NEW b \in BOOLEAN, List!Clear(o, b) PROVE Sound
  BY <1>4, ListClears
<1>5. ASSUME NEW o \in Alive, NEW m \in Alive, List!Assign(o, m) PROVE Sound
  BY <1>5, ListAssigns
<1>6. ASSUME NEW o \in Alive, NEW i \in 0..objects[o].list_size,
             List!RemoveAtIndex(o, i) \/ List!Del(o, i) \/ List!Read(o, i)
      PROVE  Sound
  BY <1>6, ListRemoves, ListDeletes, ListReads
<1>7. ASSUME NEW o \in Alive, NEW i \in 0..objects[o].list_size, NEW x \in Items,
             List!Insert(o, i, x)
      PROVE  Sound
  BY <1>7, ListInserts
<1>8. ASSUME NEW o \in Alive, NEW x \in Items, List!ReplaceLast(o, x) \/ List!GetIndexOf(o, x)
      PROVE  Sound
  BY <1>8, ListReplacesLast, ListFinds
<1>9. ASSUME NEW o \in Alive, NEW x \in Items, NEW i \in 0..MaxArray, NEW filler \in Items,
             List!ReplaceAt(o, i, x, filler)
      PROVE  Sound
  BY <1>9, ListReplacesAt
<1>10. List!Alive = Alive
  BY DEF List!Alive, Alive
<1> QED BY <1>1, <1>2, <1>3, <1>4, <1>5, <1>6, <1>7, <1>8, <1>9, <1>10 DEF List!Next

LEMMA ArraysStep ==
  ASSUME ArraysInv, [ArraysNext]_<<array_vars, container>>
  PROVE  ArraysInv' /\ [EachIsExcused]_array_vars /\ Seen
<1>1. CASE NextQueue /\ UNCHANGED container
  BY <1>1, QueueStep DEF NextQueue, Sound
<1>2. CASE NextList /\ UNCHANGED container
  BY <1>2, ListStep DEF NextList, Sound
<1>3. CASE UNCHANGED <<array_vars, container>>
  <2>1. UNCHANGED <<objects, done, value, subject, made, freed, fault, container>>
    BY <1>3 DEF array_vars
  <2>2. Alive' = Alive /\ Held' = Held
    BY <2>1 DEF Alive, Held, IsQueue
  <2>3. Queue!FaultHasCause' <=> Queue!FaultHasCause
    BY <2>1 DEF Queue!FaultHasCause, Queue!HasCause, Queue!Before, Queue!UndefinedIfUnset
  <2>4. List!FaultHasCause' <=> List!FaultHasCause
    BY <2>1 DEF List!FaultHasCause, List!HasCause
  <2>5. ArraysInv'
    BY <2>1, <2>3, <2>4 DEF ArraysInv, IsQueue, IsList
  <2> QED BY <1>3, <2>1, <2>2, <2>5 DEF Seen
<1> QED BY <1>1, <1>2, <1>3 DEF ArraysNext

LEMMA ArraysStart ==
  ASSUME ArraysInit
  PROVE  ArraysInv /\ Alive = {} /\ Held = [o \in Objects |-> <<>>] /\ done = "none" /\ value = 0
<1>1. CASE container = "queue" /\ Queue!Init
  <2> DEFINE a == Queue!Absent
  <2>1. /\ objects = [o \in Objects |-> a] /\ done = "none" /\ value = 0 /\ subject = "none" /\ made = 0
        /\ freed = 0 /\ fault = NoFault
    BY <1>1 DEF Queue!Init, Queue!InitWith, Queue!None, Queue!NoFault, NoFault
  <2>2. GoodQueue(a) /\ a.pointer = "absent" /\ Queue!Contents(a) = <<>>
    BY AbsentIs
  <2> HIDE DEF a
  <2>3. \A o \in Objects : objects[o] = a
    BY <2>1
  <2>4. objects = [o \in Objects |-> objects[o]]
    BY <2>1, <2>3
  <2>5. IsQueue /\ ~IsList
    BY <1>1 DEF IsQueue, IsList
  <2>6. Queue!FaultHasCause
    BY <2>1 DEF Queue!FaultHasCause, Queue!NoFault, NoFault
  <2>7. ArraysInv
    <3>1. /\ container \in {"queue", "list"} /\ done \in CallsOrNone /\ value \in Int
          /\ subject \in ObjectOrNone /\ made \in 0..1 /\ freed \in 0..1 /\ fault \in Faults
      <4>1. value \in Int
        BY <2>1
      <4>2. subject \in ObjectOrNone /\ made \in 0..1 /\ freed \in 0..1
        BY <2>1 DEF ObjectOrNone
      <4>3. fault \in Faults
        BY <2>1 DEF NoFault, Faults, CallsOrNone, ObjectOrNone
      <4> QED BY <1>1, <2>1, <4>1, <4>2, <4>3 DEF CallsOrNone
    <3>2. \A o \in Objects : GoodQueue(objects[o])
      BY <2>2, <2>3
    <3> QED BY <2>4, <2>5, <2>6, <3>1, <3>2 DEF ArraysInv
  <2>8. Alive = {}
    BY <2>2, <2>3 DEF Alive
  <2>9. Held = [o \in Objects |-> <<>>]
    BY <2>2, <2>3, <2>5 DEF Held
  <2> QED BY <2>1, <2>7, <2>8, <2>9
<1>2. CASE container = "list" /\ List!Init
  <2> DEFINE a == List!Absent
  <2>1. /\ objects = [o \in Objects |-> a] /\ done = "none" /\ value = 0 /\ subject = "none" /\ made = 0
        /\ freed = 0 /\ fault = NoFault
    BY <1>2 DEF List!Init, List!InitWith, List!None, List!NoFault, NoFault
  <2>2. GoodList(a) /\ a.pointer = "absent" /\ List!Contents(a) = <<>>
    BY ListConstants
  <2> HIDE DEF a
  <2>3. \A o \in Objects : objects[o] = a
    BY <2>1
  <2>4. objects = [o \in Objects |-> objects[o]]
    BY <2>1, <2>3
  <2>5. IsList /\ ~IsQueue
    BY <1>2 DEF IsQueue, IsList
  <2>6. List!FaultHasCause
    BY <2>1 DEF List!FaultHasCause, List!NoFault, NoFault
  <2>7. ArraysInv
    <3>1. /\ container \in {"queue", "list"} /\ done \in CallsOrNone /\ value \in Int
          /\ subject \in ObjectOrNone /\ made \in 0..1 /\ freed \in 0..1 /\ fault \in Faults
      <4>1. value \in Int
        BY <2>1
      <4>2. subject \in ObjectOrNone /\ made \in 0..1 /\ freed \in 0..1
        BY <2>1 DEF ObjectOrNone
      <4>3. fault \in Faults
        BY <2>1 DEF NoFault, Faults, CallsOrNone, ObjectOrNone
      <4> QED BY <1>2, <2>1, <4>1, <4>2, <4>3 DEF CallsOrNone
    <3>2. \A o \in Objects : GoodList(objects[o])
      BY <2>2, <2>3
    <3> QED BY <2>4, <2>5, <2>6, <3>1, <3>2 DEF ArraysInv
  <2>8. Alive = {}
    BY <2>2, <2>3 DEF Alive
  <2>9. Held = [o \in Objects |-> <<>>]
    BY <2>2, <2>3, <2>5 DEF Held
  <2> QED BY <2>1, <2>7, <2>8, <2>9
<1> QED BY <1>1, <1>2 DEF ArraysInit

(* Every behaviour of a queue or of a list keeps ArraysInv.                 *)
THEOREM ArraysInvariance == ArraysSpec => []ArraysInv
<1>1. ArraysInit => ArraysInv
  BY ArraysStart
<1>2. ArraysInv /\ [ArraysNext]_<<array_vars, container>> => ArraysInv'
  BY ArraysStep
<1> QED BY <1>1, <1>2, PTL DEF ArraysSpec

(* Head, tail and sizes stay in the arrays, and a call of Queue or List is  *)
(* undefined only for the causes named in ArrayQueue and ArrayList          *)
(* (DS_Queue.h:113-143, 226-235, 343-346; DS_List.h:126-134).               *)
THEOREM FaultsHaveCauses == ArraysSpec => []FaultHasCause
<1>1. ArraysInv => FaultHasCause
  <2> SUFFICES ASSUME ArraysInv PROVE FaultHasCause
    OBVIOUS
  <2>1. CASE IsQueue
    <3>1. ~IsList
      BY <2>1 DEF IsQueue, IsList
    <3>2. \A o \in Objects : Queue!QueueOK(objects[o])
      BY <2>1 DEF ArraysInv, GoodQueue
    <3>3. Queue!TypeOK
      BY <3>2 DEF ArraysInv, Queue!TypeOK, Queue!CallsOrNone, CallsOrNone, Queue!Calls, Calls,
                           Queue!ObjectOrNone, ObjectOrNone, Queue!Faults, Faults
    <3> QED BY <2>1, <3>1, <3>3 DEF ArraysInv, FaultHasCause, ArraysTypeOK
  <2>2. CASE IsList
    <3>1. ~IsQueue
      BY <2>2 DEF IsQueue, IsList
    <3>2. \A o \in Objects : List!ListOK(objects[o])
      BY <2>2 DEF ArraysInv, GoodList
    <3>3. List!TypeOK
      BY <3>2 DEF ArraysInv, List!TypeOK, List!CallsOrNone, CallsOrNone, List!Calls, Calls,
                           List!ObjectOrNone, ObjectOrNone, List!Faults, Faults
    <3> QED BY <2>2, <3>1, <3>3 DEF ArraysInv, FaultHasCause, ArraysTypeOK
  <2> QED BY <2>1, <2>2 DEF ArraysInv, IsQueue, IsList
<1> QED BY <1>1, ArraysInvariance, PTL

(* Seen from outside a queue and a list are sequences: each call is one     *)
(* step of SequenceStore, whatever the ring and the memmoves do with the    *)
(* array (DS_Queue.h, DS_List.h as a whole).                                *)
THEOREM ContainersImplementSequenceStore == ArraysSpec => ImplementsSequenceStore
<1>1. ArraysInit => Store!Init
  BY ArraysStart DEF Store!Init, Store!None, Held
<1>2. ArraysInv /\ [ArraysNext]_<<array_vars, container>> => [Store!Next]_(Store!vars)
  <2> SUFFICES ASSUME ArraysInv, [ArraysNext]_<<array_vars, container>>
               PROVE  [Store!Next]_(Store!vars)
    OBVIOUS
  <2>1. Seen
    BY ArraysStep
  <2> QED BY <2>1 DEF Seen, Store!vars, Held
<1> QED BY <1>1, <1>2, ArraysInvariance, PTL DEF ArraysSpec, ImplementsSequenceStore, Store!Spec

(* Whatever a call does to an array is accounted for: what new[] has made   *)
(* is the object's afterwards or deleted, and what the object had is still  *)
(* its or deleted, but for the arrays that assignments and allocations of   *)
(* no cells forget (DS_Queue.h:90-94, 116-124, 182-190, 251-280;            *)
(* DS_List.h:118-123, 150-179).                                             *)
THEOREM LossesHaveCauses == ArraysSpec => LossHasCause
<1>1. ArraysInv /\ [ArraysNext]_<<array_vars, container>> => [EachIsExcused]_array_vars
  BY ArraysStep
<1> QED BY <1>1, ArraysInvariance, PTL DEF ArraysSpec, LossHasCause
=============================================================================
