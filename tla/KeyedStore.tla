----------------------------- MODULE KeyedStore -----------------------------
(***************************************************************************)
(* What Map (include/RakNet/DS_Map.h) promises: each map is a set of pairs *)
(* with one pair for a key, ordered by their keys, and calls are atomic.   *)
(* No array, no search, no saved result.  OrderedMap implements it.        *)
(***************************************************************************)
EXTENDS Integers, FiniteSets

CONSTANTS
  Maps,       \* map objects
  Keys,       \* ordered by <
  Data,
  Nothing     \* in place of data or a key when a call returns none

VARIABLES
  contents,   \* the pairs of each map
  result      \* the last call's key, what it stored or returned

vars == <<contents, result>>

Pair == [key : Keys, data : Data]

(* The caller takes what a call returns, the next one begins without.       *)
Returns(k, d, found, i) == [key |-> k, data |-> d, found |-> found, index |-> i]
NoResult == Returns(Nothing, Nothing, FALSE, 0)

With(s, k) == {p \in s : p.key = k}
Before(s, k) == {p \in s : p.key < k}

Init ==
  /\ contents = [m \in Maps |-> {}]
  /\ result = NoResult

Become(m, s) == contents' = [contents EXCEPT ![m] = s]

-----------------------------------------------------------------------------
Get(m, k) ==
  \E p \in With(contents[m], k) :
    /\ result' = Returns(k, p.data, FALSE, 0)
    /\ UNCHANGED contents

(* The index of a key is the number of keys before it.                      *)
GetIndexAtKey(m, k) ==
  /\ With(contents[m], k) # {}
  /\ result' = Returns(k, Nothing, FALSE, Cardinality(Before(contents[m], k)))
  /\ UNCHANGED contents

GetAtIndex(m, i) ==
  \E p \in contents[m] :
    /\ Cardinality(Before(contents[m], p.key)) = i
    /\ result' = Returns(p.key, p.data, FALSE, 0)
    /\ UNCHANGED contents

Has(m, k) ==
  /\ result' = Returns(k, Nothing, With(contents[m], k) # {}, 0)
  /\ UNCHANGED contents

(* Set, SetExisting and SetNew.                                             *)
Set(m, k, d) ==
  /\ Become(m, (contents[m] \ With(contents[m], k)) \cup {[key |-> k, data |-> d]})
  /\ result' = Returns(k, d, FALSE, 0)

Pop(m, k) ==
  \E p \in With(contents[m], k) :
    /\ Become(m, contents[m] \ {p})
    /\ result' = Returns(k, p.data, FALSE, 0)

Delete(m, k) ==
  /\ Become(m, contents[m] \ With(contents[m], k))
  /\ result' = Returns(k, Nothing, With(contents[m], k) # {}, 0)

(* Behind the last key there is nothing to remove.                          *)
RemoveAtIndex(m, i) ==
  /\ Become(m, {p \in contents[m] : Cardinality(Before(contents[m], p.key)) # i})
  /\ result' = NoResult

Clear(m) == Become(m, {}) /\ result' = NoResult
Assign(m, from) == Become(m, contents[from]) /\ result' = NoResult

(* A call begins.                                                           *)
Begin == result' = NoResult /\ UNCHANGED contents

Next ==
  \/ Begin
  \/ \E m \in Maps :
       \/ \E k \in Keys :
            \/ Get(m, k) \/ GetIndexAtKey(m, k) \/ Has(m, k) \/ Pop(m, k) \/ Delete(m, k)
            \/ \E d \in Data : Set(m, k, d)
       \/ \E i \in 0..Cardinality(contents[m]) : GetAtIndex(m, i) \/ RemoveAtIndex(m, i)
       \/ Clear(m)
       \/ \E from \in Maps : Assign(m, from)

Spec == Init /\ [][Next]_vars
=============================================================================
