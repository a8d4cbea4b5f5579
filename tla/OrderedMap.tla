----------------------------- MODULE OrderedMap -----------------------------
(***************************************************************************)
(* Map (include/RakNet/DS_Map.h): an OrderedList of nodes (DS_OrderedList. *)
(* h), searched by halving, and the index of the last search, which saves  *)
(* the next call the search when it is for the same key.  What the List    *)
(* below does with its array is in ArrayList; here it is a sequence.       *)
(*                                                                         *)
(* A call that finds its key in the saved result, or that needs no search, *)
(* is one step.  For the others a step is one round of the loop of         *)
(* GetIndexFromKey, and the last round does the rest of the call.  Indices *)
(* count from 0, as in the code.                                           *)
(***************************************************************************)
EXTENDS Integers, Sequences, FiniteSets, Functions

CONSTANTS
  Maps,       \* map objects
  Keys,       \* ordered by <
  Data,
  Nothing,    \* in place of data or a key when there is none
  MaxNodes    \* bound: nodes of all maps together

ASSUME KeyAssumption == Keys \subseteq Int /\ Nothing \notin Keys
ASSUME BoundAssumption == MaxNodes \in Nat

VARIABLES
  nodes,      \* mapNodeList of each map
  saved,      \* lastSearchIndexValid, lastSearchKey, lastSearchIndex
  call,       \* the call that searches, or Nothing
  lower, upper, index,    \* lowerBound, upperBound, index of the search
  result      \* the last call's key, what it stored or returned

search == <<lower, upper, index>>
vars == <<nodes, saved, call, search, result>>

Node == [key : Keys, data : Data]
Operations == {"Get", "GetIndexAtKey", "Pop", "Set", "SetExisting", "SetNew", "Has", "Delete"}
Call == [op : Operations, map : Maps, key : Keys, data : Data \cup {Nothing}]

Idle == call = Nothing
Size(m) == Len(nodes[m])
At(m, i) == nodes[m][i + 1]
Allocated == FoldFunction(LAMBDA s, n : Len(s) + n, 0, nodes)
Present(m, k) == \E i \in DOMAIN nodes[m] : nodes[m][i].key = k

PairsOf(s) == {s[i] : i \in DOMAIN s}
Contents == [m \in Maps |-> PairsOf(nodes[m])]

Abstract == INSTANCE KeyedStore WITH contents <- Contents

Unsaved == [valid |-> FALSE, key |-> Nothing, index |-> 0]

Init ==
  /\ nodes = [m \in Maps |-> <<>>]
  /\ saved = [m \in Maps |-> Unsaved]
  /\ call = Nothing
  /\ lower = 0 /\ upper = 0 /\ index = 0
  /\ result = Abstract!NoResult

-----------------------------------------------------------------------------
(* What a call does once it has its index.  found tells whether the key is  *)
(* there; i is its index, or the index it belongs at.                       *)
HasSavedSearchResult(m, k) == saved[m].valid /\ saved[m].key = k
SaveLastSearch(m, k, i) ==
  saved' = [saved EXCEPT ![m] = [valid |-> TRUE, key |-> k, index |-> i]]
(* The index and the key stay, but nobody looks at them again.              *)
Invalidate(m) == saved' = [saved EXCEPT ![m] = Unsaved]

Removed(s, i) == [j \in 1..(Len(s) - 1) |-> IF j <= i THEN s[j] ELSE s[j + 1]]
Inserted(s, i, n) ==
  [j \in 1..(Len(s) + 1) |-> IF j <= i THEN s[j] ELSE IF j = i + 1 THEN n ELSE s[j - 1]]

Remember(c, i, isSaved) == IF isSaved THEN UNCHANGED saved ELSE SaveLastSearch(c.map, c.key, i)

Reads(c, found, i, isSaved) ==
  /\ result' = CASE c.op = "Get" -> Abstract!Returns(c.key, At(c.map, i).data, FALSE, 0)
                 [] c.op = "GetIndexAtKey" -> Abstract!Returns(c.key, Nothing, FALSE, i)
                 [] c.op = "Has" -> Abstract!Returns(c.key, Nothing, found, 0)
  /\ IF found THEN Remember(c, i, isSaved) ELSE UNCHANGED saved
  /\ UNCHANGED nodes

Removes(c, found, i) ==
  /\ IF found
     THEN /\ nodes' = [nodes EXCEPT ![c.map] = Removed(@, i)]
          /\ Invalidate(c.map)
     ELSE UNCHANGED <<nodes, saved>>
  /\ result' = IF c.op = "Pop" THEN Abstract!Returns(c.key, At(c.map, i).data, FALSE, 0)
               ELSE Abstract!Returns(c.key, Nothing, found, 0)

(* Mutant of Stores: a node that is inserted does not become the last       *)
(* search, and the saved index points at another node after it.             *)
StoresUnsaved(c, found, i, isSaved) ==
  /\ nodes' = IF found THEN [nodes EXCEPT ![c.map][i + 1].data = c.data]
              ELSE [nodes EXCEPT ![c.map] = Inserted(@, i, [key |-> c.key, data |-> c.data])]
  /\ IF found THEN Remember(c, i, isSaved) ELSE UNCHANGED saved
  /\ result' = Abstract!Returns(c.key, c.data, FALSE, 0)

(* Mutant of Stores: Set, like Insert, leaves a node that is there alone.   *)
StoresOnlyNew(c, found, i, isSaved) ==
  /\ nodes' = IF found THEN nodes
              ELSE [nodes EXCEPT ![c.map] = Inserted(@, i, [key |-> c.key, data |-> c.data])]
  /\ Remember(c, i, isSaved)
  /\ result' = Abstract!Returns(c.key, c.data, FALSE, 0)

(* Set searches a second time in Insert, with the same outcome.             *)
Stores(c, found, i, isSaved) ==
  /\ nodes' = IF found THEN [nodes EXCEPT ![c.map][i + 1].data = c.data]
              ELSE [nodes EXCEPT ![c.map] = Inserted(@, i, [key |-> c.key, data |-> c.data])]
  /\ Remember(c, i, isSaved)
  /\ result' = Abstract!Returns(c.key, c.data, FALSE, 0)

Complete(c, found, i, isSaved) ==
  \/ c.op \in {"Get", "GetIndexAtKey", "Has"} /\ Reads(c, found, i, isSaved)
  \/ c.op \in {"Pop", "Delete"} /\ Removes(c, found, i)
  \/ c.op \in {"Set", "SetExisting", "SetNew"} /\ Stores(c, found, i, isSaved)

-----------------------------------------------------------------------------
(* The caller's part: Get, GetIndexAtKey, Pop and SetExisting assert that   *)
(* the key is there, SetNew, in debug builds only, that it is not.          *)
Allowed(c) ==
  /\ c.op \in {"Get", "GetIndexAtKey", "Pop", "SetExisting"} => Present(c.map, c.key)
  /\ c.op = "SetNew" => ~Present(c.map, c.key)
  /\ c.op \in {"Set", "SetNew"} => Allocated < MaxNodes \/ Present(c.map, c.key)
  /\ (c.data # Nothing) = (c.op \in {"Set", "SetExisting", "SetNew"})

(* SetNew does not look at the saved result.                                *)
CallSaved(c) ==
  /\ Idle
  /\ Allowed(c)
  /\ c.op # "SetNew" /\ HasSavedSearchResult(c.map, c.key)
  /\ Complete(c, TRUE, saved[c.map].index, TRUE)
  /\ UNCHANGED <<call, search>>

(* GetIndexFromKey in an empty list.                                        *)
CallEmpty(c) ==
  /\ Idle
  /\ Allowed(c)
  /\ c.op = "SetNew" \/ ~HasSavedSearchResult(c.map, c.key)
  /\ Size(c.map) = 0
  /\ Complete(c, FALSE, 0, FALSE)
  /\ UNCHANGED <<call, search>>

(* Mutant of CallSearches: the upper bound is the size.                     *)
CallSearchesToSize(c) ==
  /\ Idle
  /\ Allowed(c)
  /\ c.op = "SetNew" \/ ~HasSavedSearchResult(c.map, c.key)
  /\ Size(c.map) > 0
  /\ call' = c
  /\ lower' = 0
  /\ upper' = Size(c.map)
  /\ index' = Size(c.map) \div 2
  /\ result' = Abstract!NoResult
  /\ UNCHANGED <<nodes, saved>>

CallSearches(c) ==
  /\ Idle
  /\ Allowed(c)
  /\ c.op = "SetNew" \/ ~HasSavedSearchResult(c.map, c.key)
  /\ Size(c.map) > 0
  /\ call' = c
  /\ lower' = 0
  /\ upper' = Size(c.map) - 1
  /\ index' = Size(c.map) \div 2
  /\ result' = Abstract!NoResult
  /\ UNCHANGED <<nodes, saved>>

Done == call' = Nothing /\ lower' = 0 /\ upper' = 0 /\ index' = 0

(* The key that is looked at, and the bounds after that.                    *)
Probe == At(call.map, index).key
NextLower == IF call.key > Probe THEN index + 1 ELSE lower
(* Mutant of NextUpper: the upper bound keeps the node that was looked at.  *)
NextUpperKeepsProbe == IF call.key < Probe THEN index ELSE upper
NextUpper == IF call.key < Probe THEN index - 1 ELSE upper

Hit ==
  /\ ~Idle
  /\ call.key = Probe
  /\ Complete(call, TRUE, index, FALSE)
  /\ Done

Halve ==
  /\ ~Idle
  /\ call.key # Probe
  /\ NextLower <= NextUpper
  /\ lower' = NextLower
  /\ upper' = NextUpper
  /\ index' = NextLower + (NextUpper - NextLower) \div 2
  /\ UNCHANGED <<nodes, saved, call, result>>

(* Mutant of Miss: the index that was looked at last is the one to insert   *)
(* at, whichever side of it the key is on.                                  *)
MissAtProbe ==
  /\ ~Idle
  /\ call.key # Probe
  /\ NextLower > NextUpper
  /\ Complete(call, FALSE, index, FALSE)
  /\ Done

Miss ==
  /\ ~Idle
  /\ call.key # Probe
  /\ NextLower > NextUpper
  /\ Complete(call, FALSE, NextLower, FALSE)
  /\ Done

Round == Hit \/ Halve \/ Miss

-----------------------------------------------------------------------------
(* operator[] and GetKeyAtIndex.                                            *)
GetAtIndex(m, i) ==
  /\ Idle
  /\ i < Size(m)
  /\ result' = Abstract!Returns(At(m, i).key, At(m, i).data, FALSE, 0)
  /\ UNCHANGED <<nodes, saved, call, search>>

(* Mutant of RemoveAtIndex: the saved index follows its node down instead   *)
(* of being given up, also when that node is the one removed.               *)
RemoveAtIndexShifts(m, i) ==
  /\ Idle
  /\ nodes' = [nodes EXCEPT ![m] = IF i < Len(@) THEN Removed(@, i) ELSE @]
  /\ saved' = [saved EXCEPT ![m].index = IF @ > i THEN @ - 1 ELSE @]
  /\ result' = Abstract!NoResult
  /\ UNCHANGED <<call, search>>

RemoveAtIndex(m, i) ==
  /\ Idle
  /\ nodes' = [nodes EXCEPT ![m] = IF i < Len(@) THEN Removed(@, i) ELSE @]
  /\ Invalidate(m)
  /\ result' = Abstract!NoResult
  /\ UNCHANGED <<call, search>>

Clear(m) ==
  /\ Idle
  /\ nodes' = [nodes EXCEPT ![m] = <<>>]
  /\ Invalidate(m)
  /\ result' = Abstract!NoResult
  /\ UNCHANGED <<call, search>>

(* Mutant of Assign: the saved result of the old contents stays.            *)
AssignKeepsSaved(m, from) ==
  /\ Idle
  /\ Allocated + Size(from) - Size(m) <= MaxNodes
  /\ nodes' = [nodes EXCEPT ![m] = nodes[from]]
  /\ result' = Abstract!NoResult
  /\ UNCHANGED <<saved, call, search>>

(* operator= and, for a new map, the copy constructor.                      *)
Assign(m, from) ==
  /\ Idle
  /\ Allocated + Size(from) - Size(m) <= MaxNodes
  /\ nodes' = [nodes EXCEPT ![m] = nodes[from]]
  /\ saved' = [saved EXCEPT ![m] = saved[from]]
  /\ result' = Abstract!NoResult
  /\ UNCHANGED <<call, search>>

User ==
  \/ \E c \in Call : CallSaved(c) \/ CallEmpty(c) \/ CallSearches(c)
  \/ \E m \in Maps :
       \/ \E i \in 0..MaxNodes : GetAtIndex(m, i) \/ RemoveAtIndex(m, i)
       \/ Clear(m)
       \/ \E from \in Maps : Assign(m, from)

Next == Round \/ User

Spec == Init /\ [][Next]_vars

(* The loop of the search is plain code: it goes on.                        *)
FairSpec == Spec /\ WF_vars(Round)

-----------------------------------------------------------------------------
TypeOK ==
  /\ nodes \in [Maps -> Seq(Node)]
  /\ saved \in [Maps -> [valid : BOOLEAN, key : Keys \cup {Nothing}, index : Nat]]
  /\ call \in Call \cup {Nothing}
  /\ lower \in Nat /\ upper \in Int /\ index \in Nat
  /\ result \in [data : Data \cup {Nothing}, key : Keys \cup {Nothing}, found : BOOLEAN,
                 index : Nat]

(* The nodes of a map ascend by their keys, and no key is there twice: what *)
(* every insertion at the index a failed search returns has to maintain     *)
(* and every search relies on (DS_OrderedList.h:107-174).                   *)
KeysAscend ==
  \A m \in Maps : \A i, j \in DOMAIN nodes[m] : i < j => nodes[m][i].key < nodes[m][j].key

(* The saved index is that of the saved key, although insertions and        *)
(* removals move nodes and assignments replace them all: the calls that use *)
(* it do not look at the key again (DS_Map.h:129, 166, 185, 253, 298-310).  *)
SavedIsRight ==
  \A m \in Maps : saved[m].valid =>
    /\ saved[m].index < Size(m)
    /\ At(m, saved[m].index).key = saved[m].key

(* A search never looks outside the list, and what it has excluded cannot   *)
(* hold its key (DS_OrderedList.h:119-150).                                 *)
SearchIsRight ==
  ~Idle =>
    /\ lower <= index /\ index <= upper /\ upper < Size(call.map)
    /\ \A i \in 0..(lower - 1) : At(call.map, i).key < call.key
    /\ \A i \in (upper + 1)..(Size(call.map) - 1) : At(call.map, i).key > call.key

(* Seen from outside, a map is a set of pairs ordered by key, whether its   *)
(* calls search or use the saved result (DS_Map.h:95-311).                  *)
ImplementsKeyedStore == Abstract!Spec

(* Every search ends (DS_OrderedList.h:126).                                *)
SearchesEnd == ~Idle ~> Idle
=============================================================================
