----------------------------- MODULE ArrayList ------------------------------
(***************************************************************************)
(* List (include/RakNet/DS_List.h): an array that is filled from its first *)
(* cell.  The copies and moves are memcpy and memmove.                     *)
(***************************************************************************)
EXTENDS Arrays

Absent == [pointer |-> "absent", array |-> NoArray, list_size |-> 0, allocation_size |-> 0]
Empty == [Absent EXCEPT !.pointer = "null"]

(* A copy of an empty list: listArray is not set.                           *)
Blank == [Absent EXCEPT !.pointer = "unset"]

Contents(l) == [k \in 1..l.list_size |-> l.array[k - 1]]

Abstract == INSTANCE SequenceStore WITH
  alive <- Alive,
  contents <- [o \in Objects |-> Contents(objects[o])]

Init == InitWith(Absent)

-----------------------------------------------------------------------------
(* The items in a new array of n cells.                                     *)
Moved(l, n) ==
  [l EXCEPT !.pointer = "owned",
            !.array = [i \in Cells(n) |-> IF i < l.list_size THEN @[i] ELSE Garbage],
            !.allocation_size = n]

Construct(o) ==
  /\ objects[o].pointer = "absent"
  /\ Checked("Construct", o, 0, TRUE, Become(o, Empty, 0, 0) /\ Returns("Construct", None))

CopyConstruct(o, m) ==
  LET from == objects[m] IN
  /\ objects[o].pointer = "absent"
  /\ Room(o, from.list_size)
  /\ Checked("CopyConstruct", m, 0, Reachable(from, Cells(from.list_size)),
       /\ IF from.list_size = 0 THEN Become(o, Blank, 0, 0)
          ELSE Become(o, Moved(from, from.list_size), 1, 0)
       /\ Returns("CopyConstruct", None))

Destroy(o) ==
  LET l == objects[o] IN
  Checked("Destroy", o, 0, l.allocation_size > 0 => Deletable(l),
    /\ Become(o, Absent, 0, IF l.allocation_size > 0 THEN Owned(l) ELSE 0)
    /\ Returns("Destroy", None))

(* Mutant of Cleared: the pointer to an array that was deleted is kept.     *)
ClearedKeepsPointer(l, doNotDeallocate) ==
  IF l.allocation_size = 0 THEN l
  ELSE IF l.allocation_size > Large /\ ~doNotDeallocate
       THEN [Empty EXCEPT !.pointer = "freed"]
  ELSE [l EXCEPT !.array = New(l.allocation_size), !.list_size = 0]

(* What is left in the array of a list that is cleared is not used again.   *)
Cleared(l, doNotDeallocate) ==
  IF l.allocation_size = 0 THEN l
  ELSE IF l.allocation_size > Large /\ ~doNotDeallocate THEN Empty
  ELSE [l EXCEPT !.array = New(l.allocation_size), !.list_size = 0]

ClearFrees(l, doNotDeallocate) ==
  IF l.allocation_size > Large /\ ~doNotDeallocate THEN Owned(l) ELSE 0
CanClear(l) == l.allocation_size > Large => Deletable(l)

Clear(o, doNotDeallocate) ==
  LET l == objects[o] IN
  Checked("Clear", o, 0, CanClear(l),
    /\ Become(o, Cleared(l, doNotDeallocate), 0, ClearFrees(l, doNotDeallocate))
    /\ Returns("Clear", None))

(* A small array is not deleted before the pointer to it is overwritten.    *)
Assign(o, m) ==
  LET l == objects[o]  from == objects[m] IN
  /\ Room(o, from.list_size)
  /\ Checked("Assign", m, 0, o # m => CanClear(l) /\ Reachable(from, Cells(from.list_size)),
       /\ IF o = m THEN Keep
          ELSE IF from.list_size = 0
               THEN Become(o, [Cleared(l, FALSE) EXCEPT !.list_size = 0, !.allocation_size = 0],
                           0, ClearFrees(l, FALSE))
          ELSE Become(o, Moved(from, from.list_size), 1, ClearFrees(l, FALSE))
       /\ Returns("Assign", None))

-----------------------------------------------------------------------------
(* Room for one more.                                                       *)
NextSize(l) == IF l.allocation_size = 0 THEN First ELSE 2 * l.allocation_size
IsFull(l) == l.list_size = l.allocation_size
Grown(l) == IF IsFull(l) THEN Moved(l, NextSize(l)) ELSE l

Inserted(l, i, x) ==
  [l EXCEPT !.list_size = @ + 1,
            !.array = [k \in DOMAIN @ |-> IF k < i THEN @[k] ELSE IF k = i THEN x ELSE @[k - 1]]]

(* What moving to a new array does to the old one, when that is done.       *)
CanMove(l) == Deletable(l) /\ Reachable(l, Cells(l.list_size))
BecomeMoved(o, r, moves) ==
  IF moves THEN Become(o, r, 1, Owned(objects[o])) ELSE Become(o, r, 0, 0)

(* A position behind the end is the caller's mistake.  Insert without one   *)
(* inserts at the end.                                                      *)
Insert(o, i, x) ==
  LET l == objects[o] IN
  /\ IsFull(l) => Room(o, NextSize(l))
  /\ Checked("Insert", o, i,
       (IsFull(l) => CanMove(l)) /\ Reachable(Grown(l), i..l.list_size),
       BecomeMoved(o, Inserted(Grown(l), i, x), IsFull(l)) /\ Returns("Insert", i))

(* The array that reaches position i.                                       *)
Reaching(l, i) == IF i >= l.allocation_size THEN Moved(l, i + 1) ELSE l

ReplaceAt(o, i, x, filler) ==
  LET l == objects[o]  r == Reaching(l, i)  moves == i >= l.allocation_size IN
  /\ moves => Room(o, i + 1)
  /\ Checked("Replace", o, i,
       (moves => CanMove(l)) /\ Reachable(r, {i} \cup l.list_size..i),
       /\ BecomeMoved(o, IF i < l.list_size THEN [l EXCEPT !.array[i] = x]
                         ELSE [r EXCEPT !.list_size = i + 1,
                                        !.array = [k \in DOMAIN @ |->
                                                    IF k = i THEN x
                                                    ELSE IF k \in l.list_size..(i - 1) THEN filler
                                                    ELSE @[k]]], moves)
       /\ Returns("ReplaceAt", i))

ReplaceLast(o, x) ==
  LET l == objects[o] IN
  Checked("Replace", o, 0, l.list_size > 0 => Reachable(l, {l.list_size - 1}),
    /\ IF l.list_size > 0 THEN Become(o, [l EXCEPT !.array[l.list_size - 1] = x], 0, 0) ELSE Keep
    /\ Returns("ReplaceLast", None))

(* Shortened to n items.                                                    *)
Shortened(l, n) ==
  [l EXCEPT !.list_size = n,
            !.array = [k \in DOMAIN @ |-> IF k < n THEN @[k] ELSE Garbage]]

(* Mutant of Removed: memmove moves one item too few.                       *)
RemovedShort(l, i) ==
  Shortened([l EXCEPT !.array = [k \in DOMAIN @ |->
              IF k \in i..(l.list_size - 3) THEN @[k + 1] ELSE @[k]]], l.list_size - 1)

Removed(l, i) ==
  Shortened([l EXCEPT !.array = [k \in DOMAIN @ |->
              IF k \in i..(l.list_size - 2) THEN @[k + 1] ELSE @[k]]], l.list_size - 1)

RemoveAtIndex(o, i) ==
  LET l == objects[o] IN
  Checked("RemoveAtIndex", o, i, Reachable(l, i..(l.list_size - 1)),
    /\ IF i < l.list_size THEN Become(o, Removed(l, i), 0, 0) ELSE Keep
    /\ Returns("RemoveAt", i))

(* More than there are is the caller's mistake.                             *)
Del(o, n) ==
  LET l == objects[o] IN
  Checked("Del", o, 0, TRUE,
    Become(o, Shortened(l, l.list_size - n), 0, 0) /\ Returns("RemoveLast", n))

(* operator[].                                                              *)
Read(o, i) ==
  LET l == objects[o] IN
  /\ i < l.list_size
  /\ Checked("Read", o, i, Reachable(l, {i}), Keep /\ Returns("Read", l.array[i]))

(* MAX_UNSIGNED_LONG, which stands for no position, is -1 here.             *)
GetIndexOf(o, x) ==
  LET l == objects[o] IN
  Checked("GetIndexOf", o, 0, Reachable(l, Cells(l.list_size)),
    /\ Keep
    /\ \/ /\ \E i \in Cells(l.list_size) :
               /\ l.array[i] = x
               /\ \A j \in Cells(i) : l.array[j] # x
               /\ Returns("GetIndexOf", i)
       \/ /\ \A i \in Cells(l.list_size) : l.array[i] # x
          /\ Returns("GetIndexOf", -1))

Size(o) == Checked("Size", o, 0, TRUE, Keep /\ Returns("Size", objects[o].list_size))

(* The new array is as large as the old one.                                *)
Compress(o) ==
  LET l == objects[o] IN
  Checked("Compress", o, 0, l.allocation_size > 0 => CanMove(l),
    /\ IF l.allocation_size = 0 THEN Keep
       ELSE Become(o, Moved(l, l.allocation_size), 1, Owned(l))
    /\ Returns("Compress", None))

Next ==
  \/ \E o \in Objects : Construct(o)
  \/ \E o \in Objects, m \in Alive : CopyConstruct(o, m)
  \/ \E o \in Alive :
       \/ Destroy(o) \/ Size(o) \/ Compress(o)
       \/ \E doNotDeallocate \in BOOLEAN : Clear(o, doNotDeallocate)
       \/ \E m \in Alive : Assign(o, m)
       \/ \E i \in 0..objects[o].list_size :
            \/ RemoveAtIndex(o, i) \/ Del(o, i) \/ Read(o, i)
            \/ \E x \in Items : Insert(o, i, x)
       \/ \E x \in Items :
            \/ ReplaceLast(o, x) \/ GetIndexOf(o, x)
            \/ \E i \in 0..MaxArray, filler \in Items : ReplaceAt(o, i, x, filler)

Spec == Init /\ [][Next]_array_vars

-----------------------------------------------------------------------------
(* No list has more items than cells, and an array it counts on is there    *)
(* (every method of DS_List.h).                                             *)
ListOK(l) ==
  /\ l.pointer \in Pointers
  /\ l.allocation_size \in Nat /\ l.list_size \in 0..l.allocation_size
  /\ l.allocation_size > 0 =>
       /\ l.pointer = "owned"
       /\ l.array \in [Cells(l.allocation_size) -> Items \cup {Garbage}]

TypeOK ==
  /\ \A o \in Objects : ListOK(objects[o])
  /\ done \in CallsOrNone /\ value \in Int
  /\ subject \in ObjectOrNone /\ made \in 0..1 /\ freed \in 0..1
  /\ fault \in Faults

(* A call is undefined only where the first item is put into a copy of an   *)
(* empty list: it deletes the array the copy has never set (DS_List.h:      *)
(* 126-134, 219, 261, 300).  No other call deletes an array twice, and none *)
(* touches a cell outside its array.                                        *)
HasCause(f) == f.call \in {"Insert", "Replace"} /\ objects[f.object].pointer = "unset"
FaultHasCause == fault # NoFault => fault.object \in Objects /\ HasCause(fault)

(* Seen from outside a list is a sequence: what memmove moves and a new     *)
(* array takes over is every item, once and in order.                       *)
ImplementsSequenceStore == Abstract!Spec
=============================================================================
