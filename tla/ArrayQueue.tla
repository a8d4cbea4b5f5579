----------------------------- MODULE ArrayQueue -----------------------------
(***************************************************************************)
(* Queue (include/RakNet/DS_Queue.h): a ring in an array.  head is the     *)
(* cell of the first item, tail the one behind the last; they are equal    *)
(* when the queue is empty, so that it grows when the last cell is filled. *)
(***************************************************************************)
EXTENDS Arrays

Absent == [pointer |-> "absent", array |-> NoArray, head |-> 0, tail |-> 0, allocation_size |-> 0]

(* A copy of an empty queue: array, head and tail are not set.              *)
Blank == [Absent EXCEPT !.pointer = "unset"]

Filled(cells, n, size) ==
  [pointer |-> "owned", array |-> cells, head |-> 0, tail |-> n, allocation_size |-> size]
Allocated(n) == Filled(New(n), 0, n)

(* head and tail can be read.                                               *)
IsSet(q) == q.pointer # "unset"

Size(q) ==
  IF q.head <= q.tail THEN q.tail - q.head ELSE q.allocation_size - q.head + q.tail

After(q, i) == IF i + 1 = q.allocation_size THEN 0 ELSE i + 1
Before(q, i) == IF i = 0 THEN q.allocation_size - 1 ELSE i - 1

(* The cell of the item at position k.                                      *)
Slot(q, k) ==
  IF q.head + k >= q.allocation_size THEN q.head + k - q.allocation_size ELSE q.head + k

(* The position a cell has, counted from the head.                          *)
Distance(q, i) == IF i >= q.head THEN i - q.head ELSE i + q.allocation_size - q.head

ItemCells(q) == {Slot(q, i) : i \in Cells(Size(q))}
Contents(q) == [k \in 1..Size(q) |-> q.array[Slot(q, k - 1)]]

Abstract == INSTANCE SequenceStore WITH
  alive <- Alive,
  contents <- [o \in Objects |-> Contents(objects[o])]

Init == InitWith(Absent)

-----------------------------------------------------------------------------
(* The items, in order, in a new array of n cells.                          *)
Moved(q, n) ==
  Filled([i \in Cells(n) |-> IF i < Size(q) THEN q.array[Slot(q, i)] ELSE Garbage], Size(q), n)

Construct(o) ==
  /\ objects[o].pointer = "absent"
  /\ Checked("Construct", o, 0, TRUE,
       Become(o, Allocated(First), 1, 0) /\ Returns("Construct", None))

CopyConstruct(o, m) ==
  LET from == objects[m] IN
  /\ objects[o].pointer = "absent"
  /\ Room(o, Size(from) + 1)
  /\ Checked("CopyConstruct", m, 0, IsSet(from) /\ Reachable(from, ItemCells(from)),
       /\ IF Size(from) = 0 THEN Become(o, Blank, 0, 0)
          ELSE Become(o, Moved(from, Size(from) + 1), 1, 0)
       /\ Returns("CopyConstruct", None))

(* Mutant of Destroy: an array that holds no item is not deleted.           *)
DestroyFilled(o) ==
  LET q == objects[o] IN
  Checked("Destroy", o, 0, q.allocation_size > 0 => Deletable(q),
    /\ Become(o, Absent, 0, IF Size(q) > 0 THEN Owned(q) ELSE 0)
    /\ Returns("Destroy", None))

Destroy(o) ==
  LET q == objects[o] IN
  Checked("Destroy", o, 0, q.allocation_size > 0 => Deletable(q),
    /\ Become(o, Absent, 0, IF q.allocation_size > 0 THEN Owned(q) ELSE 0)
    /\ Returns("Destroy", None))

(* A large array is deleted, but array goes on pointing there.              *)
Cleared(q) ==
  IF q.allocation_size = 0 THEN q
  ELSE IF q.allocation_size > Large THEN [Absent EXCEPT !.pointer = "freed"]
  ELSE Allocated(q.allocation_size)
ClearFrees(q) == IF q.allocation_size > Large THEN Owned(q) ELSE 0
CanClear(q) == q.allocation_size > Large => Deletable(q)

Clear(o) ==
  LET q == objects[o] IN
  Checked("Clear", o, 0, CanClear(q),
    Become(o, Cleared(q), 0, ClearFrees(q)) /\ Returns("Clear", None))

(* A small array is not deleted before the pointer to it is overwritten.    *)
Assign(o, m) ==
  LET q == objects[o]  from == objects[m] IN
  /\ Room(o, Size(from) + 1)
  /\ Checked("Assign", m, 0,
       o # m => CanClear(q) /\ IsSet(from) /\ Reachable(from, ItemCells(from)),
       /\ IF o = m THEN Keep
          ELSE IF Size(from) = 0
               THEN Become(o, [Cleared(q) EXCEPT !.allocation_size = 0], 0, ClearFrees(q))
          ELSE Become(o, Moved(from, Size(from) + 1), 1, ClearFrees(q))
       /\ Returns("Assign", None))

-----------------------------------------------------------------------------
(* The array of a queue that counts on none.                                *)
PushFirst(o, x) == Become(o, Filled([New(First) EXCEPT ![0] = x], 1, First), 1, 0)

(* Mutant of Doubled: the cells are copied as they are, not from the head.  *)
DoubledInPlace(q) ==
  Filled([i \in Cells(2 * q.allocation_size) |->
           IF i < q.allocation_size THEN q.array[i] ELSE Garbage],
         q.allocation_size, 2 * q.allocation_size)

(* head and tail have met: the array is full.                               *)
Doubled(q) ==
  Filled([i \in Cells(2 * q.allocation_size) |->
           IF i < q.allocation_size THEN q.array[Slot(q, i)] ELSE Garbage],
         q.allocation_size, 2 * q.allocation_size)

Grown(q) == IF q.tail = q.head THEN Doubled(q) ELSE q

(* With an item more; when it is full the old array is copied and deleted.  *)
GrownAfter(o, q) ==
  IF q.tail = q.head THEN Become(o, Grown(q), 1, Owned(q)) ELSE Become(o, Grown(q), 0, 0)
CellsToGrow(q) == IF q.tail = q.head THEN Cells(q.allocation_size) ELSE {}

(* Mutant of Pushed: the array grows one item too late.                     *)
PushedTight(q, x) ==
  [q EXCEPT !.array[q.tail] = x, !.tail = IF q.tail + 1 > q.allocation_size THEN 0 ELSE q.tail + 1]

Pushed(q, x) == [q EXCEPT !.array[q.tail] = x, !.tail = After(q, q.tail)]

(* The size an array has when it has been filled up to tail.                *)
NextSize(q, tail) ==
  IF q.allocation_size = 0 THEN First
  ELSE IF tail = q.head THEN 2 * q.allocation_size ELSE q.allocation_size

Push(o, x) ==
  LET q == objects[o] IN
  /\ Room(o, NextSize(q, After(q, q.tail)))
  /\ Checked("Push", o, 0,
       q.allocation_size > 0 =>
         Deletable(q) /\ Reachable(q, {q.tail}) /\ Reachable(q, CellsToGrow(Pushed(q, x))),
       /\ IF q.allocation_size = 0 THEN PushFirst(o, x) ELSE GrownAfter(o, Pushed(q, x))
       /\ Returns("Insert", Size(q)))

(* The items in front of position n move up to the new head.                *)
PushedAtHead(q, x, n) ==
  LET h == Before(q, q.head) IN
  [q EXCEPT !.head = h,
            !.array = [i \in DOMAIN @ |-> IF i \in h..(h + n - 1) THEN @[i + 1]
                                          ELSE IF i = h + n THEN x ELSE @[i]]]

(* The loop does not wrap: it leaves the array when the new head and the    *)
(* position are on different sides of its end.                              *)
PushAtHead(o, x, n) ==
  LET q == objects[o]  h == Before(q, q.head) IN
  /\ Room(o, NextSize(q, After(q, q.tail)))
  /\ Checked("PushAtHead", o, n,
       q.allocation_size > 0 =>
         Deletable(q) /\ Reachable(q, h..(h + n)) /\ Reachable(q, CellsToGrow([q EXCEPT !.head = h])),
       /\ IF q.allocation_size = 0 THEN PushFirst(o, x) ELSE GrownAfter(o, PushedAtHead(q, x, n))
       /\ Returns("Insert", n))

(* Pop and Peek of an empty queue are the caller's mistake.                 *)
Pop(o) ==
  LET q == objects[o] IN
  /\ Size(q) > 0
  /\ Checked("Pop", o, 0, IsSet(q) /\ Reachable(q, {q.head}),
       /\ Become(o, [q EXCEPT !.head = After(q, q.head), !.array[q.head] = Garbage], 0, 0)
       /\ Returns("Pop", q.array[q.head]))

(* Peek is position 0.                                                      *)
Read(o, k) ==
  LET q == objects[o] IN
  /\ k < Size(q)
  /\ Checked("Read", o, k, IsSet(q) /\ Reachable(q, {Slot(q, k)}),
       Keep /\ Returns("Read", q.array[Slot(q, k)]))

(* Each item behind position k moves one cell towards the head.             *)
Deleted(q, k) ==
  [q EXCEPT !.tail = Before(q, q.tail),
            !.array = [i \in DOMAIN @ |->
                        IF Distance(q, i) \in k..(Size(q) - 2) THEN @[After(q, i)]
                        ELSE IF i = Before(q, q.tail) THEN Garbage ELSE @[i]]]

Del(o, k) ==
  LET q == objects[o] IN
  Checked("Del", o, k, IsSet(q) /\ Reachable(q, {Slot(q, i) : i \in k..(Size(q) - 1)}),
    /\ IF k < Size(q) THEN Become(o, Deleted(q, k), 0, 0) ELSE Keep
    /\ Returns("RemoveAt", k))

Find(o, x) ==
  LET q == objects[o] IN
  Checked("Find", o, 0, q.allocation_size > 0 => IsSet(q) /\ Reachable(q, ItemCells(q)),
    /\ Keep
    /\ Returns("Find", IF q.allocation_size > 0 /\ Abstract!Holds(Contents(q), x) THEN 1 ELSE 0))

(* IsEmpty is Size() = 0.                                                   *)
ReadSize(o) ==
  LET q == objects[o] IN
  Checked("Size", o, 0, IsSet(q), Keep /\ Returns("Size", Size(q)))

(* The smallest power of two above the number of items.                     *)
PowersOfTwo ==
  {p \in 1..MaxArray : \A d \in 1..p : p % d = 0 => d = 1 \/ d % 2 = 0}

Compress(o) ==
  LET q == objects[o] IN
  Checked("Compress", o, 0, q.allocation_size > 0 => Deletable(q) /\ Reachable(q, ItemCells(q)),
    /\ IF q.allocation_size = 0 THEN Keep
       ELSE \E p \in PowersOfTwo :
              /\ p > Size(q) /\ (p = 1 \/ p <= 2 * Size(q))
              /\ Room(o, p)
              /\ Become(o, Moved(q, p), 1, Owned(q))
    /\ Returns("Compress", None))

(* Whatever array points to is deleted.                                     *)
ClearAndForceAllocation(o, n) ==
  /\ Room(o, n)
  /\ Checked("ClearAndForceAllocation", o, 0, Deletable(objects[o]),
       Become(o, Allocated(n), 1, Owned(objects[o])) /\ Returns("Clear", None))

Next ==
  \/ \E o \in Objects : Construct(o)
  \/ \E o \in Objects, m \in Alive : CopyConstruct(o, m)
  \/ \E o \in Alive :
       \/ Destroy(o) \/ Clear(o) \/ Pop(o) \/ ReadSize(o) \/ Compress(o)
       \/ \E m \in Alive : Assign(o, m)
       \/ \E x \in Items :
            \/ Push(o, x) \/ Find(o, x)
            \/ \E n \in 0..Size(objects[o]) : PushAtHead(o, x, n)
       \/ \E k \in 0..Size(objects[o]) : Read(o, k) \/ Del(o, k)
       \/ \E n \in 0..MaxArray : ClearAndForceAllocation(o, n)

Spec == Init /\ [][Next]_array_vars

-----------------------------------------------------------------------------
(* head and tail stay in the array, and an array the queue counts on is     *)
(* there, as large as it believes (every method of DS_Queue.h).             *)
QueueOK(q) ==
  /\ q.pointer \in Pointers \ {"null"}
  /\ q.allocation_size \in Nat
  /\ q.allocation_size > 0 =>
       /\ q.pointer = "owned"
       /\ q.array \in [Cells(q.allocation_size) -> Items \cup {Garbage}]
       /\ q.head \in Cells(q.allocation_size)
       /\ q.tail \in Cells(q.allocation_size)
  /\ q.allocation_size = 0 => q.head = 0 /\ q.tail = 0

TypeOK ==
  /\ \A o \in Objects : QueueOK(objects[o])
  /\ done \in CallsOrNone /\ value \in Int
  /\ subject \in ObjectOrNone /\ made \in 0..1 /\ freed \in 0..1
  /\ fault \in Faults

(* A call is undefined only where it asks a copy of an empty queue for its  *)
(* size, where ClearAndForceAllocation deletes what Clear has deleted or    *)
(* what that copy has never set, and where PushAtHead's position is on the  *)
(* other side of the array's end (DS_Queue.h:59-66, 113-143, 226-235, 287,  *)
(* 343-346).  No other call deletes an array twice or touches a cell        *)
(* outside its array.                                                       *)
UndefinedIfUnset == {"CopyConstruct", "Assign", "Del", "Size", "ClearAndForceAllocation"}
HasCause(f) ==
  LET q == objects[f.object] IN
  \/ q.pointer = "unset" /\ f.call \in UndefinedIfUnset
  \/ q.pointer = "freed" /\ f.call = "ClearAndForceAllocation"
  \/ /\ f.call = "PushAtHead" /\ q.allocation_size > 0
     /\ Before(q, q.head) + f.at >= q.allocation_size
FaultHasCause == fault # NoFault => fault.object \in Objects /\ HasCause(fault)

(* Seen from outside a queue is a sequence: the ring wraps, grows, shifts   *)
(* and shrinks without losing, doubling or reordering an item.              *)
ImplementsSequenceStore == Abstract!Spec
=============================================================================
