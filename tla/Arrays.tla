------------------------------- MODULE Arrays -------------------------------
(***************************************************************************)
(* What Queue and List (include/RakNet/DS_Queue.h, DS_List.h) share: an    *)
(* object keeps its items in an array from the heap, remembers how large   *)
(* that is, and has to delete it before it forgets it.                     *)
(*                                                                         *)
(* `pointer' tells what an object's array pointer is worth, and the cells  *)
(* of an array that hold no item are Garbage: what was popped is never     *)
(* read again, or it shows.  A call that deletes an array it does not own, *)
(* reads a variable nobody has set or touches a cell that is not there     *)
(* ends in a fault, and nothing is said of what comes after it.  Each call *)
(* also tells how many arrays its new[] and its delete[] have made and     *)
(* freed.                                                                  *)
(***************************************************************************)
EXTENDS Integers, Sequences, Functions

CONSTANTS
  Objects,        \* queues or lists
  Items,          \* what they hold
  First,          \* size of a first array: 16
  Large,          \* arrays above this size are deleted by Clear: 32 or 512
  MaxArray,       \* bound: cells of an array
  MaxCells        \* bound: cells of all arrays together

ASSUME ItemAssumption == Items \subseteq Nat \ {0}
ASSUME SizeAssumption == /\ First \in Nat /\ First > 1
                         /\ Large \in Nat
                         /\ MaxArray \in Nat /\ MaxCells \in Nat

VARIABLES
  objects,    \* the fields of each object
  done,       \* the last call
  value,      \* what it returned, or the position it was for
  subject,    \* history: the object that call gave new fields, or "none"
  made,       \* history: the arrays it has allocated
  freed,      \* history: the arrays it has deleted
  fault       \* the call whose behaviour is undefined, NoFault before it

array_vars == <<objects, done, value, subject, made, freed, fault>>

Garbage == 0
None == 0

Cells(n) == 0..(n - 1)
New(n) == [i \in Cells(n) |-> Garbage]
NoArray == New(0)
Pointers == {"absent", "unset", "null", "freed", "owned"}

(* The methods, and what they are called where both containers have them.   *)
Calls == {"Construct", "CopyConstruct", "Destroy", "Assign", "Clear", "ClearAndForceAllocation",
          "Compress", "Push", "PushAtHead", "Insert", "Replace", "ReplaceAt", "ReplaceLast", "Pop",
          "Del", "RemoveAt", "RemoveAtIndex", "RemoveLast", "Read", "Find", "GetIndexOf", "Size"}
CallsOrNone == Calls \cup {"none"}
ObjectOrNone == Objects \cup {"none"}

(* The call, the object it stumbles over, the position it was for.          *)
NoFault == [call |-> "none", object |-> "none", at |-> 0]
Faults == [call : CallsOrNone, object : ObjectOrNone, at : Int]

Alive == {o \in Objects : objects[o].pointer # "absent"}

(* n cells for o are within the bounds.                                     *)
Room(o, n) ==
  /\ n <= MaxArray
  /\ n + FoldFunctionOnSet(LAMBDA r, sum : r.allocation_size + sum, 0, objects, Objects \ {o})
       <= MaxCells

(* The array is owned, but the object believes that it has none.            *)
Orphan(r) == r.pointer = "owned" /\ r.allocation_size = 0

(* What delete[] may be called with, and the arrays it frees then.          *)
Deletable(r) == r.pointer \in {"owned", "null"}
Owned(r) == IF r.pointer = "owned" THEN 1 ELSE 0

(* The cells are there.                                                     *)
Reachable(r, cells) == cells = {} \/ (r.pointer = "owned" /\ cells \subseteq DOMAIN r.array)

Returns(call, v) == done' = call /\ value' = v

Become(o, r, news, deletes) ==
  /\ objects' = [objects EXCEPT ![o] = r]
  /\ subject' = o /\ made' = news /\ freed' = deletes
  /\ UNCHANGED fault

Keep == /\ UNCHANGED <<objects, fault>>
        /\ subject' = "none" /\ made' = 0 /\ freed' = 0

(* The call, when what it touches is there, a fault otherwise.              *)
Checked(call, o, at, defined, action) ==
  /\ fault = NoFault
  /\ \/ defined /\ action
     \/ /\ ~defined
        /\ fault' = [call |-> call, object |-> o, at |-> at]
        /\ subject' = "none" /\ made' = 0 /\ freed' = 0
        /\ UNCHANGED <<objects, done, value>>

(* The arrays that the call has left without a pointer: those the object    *)
(* had or the call has made, that are neither deleted nor the object's now. *)
Lost(o) == Owned(objects[o]) + made' - freed' - Owned(objects'[o])

(* Assignments overwrite the pointer to an array that Clear has kept, and   *)
(* leave some that the object does not count on.                            *)
MayLose(o) ==
  \/ Orphan(objects[o])
  \/ done' = "Assign" /\ objects[o].allocation_size \in 1..Large

InitWith(absent) ==
  /\ objects = [o \in Objects |-> absent]
  /\ done = "none"
  /\ value = None
  /\ subject = "none" /\ made = 0 /\ freed = 0
  /\ fault = NoFault
=============================================================================
