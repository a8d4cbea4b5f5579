--------------------------- MODULE SequenceStore ---------------------------
(***************************************************************************)
(* What Queue and List (include/RakNet/DS_Queue.h, DS_List.h) promise:     *)
(* each object is a sequence of items, and calls are atomic.  No arrays,   *)
(* no allocation sizes.  ArrayQueue and ArrayList implement it, each with  *)
(* the calls it has.  Positions count from 0, as in the code.              *)
(***************************************************************************)
EXTENDS Integers, Sequences

CONSTANTS
  Objects,    \* queues or lists
  Items       \* what they hold

VARIABLES
  alive,      \* the objects that exist
  contents,   \* the items of each, in order
  done,       \* the last call
  value       \* what it returned, or the position it was for

vars == <<alive, contents, done, value>>

None == 0

InsertedAt(s, i, x) ==
  [k \in 1..(Len(s) + 1) |-> IF k <= i THEN s[k] ELSE IF k = i + 1 THEN x ELSE s[k - 1]]
RemovedAt(s, i) ==
  [k \in 1..(Len(s) - 1) |-> IF k <= i THEN s[k] ELSE s[k + 1]]
Holds(s, x) == \E k \in DOMAIN s : s[k] = x

Init ==
  /\ alive = {}
  /\ contents = [o \in Objects |-> <<>>]
  /\ done = "none"
  /\ value = None

Returns(call, v) == done' = call /\ value' = v
Become(o, s) == contents' = [contents EXCEPT ![o] = s] /\ UNCHANGED alive
Keep == UNCHANGED <<alive, contents>>

-----------------------------------------------------------------------------
Construct(o) ==
  /\ Returns("Construct", None)
  /\ alive' = alive \cup {o}
  /\ contents' = [contents EXCEPT ![o] = <<>>]

CopyConstruct(o, m) ==
  /\ Returns("CopyConstruct", None)
  /\ alive' = alive \cup {o}
  /\ contents' = [contents EXCEPT ![o] = contents[m]]

Destroy(o) ==
  /\ Returns("Destroy", None)
  /\ alive' = alive \ {o}
  /\ contents' = [contents EXCEPT ![o] = <<>>]

Assign(o, m) == Returns("Assign", None) /\ Become(o, contents[m])

(* Push at the end, PushAtHead and Insert anywhere.                         *)
Insert(o, i, x) ==
  /\ Returns("Insert", i)
  /\ i <= Len(contents[o])
  /\ Become(o, InsertedAt(contents[o], i, x))

(* A position behind the last item is ignored.                              *)
RemoveAt(o, i) ==
  /\ Returns("RemoveAt", i)
  /\ IF i < Len(contents[o]) THEN Become(o, RemovedAt(contents[o], i)) ELSE Keep

RemoveLast(o, n) ==
  /\ Returns("RemoveLast", n)
  /\ n <= Len(contents[o])
  /\ Become(o, [k \in 1..(Len(contents[o]) - n) |-> contents[o][k]])

Pop(o) ==
  /\ contents[o] # <<>>
  /\ Returns("Pop", contents[o][1])
  /\ Become(o, RemovedAt(contents[o], 0))

Read(o, i) ==
  /\ i < Len(contents[o])
  /\ Returns("Read", contents[o][i + 1])
  /\ Keep

(* Behind the last item, filler takes the places in between.                *)
ReplaceAt(o, i, x, filler) ==
  /\ Returns("ReplaceAt", i)
  /\ LET s == contents[o] IN
     Become(o, [k \in 1..(IF i < Len(s) THEN Len(s) ELSE i + 1) |->
                 IF k = i + 1 THEN x ELSE IF k <= Len(s) THEN s[k] ELSE filler])

ReplaceLast(o, x) ==
  /\ Returns("ReplaceLast", None)
  /\ LET s == contents[o] IN
     Become(o, [k \in DOMAIN s |-> IF k = Len(s) THEN x ELSE s[k]])

(* Whether there is such an item.                                           *)
Find(o, x) ==
  /\ Returns("Find", IF Holds(contents[o], x) THEN 1 ELSE 0)
  /\ Keep

(* The first position of an item, -1 when there is none.                    *)
GetIndexOf(o, x) ==
  /\ Keep
  /\ \/ ~Holds(contents[o], x) /\ Returns("GetIndexOf", -1)
     \/ \E k \in DOMAIN contents[o] :
          /\ contents[o][k] = x
          /\ \A j \in 1..(k - 1) : contents[o][j] # x
          /\ Returns("GetIndexOf", k - 1)

Size(o) == Returns("Size", Len(contents[o])) /\ Keep
Clear(o) == Returns("Clear", None) /\ Become(o, <<>>)
Compress(o) == Returns("Compress", None) /\ Keep

Next ==
  \/ \E o \in Objects \ alive :
       \/ Construct(o)
       \/ \E m \in alive : CopyConstruct(o, m)
  \/ \E o \in alive :
       \/ Destroy(o) \/ Pop(o) \/ Size(o) \/ Clear(o) \/ Compress(o)
       \/ \E m \in alive : Assign(o, m)
       \/ \E i \in 0..(Len(contents[o]) + Len(contents'[o])) :
            \/ RemoveAt(o, i) \/ RemoveLast(o, i) \/ Read(o, i)
            \/ \E x \in Items :
                 \/ Insert(o, i, x)
                 \/ \E filler \in Items : ReplaceAt(o, i, x, filler)
       \/ \E x \in Items : ReplaceLast(o, x) \/ Find(o, x) \/ GetIndexOf(o, x)

Spec == Init /\ [][Next]_vars
=============================================================================
