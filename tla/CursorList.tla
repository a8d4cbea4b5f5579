----------------------------- MODULE CursorList -----------------------------
(***************************************************************************)
(* What CircularLinkedList and LinkedList (include/RakNet/DS_LinkedList.h) *)
(* promise: each list is a sequence of items with a cursor, and calls are  *)
(* atomic.  No nodes, no pointers.  CircularList implements it, but for    *)
(* two of its calls, and names where they depart from this.                *)
(***************************************************************************)
EXTENDS Naturals, Sequences, FiniteSets

CONSTANTS
  Lists,      \* list objects
  Items       \* what they hold, ordered by <

VARIABLES
  items,      \* the items of each list, from its root
  cursor,     \* the index of its current item, 0 when it is empty
  value,      \* the item the last Add, Peek or Pop returned
  found,      \* what the last IsIn or Find returned
  done        \* the call that returned last, "none" when the next one begins

vars == <<items, cursor, value, found, done>>

InsertedAt(s, i, x) ==
  [k \in 1..(Len(s) + 1) |-> IF k < i THEN s[k] ELSE IF k = i THEN x ELSE s[k - 1]]
Without(s, i) == [k \in 1..(Len(s) - 1) |-> IF k < i THEN s[k] ELSE s[k + 1]]
Occurrences(s, x) == {k \in DOMAIN s : s[k] = x}

Sorted(s) == \A j, k \in DOMAIN s : j < k => s[j] <= s[k]
SameItems(s, t) ==
  \A x \in Items : Cardinality(Occurrences(s, x)) = Cardinality(Occurrences(t, x))

Init ==
  /\ items = [l \in Lists |-> <<>>]
  /\ cursor = [l \in Lists |-> 0]
  /\ value = 0
  /\ found = FALSE
  /\ done = "none"

(* The caller takes what a call returns, the next one begins without.       *)
Returns(call, v, f) == done' = call /\ value' = v /\ found' = f
NoResult(call) == Returns(call, 0, FALSE)

Become(l, s, c) ==
  /\ items' = [items EXCEPT ![l] = s]
  /\ cursor' = [cursor EXCEPT ![l] = c]

MoveTo(l, c) == Become(l, items[l], c) /\ NoResult("move")

-----------------------------------------------------------------------------
(* Before the current item, which stays current unless it was the first:    *)
(* then the new item is the first and the current one.                      *)
Insert(l, x) ==
  /\ LET c == cursor[l] IN
     IF c <= 1 THEN Become(l, <<x>> \o items[l], 1)
               ELSE Become(l, InsertedAt(items[l], c, x), c + 1)
  /\ NoResult("Insert")

(* After the current item, which stays current.  A reference to the new     *)
(* item is returned.                                                        *)
Add(l, x) ==
  /\ LET c == cursor[l] IN
     IF c = 0 THEN Become(l, <<x>>, 1)
              ELSE Become(l, InsertedAt(items[l], c + 1, x), c)
  /\ Returns("Add", x, FALSE)

Replace(l, x) ==
  /\ items' = [items EXCEPT ![l] = IF @ = <<>> THEN @ ELSE [@ EXCEPT ![cursor[l]] = x]]
  /\ NoResult("Replace")
  /\ UNCHANGED cursor

(* The item behind becomes current, behind the last the first.              *)
Removed(l) ==
  LET s == items[l]  c == cursor[l] IN
  Become(l, Without(s, c), IF Len(s) = 1 THEN 0 ELSE IF c = Len(s) THEN 1 ELSE c)

Del(l) == items[l] # <<>> /\ Removed(l) /\ NoResult("Del")

Peek(l) ==
  /\ items[l] # <<>>
  /\ Returns("Peek", items[l][cursor[l]], FALSE)
  /\ UNCHANGED <<items, cursor>>

Pop(l) ==
  /\ items[l] # <<>>
  /\ Returns("Pop", items[l][cursor[l]], FALSE)
  /\ Removed(l)

IsIn(l, x) ==
  /\ Returns("IsIn", 0, Occurrences(items[l], x) # {})
  /\ UNCHANGED <<items, cursor>>

Find(l, x) ==
  /\ Returns("Find", 0, Occurrences(items[l], x) # {})
  /\ IF found'
     THEN \E c \in Occurrences(items[l], x) :
            /\ \A k \in Occurrences(items[l], x) : c <= k
            /\ cursor' = [cursor EXCEPT ![l] = c]
     ELSE UNCHANGED cursor
  /\ UNCHANGED items

(* A CircularLinkedList goes round, a LinkedList stops at its ends.         *)
Forward(l, wraps) ==
  /\ items[l] # <<>>
  /\ LET c == cursor[l] IN
     MoveTo(l, IF c < Len(items[l]) THEN c + 1 ELSE IF wraps THEN 1 ELSE c)

Back(l, wraps) ==
  /\ items[l] # <<>>
  /\ LET c == cursor[l] IN
     MoveTo(l, IF c > 1 THEN c - 1 ELSE IF wraps THEN Len(items[l]) ELSE c)

Beginning(l) == items[l] # <<>> /\ MoveTo(l, 1)
End(l) == items[l] # <<>> /\ MoveTo(l, Len(items[l]))

Clear(l) == Become(l, <<>>, 0) /\ NoResult("Clear")

Assign(l, m) == Become(l, items[m], cursor[m]) /\ NoResult("Assign")

(* The other list is appended, and the last item becomes current.           *)
Concatenate(l, m) ==
  /\ items[m] # <<>>
  /\ LET s == items[l] \o items[m] IN Become(l, s, Len(s))
  /\ NoResult("Concatenate")

Sort(l) ==
  /\ Len(items[l]) > 1
  /\ Sorted(items'[l])
  /\ SameItems(items[l], items'[l])
  /\ Become(l, items'[l], 1)
  /\ NoResult("Sort")

(* A call begins.                                                           *)
Begin == NoResult("none") /\ UNCHANGED <<items, cursor>>

Next ==
  \/ Begin
  \/ \E l \in Lists :
    \/ \E x \in Items : Insert(l, x) \/ Add(l, x) \/ Replace(l, x) \/ IsIn(l, x) \/ Find(l, x)
    \/ Del(l) \/ Peek(l) \/ Pop(l)
    \/ \E wraps \in BOOLEAN : Forward(l, wraps) \/ Back(l, wraps)
    \/ Beginning(l) \/ End(l) \/ Clear(l) \/ Sort(l)
    \/ \E m \in Lists \ {l} : Assign(l, m) \/ Concatenate(l, m)

Spec == Init /\ [][Next]_vars
=============================================================================
