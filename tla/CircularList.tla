---------------------------- MODULE CircularList ----------------------------
(***************************************************************************)
(* CircularLinkedList and LinkedList (include/RakNet/DS_LinkedList.h):     *)
(* rings of nodes.  A list object has a root, a position and a size, its   *)
(* nodes come from the heap.  LinkedList is the same ring, but its ++ and  *)
(* -- stop at the ends; both are offered for every list, since a           *)
(* LinkedList& is a CircularLinkedList& as well.                           *)
(*                                                                         *)
(* A call without a loop is one step.  The other calls are lists of tasks  *)
(* (`todo'), and a step is one iteration of the loop of the first task.    *)
(* The lists that a call makes for itself are one, Temp.                   *)
(***************************************************************************)
EXTENDS Naturals, Sequences, FiniteSets

CONSTANTS
  Lists,      \* the list objects of the caller
  Temp,       \* the list Merge returns to Sort
  Items,      \* what the lists hold
  Addrs,      \* nodes of the heap; bound: as many as there are
  MaxNodes,   \* bound: nodes in the caller's lists between two calls
  Null,       \* the null pointer
  Fresh(_)    \* the nodes that new may return when these are in use

ASSUME ListAssumption == Temp \notin Lists
ASSUME ItemAssumption == Items \subseteq Nat \ {0}
ASSUME NullAssumption == Null \notin Addrs
ASSUME BoundAssumption == MaxNodes \in Nat /\ MaxNodes <= Cardinality(Addrs)
ASSUME FreshAssumption == \A used \in SUBSET Addrs : Fresh(used) \subseteq Addrs \ used

VARIABLES
  next, previous, item,     \* the fields of every node
  live,                     \* the nodes that are in use
  root, position, size,     \* the fields of every list object
  chain,      \* history: the nodes of a list in order, beginning at its root
  todo,       \* the tasks of the call in progress, the running one first
  current,    \* its walking pointer: current, ptr, location; Null before the loop
  saved,      \* save_position; Null as long as it is not set
  counter,    \* the counter of Concatenate
  values,     \* the items Mergesort reads, then those Merge has yet to add
  held,       \* history: the call, the items and cursors when it began
  value,      \* what the last Add, Peek or Pop returned
  found,      \* what the last IsIn or Find returned
  done        \* the call that returned last, "none" when the next one begins

(* The caller takes what a call returns, the next one begins without.       *)
Returns(call, v, f) == done' = call /\ value' = v /\ found' = f
NoResult(call) == Returns(call, 0, FALSE)

heap == <<next, previous, item, live>>
objects == <<root, position, size, chain>>
registers == <<current, saved, counter, values>>
results == <<value, found, done>>
vars == <<heap, objects, todo, registers, held, results>>

AllLists == Lists \cup {Temp}
Pointer == Addrs \cup {Null}

Idle == todo = <<>>
Room(n) == Cardinality(live) + n <= MaxNodes

Index(l) == CHOOSE i \in DOMAIN chain[l] : chain[l][i] = position[l]
ItemsOf(l) == [i \in DOMAIN chain[l] |-> item[chain[l][i]]]
Contents == [l \in Lists |-> ItemsOf(l)]
Cursors == [l \in Lists |-> IF size[l] = 0 THEN 0 ELSE Index(l)]

(* To its caller, a call changes nothing until it returns.                  *)
Shown == IF Idle THEN Contents ELSE held.items
ShownCursors == IF Idle THEN Cursors ELSE held.cursors

Abstract == INSTANCE CursorList WITH items <- Shown, cursor <- ShownCursors

Init ==
  /\ next = [a \in Addrs |-> Null]
  /\ previous = [a \in Addrs |-> Null]
  /\ item = [a \in Addrs |-> 0]
  /\ live = {}
  /\ root = [l \in AllLists |-> Null]
  /\ position = [l \in AllLists |-> Null]
  /\ size = [l \in AllLists |-> 0]
  /\ chain = [l \in AllLists |-> <<>>]
  /\ todo = <<>>
  /\ current = Null /\ saved = Null /\ counter = 0 /\ values = <<>>
  /\ held = <<>>
  /\ value = 0
  /\ found = FALSE
  /\ done = "none"

-----------------------------------------------------------------------------
(* Calls without a loop.                                                    *)

(* The branches for one node do what the general ones do on a ring of one.  *)
Insert(l, x) ==
  /\ Idle /\ Room(1)
  /\ \E n \in Fresh(live) :
       /\ live' = live \cup {n}
       /\ item' = [item EXCEPT ![n] = x]
       /\ size' = [size EXCEPT ![l] = @ + 1]
       /\ IF size[l] = 0
          THEN /\ next' = [next EXCEPT ![n] = n]
               /\ previous' = [previous EXCEPT ![n] = n]
               /\ root' = [root EXCEPT ![l] = n]
               /\ position' = [position EXCEPT ![l] = n]
               /\ chain' = [chain EXCEPT ![l] = <<n>>]
          ELSE LET p == position[l]  before == previous[p] IN
               /\ next' = [next EXCEPT ![before] = n, ![n] = p]
               /\ previous' = [previous EXCEPT ![n] = before, ![p] = n]
               /\ root' = [root EXCEPT ![l] = IF p = @ THEN n ELSE @]
               /\ position' = [position EXCEPT ![l] = IF p = root[l] THEN n ELSE @]
               /\ chain' = [chain EXCEPT ![l] = Abstract!InsertedAt(@, Index(l), n)]
  /\ NoResult("Insert")
  /\ UNCHANGED <<todo, registers, held>>

(* The body of Add, with ++ behind it when the caller moves on.             *)
AddNode(l, x, moves) ==
  \E n \in Fresh(live) :
    LET p == position[l]
        stays == IF size[l] = 0 THEN n ELSE p
    IN
    /\ live' = live \cup {n}
    /\ item' = [item EXCEPT ![n] = x]
    /\ size' = [size EXCEPT ![l] = @ + 1]
    /\ IF size[l] = 0
       THEN /\ next' = [next EXCEPT ![n] = n]
            /\ previous' = [previous EXCEPT ![n] = n]
            /\ root' = [root EXCEPT ![l] = n]
            /\ chain' = [chain EXCEPT ![l] = <<n>>]
       ELSE /\ next' = [next EXCEPT ![n] = next[p], ![p] = n]
            /\ previous' = [previous EXCEPT ![n] = p, ![next[p]] = n]
            /\ chain' = [chain EXCEPT ![l] = Abstract!InsertedAt(@, Index(l) + 1, n)]
            /\ UNCHANGED root
    /\ position' = [position EXCEPT ![l] = IF moves THEN next'[stays] ELSE stays]

Add(l, x) ==
  /\ Idle /\ Room(1)
  /\ AddNode(l, x, FALSE)
  /\ Returns("Add", IF size[l] = 1 THEN item'[position'[l]] ELSE x, FALSE)
  /\ UNCHANGED <<todo, registers, held>>

Replace(l, x) ==
  /\ Idle
  /\ size[l] > 0
  /\ item' = [item EXCEPT ![position[l]] = x]
  /\ NoResult("Replace")
  /\ UNCHANGED <<next, previous, live, objects, todo, registers, held>>

(* delete: what the node held is lost.                                      *)
Free(n, links, back) ==
  /\ live' = live \ {n}
  /\ next' = [links EXCEPT ![n] = Null]
  /\ previous' = [back EXCEPT ![n] = Null]
  /\ item' = [item EXCEPT ![n] = 0]

(* Mutant of Unlink: the root is not moved when its node goes.              *)
UnlinkKeepsRoot(l) ==
  LET p == position[l]  behind == next[p] IN
  /\ size' = [size EXCEPT ![l] = @ - 1]
  /\ Free(p, [next EXCEPT ![previous[p]] = behind], [previous EXCEPT ![behind] = previous[p]])
  /\ root' = [root EXCEPT ![l] = IF size[l] = 1 THEN Null ELSE @]
  /\ position' = [position EXCEPT ![l] = IF size[l] = 1 THEN Null ELSE behind]
  /\ chain' = [chain EXCEPT ![l] = Abstract!Without(@, Index(l))]

(* The body of Del for a list that has nodes.                               *)
Unlink(l) ==
  LET p == position[l]  behind == next[p] IN
  /\ size' = [size EXCEPT ![l] = @ - 1]
  /\ IF size[l] = 1
     THEN /\ root' = [root EXCEPT ![l] = Null]
          /\ position' = [position EXCEPT ![l] = Null]
          /\ chain' = [chain EXCEPT ![l] = <<>>]
          /\ Free(root[l], next, previous)
     ELSE /\ Free(p, [next EXCEPT ![previous[p]] = behind],
                     [previous EXCEPT ![behind] = previous[p]])
          /\ root' = [root EXCEPT ![l] = IF p = @ THEN behind ELSE @]
          /\ position' = [position EXCEPT ![l] = behind]
          /\ chain' = [chain EXCEPT ![l] = Abstract!Without(@, Index(l))]

(* Mutant of Del: list_size is decremented before it is looked at.          *)
DelCountsFirst(l) ==
  /\ Idle
  /\ IF size[l] > 0 THEN Unlink(l)
     ELSE size' = [size EXCEPT ![l] = @ - 1] /\ UNCHANGED <<heap, root, position, chain>>
  /\ NoResult("Del")
  /\ UNCHANGED <<todo, registers, held>>

Del(l) ==
  /\ Idle
  /\ size[l] > 0
  /\ Unlink(l)
  /\ NoResult("Del")
  /\ UNCHANGED <<todo, registers, held>>

(* Peek and Pop of an empty list would use a null pointer.                  *)
Peek(l) ==
  /\ Idle
  /\ size[l] > 0
  /\ Returns("Peek", item[position[l]], FALSE)
  /\ UNCHANGED <<heap, objects, todo, registers, held>>

Pop(l) ==
  /\ Idle
  /\ size[l] > 0
  /\ Returns("Pop", item[position[l]], FALSE)
  /\ Unlink(l)
  /\ UNCHANGED <<todo, registers, held>>

MoveTo(l, p) ==
  /\ position' = [position EXCEPT ![l] = p]
  /\ NoResult("move")
  /\ UNCHANGED <<heap, root, size, chain, todo, registers, held>>

Moves(l) == Idle /\ size[l] # 0
Increment(l) == Moves(l) /\ MoveTo(l, next[position[l]])
Decrement(l) == Moves(l) /\ MoveTo(l, previous[position[l]])
IncrementLinked(l) ==
  Moves(l) /\ next[position[l]] # root[l] /\ MoveTo(l, next[position[l]])
DecrementLinked(l) ==
  Moves(l) /\ position[l] # root[l] /\ MoveTo(l, previous[position[l]])
Beginning(l) == Moves(l) /\ MoveTo(l, root[l])
End(l) == Moves(l) /\ MoveTo(l, previous[root[l]])

-----------------------------------------------------------------------------
(* Calls with loops: the tasks they consist of.  They begin where enough    *)
(* nodes are free for them to end.                                          *)
Task(do, l, m, x) == [do |-> do, list |-> l, source |-> m, input |-> x]

Call(call, tasks) ==
  /\ Idle
  /\ todo' = tasks
  /\ held' = [call |-> call, items |-> Contents, cursors |-> Cursors]
  /\ NoResult("none")
  /\ UNCHANGED <<heap, objects, registers>>

IsIn(l, x) == Call("IsIn", <<Task("search", l, l, x)>>)
Find(l, x) == Call("Find", <<Task("find", l, l, x)>>)

(* Clear, and what the destructors do.                                      *)
Clear(l) == Call("Clear", <<Task("clear", l, l, 0)>>)

(* Mutant of Assign: the list is not cleared first.                         *)
AssignOver(l, m) ==
  /\ l # m
  /\ Cardinality(live) + size[m] <= MaxNodes
  /\ Call("Assign", <<Task("copy", l, m, 0)>>)

(* operator=; onto an empty list, the copy constructors.                    *)
Assign(l, m) ==
  /\ l # m
  /\ Cardinality(live) + size[m] <= MaxNodes + size[l]
  /\ Call("Assign", <<Task("clear", l, l, 0), Task("copy", l, m, 0)>>)

(* A list concatenated to itself would grow for ever: L.list_size is        *)
(* read again each time round.                                              *)
Concatenate(l, m) ==
  /\ l # m
  /\ size[m] # 0
  /\ Room(IF size[l] = 0 THEN 2 * size[m] ELSE size[m])
  /\ Call("Concatenate",
       IF size[l] = 0
       THEN <<Task("clear", l, l, 0), Task("copy", l, m, 0), Task("append", l, m, 0)>>
       ELSE <<Task("append", l, m, 0)>>)

Sort(l) ==
  /\ size[l] > 1
  /\ Cardinality(live) + size[l] <= Cardinality(Addrs)
  /\ Call("Sort",
       <<Task("read", l, l, 0), Task("build", Temp, l, 0), Task("clear", l, l, 0),
         Task("copy", l, Temp, 0), Task("clear", Temp, l, 0), Task("rewind", l, l, 0)>>)

-----------------------------------------------------------------------------
(* The steps of the tasks.                                                  *)
Running(do) == todo # <<>> /\ todo[1].do = do
List == todo[1].list
Source == todo[1].source

Done ==
  /\ todo' = Tail(todo)
  /\ IF Tail(todo) = <<>>
     THEN held' = <<>> /\ done' = held.call
     ELSE UNCHANGED <<held, done>>
  /\ current' = Null /\ saved' = Null /\ counter' = 0

Continue(c) ==
  /\ current' = c
  /\ UNCHANGED <<todo, held, done>>

Walker(l) == IF current = Null THEN root[l] ELSE current

(* Mutant of Search: the walk goes on until it meets a null pointer.        *)
SearchUntilNull(do) ==
  /\ Running(do)
  /\ LET c == Walker(List)
         hit == size[List] # 0 /\ item[c] = todo[1].input
     IN
     IF hit \/ size[List] = 0
     THEN /\ found' = hit
          /\ position' = [position EXCEPT ![List] = IF hit /\ do = "find" THEN c ELSE @]
          /\ Done
     ELSE Continue(next[c]) /\ UNCHANGED <<position, saved, counter, found>>
  /\ UNCHANGED <<heap, root, size, chain, values, value>>

(* FindPointer: one node of the walk, and what IsIn or Find make of it.     *)
Search(do) ==
  /\ Running(do)
  /\ LET c == Walker(List)
         hit == size[List] # 0 /\ item[c] = todo[1].input
     IN
     IF hit \/ size[List] = 0 \/ next[c] = root[List]
     THEN /\ found' = hit
          /\ position' = [position EXCEPT ![List] = IF hit /\ do = "find" THEN c ELSE @]
          /\ Done
     ELSE Continue(next[c]) /\ UNCHANGED <<position, saved, counter, found>>
  /\ UNCHANGED <<heap, root, size, chain, values, value>>

(* Clear: one node freed, its next read before.                             *)
ClearNode ==
  /\ Running("clear")
  /\ IF size[List] = 0
     THEN Done /\ UNCHANGED <<heap, objects>>
     ELSE LET c == Walker(List) IN
          /\ Free(c, next, previous)
          /\ chain' = [chain EXCEPT ![List] = Tail(@)]
          /\ IF next[c] = root[List]
             THEN /\ size' = [size EXCEPT ![List] = 0]
                  /\ root' = [root EXCEPT ![List] = Null]
                  /\ position' = [position EXCEPT ![List] = Null]
                  /\ Done
             ELSE Continue(next[c]) /\ UNCHANGED <<root, position, size, saved, counter>>
  /\ UNCHANGED <<values, value, found>>

(* The copies: the root, then a node behind the last one each time round.   *)
(* `position' is the last node of the copy until the circle is completed.   *)
CopyRoot ==
  /\ Running("copy")
  /\ current = Null
  /\ IF size[Source] = 0
     THEN Done /\ UNCHANGED <<heap, objects>>
     ELSE \E n \in Fresh(live) :
          /\ live' = live \cup {n}
          /\ item' = [item EXCEPT ![n] = item[root[Source]]]
          /\ root' = [root EXCEPT ![List] = n]
          /\ position' = [position EXCEPT ![List] = n]
          /\ chain' = [chain EXCEPT ![List] = <<n>>]
          /\ IF size[Source] = 1
             THEN /\ next' = [next EXCEPT ![n] = n]
                  /\ previous' = [previous EXCEPT ![n] = n]
                  /\ size' = [size EXCEPT ![List] = 1]
                  /\ Done
             ELSE /\ Continue(root[Source])
                  /\ saved' = IF root[Source] = position[Source] THEN n ELSE Null
                  /\ UNCHANGED <<next, previous, size, counter>>
  /\ UNCHANGED <<values, value, found>>

CopyNode ==
  /\ Running("copy")
  /\ current # Null
  /\ \E n \in Fresh(live) :
       LET from == next[current]
           last == position[List]
           keep == IF from = position[Source] THEN n ELSE saved
           first == root[List]
       IN
       /\ live' = live \cup {n}
       /\ item' = [item EXCEPT ![n] = item[from]]
       /\ chain' = [chain EXCEPT ![List] = Append(@, n)]
       /\ IF next[from] = root[Source]
          THEN /\ next' = [next EXCEPT ![last] = n, ![n] = first]
               /\ previous' = [previous EXCEPT ![n] = last, ![first] = n]
               /\ size' = [size EXCEPT ![List] = size[Source]]
               /\ position' = [position EXCEPT ![List] = keep]
               /\ Done
          ELSE /\ next' = [next EXCEPT ![last] = n]
               /\ previous' = [previous EXCEPT ![n] = last]
               /\ position' = [position EXCEPT ![List] = n]
               /\ saved' = keep
               /\ Continue(from)
               /\ UNCHANGED <<size, counter>>
  /\ UNCHANGED <<root, values, value, found>>

(* Concatenate, from ptr = L.root on.                                       *)
AppendBegins ==
  /\ Running("append")
  /\ current = Null
  /\ position' = [position EXCEPT ![List] = previous[root[List]]]
  /\ Continue(root[Source])
  /\ UNCHANGED <<heap, root, size, chain, saved, counter, values, value, found>>

AppendNode ==
  /\ Running("append")
  /\ current # Null
  /\ AddNode(List, item[current], TRUE)
  /\ IF counter + 1 = size[Source]
     THEN Done
     ELSE Continue(next[current]) /\ counter' = counter + 1 /\ UNCHANGED saved
  /\ UNCHANGED <<values, value, found>>

(* Mergesort fills its sublists with Add, which never leaves the root.      *)
Added(s) == [i \in DOMAIN s |-> IF i = 1 THEN s[1] ELSE s[Len(s) + 2 - i]]

Merge[pair \in Seq(Items) \X Seq(Items)] ==
  LET a == pair[1]  b == pair[2] IN
  IF a = <<>> \/ b = <<>> THEN a \o b
  ELSE IF Head(a) < Head(b) THEN <<Head(a)>> \o Merge[<<Tail(a), b>>]
       ELSE <<Head(b)>> \o Merge[<<a, Tail(b)>>]

Mergesort[s \in Seq(Items)] ==
  IF Len(s) <= 1 THEN s
  ELSE LET half == Len(s) \div 2 IN
       Merge[<<Mergesort[Added(SubSeq(s, 1, half))],
               Mergesort[Added(SubSeq(s, half + 1, Len(s)))]>>]

SortReads ==
  /\ Running("read")
  /\ LET c == Walker(List)
         read == Append(values, item[c])
     IN
     IF Len(read) = size[List]
     THEN values' = Mergesort[read] /\ Done
     ELSE values' = read /\ Continue(next[c]) /\ UNCHANGED <<saved, counter>>
  /\ UNCHANGED <<heap, objects, value, found>>

(* X.Add( element ); X++;                                                   *)
SortBuilds ==
  /\ Running("build")
  /\ AddNode(List, Head(values), TRUE)
  /\ values' = Tail(values)
  /\ IF Tail(values) = <<>>
     THEN Done
     ELSE Continue(Null) /\ UNCHANGED <<saved, counter>>
  /\ UNCHANGED <<value, found>>

(* Mutant of SortRewinds: the position stays where Merge left it in X.      *)
SortStaysAtEnd ==
  /\ Running("rewind")
  /\ Done
  /\ UNCHANGED <<heap, objects, values, value, found>>

SortRewinds ==
  /\ Running("rewind")
  /\ position' = [position EXCEPT ![List] = root[List]]
  /\ Done
  /\ UNCHANGED <<heap, root, size, chain, values, value, found>>

-----------------------------------------------------------------------------
Step ==
  \/ Search("search") \/ Search("find")
  \/ ClearNode
  \/ CopyRoot \/ CopyNode
  \/ AppendBegins \/ AppendNode
  \/ SortReads \/ SortBuilds \/ SortRewinds

User ==
  \E l \in Lists :
    \/ \E x \in Items : Insert(l, x) \/ Add(l, x) \/ Replace(l, x) \/ IsIn(l, x) \/ Find(l, x)
    \/ Del(l) \/ Peek(l) \/ Pop(l)
    \/ Increment(l) \/ Decrement(l) \/ IncrementLinked(l) \/ DecrementLinked(l)
    \/ Beginning(l) \/ End(l)
    \/ Clear(l) \/ Sort(l)
    \/ \E m \in Lists : Assign(l, m) \/ Concatenate(l, m)

Next == Step \/ User

Spec == Init /\ [][Next]_vars

(* Loops are plain code: they go on.  Nothing obliges anyone to call.       *)
FairSpec == Spec /\ WF_vars(Step)
-----------------------------------------------------------------------------
Calls == {"Insert", "Add", "Replace", "Del", "Peek", "Pop", "move", "IsIn", "Find", "Clear",
          "Assign", "Concatenate", "Sort"}

TypeOK ==
  /\ next \in [Addrs -> Pointer] /\ previous \in [Addrs -> Pointer]
  /\ item \in [Addrs -> Items \cup {0}]
  /\ live \subseteq Addrs
  /\ root \in [AllLists -> Pointer] /\ position \in [AllLists -> Pointer]
  /\ size \in [AllLists -> Nat]
  /\ chain \in [AllLists -> Seq(Addrs)]
  /\ todo \in Seq([do : {"search", "find", "clear", "copy", "append", "read", "build", "rewind"},
                   list : AllLists, source : AllLists, input : Items \cup {0}])
  /\ current \in Pointer /\ saved \in Pointer
  /\ counter \in Nat
  /\ values \in Seq(Items)
  /\ value \in Items \cup {0} /\ found \in BOOLEAN /\ done \in Calls \cup {"none"}

(* A list that Clear or a copy is at work on is not a ring yet or no more.  *)
AtWork(l) ==
  /\ current # Null
  /\ todo # <<>> /\ List = l /\ todo[1].do \in {"clear", "copy"}

Successor(i, n) == IF i = n THEN 1 ELSE i + 1

Whole(l) ==
  LET c == chain[l]  n == Len(c) IN
  /\ size[l] = n
  /\ n = 0 => root[l] = Null /\ position[l] = Null
  /\ n > 0 => root[l] = c[1] /\ \E i \in 1..n : position[l] = c[i]
  /\ \A i \in 1..n : /\ next[c[i]] = c[Successor(i, n)]
                     /\ previous[c[Successor(i, n)]] = c[i]

(* Between two calls, and for the lists a running call only reads, next and *)
(* previous form one ring of list_size nodes that holds root and position   *)
(* (DS_LinkedList.h:621-814 and the end of each copy, where position comes  *)
(* from save_position, a variable the compiler warns is not always set).    *)
RingsAreWhole == TypeOK /\ \A l \in AllLists : AtWork(l) \/ Whole(l)

(* Every node in use belongs to one list, once: none is leaked by Clear or  *)
(* an assignment, none is shared by a copy and its original, and none that  *)
(* was freed is still in a list (DS_LinkedList.h:956-987, 446-618).         *)
NodesAreOwned ==
  /\ live = UNION {{chain[l][i] : i \in DOMAIN chain[l]} : l \in AllLists}
  /\ \A l, m \in AllLists : \A i \in DOMAIN chain[l], j \in DOMAIN chain[m] :
       chain[l][i] = chain[m][j] => l = m /\ i = j

(* Where two calls depart from what the lists promise.  The branch of Add   *)
(* for a list of one node returns position->item, which is the old item     *)
(* (DS_LinkedList.h:730).                                                   *)
ReturnsOldItem(l, x) ==
  /\ Len(Shown[l]) = 1
  /\ Abstract!Become(l, Abstract!InsertedAt(Shown[l], 2, x), 1)
  /\ Abstract!Returns("Add", Shown[l][1], FALSE)

(* Concatenate onto an empty list assigns the other list to it and goes on  *)
(* to append that list once more (DS_LinkedList.h:998-1017).                *)
AppendsTwice(l, m) ==
  /\ Shown[l] = <<>> /\ Shown[m] # <<>>
  /\ LET s == Shown[m] \o Shown[m] IN Abstract!Become(l, s, Len(s))
  /\ Abstract!NoResult("Concatenate")

Departs ==
  \E l \in Lists : \/ \E x \in Items : ReturnsOldItem(l, x)
                   \/ \E m \in Lists \ {l} : AppendsTwice(l, m)

PromisedOrNamed == Abstract!Next \/ Departs

(* Seen from outside, the lists are sequences with a cursor: insertion,     *)
(* removal, searches, copies, concatenation and Sort's mergesort do to them *)
(* what CursorList says, but for what an Add to a list of one item returns  *)
(* and for a Concatenate onto an empty list (DS_LinkedList.h:37-62,         *)
(* 620-1247).                                                               *)
ImplementsCursorList == Abstract!Init /\ [][PromisedOrNamed]_(Abstract!vars)

(* "concatenate(list L): This appends L to the current list"                *)
(* (DS_LinkedList.h:60): the code does so except to an empty list.          *)
ConcatenateAppends ==
  [][done = "none" /\ done' = "Concatenate" =>
       \E l \in Lists : \E m \in Lists \ {l} : Abstract!Concatenate(l, m)]_vars

(* Each loop comes to an end: the walks get back to the root, and           *)
(* Concatenate stops although it writes to a list while it reads another    *)
(* (DS_LinkedList.h:604, 871, 981, 1006).                                   *)
CallsReturn == ~Idle ~> Idle
=============================================================================
