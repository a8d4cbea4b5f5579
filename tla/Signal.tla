------------------------------- MODULE Signal -------------------------------
(***************************************************************************)
(* rakhook::signal<Func> (include/RakHook/signal.hpp): an ordered list of  *)
(* callbacks and call(), which invokes them one after the other.  The list *)
(* is a std::vector<std::function<Func>>, call() walks it with an iterator *)
(* and drops empty std::functions on its way, and a callback may re-enter  *)
(* the signal: fire it again (a nested call()) or register one more.       *)
(*                                                                         *)
(* A step of the model is one iteration of the loop of call(), the start   *)
(* or the end of a callback, or one push_back.  A frame of `stack' is one  *)
(* activation of call(); only the top frame runs.  An iterator is a        *)
(* position and a flag that says whether C++ still lets it be used.        *)
(***************************************************************************)
EXTENDS Naturals, Sequences

CONSTANTS
  Callbacks,      \* callable std::functions
  Empty,          \* a std::function that holds nothing
  IsBool,         \* return_type is bool (TRUE) or void (FALSE)
  Reentrant,      \* a callback may register on the signal that is calling it
  MaxLen,         \* bound: slots of functions_, and its capacity
  MaxDepth,       \* bound: activations of call() on the stack
  MaxNested       \* bound: nested calls one callback makes

ASSUME EmptyAssumption == Empty \notin Callbacks
ASSUME SwitchAssumption == IsBool \in BOOLEAN /\ Reentrant \in BOOLEAN
ASSUME BoundAssumption == MaxLen \in Nat /\ MaxDepth \in Nat /\ MaxNested \in Nat

VARIABLES
  functions,      \* functions_, oldest registration first
  capacity,       \* functions_.capacity()
  stack,          \* activations of call(), the running one last
  wild,           \* an invalidated iterator was used: undefined behaviour
  last            \* what the call() that ended last did

vars == <<functions, capacity, stack, wild, last>>

Slots == Callbacks \cup {Empty}

(* it, running and valid are the loop's state: the iterator, whether func   *)
(* is being invoked, whether the iterator may be used.  grown, called and   *)
(* atStart are history: functions_ was reallocated, the callbacks invoked   *)
(* so far, functions_ when the call began.  nested counts nested calls.     *)
Frame == [it : Nat \ {0}, running : BOOLEAN, valid : BOOLEAN, grown : BOOLEAN,
          called : Seq(Callbacks), atStart : Seq(Slots), nested : Nat]

Outcome == [result : BOOLEAN, called : Seq(Callbacks), atStart : Seq(Slots)]

Top == stack[Len(stack)]
WithTop(f) == [stack EXCEPT ![Len(stack)] = f]
Popped == SubSeq(stack, 1, Len(stack) - 1)
Without(s, p) == [i \in 1..(Len(s) - 1) |-> IF i < p THEN s[i] ELSE s[i + 1]]

(* The user's code runs: outside any call(), or inside a callback. *)
UserRuns == ~wild /\ (stack # <<>> => Top.running)
(* call() itself runs: the top activation is between two callbacks. *)
LoopRuns == ~wild /\ stack # <<>> /\ ~Top.running

Init ==
  /\ functions = <<>>
  /\ capacity = 0
  /\ stack = <<>>
  /\ wild = FALSE
  /\ last = [result |-> TRUE, called |-> <<>>, atStart |-> <<>>]

-----------------------------------------------------------------------------
(* push_back and operator+= : emplace_back.  With room left the elements    *)
(* stay where they are; else the vector moves to a larger buffer, of a size *)
(* the standard library chooses, and every iterator into it is invalid.     *)
Invalidated(f) == [f EXCEPT !.valid = FALSE, !.grown = TRUE]

PushBack(c) ==
  /\ UserRuns
  /\ stack = <<>> \/ Reentrant
  /\ Len(functions) < MaxLen
  /\ functions' = Append(functions, c)
  /\ \/ /\ Len(functions) < capacity
        /\ UNCHANGED <<capacity, stack>>
     \/ /\ Len(functions) = capacity
        /\ capacity' \in (Len(functions) + 1)..MaxLen
        /\ stack' = [i \in 1..Len(stack) |-> Invalidated(stack[i])]
  /\ UNCHANGED <<wild, last>>

(* signal::call is entered: from outside, or by a callback of the signal.   *)
NewFrame == [it |-> 1, running |-> FALSE, valid |-> TRUE, grown |-> FALSE,
             called |-> <<>>, atStart |-> functions, nested |-> 0]

BeginCall ==
  /\ UserRuns
  /\ Len(stack) < MaxDepth
  /\ \/ /\ stack = <<>>
        /\ stack' = <<NewFrame>>
     \/ /\ stack # <<>>
        /\ Top.nested < MaxNested
        /\ stack' = Append(WithTop([Top EXCEPT !.nested = @ + 1]), NewFrame)
  /\ UNCHANGED <<functions, capacity, wild, last>>

(* The slot under the iterator is empty: it = functions_.erase(it).  Erase  *)
(* invalidates every iterator at or after the erased element; call()'s own  *)
(* is replaced by the one erase returns.                                    *)
(* Mutant of Erase: the loop advances past the element erase returned.      *)
EraseSkipping ==
  /\ LoopRuns
  /\ Top.it <= Len(functions)
  /\ functions[Top.it] = Empty
  /\ functions' = Without(functions, Top.it)
  /\ stack' = WithTop([Top EXCEPT !.it = @ + 1])
  /\ UNCHANGED <<capacity, wild, last>>

(* Mutant of Erase: the empty slot stays and the iterator with it.          *)
EraseNothing ==
  /\ LoopRuns
  /\ Top.it <= Len(functions)
  /\ functions[Top.it] = Empty
  /\ UNCHANGED vars

Erase ==
  /\ LoopRuns
  /\ Top.it <= Len(functions)
  /\ functions[Top.it] = Empty
  /\ functions' = Without(functions, Top.it)
  /\ stack' = [i \in 1..Len(stack) |->
                 IF i < Len(stack) /\ stack[i].it >= Top.it
                 THEN [stack[i] EXCEPT !.valid = FALSE]
                 ELSE stack[i]]
  /\ UNCHANGED <<capacity, wild, last>>

(* auto func = *it is callable: the copy is invoked.                        *)
(* Mutant of Invoke: func is moved out of its slot instead of copied.       *)
InvokeMoving ==
  /\ LoopRuns
  /\ Top.it <= Len(functions)
  /\ functions[Top.it] # Empty
  /\ functions' = [functions EXCEPT ![Top.it] = Empty]
  /\ stack' = WithTop([Top EXCEPT !.running = TRUE, !.nested = 0,
                                  !.called = Append(@, functions[Top.it])])
  /\ UNCHANGED <<capacity, wild, last>>

Invoke ==
  /\ LoopRuns
  /\ Top.it <= Len(functions)
  /\ functions[Top.it] # Empty
  /\ stack' = WithTop([Top EXCEPT !.running = TRUE, !.nested = 0,
                                  !.called = Append(@, functions[Top.it])])
  /\ UNCHANGED <<functions, capacity, wild, last>>

(* call() leaves: with false because of a callback, or at the end.          *)
Leave(result) ==
  /\ stack' = Popped
  /\ last' = [result |-> result, called |-> Top.called, atStart |-> Top.atStart]

(* The callback returned true, or nothing: it++.  On an invalidated         *)
(* iterator that is undefined behaviour, and the model stops.               *)
ReturnTrue ==
  /\ UserRuns
  /\ stack # <<>>
  /\ \/ /\ Top.valid
        /\ stack' = WithTop([Top EXCEPT !.running = FALSE, !.it = @ + 1])
        /\ UNCHANGED wild
     \/ /\ ~Top.valid
        /\ wild' = TRUE
        /\ UNCHANGED stack
  /\ UNCHANGED <<functions, capacity, last>>

(* A bool callback returned false: call() returns at once, and its iterator *)
(* is not used again.                                                       *)
ReturnFalse ==
  /\ UserRuns
  /\ stack # <<>>
  /\ IsBool
  /\ Leave(FALSE)
  /\ UNCHANGED <<functions, capacity, wild>>

(* it == functions_.end().                                                  *)
EndCall ==
  /\ LoopRuns
  /\ Top.it > Len(functions)
  /\ Leave(TRUE)
  /\ UNCHANGED <<functions, capacity, wild>>

Next ==
  \/ \E c \in Slots : PushBack(c)
  \/ BeginCall
  \/ Erase
  \/ Invoke
  \/ ReturnTrue
  \/ ReturnFalse
  \/ EndCall

Spec == Init /\ [][Next]_vars

(* A call() under way goes on: the loop is plain code of one thread, and    *)
(* every callback returns.  Nothing obliges the user to register or call.   *)
Progress == Erase \/ Invoke \/ ReturnTrue \/ ReturnFalse \/ EndCall
FairSpec == Spec /\ WF_vars(Progress)

-----------------------------------------------------------------------------
TypeOK ==
  /\ functions \in Seq(Slots)
  /\ capacity \in Nat
  /\ Len(functions) <= capacity
  /\ stack \in Seq(Frame)
  /\ wild \in BOOLEAN
  /\ last \in Outcome

(* Each activation has invoked exactly the callbacks that precede its       *)
(* iterator, each once and in the order of the list, whatever nested calls  *)
(* erased and callbacks registered in between (the loop, lines 27-40).      *)
Done(f) == IF f.running THEN f.it ELSE f.it - 1
HasCalled(f, s) ==
  /\ Done(f) <= Len(s)
  /\ Len(f.called) = Done(f)
  /\ \A j \in 1..Done(f) : f.called[j] = s[j]
CalledPrefix == \A i \in 1..Len(stack) : HasCalled(stack[i], functions)

(* Erasing an empty slot never invalidates the iterator of an enclosing     *)
(* call(): everything up to that iterator is callable, so a nested call()   *)
(* only erases behind it (line 38).  Only a reallocation can: push_back     *)
(* from a callback (line 48).                                               *)
OnlyGrowthInvalidates ==
  /\ \A i \in 1..Len(stack) : ~stack[i].valid => stack[i].grown
  /\ wild => stack # <<>> /\ Top.grown

(* When callbacks do not register on the signal that calls them, it++ at    *)
(* line 36 is always applied to an iterator C++ allows to be used.          *)
NoDanglingIterator == ~wild

(* README.md line 19: callbacks are called in order, and a bool callback    *)
(* can stop the event by returning false.  A call() that completes called   *)
(* every callback registered when it began, in order; one that was stopped  *)
(* called a prefix of them (or went on into callbacks added meanwhile).     *)
IsCallable(c) == c # Empty
Callables(s) ==
  LET upto[i \in 0..Len(s)] == IF i = 0 THEN <<>>
                               ELSE IF IsCallable(s[i]) THEN Append(upto[i - 1], s[i])
                               ELSE upto[i - 1]
  IN  upto[Len(s)]
Prefix(s, t) == Len(s) <= Len(t) /\ s = SubSeq(t, 1, Len(s))
InOrder(called, atStart) ==
  LET due == Callables(atStart)
  IN  Prefix(called, due) \/ Prefix(due, called)
CalledInOrder ==
  /\ \A i \in 1..Len(stack) : InOrder(stack[i].called, stack[i].atStart)
  /\ InOrder(last.called, last.atStart)
  /\ last.result => Prefix(Callables(last.atStart), last.called)

(* Every call(), nested ones included, returns when the callbacks do, unless *)
(* they keep registering more of them, which the loop then also calls:      *)
(* functions_.end() is read again each time round (line 27).                *)
Registers == stack # <<>> /\ \E c \in Callbacks : PushBack(c)
CallsReturn == []<>(stack = <<>> \/ wild) \/ []<><<Registers>>_vars
=============================================================================
