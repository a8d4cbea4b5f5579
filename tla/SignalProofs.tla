---------------------------- MODULE SignalProofs ----------------------------
(***************************************************************************)
(* Theorems about rakhook::signal for any callbacks, any list length, any  *)
(* depth of nested calls and any growth of the vector.                     *)
(*                                                                         *)
(* CalledPrefix alone is not inductive: the step that erases an empty slot *)
(* must be known to happen behind the iterators of all enclosing calls.    *)
(* That follows from Suspended, since an enclosing call is suspended in a  *)
(* callback, so its iterator stands on a slot it has called, and by        *)
(* CalledPrefix none of the slots up to there is empty.                    *)
(***************************************************************************)
EXTENDS Signal, SequenceTheorems, WellFoundedInduction, TLAPS

(* Every activation but the top one is inside a callback. *)
Suspended == \A i \in 1..Len(stack) : i < Len(stack) => stack[i].running

(* Undefined behaviour starts in the callback of the top activation. *)
WildAtTop == wild => stack # <<>> /\ ~Top.valid

GrowthInvalidates == \A i \in 1..Len(stack) : ~stack[i].valid => stack[i].grown

(* Without registration from callbacks no activation sees a reallocation. *)
GrowthIsReentrant == ~Reentrant => \A i \in 1..Len(stack) : ~stack[i].grown

Inv == /\ TypeOK
       /\ Suspended
       /\ CalledPrefix
       /\ WildAtTop
       /\ GrowthInvalidates
       /\ GrowthIsReentrant

USE EmptyAssumption, SwitchAssumption, BoundAssumption

(* The prefix an activation has called has a length. *)
LEMMA DoneType == ASSUME NEW f \in Frame PROVE Done(f) \in Nat
BY DEF Frame, Done

(* What a reallocation does to an activation. *)
LEMMA InvalidatedType ==
  ASSUME NEW f \in Frame
  PROVE  /\ Invalidated(f) \in Frame
         /\ Invalidated(f).it = f.it /\ Invalidated(f).running = f.running
         /\ Invalidated(f).called = f.called
         /\ ~Invalidated(f).valid /\ Invalidated(f).grown
         /\ Done(Invalidated(f)) = Done(f)
BY DEF Invalidated, Frame, Done

(* What a nested call does to the activation that makes it. *)
NestingOf(f) == [f EXCEPT !.nested = @ + 1]
LEMMA NestingType ==
  ASSUME NEW f \in Frame
  PROVE  /\ NestingOf(f) \in Frame
         /\ NestingOf(f).it = f.it /\ NestingOf(f).running = f.running
         /\ NestingOf(f).valid = f.valid /\ NestingOf(f).grown = f.grown
         /\ NestingOf(f).called = f.called /\ Done(NestingOf(f)) = Done(f)
<1>1. f.nested + 1 \in Nat
  BY DEF Frame
<1> QED BY <1>1 DEF NestingOf, Frame, Done

(* What the start of a callback does to its activation. *)
InvokingOf(f, c) == [f EXCEPT !.running = TRUE, !.nested = 0, !.called = Append(@, c)]
LEMMA InvokingType ==
  ASSUME NEW f \in Frame, NEW c \in Callbacks
  PROVE  /\ InvokingOf(f, c) \in Frame
         /\ InvokingOf(f, c).it = f.it /\ InvokingOf(f, c).running
         /\ InvokingOf(f, c).valid = f.valid /\ InvokingOf(f, c).grown = f.grown
         /\ InvokingOf(f, c).called = Append(f.called, c)
         /\ Done(InvokingOf(f, c)) = f.it
<1>1. Append(f.called, c) \in Seq(Callbacks)
  BY AppendProperties DEF Frame
<1> QED BY <1>1 DEF InvokingOf, Frame, Done

(* What the return of a callback does to its activation. *)
ReturnedOf(f) == [f EXCEPT !.running = FALSE, !.it = @ + 1]
LEMMA ReturnedType ==
  ASSUME NEW f \in Frame, f.running
  PROVE  /\ ReturnedOf(f) \in Frame
         /\ ~ReturnedOf(f).running /\ ReturnedOf(f).valid = f.valid
         /\ ReturnedOf(f).grown = f.grown
         /\ ReturnedOf(f).called = f.called /\ Done(ReturnedOf(f)) = Done(f)
<1>1. f.it + 1 \in Nat \ {0} /\ f.it \in Nat
  BY DEF Frame
<1>2. ReturnedOf(f) \in Frame
  BY <1>1 DEF ReturnedOf, Frame
<1>3. /\ ReturnedOf(f).running = FALSE /\ ReturnedOf(f).valid = f.valid
      /\ ReturnedOf(f).grown = f.grown
      /\ ReturnedOf(f).called = f.called /\ ReturnedOf(f).it = f.it + 1
  BY DEF ReturnedOf, Frame
<1>4. Done(ReturnedOf(f)) = Done(f)
  BY <1>1, <1>3 DEF Done
<1> QED BY <1>2, <1>3, <1>4

(* Removing one element leaves a sequence, one shorter. *)
LEMMA WithoutType ==
  ASSUME NEW S, NEW s \in Seq(S), NEW p \in 1..Len(s)
  PROVE  /\ Without(s, p) \in Seq(S)
         /\ Len(Without(s, p)) = Len(s) - 1
         /\ \A j \in 1..(Len(s) - 1) :
              Without(s, p)[j] = IF j < p THEN s[j] ELSE s[j + 1]
BY DEF Without

(* An activation that has called a slot proves it is not empty: the slot
   under the top iterator, when empty, is behind every other iterator. *)
LEMMA EmptyIsBehind ==
  ASSUME Inv, LoopRuns, Top.it <= Len(functions), functions[Top.it] = Empty
  PROVE  \A i \in 1..Len(stack) : i < Len(stack) => stack[i].it < Top.it
<1> SUFFICES ASSUME NEW i \in 1..Len(stack), i < Len(stack), Top.it <= stack[i].it
             PROVE  FALSE
  <2>1. Len(stack) \in Nat /\ Top \in Frame /\ \A k \in 1..Len(stack) : stack[k] \in Frame
    BY DEF Inv, TypeOK, LoopRuns, Top
  <2> QED BY <2>1 DEF Frame
<1>1. stack[i] \in Frame /\ Top \in Frame
  BY DEF Inv, TypeOK, LoopRuns, Top
<1>2. stack[i].running /\ Done(stack[i]) = stack[i].it
  BY DEF Inv, Suspended, Done
<1>3. Top.it \in 1..Done(stack[i]) /\ Len(stack[i].called) = Done(stack[i])
  BY <1>1, <1>2 DEF Inv, CalledPrefix, HasCalled, Frame
<1>4. stack[i].called[Top.it] = Empty
  BY <1>3 DEF Inv, CalledPrefix, HasCalled
<1>5. stack[i].called[Top.it] \in Callbacks
  BY <1>1, <1>3 DEF Frame
<1> QED BY <1>4, <1>5

(* Leaving the top activation keeps the others as they are. *)
LEMMA PoppedType ==
  ASSUME NEW S, stack \in Seq(S), stack # <<>>
  PROVE  /\ Popped \in Seq(S)
         /\ Len(Popped) = Len(stack) - 1
         /\ \A i \in 1..(Len(stack) - 1) : Popped[i] = stack[i]
<1> DEFINE t == SubSeq(stack, 1, Len(stack) - 1)
<1>1. Len(stack) \in Nat \ {0} /\ \A i \in 1..(Len(stack) - 1) : stack[i] \in S
  BY EmptySeq, LenProperties
<1>2. /\ t \in Seq(S)
      /\ Len(t) = IF 1 <= Len(stack) - 1 THEN Len(stack) - 1 - 1 + 1 ELSE 0
      /\ \A i \in 1..(Len(stack) - 1 - 1 + 1) : t[i] = stack[1 + i - 1]
  BY <1>1, SubSeqProperties
<1> HIDE DEF t
<1>3. Len(t) = Len(stack) - 1
  <2>1. \A n \in Nat \ {0} : (IF 1 <= n - 1 THEN n - 1 - 1 + 1 ELSE 0) = n - 1
    OBVIOUS
  <2> QED BY <1>1, <1>2, <2>1, Zenon
<1>4. ASSUME NEW i \in 1..(Len(stack) - 1) PROVE t[i] = stack[i]
  <2>1. i \in 1..(Len(stack) - 1 - 1 + 1) /\ 1 + i - 1 = i
    BY <1>1
  <2> QED BY <1>2, <2>1
<1> QED BY <1>2, <1>3, <1>4 DEF t, Popped

(* Replacing the top frame by another one. *)
LEMMA WithTopType ==
  ASSUME NEW S, stack \in Seq(S), stack # <<>>, NEW f \in S
  PROVE  /\ WithTop(f) \in Seq(S)
         /\ Len(WithTop(f)) = Len(stack)
         /\ Len(stack) \in 1..Len(stack)
         /\ WithTop(f)[Len(stack)] = f
         /\ \A i \in 1..Len(stack) : i < Len(stack) => WithTop(f)[i] = stack[i]
<1>1. Len(stack) \in Nat \ {0}
  BY EmptySeq, LenProperties
<1> QED BY <1>1 DEF WithTop

(* The invariant holds before the first registration. *)
LEMMA InitInv == Init => Inv
<1> SUFFICES ASSUME Init PROVE Inv
  OBVIOUS
<1>1. TypeOK
  <2>1. /\ functions = <<>> /\ stack = <<>> /\ capacity = 0 /\ wild = FALSE
        /\ last = [result |-> TRUE, called |-> <<>>, atStart |-> <<>>]
    BY DEF Init
  <2>2. /\ <<>> \in Seq(Slots) /\ <<>> \in Seq(Frame) /\ <<>> \in Seq(Callbacks)
        /\ Len(<<>>) = 0
    BY EmptySeq
  <2>3. last \in Outcome
    BY <2>1, <2>2 DEF Outcome
  <2>4. Len(functions) = 0 /\ wild \in BOOLEAN
    BY <2>1, <2>2, Zenon
  <2>5. functions \in Seq(Slots)
    BY <2>1, <2>2
  <2>6. stack \in Seq(Frame)
    BY <2>1, <2>2
  <2> QED BY <2>1, <2>3, <2>4, <2>5, <2>6 DEF TypeOK
<1>2. Len(stack) = 0 /\ ~wild
  BY EmptySeq DEF Init
<1> QED BY <1>1, <1>2 DEF Inv, Suspended, CalledPrefix, HasCalled, WildAtTop,
     GrowthInvalidates, GrowthIsReentrant

(* push_back: positions up to every iterator are untouched. *)
LEMMA PushBackInv == ASSUME Inv, NEW c \in Slots, PushBack(c) PROVE Inv'
<1> USE DEF Inv, TypeOK
<1>1. /\ functions' \in Seq(Slots) /\ Len(functions') = Len(functions) + 1
      /\ Len(functions) \in Nat /\ Len(stack) \in Nat
      /\ \A j \in 1..Len(functions) : functions'[j] = functions[j]
  BY AppendProperties, LenProperties DEF PushBack
<1>2. \A i \in 1..Len(stack) : stack[i] \in Frame /\ Done(stack[i]) \in Nat
  BY LenProperties, DoneType
<1>3. CASE UNCHANGED <<capacity, stack>> /\ Len(functions) < capacity
  <2>1. TypeOK'
    BY <1>1, <1>3 DEF PushBack
  <2>2. CalledPrefix'
    BY <1>1, <1>2, <1>3 DEF CalledPrefix, HasCalled
  <2> QED BY <1>3, <2>1, <2>2 DEF PushBack, Suspended, WildAtTop,
       GrowthInvalidates, GrowthIsReentrant, Top
<1>4. CASE /\ capacity' \in (Len(functions) + 1)..MaxLen
           /\ stack' = [i \in 1..Len(stack) |-> Invalidated(stack[i])]
  <2>1. /\ stack' \in Seq(Frame) /\ Len(stack') = Len(stack)
        /\ \A i \in 1..Len(stack) : stack'[i] = Invalidated(stack[i])
    BY <1>1, <1>2, <1>4, InvalidatedType
  <2>2. \A i \in 1..Len(stack) :
          /\ stack'[i].running = stack[i].running
          /\ stack'[i].called = stack[i].called /\ Done(stack'[i]) = Done(stack[i])
          /\ ~stack'[i].valid /\ stack'[i].grown
    BY <1>2, <2>1, InvalidatedType
  <2>3. TypeOK'
    BY <1>1, <1>4, <2>1 DEF PushBack
  <2>4. CalledPrefix'
    <3>1. \A i \in 1..Len(stack) :
            HasCalled(stack[i], functions) /\ Done(stack[i]) \in Nat
      BY <1>2 DEF CalledPrefix
    <3>2. ASSUME NEW i \in 1..Len(stack) PROVE HasCalled(stack'[i], functions')
      <4>1. /\ stack'[i].called = stack[i].called /\ Done(stack'[i]) = Done(stack[i])
            /\ HasCalled(stack[i], functions) /\ Done(stack[i]) \in Nat
        BY <2>2, <3>1
      <4> QED BY <1>1, <4>1 DEF HasCalled
    <3> QED BY <2>1, <3>2 DEF CalledPrefix
  <2>5. Suspended' /\ GrowthInvalidates'
    BY <2>1, <2>2 DEF Suspended, GrowthInvalidates
  <2>6. WildAtTop'
    BY DEF WildAtTop, PushBack, UserRuns
  <2>7. GrowthIsReentrant'
    <3> SUFFICES ASSUME ~Reentrant PROVE Len(stack') = 0
      BY DEF GrowthIsReentrant
    <3>1. stack = <<>>
      BY DEF PushBack
    <3> QED BY <3>1, <2>1
  <2> QED BY <2>3, <2>4, <2>5, <2>6, <2>7
<1> QED BY <1>3, <1>4 DEF PushBack

(* call() is entered: the new activation has called nothing, and the one
   below, if any, is inside a callback. *)
LEMMA BeginCallInv == ASSUME Inv, BeginCall PROVE Inv'
<1> USE DEF Inv, TypeOK
<1>1. NewFrame \in Frame /\ functions \in Seq(Slots)
  BY DEF NewFrame, Frame
<1>2. CASE stack = <<>> /\ stack' = <<NewFrame>>
  <2>1. Len(stack') = 1 /\ stack'[1] = NewFrame /\ stack' \in Seq(Frame)
    BY <1>1, <1>2
  <2>2. TypeOK'
    BY <2>1 DEF BeginCall
  <2>3. CalledPrefix'
    BY <1>1, <2>1 DEF BeginCall, CalledPrefix, HasCalled, Done, NewFrame
  <2> QED BY <2>1, <2>2, <2>3 DEF BeginCall, UserRuns, Suspended, WildAtTop,
       GrowthInvalidates, GrowthIsReentrant, NewFrame
<1>3. CASE /\ stack # <<>>
           /\ stack' = Append(WithTop(NestingOf(Top)), NewFrame)
  <2>1. Len(stack) \in Nat \ {0} /\ \A i \in 1..Len(stack) : stack[i] \in Frame
    BY <1>3, EmptySeq, LenProperties
  <2>2. Top \in Frame /\ Top = stack[Len(stack)]
    BY <2>1 DEF Top
  <2>3. /\ WithTop(NestingOf(Top)) \in Seq(Frame)
        /\ Len(WithTop(NestingOf(Top))) = Len(stack)
        /\ \A i \in 1..Len(stack) :
             WithTop(NestingOf(Top))[i] = IF i = Len(stack) THEN NestingOf(Top) ELSE stack[i]
    <3>1. NestingOf(Top) \in Frame
      BY <2>2, NestingType
    <3> QED BY <1>3, <2>1, <3>1, WithTopType
  <2>4. /\ stack' \in Seq(Frame) /\ Len(stack') = Len(stack) + 1
        /\ stack'[Len(stack) + 1] = NewFrame
        /\ \A i \in 1..Len(stack) :
             stack'[i] = IF i = Len(stack) THEN NestingOf(Top) ELSE stack[i]
    BY <1>1, <1>3, <2>3, AppendProperties
  <2>5. \A i \in 1..Len(stack) :
          /\ stack'[i].running = stack[i].running
          /\ stack'[i].valid = stack[i].valid /\ stack'[i].grown = stack[i].grown
          /\ stack'[i].called = stack[i].called /\ Done(stack'[i]) = Done(stack[i])
    BY <2>2, <2>4, NestingType
  <2>6. \A i \in 1..Len(stack') : i = Len(stack) + 1 \/ i \in 1..Len(stack)
    BY <2>1, <2>4
  <2>7. TypeOK'
    BY <2>4 DEF BeginCall
  <2>8. Suspended'
    <3>1. stack[Len(stack)].running
      BY <1>3 DEF BeginCall, UserRuns, Top
    <3> QED BY <2>1, <2>4, <2>5, <3>1 DEF Suspended
  <2>9. CalledPrefix'
    <3> SUFFICES ASSUME NEW i \in 1..Len(stack')
                 PROVE  /\ Done(stack'[i]) <= Len(functions')
                        /\ Len(stack'[i].called) = Done(stack'[i])
                        /\ \A j \in 1..Done(stack'[i]) : stack'[i].called[j] = functions'[j]
      BY DEF CalledPrefix, HasCalled
    <3>1. CASE i = Len(stack) + 1
      BY <1>1, <2>4, <3>1 DEF BeginCall, NewFrame, Done
    <3>2. CASE i \in 1..Len(stack)
      <4>1. UNCHANGED functions
        BY DEF BeginCall
      <4> QED BY <2>5, <3>2, <4>1 DEF CalledPrefix, HasCalled
    <3> QED BY <2>6, <3>1, <3>2
  <2>10. NewFrame.valid /\ ~NewFrame.grown
    BY DEF NewFrame
  <2>11. GrowthInvalidates' /\ GrowthIsReentrant'
    BY <2>4, <2>5, <2>6, <2>10 DEF GrowthInvalidates, GrowthIsReentrant
  <2> QED BY <2>7, <2>8, <2>9, <2>11 DEF BeginCall, UserRuns, WildAtTop
<1> QED BY <1>2, <1>3 DEF BeginCall, NestingOf

(* An empty slot is erased: the slots before it, where every other iterator
   stands, keep their place. *)
LEMMA EraseInv == ASSUME Inv, Erase PROVE Inv'
<1> DEFINE p == Top.it
<1>1. /\ functions \in Seq(Slots) /\ stack \in Seq(Frame) /\ Len(stack) \in Nat \ {0}
      /\ Top \in Frame /\ p \in 1..Len(functions) /\ ~Top.running
  <2>1. stack \in Seq(Frame) /\ stack # <<>> /\ functions \in Seq(Slots)
    BY DEF Inv, TypeOK, Erase, LoopRuns
  <2>2. Len(stack) \in Nat \ {0}
    BY <2>1, EmptySeq, LenProperties
  <2>3. Top \in Frame
    BY <2>1, <2>2 DEF Top
  <2> QED BY <2>1, <2>2, <2>3 DEF Frame, Erase, LoopRuns
<1>2. \A i \in 1..Len(stack) : i < Len(stack) => stack[i].it < p
  BY EmptyIsBehind DEF Erase
<1>3. stack' = stack
  <2>1. \A i \in 1..Len(stack) : stack[i] \in Frame
    BY <1>1
  <2>2. \A i \in 1..Len(stack) : ~(i < Len(stack) /\ stack[i].it >= p)
    <3>1. \A i \in 1..Len(stack) : stack[i].it \in Nat
      BY <2>1 DEF Frame
    <3> QED BY <1>1, <1>2, <3>1
  <2>3. stack' = [i \in 1..Len(stack) |-> stack[i]]
    BY <2>2 DEF Erase
  <2> QED BY <1>1, <2>3
<1>4. /\ functions' \in Seq(Slots) /\ Len(functions') = Len(functions) - 1
      /\ \A j \in 1..(p - 1) : functions'[j] = functions[j]
  <2> HIDE DEF p
  <2> QED BY <1>1, WithoutType DEF Erase, p
<1>5. TypeOK'
  <2>1. Len(functions) \in Nat /\ capacity \in Nat /\ Len(functions) <= capacity
    BY LenProperties DEF Inv, TypeOK
  <2>2. Len(functions') <= capacity'
    BY <1>4, <2>1 DEF Erase
  <2> QED BY <1>1, <1>3, <1>4, <2>2 DEF Inv, TypeOK, Erase
<1>6. CalledPrefix'
  <2> SUFFICES ASSUME NEW i \in 1..Len(stack)
               PROVE  /\ Done(stack[i]) <= p - 1
                      /\ Len(stack[i].called) = Done(stack[i])
                      /\ \A j \in 1..Done(stack[i]) : stack[i].called[j] = functions[j]
    <3>1. \A i \in 1..Len(stack) : stack[i] \in Frame /\ Done(stack[i]) \in Nat
      BY <1>1, DoneType
    <3>2. Len(functions) \in Nat
      BY <1>1
    <3> QED BY <1>1, <1>3, <1>4, <3>1, <3>2 DEF CalledPrefix, HasCalled
  <2>1. CASE i = Len(stack)
    BY <1>1, <2>1 DEF Inv, CalledPrefix, HasCalled, Done, Top
  <2>2. CASE i < Len(stack)
    <3>1. stack[i].running /\ stack[i].it < p /\ stack[i] \in Frame
      BY <1>1, <1>2, <2>2 DEF Inv, Suspended
    <3>2. Done(stack[i]) = stack[i].it /\ stack[i].it \in Nat
      BY <3>1 DEF Done, Frame
    <3> QED BY <1>1, <3>1, <3>2 DEF Inv, CalledPrefix, HasCalled
  <2> QED BY <1>1, <2>1, <2>2
<1> QED BY <1>3, <1>5, <1>6 DEF Inv, Erase, LoopRuns, Suspended, WildAtTop,
     GrowthInvalidates, GrowthIsReentrant, Top

(* A callback starts: its slot joins the prefix the activation has called. *)
LEMMA InvokeInv == ASSUME Inv, Invoke PROVE Inv'
<1> DEFINE t == InvokingOf(Top, functions[Top.it])
<1>1. /\ functions \in Seq(Slots) /\ stack \in Seq(Frame) /\ Len(stack) \in Nat \ {0}
      /\ stack # <<>> /\ Top \in Frame /\ Top.it \in 1..Len(functions) /\ ~Top.running
      /\ Top = stack[Len(stack)] /\ Len(stack) \in 1..Len(stack)
  <2>1. stack \in Seq(Frame) /\ stack # <<>> /\ functions \in Seq(Slots)
    BY DEF Inv, TypeOK, Invoke, LoopRuns
  <2>2. Len(stack) \in Nat \ {0}
    BY <2>1, EmptySeq, LenProperties
  <2>3. Top \in Frame
    BY <2>1, <2>2 DEF Top
  <2>4. Top.it \in Nat \ {0} /\ Top.it <= Len(functions) /\ ~Top.running
    BY <2>3 DEF Frame, Invoke, LoopRuns
  <2>5. Len(functions) \in Nat
    BY <2>1, LenProperties
  <2>6. Top.it \in 1..Len(functions) /\ Len(stack) \in 1..Len(stack)
    BY <2>2, <2>4, <2>5
  <2> QED BY <2>1, <2>2, <2>3, <2>4, <2>6 DEF Top
<1>2. functions[Top.it] \in Callbacks
  BY <1>1 DEF Invoke, Slots
<1>3. /\ Top.called \in Seq(Callbacks) /\ Len(Top.called) = Top.it - 1
      /\ \A j \in 1..(Top.it - 1) : Top.called[j] = functions[j]
  BY <1>1 DEF Inv, CalledPrefix, HasCalled, Done, Frame
<1>4. /\ t \in Frame /\ t.it = Top.it /\ t.running /\ t.valid = Top.valid
      /\ t.grown = Top.grown /\ t.called = Append(Top.called, functions[Top.it])
      /\ Done(t) = Top.it
  BY <1>1, <1>2, InvokingType
<1>5. stack' = WithTop(t)
  BY DEF Invoke, InvokingOf
<1> HIDE DEF t
<1>6. /\ Len(t.called) = Top.it
      /\ \A j \in 1..Top.it : t.called[j] = functions[j]
  <2>1. Top.it \in Nat
    BY <1>1
  <2>2. /\ Len(t.called) = Len(Top.called) + 1
        /\ \A j \in 1..Len(Top.called) : t.called[j] = Top.called[j]
        /\ t.called[Len(Top.called) + 1] = functions[Top.it]
    BY <1>2, <1>3, <1>4, AppendProperties
  <2>3. Len(Top.called) + 1 = Top.it
    BY <1>3, <2>1
  <2> SUFFICES ASSUME NEW j \in 1..Top.it PROVE t.called[j] = functions[j]
    BY <2>2, <2>3
  <2>4. CASE j = Top.it
    BY <2>2, <2>3, <2>4
  <2>5. CASE j \in 1..(Top.it - 1)
    BY <1>3, <2>2, <2>5
  <2> QED BY <2>1, <2>4, <2>5
<1>7. /\ stack' \in Seq(Frame) /\ Len(stack') = Len(stack) /\ stack'[Len(stack)] = t
      /\ \A i \in 1..Len(stack) : i < Len(stack) => stack'[i] = stack[i]
  BY <1>1, <1>4, <1>5, WithTopType
<1>8. TypeOK'
  BY <1>7 DEF Inv, TypeOK, Invoke
<1>9. CalledPrefix'
  <2>1. UNCHANGED functions
    BY DEF Invoke
  <2>2. HasCalled(t, functions)
    <3>1. Done(t) = Top.it /\ Top.it <= Len(functions)
      BY <1>1, <1>4
    <3> QED BY <1>6, <3>1 DEF HasCalled
  <2>3. ASSUME NEW i \in 1..Len(stack) PROVE HasCalled(stack'[i], functions)
    <3>1. CASE i = Len(stack)
      BY <1>7, <2>2, <3>1
    <3>2. CASE i < Len(stack)
      BY <1>7, <3>2 DEF Inv, CalledPrefix
    <3> QED BY <1>1, <3>1, <3>2
  <2> QED BY <1>7, <2>1, <2>3 DEF CalledPrefix
<1>10. Suspended'
  BY <1>1, <1>7 DEF Inv, Suspended
<1>11. \A i \in 1..Len(stack) :
         stack'[i].valid = stack[i].valid /\ stack'[i].grown = stack[i].grown
  <2>1. stack'[Len(stack)] = t /\ stack[Len(stack)] = Top /\ t.valid = Top.valid /\ t.grown = Top.grown
    BY <1>1, <1>4, <1>7
  <2>2. \A i \in 1..Len(stack) : i = Len(stack) \/ i < Len(stack)
    BY <1>1
  <2> QED BY <1>7, <2>1, <2>2
<1>12. GrowthInvalidates' /\ GrowthIsReentrant'
  BY <1>7, <1>11 DEF Inv, GrowthInvalidates, GrowthIsReentrant
<1> QED BY <1>8, <1>9, <1>10, <1>12 DEF Inv, Invoke, LoopRuns, WildAtTop

(* A callback returns true: the iterator moves past the slot it called, or
   was invalid and the behaviour is undefined from here on. *)
LEMMA ReturnTrueInv == ASSUME Inv, ReturnTrue PROVE Inv'
<1> DEFINE t == ReturnedOf(Top)
<1>1. /\ stack \in Seq(Frame) /\ Len(stack) \in Nat \ {0}
      /\ stack # <<>> /\ Top \in Frame /\ Top.running
      /\ Top = stack[Len(stack)] /\ Len(stack) \in 1..Len(stack)
  <2>1. stack \in Seq(Frame) /\ stack # <<>>
    BY DEF Inv, TypeOK, ReturnTrue
  <2>2. Len(stack) \in Nat \ {0}
    BY <2>1, EmptySeq, LenProperties
  <2>3. Top \in Frame
    BY <2>1, <2>2 DEF Top
  <2> QED BY <2>1, <2>2, <2>3 DEF Frame, ReturnTrue, UserRuns, Top
<1>2. CASE Top.valid /\ stack' = WithTop(t) /\ UNCHANGED wild
  <2>1. /\ t \in Frame /\ ~t.running /\ t.valid = Top.valid
        /\ t.grown = Top.grown /\ t.called = Top.called /\ Done(t) = Done(Top)
    BY <1>1, ReturnedType
  <2> HIDE DEF t
  <2>2. /\ stack' \in Seq(Frame) /\ Len(stack') = Len(stack) /\ stack'[Len(stack)] = t
        /\ \A i \in 1..Len(stack) : i < Len(stack) => stack'[i] = stack[i]
    BY <1>1, <1>2, <2>1, WithTopType
  <2>3. TypeOK'
    BY <1>2, <2>2 DEF Inv, TypeOK, ReturnTrue
  <2>4. \A i \in 1..Len(stack) : Done(stack'[i]) = Done(stack[i]) /\ stack'[i].called = stack[i].called
    BY <1>1, <2>1, <2>2
  <2>5. CalledPrefix'
    BY <2>2, <2>4 DEF Inv, CalledPrefix, HasCalled, ReturnTrue
  <2>6. Suspended' /\ GrowthInvalidates' /\ GrowthIsReentrant'
    BY <1>1, <2>1, <2>2 DEF Inv, Suspended, GrowthInvalidates, GrowthIsReentrant
  <2> QED BY <1>2, <2>3, <2>5, <2>6 DEF Inv, ReturnTrue, UserRuns, WildAtTop
<1>3. CASE ~Top.valid /\ wild' = TRUE /\ UNCHANGED stack
  <2>1. UNCHANGED <<functions, capacity, stack, last>> /\ Top' = Top
    BY <1>3 DEF ReturnTrue, Top
  <2> QED BY <1>1, <1>3, <2>1 DEF Inv, TypeOK, Suspended, CalledPrefix, HasCalled, WildAtTop,
       GrowthInvalidates, GrowthIsReentrant
<1> QED BY <1>2, <1>3 DEF ReturnTrue, ReturnedOf

(* call() returns: the other activations are as they were. *)
LEMMA LeaveInv ==
  ASSUME Inv, ~wild, stack # <<>>, NEW r \in BOOLEAN, Leave(r),
         UNCHANGED <<functions, capacity, wild>>
  PROVE  Inv'
<1>1. stack \in Seq(Frame) /\ Len(stack) \in Nat \ {0} /\ Top \in Frame
  <2>1. stack \in Seq(Frame)
    BY DEF Inv, TypeOK
  <2>2. Len(stack) \in Nat \ {0}
    BY <2>1, EmptySeq, LenProperties
  <2> QED BY <2>1, <2>2 DEF Top
<1>2. /\ stack' \in Seq(Frame) /\ Len(stack') = Len(stack) - 1
      /\ \A i \in 1..(Len(stack) - 1) : stack'[i] = stack[i]
  BY <1>1, PoppedType DEF Leave
<1>3. last' \in Outcome
  BY <1>1 DEF Leave, Outcome, Frame
<1>4. TypeOK'
  BY <1>2, <1>3 DEF Inv, TypeOK
<1>5. CalledPrefix'
  BY <1>1, <1>2 DEF Inv, CalledPrefix, HasCalled
<1> QED BY <1>1, <1>2, <1>4, <1>5 DEF Inv, Suspended, WildAtTop,
     GrowthInvalidates, GrowthIsReentrant

-----------------------------------------------------------------------------
(* Induction on numbers, and what it says of recursive functions.  It is    *)
(* stated of sets and functions and not of operators, so that its instances *)
(* are first-order.                                                         *)

(* Of some numbers there is a least one. *)
LEMMA LeastNumber ==
  ASSUME NEW T, T \subseteq Nat, T # {}
  PROVE  \E x \in T : \A y \in T : x <= y
<1> DEFINE R == {ss \in Nat \X Nat : ss[1] < ss[2]}
<1>0. IsWellFoundedOn(R, Nat)
  BY NatLessThanWellFounded DEF OpToRel
<1>h. HIDE DEF R
<1>1. PICK x \in T : \A y \in T : ~ (<<y, x>> \in R)
  BY <1>0, WFMin
<1>2. \A y \in T : ~(y < x)
  BY <1>1 DEF R
<1> QED BY <1>2

(* A set of numbers with 0 and the successors of its members has them all. *)
LEMMA NumberInduction ==
  ASSUME NEW T, 0 \in T, \A n \in Nat : n \in T => n + 1 \in T
  PROVE  \A n \in Nat : n \in T
<1> DEFINE U == Nat \ T
<1> SUFFICES ASSUME U # {} PROVE FALSE
  OBVIOUS
<1>1. PICK x \in U : \A y \in U : x <= y
  <2> U \subseteq Nat
    OBVIOUS
  <2> HIDE DEF U
  <2> QED BY LeastNumber
<1>2. x \in Nat /\ x # 0
  BY <1>1
<1>3. x - 1 \in Nat /\ x - 1 \notin U
  BY <1>1, <1>2
<1>4. x - 1 \in T
  BY <1>3
<1>5. x - 1 + 1 = x
  BY <1>2
<1> QED BY <1>1, <1>3, <1>4, <1>5

(* A function on the numbers that begins with a and goes on with the step h.
   There is one. *)
Iterates(f, S, a, h) ==
  f \in [Nat -> S] /\ f[0] = a /\ \A n \in Nat : f[n + 1] = h[<<n, f[n]>>]

LEMMA PrimitiveRecursion ==
  ASSUME NEW S, NEW a \in S, NEW h \in [Nat \X S -> S]
  PROVE  \E f : Iterates(f, S, a, h)
<1> DEFINE Part(n, f) == /\ f \in [0..n -> S] /\ f[0] = a
                         /\ \A i \in 0..n : i < n => f[i + 1] = h[<<i, f[i]>>]
           T == {n \in Nat : \E f : Part(n, f)}
           A(n) == CHOOSE f : Part(n, f)
<1>1. \A n \in Nat : \E f : Part(n, f)
  <2>1. 0 \in T
    <3>1. Part(0, [i \in 0..0 |-> a])
      OBVIOUS
    <3> QED BY <3>1
  <2>2. ASSUME NEW n \in Nat, n \in T PROVE n + 1 \in T
    <3>1. PICK f : Part(n, f)
      BY <2>2
    <3> DEFINE g == [i \in 0..(n + 1) |-> IF i <= n THEN f[i] ELSE h[<<n, f[n]>>]]
    <3>2. n \in 0..n /\ f[n] \in S /\ h[<<n, f[n]>>] \in S
      BY <3>1
    <3>3. g \in [0..(n + 1) -> S]
      BY <3>1, <3>2
    <3>4. g[0] = a
      BY <3>1
    <3>5. ASSUME NEW i \in 0..(n + 1), i < n + 1 PROVE g[i + 1] = h[<<i, g[i]>>]
      <4>1. CASE i = n
        <5>1. g[n + 1] = h[<<n, f[n]>>] /\ g[n] = f[n]
          BY SMT
        <5> QED BY <4>1, <5>1
      <4>2. CASE i < n
        <5>1. i \in 0..n /\ i + 1 \in 0..n /\ f[i + 1] = h[<<i, f[i]>>]
          BY <3>1, <4>2
        <5>2. g[i + 1] = f[i + 1] /\ g[i] = f[i]
          BY <5>1
        <5> QED BY <5>1, <5>2
      <4> QED BY <3>5, <4>1, <4>2
    <3> HIDE DEF g
    <3>6. Part(n + 1, g)
      BY <3>3, <3>4, <3>5
    <3>7. n + 1 \in Nat
      OBVIOUS
    <3> QED BY <3>6, <3>7
  <2> HIDE DEF T
  <2>3. \A n \in Nat : n \in T
    BY <2>1, <2>2, NumberInduction
  <2> QED BY <2>3 DEF T
<1>2. ASSUME NEW m \in Nat, NEW n \in Nat, m <= n, NEW f, Part(m, f), NEW g, Part(n, g)
      PROVE  \A i \in 0..m : f[i] = g[i]
  <2> DEFINE V == {i \in Nat : i <= m => f[i] = g[i]}
  <2>1. 0 \in V
    BY <1>2
  <2>2. ASSUME NEW i \in Nat, i \in V PROVE i + 1 \in V
    <3>1. CASE i + 1 <= m
      <4>1. i \in 0..m /\ i < m /\ i \in 0..n /\ i < n /\ f[i] = g[i]
        BY <1>2, <2>2, <3>1
      <4>2. f[i + 1] = h[<<i, f[i]>>] /\ g[i + 1] = h[<<i, g[i]>>]
        BY <1>2, <4>1
      <4> QED BY <4>1, <4>2
    <3> QED BY <3>1
  <2> HIDE DEF V
  <2>3. \A i \in Nat : i \in V
    BY <2>1, <2>2, NumberInduction
  <2> QED BY <2>3 DEF V
<1>3. \A n \in Nat : Part(n, A(n))
  BY <1>1
<1> DEFINE f == [n \in Nat |-> A(n)[n]]
<1> HIDE DEF A
<1>4. f \in [Nat -> S]
  BY <1>3
<1>5. f[0] = a
  BY <1>3
<1>6. ASSUME NEW n \in Nat PROVE f[n + 1] = h[<<n, f[n]>>]
  <2>1. n + 1 \in Nat /\ n <= n + 1 /\ n \in 0..n /\ n \in 0..(n + 1) /\ n < n + 1
    OBVIOUS
  <2>2. Part(n, A(n)) /\ Part(n + 1, A(n + 1))
    BY <1>3, <2>1
  <2> HIDE DEF Part
  <2>3. A(n)[n] = A(n + 1)[n]
    BY <1>2, <2>1, <2>2
  <2>4. A(n + 1)[n + 1] = h[<<n, A(n + 1)[n]>>]
    BY <2>1, <2>2 DEF Part
  <2> QED BY <2>1, <2>3, <2>4
<1> HIDE DEF f
<1> QED BY <1>4, <1>5, <1>6 DEF Iterates

-----------------------------------------------------------------------------
(* The callables of a list: what is left when its empty slots are skipped.  *)

(* They are collected slot by slot. *)
LEMMA CallablesFcn ==
  ASSUME NEW s \in Seq(Slots)
  PROVE  \E u \in [0..Len(s) -> Seq(Callbacks)] :
           /\ u[0] = <<>>
           /\ \A i \in 1..Len(s) :
                u[i] = IF s[i] # Empty THEN Append(u[i - 1], s[i]) ELSE u[i - 1]
           /\ Callables(s) = u[Len(s)]
<1> DEFINE n == Len(s)
           S == Seq(Callbacks)
           h == [e \in Nat \X S |-> IF e[1] + 1 \in 1..n /\ s[e[1] + 1] # Empty
                                    THEN Append(e[2], s[e[1] + 1]) ELSE e[2]]
           Upto(g) == [i \in 0..n |-> IF i = 0 THEN <<>>
                                      ELSE IF IsCallable(s[i]) THEN Append(g[i - 1], s[i])
                                      ELSE g[i - 1]]
           u == CHOOSE g : g = Upto(g)
<1>1. n \in Nat /\ \A i \in 1..n : s[i] # Empty => s[i] \in Callbacks
  BY LenProperties DEF Slots
<1>2. <<>> \in S /\ h \in [Nat \X S -> S]
  <2>1. ASSUME NEW e \in Nat \X S PROVE h[e] \in S
    <3>1. e[2] \in S
      OBVIOUS
    <3>2. CASE e[1] + 1 \in 1..n /\ s[e[1] + 1] # Empty
      <4>1. s[e[1] + 1] \in Callbacks
        BY <1>1, <3>2
      <4>2. Append(e[2], s[e[1] + 1]) \in S
        BY <3>1, <4>1, AppendProperties
      <4> QED BY <3>2, <4>2
    <3> QED BY <3>1, <3>2
  <2> QED BY <2>1
<1> HIDE DEF S
<1>3. PICK f \in [Nat -> S] : f[0] = <<>> /\ \A i \in Nat : f[i + 1] = h[<<i, f[i]>>]
  <2>1. \E f : Iterates(f, S, <<>>, h)
    <3> HIDE DEF h
    <3> QED BY <1>2, PrimitiveRecursion
  <2> QED BY <2>1 DEF Iterates
<1>4. \E g : g = Upto(g)
  <2> DEFINE g == [i \in 0..n |-> f[i]]
  <2>1. ASSUME NEW i \in 0..n PROVE g[i] = Upto(g)[i]
    <3>1. CASE i = 0
      BY <1>1, <1>3, <3>1
    <3>2. CASE i # 0
      <4>1. /\ i - 1 \in Nat /\ i - 1 \in 0..n /\ i - 1 + 1 = i /\ i \in 1..n
            /\ f[i - 1] \in S
        BY <1>1, <1>3, <3>2
      <4>2. f[i] = IF s[i] # Empty THEN Append(f[i - 1], s[i]) ELSE f[i - 1]
        <5>1. f[i - 1 + 1] = h[<<i - 1, f[i - 1]>>]
          BY <1>3, <4>1
        <5>2. <<i - 1, f[i - 1]>> \in Nat \X S
          BY <4>1
        <5> QED BY <4>1, <5>1, <5>2
      <4>3. g[i] = f[i] /\ g[i - 1] = f[i - 1]
        BY <4>1
      <4> QED BY <3>2, <4>2, <4>3 DEF IsCallable
    <3> QED BY <3>1, <3>2
  <2>2. g = Upto(g)
    BY <2>1
  <2> QED BY <2>2
<1>5. u = Upto(u)
  BY <1>4
<1>6. Callables(s) = u[n]
  BY DEF Callables
<1> HIDE DEF u
<1>7. /\ DOMAIN u = 0..n /\ u[0] = <<>>
      /\ \A i \in 1..n : u[i] = IF s[i] # Empty THEN Append(u[i - 1], s[i]) ELSE u[i - 1]
  <2>1. \A i \in 0..n : u[i] = Upto(u)[i]
    BY <1>5
  <2>2. DOMAIN u = 0..n
    BY <1>5
  <2>3. 0 \in 0..n /\ \A i \in 1..n : i \in 0..n /\ i # 0
    BY <1>1
  <2>4. \A i \in 0..n : Upto(u)[i] = IF i = 0 THEN <<>>
                                     ELSE IF s[i] # Empty THEN Append(u[i - 1], s[i])
                                     ELSE u[i - 1]
    BY DEF IsCallable
  <2> HIDE DEF Upto
  <2>5. u[0] = <<>>
    BY <2>1, <2>3, <2>4
  <2>6. ASSUME NEW i \in 1..n
        PROVE  u[i] = IF s[i] # Empty THEN Append(u[i - 1], s[i]) ELSE u[i - 1]
    <3>1. u[i] = Upto(u)[i] /\ i \in 0..n /\ i # 0
      BY <2>1, <2>3
    <3> QED BY <2>4, <3>1
  <2> QED BY <2>2, <2>5, <2>6
<1>8. \A i \in 0..n : u[i] \in S
  <2> DEFINE T == {i \in Nat : i <= n => u[i] \in S}
  <2>1. 0 \in T
    BY <1>2, <1>7
  <2>2. ASSUME NEW i \in Nat, i \in T PROVE i + 1 \in T
    <3> SUFFICES ASSUME i + 1 <= n PROVE u[i + 1] \in S
      OBVIOUS
    <3>1. /\ i + 1 \in 1..n /\ i + 1 - 1 = i /\ u[i] \in S
          /\ s[i + 1] # Empty => s[i + 1] \in Callbacks
      BY <1>1, <2>2
    <3>2. s[i + 1] # Empty => Append(u[i], s[i + 1]) \in S
      BY <3>1, AppendProperties DEF S
    <3> QED BY <1>7, <3>1, <3>2
  <2> HIDE DEF T
  <2>3. \A i \in Nat : i \in T
    BY <2>1, <2>2, NumberInduction
  <2> QED BY <1>1, <2>3 DEF T
<1>9. u \in [0..n -> S]
  BY <1>5, <1>7, <1>8
<1> QED BY <1>6, <1>7, <1>9 DEF S

(* One more slot. *)
LEMMA CallablesAppend ==
  ASSUME NEW s \in Seq(Slots), NEW c \in Slots
  PROVE  Callables(Append(s, c)) = IF c # Empty THEN Append(Callables(s), c) ELSE Callables(s)
<1> DEFINE n == Len(s)
           t == Append(s, c)
<1>1. /\ n \in Nat /\ t \in Seq(Slots) /\ Len(t) = n + 1 /\ t[n + 1] = c
      /\ \A i \in 1..n : t[i] = s[i]
  BY LenProperties, AppendProperties
<1>2. PICK u \in [0..n -> Seq(Callbacks)] :
        /\ u[0] = <<>>
        /\ \A i \in 1..n : u[i] = IF s[i] # Empty THEN Append(u[i - 1], s[i]) ELSE u[i - 1]
        /\ Callables(s) = u[n]
  BY CallablesFcn
<1> HIDE DEF t
<1>3. PICK v \in [0..Len(t) -> Seq(Callbacks)] :
        /\ v[0] = <<>>
        /\ \A i \in 1..Len(t) : v[i] = IF t[i] # Empty THEN Append(v[i - 1], t[i]) ELSE v[i - 1]
        /\ Callables(t) = v[Len(t)]
  BY <1>1, CallablesFcn
<1> HIDE DEF n
<1>4. \A i \in 0..n : v[i] = u[i]
  <2> DEFINE T == {i \in Nat : i <= n => v[i] = u[i]}
  <2>1. 0 \in T
    BY <1>2, <1>3
  <2>2. ASSUME NEW i \in Nat, i \in T PROVE i + 1 \in T
    <3> SUFFICES ASSUME i + 1 <= n PROVE v[i + 1] = u[i + 1]
      OBVIOUS
    <3>1. i + 1 \in 1..n /\ i + 1 \in 1..(n + 1) /\ i + 1 - 1 = i /\ v[i] = u[i]
      BY <1>1, <2>2
    <3>2. t[i + 1] = s[i + 1]
      BY <1>1, <3>1
    <3>3. u[i + 1] = IF s[i + 1] # Empty THEN Append(u[i], s[i + 1]) ELSE u[i]
      BY <1>2, <3>1
    <3>4. v[i + 1] = IF t[i + 1] # Empty THEN Append(v[i], t[i + 1]) ELSE v[i]
      BY <1>1, <1>3, <3>1
    <3> QED BY ONLY <3>1, <3>2, <3>3, <3>4
  <2> HIDE DEF T
  <2>3. \A i \in Nat : i \in T
    BY <2>1, <2>2, NumberInduction
  <2>4. \A i \in 0..n : i \in Nat /\ i <= n
    BY <1>1
  <2> QED BY <2>3, <2>4 DEF T
<1>5. n + 1 \in 1..(n + 1) /\ n + 1 - 1 = n /\ n \in 0..n
  BY <1>1
<1>6. v[n] = u[n]
  BY <1>4, <1>5
<1>7. v[n + 1] = IF c # Empty THEN Append(v[n], c) ELSE v[n]
  <2>1. v[n + 1] = IF t[n + 1] # Empty THEN Append(v[n + 1 - 1], t[n + 1]) ELSE v[n + 1 - 1]
    <3>1. n + 1 \in 1..Len(t) /\ n \in Nat
      BY <1>1, <1>5
    <3> QED BY ONLY <1>3, <3>1
  <2>2. t[n + 1] = c
    BY <1>1
  <2> QED BY ONLY <1>5, <2>1, <2>2
<1> QED BY <1>1, <1>2, <1>3, <1>6, <1>7 DEF t

(* An empty slot less. *)
LEMMA CallablesWithout ==
  ASSUME NEW s \in Seq(Slots), NEW p \in 1..Len(s), s[p] = Empty
  PROVE  Callables(Without(s, p)) = Callables(s)
<1> DEFINE n == Len(s)
           t == Without(s, p)
<1>1. /\ n \in Nat /\ p \in 1..n /\ t \in Seq(Slots) /\ Len(t) = n - 1
      /\ \A i \in 1..(n - 1) : t[i] = IF i < p THEN s[i] ELSE s[i + 1]
  BY LenProperties, WithoutType
<1>2. PICK u \in [0..n -> Seq(Callbacks)] :
        /\ u[0] = <<>>
        /\ \A i \in 1..n : u[i] = IF s[i] # Empty THEN Append(u[i - 1], s[i]) ELSE u[i - 1]
        /\ Callables(s) = u[n]
  BY CallablesFcn
<1> HIDE DEF t
<1>3. PICK v \in [0..Len(t) -> Seq(Callbacks)] :
        /\ v[0] = <<>>
        /\ \A i \in 1..Len(t) : v[i] = IF t[i] # Empty THEN Append(v[i - 1], t[i]) ELSE v[i - 1]
        /\ Callables(t) = v[Len(t)]
  BY <1>1, CallablesFcn
<1> HIDE DEF n
<1>4. u[p] = u[p - 1]
  BY <1>1, <1>2
<1>5. \A i \in 0..(n - 1) : v[i] = IF i < p THEN u[i] ELSE u[i + 1]
  <2> DEFINE T == {i \in Nat : i <= n - 1 => v[i] = IF i < p THEN u[i] ELSE u[i + 1]}
  <2>1. 0 \in T
    BY <1>1, <1>2, <1>3
  <2>2. ASSUME NEW i \in Nat, i \in T PROVE i + 1 \in T
    <3> SUFFICES ASSUME i + 1 <= n - 1
                 PROVE  v[i + 1] = IF i + 1 < p THEN u[i + 1] ELSE u[i + 2]
      <4>1. i + 1 + 1 = i + 2
        OBVIOUS
      <4> QED BY <4>1
    <3>1. /\ i + 1 \in 1..(n - 1) /\ i + 1 \in 1..n /\ i + 2 \in 1..n
          /\ i + 1 - 1 = i /\ i + 2 - 1 = i + 1 /\ i + 1 + 1 = i + 2
      BY <1>1
    <3>2. v[i] = IF i < p THEN u[i] ELSE u[i + 1]
      BY <1>1, <2>2
    <3>3. v[i + 1] = IF t[i + 1] # Empty THEN Append(v[i], t[i + 1]) ELSE v[i]
      <4>1. v[i + 1] = IF t[i + 1] # Empty THEN Append(v[i + 1 - 1], t[i + 1])
                       ELSE v[i + 1 - 1]
        <5>1. i + 1 \in 1..Len(t)
          BY <1>1, <3>1
        <5> QED BY ONLY <1>3, <5>1
      <4> QED BY ONLY <3>1, <4>1
    <3>4. t[i + 1] = IF i + 1 < p THEN s[i + 1] ELSE s[i + 2]
      BY <1>1, <3>1
    <3>5. /\ u[i + 1] = IF s[i + 1] # Empty THEN Append(u[i], s[i + 1]) ELSE u[i]
          /\ u[i + 2] = IF s[i + 2] # Empty THEN Append(u[i + 1], s[i + 2]) ELSE u[i + 1]
      BY <1>2, <3>1
    <3>6. CASE i + 1 < p
      <4>1. i < p
        BY <1>1, <3>6
      <4>2. v[i] = u[i] /\ t[i + 1] = s[i + 1]
        BY ONLY <3>2, <3>4, <3>6, <4>1
      <4>3. v[i + 1] = u[i + 1]
        BY ONLY <3>3, <3>5, <4>2
      <4> QED BY ONLY <3>6, <4>3
    <3>7. CASE i + 1 = p
      <4>1. i < p /\ ~(i + 1 < p) /\ u[i + 1] = u[i]
        <5>1. i < p /\ ~(i + 1 < p) /\ p - 1 = i
          BY <1>1, <3>7
        <5> QED BY ONLY <1>4, <3>7, <5>1
      <4>2. v[i] = u[i + 1] /\ t[i + 1] = s[i + 2]
        BY ONLY <3>2, <3>4, <4>1
      <4>3. v[i + 1] = u[i + 2]
        BY ONLY <3>3, <3>5, <4>2
      <4> QED BY ONLY <4>1, <4>3
    <3>8. CASE i + 1 > p
      <4>1. ~(i < p) /\ ~(i + 1 < p)
        BY <1>1, <3>8
      <4>2. v[i] = u[i + 1] /\ t[i + 1] = s[i + 2]
        BY ONLY <3>2, <3>4, <4>1
      <4>3. v[i + 1] = u[i + 2]
        BY ONLY <3>3, <3>5, <4>2
      <4> QED BY ONLY <4>1, <4>3
    <3> QED BY <1>1, <3>6, <3>7, <3>8
  <2> HIDE DEF T
  <2>3. \A i \in Nat : i \in T
    BY <2>1, <2>2, NumberInduction
  <2> QED BY <1>1, <2>3 DEF T
<1>6. n - 1 \in 0..(n - 1) /\ n - 1 + 1 = n
  BY <1>1
<1>7. v[n - 1] = u[n]
  <2>1. CASE p = n
    BY <1>1, <1>4, <1>5, <1>6, <2>1
  <2>2. CASE p < n
    BY <1>1, <1>5, <1>6, <2>2
  <2> QED BY <1>1, <2>1, <2>2
<1> QED BY <1>1, <1>2, <1>3, <1>7 DEF t

(* The slots before the first empty one are callables of the list. *)
LEMMA CallablesBegin ==
  ASSUME NEW s \in Seq(Slots), NEW m \in 0..Len(s), \A k \in 1..m : s[k] # Empty
  PROVE  /\ Callables(s) \in Seq(Callbacks)
         /\ m <= Len(Callables(s)) /\ Len(Callables(s)) <= Len(s)
         /\ \A k \in 1..m : Callables(s)[k] = s[k]
<1> DEFINE n == Len(s)
<1>1. n \in Nat /\ m \in Nat /\ m <= n /\ \A i \in 1..n : s[i] # Empty => s[i] \in Callbacks
  BY LenProperties DEF Slots
<1>2. PICK u \in [0..n -> Seq(Callbacks)] :
        /\ u[0] = <<>>
        /\ \A i \in 1..n : u[i] = IF s[i] # Empty THEN Append(u[i - 1], s[i]) ELSE u[i - 1]
        /\ Callables(s) = u[n]
  BY CallablesFcn
<1> HIDE DEF n
<1> DEFINE Good(i) == /\ Len(u[i]) <= i /\ (i <= m => Len(u[i]) = i) /\ (i >= m => Len(u[i]) >= m)
                      /\ \A k \in 1..m : k <= i => u[i][k] = s[k]
           T == {i \in Nat : i <= n => Good(i)}
<1>3. 0 \in T
  <2>1. Len(u[0]) = 0
    BY <1>2
  <2> QED BY <1>1, <2>1
<1>4. ASSUME NEW i \in Nat, i \in T PROVE i + 1 \in T
  <2> SUFFICES ASSUME i + 1 <= n PROVE Good(i + 1)
    OBVIOUS
  <2>1. /\ i + 1 \in 1..n /\ i + 1 - 1 = i /\ i \in 0..n /\ i + 1 \in 0..n
        /\ u[i] \in Seq(Callbacks) /\ Len(u[i]) \in Nat
    BY <1>1, <1>2, LenProperties
  <2>2. Good(i)
    <3>1. i <= n
      BY <1>1
    <3> HIDE DEF Good
    <3> QED BY <1>4, <3>1
  <2>3. CASE s[i + 1] = Empty
    <3>1. u[i + 1] = u[i] /\ i >= m
      <4>1. u[i + 1] = u[i]
        BY <1>2, <2>1, <2>3
      <4>2. ~(i + 1 \in 1..m)
        BY <2>3
      <4> QED BY <1>1, <4>1, <4>2
    <3> QED BY <1>1, <2>1, <2>2, <3>1
  <2>4. CASE s[i + 1] # Empty
    <3>1. /\ Len(u[i + 1]) = Len(u[i]) + 1 /\ u[i + 1][Len(u[i]) + 1] = s[i + 1]
          /\ \A k \in 1..Len(u[i]) : u[i + 1][k] = u[i][k]
      <4>1. u[i + 1] = Append(u[i], s[i + 1]) /\ s[i + 1] \in Callbacks
        <5>1. u[i + 1] = IF s[i + 1] # Empty THEN Append(u[i + 1 - 1], s[i + 1])
                         ELSE u[i + 1 - 1]
          BY <1>2, <2>1
        <5>2. s[i + 1] \in Callbacks
          BY <1>1, <2>1, <2>4
        <5>3. i + 1 - 1 = i
          BY <2>1
        <5> QED BY ONLY <2>4, <5>1, <5>2, <5>3
      <4> QED BY <2>1, <4>1, AppendProperties
    <3>2. ASSUME NEW k \in 1..m, k <= i + 1 PROVE u[i + 1][k] = s[k]
      <4>1. CASE k = i + 1
        <5>1. Len(u[i]) = i
          BY <1>1, <2>2, <3>2, <4>1
        <5> QED BY <3>1, <4>1, <5>1
      <4>2. CASE k <= i
        <5>1. k \in 1..Len(u[i])
          BY <1>1, <2>1, <2>2, <4>2
        <5> QED BY <2>2, <3>1, <4>2, <5>1
      <4> QED BY <3>2, <4>1, <4>2
    <3>3. /\ Len(u[i + 1]) <= i + 1 /\ (i + 1 <= m => Len(u[i + 1]) = i + 1)
          /\ (i + 1 >= m => Len(u[i + 1]) >= m)
      BY <1>1, <2>1, <2>2, <3>1
    <3> QED BY <3>2, <3>3
  <2> QED BY <2>3, <2>4
<1> HIDE DEF T
<1>5. \A i \in Nat : i \in T
  BY <1>3, <1>4, NumberInduction
<1>6. Good(n)
  BY <1>1, <1>5 DEF T
<1>7. n \in 0..n /\ \A k \in 1..m : k <= n
  BY <1>1
<1> QED BY <1>1, <1>2, <1>6, <1>7 DEF n

(* The invariant is inductive. *)
THEOREM Invariance == Spec => []Inv
<1>1. Init => Inv
  BY InitInv
<1>2. Inv /\ [Next]_vars => Inv'
  <2> SUFFICES ASSUME Inv, [Next]_vars PROVE Inv'
    OBVIOUS
  <2>1. ASSUME NEW c \in Slots, PushBack(c) PROVE Inv'
    BY <2>1, PushBackInv
  <2>2. CASE BeginCall
    BY <2>2, BeginCallInv
  <2>3. CASE Erase
    BY <2>3, EraseInv
  <2>4. CASE Invoke
    BY <2>4, InvokeInv
  <2>5. CASE ReturnTrue
    BY <2>5, ReturnTrueInv
  <2>6. CASE ReturnFalse
    BY <2>6, LeaveInv DEF ReturnFalse, UserRuns
  <2>7. CASE EndCall
    BY <2>7, LeaveInv DEF EndCall, LoopRuns
  <2>8. CASE UNCHANGED vars
    BY <2>8 DEF vars, Inv, TypeOK, Suspended, CalledPrefix, HasCalled, WildAtTop,
       GrowthInvalidates, GrowthIsReentrant, Top
  <2> QED BY <2>1, <2>2, <2>3, <2>4, <2>5, <2>6, <2>7, <2>8 DEF Next
<1> QED BY <1>1, <1>2, PTL DEF Spec

(* Type correctness of functions_, its capacity and the activations of
   call(). *)
THEOREM TypeCorrect == Spec => []TypeOK
<1>1. Inv => TypeOK
  BY DEF Inv
<1> QED BY <1>1, Invariance, PTL

(* call() invokes the callbacks in list order, each once, with none left out
   up to its iterator, at every depth of nesting (signal.hpp:27-40). *)
THEOREM CallsAPrefix == Spec => []CalledPrefix
<1>1. Inv => CalledPrefix
  BY DEF Inv
<1> QED BY <1>1, Invariance, PTL

(* An iterator of call() is only ever invalidated by a reallocation, never by
   the erase of a nested call (signal.hpp:38 and 48). *)
THEOREM ErasesAreHarmless == Spec => []OnlyGrowthInvalidates
<1>1. Inv => OnlyGrowthInvalidates
  <2> SUFFICES ASSUME Inv PROVE OnlyGrowthInvalidates
    OBVIOUS
  <2>1. stack # <<>> => Len(stack) \in 1..Len(stack)
    BY EmptySeq, LenProperties DEF Inv, TypeOK
  <2> QED BY <2>1 DEF Inv, OnlyGrowthInvalidates, WildAtTop, GrowthInvalidates, Top
<1> QED BY <1>1, Invariance, PTL

(* A signal whose callbacks do not register on it while it calls them never
   uses an invalid iterator (signal.hpp:36). *)
THEOREM CallsAreDefined == ASSUME ~Reentrant PROVE Spec => []NoDanglingIterator
<1>1. Inv => NoDanglingIterator
  <2> SUFFICES ASSUME Inv, wild PROVE FALSE
    BY DEF NoDanglingIterator
  <2>1. stack # <<>> /\ ~Top.valid
    BY DEF Inv, WildAtTop
  <2>2. Len(stack) \in 1..Len(stack)
    BY <2>1, EmptySeq, LenProperties DEF Inv, TypeOK
  <2>3. Top.grown
    BY <2>1, <2>2 DEF Inv, GrowthInvalidates, Top
  <2> QED BY <2>2, <2>3 DEF Inv, GrowthIsReentrant, Top
<1> QED BY <1>1, Invariance, PTL

-----------------------------------------------------------------------------
(* Callbacks are called in order.  What an activation has called and what   *)
(* was registered when it began are compared with a third list, that of the *)
(* callables there are now: it begins with both (Kept for the second).      *)

Kept == \A i \in 1..Len(stack) : Prefix(Callables(stack[i].atStart), Callables(functions))

LastInOrder ==
  /\ InOrder(last.called, last.atStart)
  /\ last.result => Prefix(Callables(last.atStart), last.called)

LEMMA PrefixMeans ==
  ASSUME NEW S, NEW s \in Seq(S), NEW t \in Seq(S)
  PROVE  Prefix(s, t) <=> Len(s) <= Len(t) /\ \A k \in 1..Len(s) : s[k] = t[k]
<1>1. Len(s) \in Nat /\ Len(t) \in Nat
  BY LenProperties
<1>2. ASSUME Len(s) <= Len(t)
      PROVE  /\ SubSeq(t, 1, Len(s)) \in Seq(S)
             /\ Len(SubSeq(t, 1, Len(s))) = Len(s)
             /\ \A k \in 1..Len(s) : SubSeq(t, 1, Len(s))[k] = t[k]
  <2> DEFINE m == Len(s)
             x == SubSeq(t, 1, m)
  <2>1. /\ x \in Seq(S) /\ Len(x) = IF 1 <= m THEN m - 1 + 1 ELSE 0
        /\ \A k \in 1..(m - 1 + 1) : x[k] = t[1 + k - 1]
    <3>1. \A k \in 1..m : t[k] \in S
      BY <1>1, <1>2
    <3> HIDE DEF m
    <3> QED BY <1>1, <1>2, <3>1, SubSeqProperties DEF m
  <2> HIDE DEF m, x
  <2>2. m \in Nat
    BY <1>1 DEF m
  <2>3. Len(x) = m
    BY <2>1, <2>2
  <2>4. ASSUME NEW k \in 1..m PROVE x[k] = t[k]
    <3>1. k \in 1..(m - 1 + 1) /\ 1 + k - 1 = k
      BY <2>2
    <3> QED BY <2>1, <3>1
  <2> QED BY <2>1, <2>3, <2>4 DEF m, x
<1>3. ASSUME Prefix(s, t) PROVE Len(s) <= Len(t) /\ \A k \in 1..Len(s) : s[k] = t[k]
  <2> DEFINE x == SubSeq(t, 1, Len(s))
  <2>1. Len(s) <= Len(t) /\ s = x
    BY <1>3 DEF Prefix
  <2>2. \A k \in 1..Len(s) : x[k] = t[k]
    BY <1>2, <2>1
  <2> HIDE DEF x
  <2> QED BY <2>1, <2>2
<1>4. ASSUME Len(s) <= Len(t), \A k \in 1..Len(s) : s[k] = t[k] PROVE Prefix(s, t)
  <2> DEFINE x == SubSeq(t, 1, Len(s))
  <2>1. x \in Seq(S) /\ Len(x) = Len(s) /\ \A k \in 1..Len(s) : x[k] = s[k]
    BY <1>2, <1>4
  <2> HIDE DEF x
  <2>2. s = x
    BY <1>1, <2>1
  <2> QED BY <1>4, <2>2 DEF Prefix, x
<1> QED BY <1>3, <1>4

LEMMA CallablesType == ASSUME NEW s \in Seq(Slots) PROVE Callables(s) \in Seq(Callbacks)
<1>1. 0 \in 0..Len(s) /\ \A k \in 1..0 : s[k] # Empty
  BY LenProperties
<1> QED BY <1>1, CallablesBegin

(* An activation has called a beginning of the callables there are. *)
LEMMA CalledBegins ==
  ASSUME TypeOK, NEW f \in Frame, HasCalled(f, functions)
  PROVE  Prefix(f.called, Callables(functions))
<1> DEFINE m == Len(f.called)
<1>1. /\ functions \in Seq(Slots) /\ f.called \in Seq(Callbacks) /\ m \in Nat
      /\ Len(functions) \in Nat
  BY LenProperties DEF TypeOK, Frame
<1>2. /\ m \in 0..Len(functions)
      /\ \A k \in 1..m : f.called[k] = functions[k] /\ functions[k] # Empty
  <2>1. m <= Len(functions) /\ \A k \in 1..m : f.called[k] = functions[k]
    BY DEF HasCalled
  <2>2. \A k \in 1..m : f.called[k] \in Callbacks
    BY <1>1
  <2> QED BY <1>1, <2>1, <2>2
<1>3. /\ Callables(functions) \in Seq(Callbacks) /\ m <= Len(Callables(functions))
      /\ \A k \in 1..m : Callables(functions)[k] = functions[k]
  BY <1>1, <1>2, CallablesBegin
<1> QED BY <1>1, <1>2, <1>3, PrefixMeans

(* Two beginnings of a list are beginnings of each other. *)
LEMMA PrefixesCompare ==
  ASSUME NEW S, NEW r \in Seq(S), NEW s \in Seq(S), NEW t \in Seq(S),
         Prefix(r, t), Prefix(s, t)
  PROVE  Prefix(r, s) \/ Prefix(s, r)
<1>1. Len(r) \in Nat /\ Len(s) \in Nat
  BY LenProperties
<1>2. \A k \in 1..Len(r) : r[k] = t[k]
  BY PrefixMeans
<1>3. \A k \in 1..Len(s) : s[k] = t[k]
  BY PrefixMeans
<1>4. CASE Len(r) <= Len(s)
  <2>1. \A k \in 1..Len(r) : k \in 1..Len(s) /\ r[k] = s[k]
    BY <1>1, <1>2, <1>3, <1>4
  <2> QED BY <1>4, <2>1, PrefixMeans
<1>5. CASE Len(s) <= Len(r)
  <2>1. \A k \in 1..Len(s) : k \in 1..Len(r) /\ s[k] = r[k]
    BY <1>1, <1>2, <1>3, <1>5
  <2> QED BY <1>5, <2>1, PrefixMeans
<1> QED BY <1>1, <1>4, <1>5

LEMMA PrefixLonger ==
  ASSUME NEW S, NEW r \in Seq(S), NEW s \in Seq(S), NEW t \in Seq(S),
         Prefix(r, s), Prefix(s, t)
  PROVE  Prefix(r, t)
<1>1. Len(r) \in Nat /\ Len(s) \in Nat /\ Len(t) \in Nat
  BY LenProperties
<1>2. Len(r) <= Len(s) /\ \A k \in 1..Len(r) : r[k] = s[k]
  BY PrefixMeans
<1>3. Len(s) <= Len(t) /\ \A k \in 1..Len(s) : s[k] = t[k]
  BY PrefixMeans
<1>4. Len(r) <= Len(t) /\ \A k \in 1..Len(r) : r[k] = t[k]
  BY <1>1, <1>2, <1>3
<1> QED BY <1>4, PrefixMeans

LEMMA PrefixSame == ASSUME NEW S, NEW s \in Seq(S) PROVE Prefix(s, s)
<1>1. Len(s) \in Nat
  BY LenProperties
<1> QED BY <1>1, PrefixMeans

(* Registration keeps the beginning. *)
LEMMA PrefixAppend ==
  ASSUME NEW s \in Seq(Slots), NEW c \in Slots
  PROVE  Prefix(Callables(s), Callables(Append(s, c)))
<1>1. Callables(s) \in Seq(Callbacks)
  BY CallablesType
<1>2. CASE c = Empty
  BY <1>1, <1>2, CallablesAppend, PrefixSame
<1>3. CASE c # Empty
  <2> DEFINE u == Callables(s)
             v == Append(u, c)
  <2>1. c \in Callbacks /\ Callables(Append(s, c)) = v
    BY <1>3, CallablesAppend DEF Slots
  <2>2. /\ Len(u) \in Nat /\ v \in Seq(Callbacks) /\ Len(v) = Len(u) + 1
        /\ \A k \in 1..Len(u) : v[k] = u[k]
    BY <1>1, <2>1, AppendProperties, LenProperties
  <2> HIDE DEF u, v
  <2>3. Prefix(u, v)
    BY <1>1, <2>2, PrefixMeans DEF u
  <2> QED BY <2>1, <2>3 DEF u
<1> QED BY <1>2, <1>3

(* What an activation that ends leaves behind is in order. *)
LEMMA FrameInOrder ==
  ASSUME Inv, Kept, NEW i \in 1..Len(stack)
  PROVE  InOrder(stack[i].called, stack[i].atStart)
<1>1. stack[i] \in Frame /\ functions \in Seq(Slots)
  BY DEF Inv, TypeOK
<1>2. stack[i].called \in Seq(Callbacks) /\ stack[i].atStart \in Seq(Slots)
  BY <1>1 DEF Frame
<1>3. Prefix(stack[i].called, Callables(functions))
  BY <1>1, CalledBegins DEF Inv, CalledPrefix
<1>4. Prefix(Callables(stack[i].atStart), Callables(functions))
  BY DEF Kept
<1>5. Callables(stack[i].atStart) \in Seq(Callbacks) /\ Callables(functions) \in Seq(Callbacks)
  BY <1>1, <1>2, CallablesType
<1> QED BY <1>2, <1>3, <1>4, <1>5, PrefixesCompare DEF InOrder

(* Activations of which only the other fields change. *)
LEMMA KeptByFrames ==
  ASSUME Kept, functions' = functions, Len(stack') <= Len(stack), Len(stack') \in Nat,
         Len(stack) \in Nat,
         \A i \in 1..Len(stack') : stack'[i].atStart = stack[i].atStart
  PROVE  Kept'
<1>1. \A i \in 1..Len(stack') : i \in 1..Len(stack)
  OBVIOUS
<1> QED BY <1>1 DEF Kept

LEMMA KeptByTop ==
  ASSUME Inv, Kept, functions' = functions, stack # <<>>,
         NEW f \in Frame, f.atStart = Top.atStart, stack' = WithTop(f)
  PROVE  Kept'
<1>1. /\ stack \in Seq(Frame) /\ Len(stack) \in Nat \ {0}
      /\ Top = stack[Len(stack)]
  BY EmptySeq, LenProperties DEF Inv, TypeOK, Top
<1>2. /\ Len(stack') = Len(stack)
      /\ \A i \in 1..Len(stack) : stack'[i] = IF i = Len(stack) THEN f ELSE stack[i]
  BY <1>1, WithTopType
<1>3. \A i \in 1..Len(stack) : stack'[i].atStart = stack[i].atStart
  BY <1>1, <1>2
<1> QED BY <1>1, <1>2, <1>3, KeptByFrames

LEMMA KeptByPushBack == ASSUME Inv, Kept, NEW c \in Slots, PushBack(c) PROVE Kept'
<1>1. functions \in Seq(Slots) /\ stack \in Seq(Frame) /\ Len(stack) \in Nat
  BY LenProperties DEF Inv, TypeOK
<1>2. /\ Len(stack') = Len(stack)
      /\ \A i \in 1..Len(stack) : stack'[i].atStart = stack[i].atStart
  <2>1. CASE UNCHANGED stack
    BY <2>1
  <2>2. CASE stack' = [i \in 1..Len(stack) |-> Invalidated(stack[i])]
    <3>1. \A i \in 1..Len(stack) : stack[i] \in Frame
      BY <1>1
    <3>2. \A i \in 1..Len(stack) : Invalidated(stack[i]).atStart = stack[i].atStart
      BY <3>1 DEF Invalidated, Frame
    <3> QED BY <1>1, <2>2, <3>2
  <2> QED BY <2>1, <2>2 DEF PushBack
<1>3. functions' = Append(functions, c) /\ functions' \in Seq(Slots)
  BY <1>1, AppendProperties DEF PushBack
<1>4. Prefix(Callables(functions), Callables(functions'))
  BY <1>1, <1>3, PrefixAppend
<1> SUFFICES ASSUME NEW i \in 1..Len(stack)
             PROVE  Prefix(Callables(stack[i].atStart), Callables(functions'))
  BY <1>2 DEF Kept
<1>5. stack[i].atStart \in Seq(Slots)
  <2>1. stack[i] \in Frame
    BY <1>1
  <2> QED BY <2>1 DEF Frame
<1>6. Prefix(Callables(stack[i].atStart), Callables(functions))
  BY DEF Kept
<1>7. /\ Callables(stack[i].atStart) \in Seq(Callbacks)
      /\ Callables(functions) \in Seq(Callbacks) /\ Callables(functions') \in Seq(Callbacks)
  BY <1>1, <1>3, <1>5, CallablesType
<1> QED BY <1>4, <1>6, <1>7, PrefixLonger

LEMMA KeptByBeginCall == ASSUME Inv, Kept, BeginCall PROVE Kept'
<1>1. /\ functions \in Seq(Slots) /\ stack \in Seq(Frame) /\ Len(stack) \in Nat
      /\ functions' = functions
  BY LenProperties DEF Inv, TypeOK, BeginCall
<1>2. Prefix(Callables(functions), Callables(functions))
  BY <1>1, CallablesType, PrefixSame
<1>3. NewFrame \in Frame /\ NewFrame.atStart = functions
  BY <1>1 DEF NewFrame, Frame
<1>4. CASE stack = <<>> /\ stack' = <<NewFrame>>
  <2>1. Len(stack') = 1 /\ stack'[1] = NewFrame
    BY <1>4
  <2> QED BY <1>1, <1>2, <1>3, <2>1 DEF Kept
<1>5. CASE stack # <<>> /\ stack' = Append(WithTop(NestingOf(Top)), NewFrame)
  <2>1. /\ Len(stack) \in Nat \ {0} /\ Top \in Frame /\ Top = stack[Len(stack)]
    BY <1>1, <1>5, EmptySeq, LenProperties DEF Top
  <2>2. NestingOf(Top) \in Frame /\ NestingOf(Top).atStart = Top.atStart
    <3>1. NestingOf(Top) \in Frame
      BY <2>1, NestingType
    <3>2. NestingOf(Top).atStart = Top.atStart
      BY <2>1 DEF NestingOf, Frame
    <3> QED BY <3>1, <3>2
  <2>3. /\ WithTop(NestingOf(Top)) \in Seq(Frame)
        /\ Len(WithTop(NestingOf(Top))) = Len(stack)
        /\ \A i \in 1..Len(stack) :
             WithTop(NestingOf(Top))[i] = IF i = Len(stack) THEN NestingOf(Top) ELSE stack[i]
    BY <1>1, <1>5, <2>2, WithTopType
  <2>4. /\ Len(stack') = Len(stack) + 1 /\ stack'[Len(stack) + 1] = NewFrame
        /\ \A i \in 1..Len(stack) :
             stack'[i] = IF i = Len(stack) THEN NestingOf(Top) ELSE stack[i]
    BY <1>3, <1>5, <2>3, AppendProperties
  <2>5. \A i \in 1..Len(stack) : stack'[i].atStart = stack[i].atStart
    BY <2>1, <2>2, <2>4
  <2>6. \A i \in 1..Len(stack') : i = Len(stack) + 1 \/ i \in 1..Len(stack)
    BY <2>1, <2>4
  <2> QED BY <1>1, <1>2, <1>3, <2>4, <2>5, <2>6 DEF Kept
<1> QED BY <1>4, <1>5 DEF BeginCall, NestingOf

LEMMA KeptByErase == ASSUME Inv, Kept, Erase PROVE Kept'
<1>1. /\ functions \in Seq(Slots) /\ stack \in Seq(Frame) /\ Len(stack) \in Nat
      /\ Len(functions) \in Nat
  BY LenProperties DEF Inv, TypeOK
<1>2. \A i \in 1..Len(stack) : stack[i] \in Frame
  BY <1>1
<1>3. Top.it \in 1..Len(functions)
  <2>1. Len(stack) \in 1..Len(stack)
    BY <1>1, EmptySeq DEF Erase, LoopRuns
  <2>2. Top.it \in Nat \ {0}
    BY <1>2, <2>1 DEF Top, Frame
  <2> QED BY <1>1, <2>2 DEF Erase
<1>4. Callables(functions') = Callables(functions)
  BY <1>1, <1>3, CallablesWithout DEF Erase
<1>5. /\ Len(stack') = Len(stack)
      /\ \A i \in 1..Len(stack) : stack'[i].atStart = stack[i].atStart
  <2>1. \A i \in 1..Len(stack) : [stack[i] EXCEPT !.valid = FALSE].atStart = stack[i].atStart
    BY <1>2 DEF Frame
  <2> QED BY <1>1, <2>1 DEF Erase
<1> QED BY <1>4, <1>5 DEF Kept

LEMMA KeptByInvoke == ASSUME Inv, Kept, Invoke PROVE Kept'
<1> DEFINE t == InvokingOf(Top, functions[Top.it])
<1>1. stack # <<>> /\ functions' = functions /\ stack' = WithTop(t)
  BY DEF Invoke, LoopRuns, InvokingOf
<1>2. Top \in Frame
  BY <1>1, EmptySeq, LenProperties DEF Inv, TypeOK, Top
<1>3. functions[Top.it] \in Callbacks
  <2>1. functions \in Seq(Slots) /\ Top.it \in Nat \ {0} /\ Top.it <= Len(functions)
    BY <1>2 DEF Inv, TypeOK, Frame, Invoke
  <2>2. Top.it \in 1..Len(functions)
    BY <2>1, LenProperties
  <2> QED BY <2>1, <2>2 DEF Invoke, Slots
<1>4. t \in Frame
  BY <1>2, <1>3, InvokingType
<1>5. t.atStart = Top.atStart
  BY <1>2 DEF InvokingOf, Frame
<1> HIDE DEF t
<1> QED BY <1>1, <1>4, <1>5, KeptByTop

LEMMA KeptByReturnTrue == ASSUME Inv, Kept, ReturnTrue PROVE Kept'
<1>1. stack # <<>> /\ Top.running /\ functions' = functions
  BY DEF ReturnTrue, UserRuns
<1>2. Top \in Frame
  BY <1>1, EmptySeq, LenProperties DEF Inv, TypeOK, Top
<1>3. CASE stack' = WithTop(ReturnedOf(Top))
  <2>1. ReturnedOf(Top) \in Frame
    BY <1>1, <1>2, ReturnedType
  <2>2. ReturnedOf(Top).atStart = Top.atStart
    BY <1>2 DEF ReturnedOf, Frame
  <2> QED BY <1>1, <1>3, <2>1, <2>2, KeptByTop
<1>4. CASE UNCHANGED stack
  BY <1>1, <1>4 DEF Kept
<1> QED BY <1>3, <1>4 DEF ReturnTrue, ReturnedOf

(* call() returns; at the end of the list it has called all of it. *)
LEMMA KeptByLeave ==
  ASSUME Inv, Kept, stack # <<>>, NEW r \in BOOLEAN, Leave(r), functions' = functions,
         r => Done(Top) >= Len(functions)
  PROVE  Kept' /\ LastInOrder'
<1>1. /\ stack \in Seq(Frame) /\ Len(stack) \in Nat \ {0} /\ Top \in Frame
      /\ Len(stack) \in 1..Len(stack) /\ Top = stack[Len(stack)]
  BY EmptySeq, LenProperties DEF Inv, TypeOK, Top
<1>2. /\ Len(stack') = Len(stack) - 1
      /\ \A i \in 1..(Len(stack) - 1) : stack'[i] = stack[i]
  BY <1>1, PoppedType DEF Leave
<1>3. Kept'
  BY <1>1, <1>2, KeptByFrames
<1>4. last'.called = Top.called /\ last'.atStart = Top.atStart /\ last'.result = r
  BY DEF Leave
<1>5. InOrder(Top.called, Top.atStart)
  BY <1>1, FrameInOrder
<1>6. ASSUME r PROVE Prefix(Callables(Top.atStart), Top.called)
  <2>1. /\ functions \in Seq(Slots) /\ Top.called \in Seq(Callbacks)
        /\ Top.atStart \in Seq(Slots) /\ Len(functions) \in Nat
    BY <1>1, LenProperties DEF Inv, TypeOK, Frame
  <2>2. HasCalled(Top, functions) /\ Prefix(Callables(Top.atStart), Callables(functions))
    BY <1>1 DEF Inv, CalledPrefix, Kept
  <2>3. Len(Top.called) = Len(functions)
    <3>1. Done(Top) \in Nat
      BY <1>1, DoneType
    <3> QED BY <1>6, <2>1, <2>2, <3>1 DEF HasCalled
  <2>4. Callables(functions) \in Seq(Callbacks) /\ Len(Callables(functions)) <= Len(functions)
    <3>1. 0 \in 0..Len(functions) /\ \A k \in 1..0 : functions[k] # Empty
      BY <2>1
    <3> QED BY <2>1, <3>1, CallablesBegin
  <2>5. Prefix(Top.called, Callables(functions))
    BY <1>1, <2>2, CalledBegins DEF Inv
  <2>6. Prefix(Callables(functions), Top.called)
    <3>1. /\ Len(Top.called) <= Len(Callables(functions))
          /\ \A k \in 1..Len(Top.called) : Top.called[k] = Callables(functions)[k]
      BY <2>1, <2>4, <2>5, PrefixMeans
    <3>2. Len(Callables(functions)) = Len(Top.called)
      BY <2>1, <2>3, <2>4, <3>1, LenProperties
    <3> QED BY <2>1, <2>4, <3>1, <3>2, PrefixMeans
  <2>7. Callables(Top.atStart) \in Seq(Callbacks)
    BY <2>1, CallablesType
  <2> QED BY <2>1, <2>2, <2>4, <2>6, <2>7, PrefixLonger
<1>7. LastInOrder'
  BY <1>4, <1>5, <1>6 DEF LastInOrder, InOrder
<1> QED BY <1>3, <1>7

(* README.md line 19: a call() that completes has called every callback that
   was registered when it began, in order, and one that was stopped or is
   under way a beginning of them, or all and then some added meanwhile
   (signal.hpp:24-43). *)
THEOREM CallsInOrder == Spec => []CalledInOrder
<1>1. Init => Kept /\ LastInOrder
  <2> SUFFICES ASSUME Init PROVE Kept /\ LastInOrder
    OBVIOUS
  <2>1. Len(stack) = 0 /\ last.called = <<>> /\ last.atStart = <<>>
    BY DEF Init
  <2>2. <<>> \in Seq(Slots) /\ Len(<<>>) = 0
    OBVIOUS
  <2>3. Callables(<<>>) \in Seq(Callbacks) /\ Len(Callables(<<>>)) <= 0
    <3>1. 0 \in 0..Len(<<>>) /\ \A k \in 1..0 : <<>>[k] # Empty
      BY <2>2
    <3> QED BY <2>2, <3>1, CallablesBegin
  <2>4. Callables(<<>>) = <<>>
    BY <2>3, EmptySeq, LenProperties
  <2>5. Prefix(<<>>, <<>>)
    <3>1. <<>> \in Seq(Callbacks)
      OBVIOUS
    <3> QED BY <3>1, PrefixSame
  <2> QED BY <2>1, <2>4, <2>5 DEF Kept, LastInOrder, InOrder
<1>2. Inv /\ Kept /\ LastInOrder /\ [Next]_vars => Kept' /\ LastInOrder'
  <2> SUFFICES ASSUME Inv, Kept, LastInOrder, [Next]_vars PROVE Kept' /\ LastInOrder'
    OBVIOUS
  <2>0. UNCHANGED last => LastInOrder'
    BY DEF LastInOrder, InOrder
  <2>1. ASSUME NEW c \in Slots, PushBack(c) PROVE Kept' /\ LastInOrder'
    BY <2>0, <2>1, KeptByPushBack DEF PushBack
  <2>2. CASE BeginCall
    BY <2>0, <2>2, KeptByBeginCall DEF BeginCall
  <2>3. CASE Erase
    BY <2>0, <2>3, KeptByErase DEF Erase
  <2>4. CASE Invoke
    BY <2>0, <2>4, KeptByInvoke DEF Invoke
  <2>5. CASE ReturnTrue
    BY <2>0, <2>5, KeptByReturnTrue DEF ReturnTrue
  <2>6. CASE ReturnFalse
    <3>1. stack # <<>> /\ Leave(FALSE) /\ functions' = functions
      BY <2>6 DEF ReturnFalse
    <3> QED BY <3>1, KeptByLeave
  <2>7. CASE EndCall
    <3>1. stack # <<>> /\ Leave(TRUE) /\ functions' = functions
      BY <2>7 DEF EndCall, LoopRuns
    <3>2. Top \in Frame
      BY <3>1, EmptySeq, LenProperties DEF Inv, TypeOK, Top
    <3>3. Done(Top) >= Len(functions)
      <4>1. Top.it > Len(functions) /\ ~Top.running /\ Top.it \in Nat
        BY <2>7, <3>2 DEF EndCall, LoopRuns, Frame
      <4>2. Len(functions) \in Nat
        BY LenProperties DEF Inv, TypeOK
      <4> QED BY <4>1, <4>2 DEF Done
    <3> QED BY <3>1, <3>3, KeptByLeave
  <2>8. CASE UNCHANGED vars
    BY <2>0, <2>8 DEF vars, Kept
  <2> QED BY <2>1, <2>2, <2>3, <2>4, <2>5, <2>6, <2>7, <2>8 DEF Next
<1>3. Inv /\ Kept /\ LastInOrder => CalledInOrder
  BY FrameInOrder DEF CalledInOrder, LastInOrder
<1> QED BY <1>1, <1>2, <1>3, Invariance, PTL DEF Spec
=============================================================================
