------------------------------ MODULE MCArrays ------------------------------
(***************************************************************************)
(* Either two queues or two lists: `container' says which.  They share the *)
(* constants and the variables of Arrays, not their calls.                 *)
(***************************************************************************)
EXTENDS Arrays, TLC

VARIABLE container

Queue == INSTANCE ArrayQueue
List == INSTANCE ArrayList

IsQueue == container = "queue"
IsList == container = "list"

ArraysInit ==
  \/ container = "queue" /\ Queue!Init
  \/ container = "list" /\ List!Init

NextQueue == IsQueue /\ Queue!Next
NextList == IsList /\ List!Next
ArraysNext == (NextQueue \/ NextList) /\ UNCHANGED container

ArraysSpec == ArraysInit /\ [][ArraysNext]_<<array_vars, container>>

(* The objects are interchangeable.                                         *)
Symmetry == Permutations(Objects)

(* The types of Queue's and List's fields (DS_Queue.h, DS_List.h).          *)
ArraysTypeOK == (IsQueue => Queue!TypeOK) /\ (IsList => List!TypeOK)

(* Heads, tails and sizes stay in the arrays, and a call is undefined only  *)
(* for the causes that the modules name (DS_Queue.h:113-143, 226-235, 343-  *)
(* 346; DS_List.h:126-134).                                                 *)
FaultHasCause == ArraysTypeOK /\ (IsQueue => Queue!FaultHasCause) /\ (IsList => List!FaultHasCause)

(* A call loses no array but the object's own, and that only when it is an  *)
(* assignment to an object with a small array, or the object has an array  *)
(* it does not count on (DS_Queue.h:90-94, 116-124, 182-190, 251-280,      *)
(* DS_List.h:118-123, 150-179).  It gives no other object new fields.      *)
LossIsExcused(o) == Lost(o) = 0 \/ (Lost(o) = 1 /\ MayLose(o))
EachIsExcused ==
  \A o \in Objects : IF o = subject' THEN LossIsExcused(o) ELSE objects'[o] = objects[o]
LossHasCause == [][EachIsExcused]_array_vars

Store == INSTANCE SequenceStore WITH
  alive <- Alive,
  contents <- [o \in Objects |-> IF IsQueue THEN Queue!Contents(objects[o])
                                            ELSE List!Contents(objects[o])]

(* Queues and lists are sequences, seen from outside (DS_Queue.h, DS_List.h *)
(* as a whole).                                                             *)
ImplementsSequenceStore == Store!Spec
=============================================================================
