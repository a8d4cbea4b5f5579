----------------------------- MODULE HookContract -----------------------------
(***************************************************************************)
(* What rakhook::hooker takes for granted of a hook implementation         *)
(* (include/RakHook/rakhook.hpp:28-45): a hook object is made for a        *)
(* target, a successful install() makes the target reach the object's      *)
(* detour, a successful uninstall() undoes that, a failure changes         *)
(* nothing, and none of it touches another target or another detour.  The  *)
(* destructor and uninitialize() report nothing: each detour they should   *)
(* undo may stay.  After an uninitialize() with hooks left alive there is  *)
(* no contract: those hooks answer for entries that are not theirs.        *)
(***************************************************************************)
CONSTANTS Objects, Targets, TargetOf, AdapterOf, Nothing

VARIABLES
  made,           \* objects that exist
  reached         \* the detour each target reaches, or Nothing

vars == <<made, reached>>

Init == made = {} /\ reached = [t \in Targets |-> Nothing]

Reaches(t, d) == reached' = [reached EXCEPT ![t] = d]

Make(o) ==
  /\ o \notin made
  /\ made' = made \cup {o}
  /\ UNCHANGED reached

Install(o) ==
  /\ o \in made
  /\ reached[TargetOf[o]] = Nothing
  /\ Reaches(TargetOf[o], AdapterOf[o])
  /\ UNCHANGED made

Uninstall(o) ==
  /\ o \in made
  /\ reached[TargetOf[o]] = AdapterOf[o]
  /\ Reaches(TargetOf[o], Nothing)
  /\ UNCHANGED made

Drop(o) ==
  /\ o \in made
  /\ made' = made \ {o}
  /\ \/ UNCHANGED reached
     \/ reached[TargetOf[o]] = AdapterOf[o] /\ Reaches(TargetOf[o], Nothing)

Shutdown ==
  /\ \E undone \in SUBSET Targets :
       reached' = [t \in Targets |-> IF t \in undone THEN Nothing ELSE reached[t]]
  /\ UNCHANGED made

Next ==
  \/ \E o \in Objects : Make(o) \/ Install(o) \/ Uninstall(o) \/ Drop(o)
  \/ Shutdown
=============================================================================
