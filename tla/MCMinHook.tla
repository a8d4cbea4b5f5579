------------------------------ MODULE MCMinHook ------------------------------
(* Four hook objects: two of types of their own on two targets, one of a    *)
(* third type on the first target, and one of the first type on the second. *)
EXTENDS MinHook

CONSTANTS h1, h2, h3, h4, t1, t2, a1, a2, a3

MCTargetOf == [o \in Objects |-> IF o \in {h2, h4} THEN t2 ELSE t1]
MCAdapterOf == [o \in Objects |-> CASE o \in {h1, h4} -> a1 [] o = h2 -> a2 [] o = h3 -> a3]
=============================================================================
