------------------------------ MODULE MCHooker ------------------------------
(* Hooker with one built-in version, one version users may add, and small   *)
(* numbers of clients, packets and nested calls.                            *)
EXTENDS Hooker

CONSTANTS r1, dl, o1, o2

MCBuiltin == [e \in EntryPoints |-> IF e = r1 THEN o1 ELSE NoOffsets]
=============================================================================
