------------------------------ MODULE MCSignal ------------------------------
(* Signal with two callbacks.                                               *)
EXTENDS Signal

CONSTANTS c1, c2
=============================================================================
