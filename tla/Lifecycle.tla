------------------------------ MODULE Lifecycle ------------------------------
(***************************************************************************)
(* What rakhook::hooker promises about being attached to a client: it is   *)
(* attached to one client at a time, learns a peer and a player only while *)
(* attached, always both together, and forgets the peer when it detaches.  *)
(* Contract: include/RakHook/rakhook.hpp:28-48 and README.md "Events".     *)
(***************************************************************************)
CONSTANTS Clients, NoClient, Players, NoPlayer

VARIABLES attached, peer, player

vars == <<attached, peer, player>>

Init ==
  /\ attached = NoClient
  /\ peer = NoClient
  /\ player = NoPlayer

Attach(c) ==
  /\ attached = NoClient
  /\ attached' = c
  /\ UNCHANGED <<peer, player>>

Learn(c, p) ==
  /\ attached # NoClient
  /\ peer' = c
  /\ player' = p
  /\ UNCHANGED attached

Detach ==
  /\ attached # NoClient
  /\ attached' = NoClient
  /\ peer' = NoClient
  /\ UNCHANGED player

Next ==
  \/ \E c \in Clients : Attach(c)
  \/ \E c \in Clients, p \in Players : Learn(c, p)
  \/ Detach

Spec == Init /\ [][Next]_vars
=============================================================================
