--------------------------- MODULE MCCircularList ---------------------------
EXTENDS CircularList

(* The lowest free node.  Nodes are only compared for being the same, so    *)
(* which of the free ones new returns makes no difference.                  *)
MCFresh(used) == {a \in Addrs \ used : \A b \in Addrs \ used : a <= b}
=============================================================================
