---------------------------- MODULE MCRpcPacket ----------------------------
(* RpcPacket with shorts of four bits and longs of eight, and one or two    *)
(* values of every kind, chosen for the branches of their encoding.         *)
EXTENDS RpcPacket

Byte(n) == Bits(n, 8)
AVector(l, a, b, c) == [kind |-> "vector", length |-> l, x |-> a, y |-> b, z |-> c]

MCItems ==
  {[kind |-> "bool", v |-> Yes],
   [kind |-> "word", v |-> Byte(165)],
   [kind |-> "player", address |-> Byte(129), port |-> Bits(9, 4)],
   [kind |-> "delta", v |-> Byte(77), last |-> Byte(77)],
   [kind |-> "delta", v |-> Byte(77), last |-> Byte(3)],
   [kind |-> "compressed", v |-> Byte(9) \o Byte(0)],
   [kind |-> "compressed", v |-> Byte(144) \o Byte(0)],
   [kind |-> "compressed", v |-> Byte(2) \o Byte(128)],
   [kind |-> "compressedDelta", v |-> Byte(5), last |-> Byte(6)],
   [kind |-> "float", n |-> -2], [kind |-> "double", n |-> 3],
   [kind |-> "normVector", x |-> 0, y |-> -3, z |-> -4],
   [kind |-> "normVector", x |-> -4, y |-> 0, z |-> 3],
   AVector(Byte(0), 0, 0, 0), AVector(Byte(65), 3, -4, 0),
   [kind |-> "normQuat", w |-> 0, x |-> -3, y |-> 0, z |-> 4]}

MCReplacements ==
  {[kind |-> "bool", v |-> Yes], [kind |-> "compressed", v |-> Byte(144) \o Byte(0)]}

MCIds == {Byte(61), Byte(0)}
=============================================================================
