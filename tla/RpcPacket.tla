----------------------------- MODULE RpcPacket -----------------------------
(***************************************************************************)
(* The way of an RPC's bits: someone writes typed values into a BitStream, *)
(* the RPC is encoded in a packet, by the server or by emul_rpc, and       *)
(* hooker::handle_rpc_packet (rakhook.hpp:223-281) takes it apart for the  *)
(* callbacks and puts it together again for the original, which may be the *)
(* detour of another hooker.  In the end the game's handler reads it.      *)
(*                                                                         *)
(* A packet is a sequence of bits, a whole number of bytes.  Bytes of a    *)
(* stream are written where BitStream.tla says they are.                   *)
(***************************************************************************)
EXTENDS TypedStream

CONSTANTS
  Items,          \* values that are written, see Encode
  Replacements,   \* those of them callbacks write
  Ids,            \* RPC numbers, bytes
  CountBytes,     \* bytes of the length, an unsigned int (4)
  MaxItems,       \* bound: values in one RPC
  MaxReads,       \* bound: reads of one reader
  MaxPasses       \* bound: detours on the way

(* Integers and their like are whole bytes, and numbers between -1 and 1    *)
(* are Grid-ths.  The vectors and the quaternions that have to be           *)
(* normalized are.                                                          *)
Words(n) == {w \in Seq(BIT) : Len(w) = n}
Integer == {w \in Seq(BIT) : Len(w) > 0 /\ Len(w) % 8 = 0}
Fractions == -Grid..Grid
NormVectors ==
  {i \in [kind : {"normVector"}, x : Fractions, y : Fractions, z : Fractions] :
     i.x * i.x + i.y * i.y + i.z * i.z = Grid * Grid}
NormQuats ==
  {i \in [kind : {"normQuat"}, w : Fractions, x : Fractions, y : Fractions, z : Fractions] :
     i.w * i.w + i.x * i.x + i.y * i.y + i.z * i.z = Grid * Grid}
Item ==
  [kind : {"bool"}, v : {Yes, No}] \cup [kind : {"word", "compressed"}, v : Integer]
  \cup [kind : {"player"}, address : Words(Long), port : Words(Short)]
  \cup [kind : {"delta", "compressedDelta"}, v : Integer, last : Integer]
  \cup [kind : {"float"}, n : Fractions] \cup [kind : {"double"}, n : Fractions \ {Grid}]
  \cup NormVectors \cup NormQuats
  \cup [kind : {"vector"}, length : Words(Long), x : Fractions, y : Fractions, z : Fractions]

ASSUME CountAssumption == CountBytes \in Nat \ {0} /\ Long % 8 = 0
ASSUME ItemsAssumption == Replacements \subseteq Items /\ Items \subseteq Item
ASSUME IdsAssumption == Ids \subseteq Words(8)
ASSUME BoundAssumption == MaxItems \in Nat \ {0} /\ MaxReads \in Nat /\ MaxPasses \in Nat

(* The bits of an RPC and what may stand around them can be counted by an   *)
(* int: in the code 2^31 of them, 256 megabytes.                            *)
Wide == 8 * CountBytes
Countable(longest) ==
  /\ \A item \in Items : Len(Encode(item)) <= longest
  /\ Long + 9 * CountBytes + MaxItems * longest + 64 < 2^(Wide - 1)
ASSUME LengthAssumption == \E longest \in 0..2^Wide : Countable(longest)

Rounded(n) == 8 * ((n + 7) \div 8)
Padded(b) == b \o Repeat(0, Rounded(Len(b)) - Len(b))

(* unsigned int, the lowest byte first. *)
CountWord(n) ==
  [i \in 1..8 * CountBytes |->
     (n \div 2^(8 * ((i - 1) \div 8) + 7 - ((i - 1) % 8))) % 2]

VARIABLES
  items,          \* the values written, as the next reader expects them
  payload,        \* the bits they make, and those a reader is to see
  id,
  packet,         \* the bits of data, length bytes of them, or those of them
                  \* that are kept while callbacks run
  passes,         \* detours behind
  who,            \* who is at work: the sender, HandleRPCPacket, a callback,
                  \* or the game's handler; nobody after the end, and what
                  \* nobody can tell after a read past the packet's
  stream, at,     \* the bits of the reader's BitStream, and its readOffset
  reads           \* what it has read so far, kind and outcome

vars == <<items, payload, id, packet, passes, who, stream, at, reads>>

Init ==
  /\ items = <<>> /\ payload = <<>>
  /\ id \in Ids
  /\ packet = <<>> /\ passes = 0
  /\ who = "sender"
  /\ stream = <<>> /\ at = 0 /\ reads = <<>>

-----------------------------------------------------------------------------
(* The packet: ID_RPC, or ID_TIMESTAMP, a time and ID_RPC, then the number  *)
(* of the RPC, its length in bits, and the bits.                            *)

Plain == Repeat(0, 8)
Stamp == Repeat(1, 8)
Header(b) == IF SubSeq(b, 1, 8) = Stamp THEN 8 + Long + 8 ELSE 8
Rpc(header, number, bits) ==
  header \o number \o Compressed(CountWord(Len(bits))) \o bits

(* The length a word claims, and what an int makes of a sum.                *)
Claim(word) == CHOOSE n \in 0..2^Wide - 1 : CountWord(n) = word
AsInt(n) == LET m == n % 2^Wide IN IF m < 2^(Wide - 1) THEN m ELSE m - 2^Wide

(* What handle_rpc_packet reads of one (lines 232-258).  The length becomes *)
(* an int, and ReadBits adds it to readOffset in ints (BitStream.cpp:462-   *)
(* 479): a sum that is too large comes round and passes for one that is     *)
(* not.                                                                     *)
Parse(b) ==
  LET number == Take(b, Header(b), 8)
      count == ReadCompressed(b, number.at, CountBytes)
      bits == IF count.ok THEN Claim(count.v) ELSE 0
      Taken == bits = 0 \/ (0 < AsInt(bits) /\ AsInt(count.at + bits) <= Len(b))
  IN  [ok |-> number.ok /\ count.ok /\ Taken, number |-> number.v,
       from |-> count.at, bits |-> bits]
IsThere(b, p) == p.ok /\ p.from + p.bits <= Len(b)

(* callback_bs: ReadBits(input, bits, false) takes the last byte whole when *)
(* it needs two bytes of the packet for it, else what the one holds of it.  *)
(* Mutant of Received: of the last byte only the first bit is copied.       *)
ReceivedTruncated(b, p) ==
  [i \in 1..Rounded(p.bits) |->
     IF i <= p.bits - ((p.bits - 1) % 8) THEN b[p.from + i] ELSE 0]

Received(b, p) ==
  LET last == p.bits - 8 * (p.bits \div 8)
      held == 8 - (p.from % 8)
  IN  [i \in 1..Rounded(p.bits) |->
         IF i <= p.bits \/ last > held \/ i <= p.bits - last + held
         THEN b[p.from + i] ELSE 0]

Nobody == stream' = <<>> /\ at' = 0 /\ reads' = <<>>
Over == who' = "nobody" /\ Nobody
Refuses(p) == who' = (IF p.ok THEN "undefined" ELSE "nobody") /\ Nobody

(* The sender's typed writes.                                               *)
Write(item) ==
  /\ who = "sender"
  /\ Len(items) < MaxItems
  /\ items' = Append(items, item)
  /\ payload' = payload \o Encode(item)
  /\ UNCHANGED <<id, packet, passes, who, stream, at, reads>>

(* The server (external): it may send a time, the packet may hold more than *)
(* the RPC, or end before it.                                               *)
ServerSends(stamped, trailing) ==
  /\ who = "sender"
  /\ LET header == IF stamped THEN Stamp \o Repeat(0, Long) \o Plain ELSE Plain
         whole == Padded(Rpc(header, id, payload)) \o trailing
     IN  \E bytes \in {1, 2} \cup Len(whole) \div 8 - 1..Len(whole) \div 8 :
           packet' = SubSeq(whole, 1, 8 * bytes)
  /\ who' = "HandleRPCPacket"
  /\ UNCHANGED <<items, payload, id, passes, stream, at, reads>>

(* hooker::emul_rpc: the stream's bytes, the last one whole.  The original  *)
(* is called with the packet.                                               *)
emul_rpc ==
  /\ who = "sender"
  /\ packet' = Padded(Rpc(Plain, id, Padded(payload)))
  /\ who' = "HandleRPCPacket"
  /\ UNCHANGED <<items, payload, id, passes, stream, at, reads>>

-----------------------------------------------------------------------------
(* handle_rpc_packet up to the callbacks: an RPC that cannot be parsed is   *)
(* swallowed, of one that claims more than there is ReadBits takes what is  *)
(* behind the packet, the callbacks see the others.  Of incoming only the   *)
(* bits up to offset are used again (line 272).                             *)
handle_rpc_packet ==
  /\ who = "HandleRPCPacket"
  /\ passes < MaxPasses
  /\ LET p == Parse(packet) IN
       IF IsThere(packet, p)
       THEN /\ who' = "callback"
            /\ id' = p.number
            /\ stream' = Received(packet, p)
            /\ at' = 0 /\ reads' = <<>>
            /\ packet' = SubSeq(packet, 1, Header(packet))
       ELSE Refuses(p) /\ UNCHANGED <<id, packet>>
  /\ UNCHANGED <<items, payload, passes>>

(* A reader follows the items it expects; once, it may read anything.       *)
Expected(k) == k <= Len(items) /\ reads[k].kind = items[k].kind
OldOf(k) == IF k <= Len(items) /\ "last" \in DOMAIN items[k] THEN items[k].last ELSE Yes
BytesOf(k) ==
  IF k <= Len(items) /\ "v" \in DOMAIN items[k] /\ items[k].kind # "bool"
  THEN Len(items[k].v) \div 8 ELSE 1

Reading == who \in {"callback", "game"}

Read(kind) ==
  /\ Reading
  /\ Len(reads) < MaxReads
  /\ \A k \in 1..Len(reads) : Expected(k) /\ reads[k].ok
  /\ LET next == Len(reads) + 1 IN
       \E r \in Decode(kind, stream, at, OldOf(next), BytesOf(next)) :
         /\ at' = r.at
         /\ reads' = Append(reads, [kind |-> kind, ok |-> r.ok, v |-> r.v])
  /\ UNCHANGED <<items, payload, id, packet, passes, who, stream>>

(* A callback's Reset and Write, as the example does it, and Write alone;   *)
(* what is added to a last byte that was not full comes after a gap, and no *)
(* values are expected then.                                                *)
(* Mutant of CallbackRewrites: Reset leaves readOffset as it is.            *)
CallbackRewritesOnly(item) ==
  /\ who = "callback"
  /\ items' = <<item>>
  /\ stream' = Encode(item)
  /\ payload' = Encode(item)
  /\ reads' = <<>>
  /\ UNCHANGED <<id, packet, passes, who, at>>

CallbackRewrites(item) ==
  /\ who = "callback"
  /\ items' = <<item>>
  /\ stream' = Encode(item)
  /\ payload' = Encode(item)
  /\ at' = 0 /\ reads' = <<>>
  /\ UNCHANGED <<id, packet, passes, who>>

CallbackAdds(item) ==
  /\ who = "callback"
  /\ Len(items) < MaxItems /\ (items = <<>> => payload = <<>>)
  /\ items' = IF stream = payload THEN Append(items, item) ELSE <<>>
  /\ stream' = stream \o Encode(item)
  /\ payload' = stream \o Encode(item)
  /\ reads' = <<>> /\ at' = 0
  /\ UNCHANGED <<id, packet, passes, who>>

CallbackRefuses ==
  /\ who = "callback"
  /\ Over
  /\ UNCHANGED <<items, payload, id, packet, passes>>

(* Lines 272-280: the RPC is written over the old one, in whole bytes and   *)
(* with the number the callbacks left, and the original is called.          *)
(* Mutant of CallbackApproves: the length is given in bytes.                *)
CallbackApprovesBytes(number) ==
  /\ who = "callback"
  /\ id' = number
  /\ packet' = Padded(packet \o number
                       \o Compressed(CountWord(Len(stream) \div 8)) \o Padded(stream))
  /\ passes' = passes + 1
  /\ who' = "HandleRPCPacket"
  /\ Nobody
  /\ UNCHANGED <<items, payload>>

CallbackApproves(number) ==
  /\ who = "callback"
  /\ id' = number
  /\ packet' = Padded(Rpc(packet, number, Padded(stream)))
  /\ passes' = passes + 1
  /\ who' = "HandleRPCPacket"
  /\ Nobody
  /\ UNCHANGED <<items, payload>>

(* The original HandleRPCPacket (external): the handler gets the bits.      *)
OriginalHandles ==
  /\ who = "HandleRPCPacket"
  /\ LET p == Parse(packet) IN
       IF IsThere(packet, p)
       THEN /\ who' = "game"
            /\ stream' = SubSeq(packet, p.from + 1, p.from + p.bits)
            /\ at' = 0 /\ reads' = <<>>
            /\ id' = p.number
       ELSE Refuses(p) /\ UNCHANGED id
  /\ UNCHANGED <<items, payload, packet, passes>>

Next ==
  \/ \E item \in Items : Write(item)
  \/ \E stamped \in BOOLEAN, trailing \in {<<>>, Repeat(1, 8)} : ServerSends(stamped, trailing)
  \/ emul_rpc
  \/ handle_rpc_packet
  \/ \E kind \in Kinds : Read(kind)
  \/ \E item \in Replacements : CallbackRewrites(item) \/ CallbackAdds(item)
  \/ CallbackRefuses
  \/ \E number \in Ids : CallbackApproves(number)
  \/ OriginalHandles

Spec == Init /\ [][Next]_vars

-----------------------------------------------------------------------------
TypeOK ==
  /\ items \in Seq(Items) /\ Len(items) <= MaxItems
  /\ payload \in Seq(BIT) /\ id \in Ids
  /\ packet \in Seq(BIT) /\ Len(packet) % 8 = 0
  /\ passes \in 0..MaxPasses
  /\ who \in {"sender", "HandleRPCPacket", "callback", "game", "nobody"}
  /\ stream \in Seq(BIT) /\ at \in 0..Len(stream)
  /\ Len(reads) <= MaxReads

(* Callbacks and the game see the bits that were written last, all of them  *)
(* and fewer than eight more, after any number of detours, behind a time or *)
(* not, whatever else is in the packet; an RPC that lacks some of its bits  *)
(* reaches nobody, no reader passes the end, and the sum by which ReadBits  *)
(* sees the end never comes round (lines 232-258, 272-280).                 *)
SeesWhatWasWritten ==
  /\ TypeOK
  /\ Reading => /\ Len(payload) <= Len(stream) /\ Len(stream) < Len(payload) + 8
                /\ \A i \in 1..Len(payload) : stream[i] = payload[i]

(* What handle_rpc_packet passes on can be parsed: it has the number and as *)
(* many bits as the callbacks left, in whole bytes (lines 272-280).         *)
PassedOnInOrder ==
  who = "HandleRPCPacket" /\ passes > 0 =>
    LET p == Parse(packet)
    IN  p.ok /\ p.number = id /\ p.bits = Rounded(Len(payload))

(* Whoever reads the values in the order they were written gets them: whole *)
(* numbers and flags as they were, deltas as the writer meant them, floats  *)
(* as accurate as their steps in the stream.  The number that is not in the *)
(* stream, x of a vector and w of a quaternion, comes back with its sign,   *)
(* and its square as accurate as the squares it is made of: the root itself *)
(* may be less accurate, and of a vector's square there may be none         *)
(* (BitStream.h:839-956, 1109-1214).                                        *)
Near(word, n) == Magnitude((2 * Number(word) - Steps) * Grid - n * Steps) <= 2 * Grid
NearFraction(word, n) == Magnitude(Number(word) * Grid - Magnitude(n) * Steps) <= Grid
NearOrZero(word, n) == IF n = 0 THEN word = No ELSE Near(word, n)
NearDouble(word, n) == Magnitude((2 * Number(word) - 2^Long) * Grid - n * 2^Long) <= 2 * Grid
NearSquare(part, n, off) ==
  Magnitude(part[1] * Grid * Grid - n * n * Steps * Steps) <= off * Grid * Grid * Steps
IsValue(v, item) ==
  CASE item.kind \in {"bool", "word", "compressed", "delta", "compressedDelta"} -> v = <<item.v>>
    [] item.kind = "player" -> v = <<item.address, item.port>>
    [] item.kind = "float" -> Near(v[1], item.n)
    [] item.kind = "double" -> NearDouble(v[1], item.n)
    [] item.kind = "normVector" ->
         /\ v[1] = Sign(item.x) /\ NearOrZero(v[2], item.y) /\ NearOrZero(v[3], item.z)
         /\ NearSquare(v[4], item.x, 8)
    [] item.kind = "vector" ->
         /\ v[1] = item.length
         /\ item.length # Repeat(0, Long) =>
              Near(v[2], item.x) /\ Near(v[3], item.y) /\ Near(v[4], item.z)
    [] item.kind = "normQuat" ->
         /\ SubSeq(v, 1, 4) = <<Sign(item.w), Sign(item.x), Sign(item.y), Sign(item.z)>>
         /\ NearFraction(v[5], item.x) /\ NearFraction(v[6], item.y) /\ NearFraction(v[7], item.z)
         /\ NearSquare(v[8], item.w, 6)
ReadsGiveWhatWasWritten ==
  \A k \in 1..Len(reads) : Expected(k) => reads[k].ok /\ IsValue(reads[k].v, items[k])

(* A read that returns true has read every part of its value, also when the *)
(* stream ends in the middle: the last part of the value is checked and is  *)
(* not shorter than those before it (BitStream.h:1149-1214, 880-889).       *)
(* Two kinds drop results and do not: PlayerID's (872) and ReadNormVector's *)
(* (1114-1127).                                                             *)
IsWhole(k) == reads[k].ok => \A j \in 1..Len(reads[k].v) : reads[k].v[j] # Unset
ShortReadsAreRefused ==
  \A k \in 1..Len(reads) : reads[k].kind \notin {"player", "normVector"} => IsWhole(k)
=============================================================================
