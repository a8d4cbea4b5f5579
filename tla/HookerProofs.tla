---------------------------- MODULE HookerProofs ----------------------------
(***************************************************************************)
(* Theorems about rakhook::hooker for any number of clients, players,      *)
(* packets, versions and activations.                                      *)
(*                                                                         *)
(* Inv holds whatever the user and the game do.  Safe adds what holds when *)
(* destroy() is called outside the detours or from on_receive_packet,      *)
(* SA:MP keeps its client and the user leaves versions.update() alone      *)
(* while attached.  The core of it is CallbacksLive: an activation whose   *)
(* detour has yet to call its original keeps the hooks installed.          *)
(*                                                                         *)
(* At the end, theorems about the minhook wrapper, for any number of hook  *)
(* objects, with any call of the library failing and the library           *)
(* uninitialized at any time.  What an object knows and promises ends with *)
(* an uninitialize() it outlives, since that removes the hooks of every    *)
(* user.  The originals need one object of each hook type at a time, since *)
(* two share one static trampoline.                                        *)
(***************************************************************************)
EXTENDS Hooker, MinHook, SequenceTheorems, FiniteSetTheorems, FunctionTheorems, TLAPS

USE VersionAssumption, HookerAssumption

(* receive_hooked has a packet once its callbacks run. *)
PacketInHand ==
  \A i \in 1..Len(stack) :
    stack[i].kind = "receive" /\ stack[i].phase = "callbacks"
      => stack[i].packet \in PacketIds

Inv == /\ TypeOK
       /\ AllOrNothing
       /\ PeerKnown
       /\ PacketInHand

-----------------------------------------------------------------------------
(* Stack facts: the running activation is the last.                        *)

(* The top of a stack that is not empty. *)
LEMMA TopType ==
  ASSUME NEW S, NEW s \in Seq(S), s # <<>>
  PROVE  /\ Len(s) \in Nat \ {0}
         /\ Len(s) \in 1..Len(s)
         /\ s[Len(s)] \in S
         /\ \A i \in 1..Len(s) : s[i] \in S
<1>1. Len(s) \in Nat \ {0}
  BY EmptySeq, LenProperties
<1> QED BY <1>1

(* Leaving the top activation keeps the others as they are. *)
LEMMA PopType ==
  ASSUME NEW S, NEW s \in Seq(S), s # <<>>
  PROVE  /\ SubSeq(s, 1, Len(s) - 1) \in Seq(S)
         /\ Len(SubSeq(s, 1, Len(s) - 1)) = Len(s) - 1
         /\ \A i \in 1..(Len(s) - 1) : SubSeq(s, 1, Len(s) - 1)[i] = s[i]
<1> DEFINE t == SubSeq(s, 1, Len(s) - 1)
<1>1. Len(s) \in Nat \ {0} /\ \A i \in 1..(Len(s) - 1) : s[i] \in S
  BY EmptySeq, LenProperties
<1>2. /\ t \in Seq(S)
      /\ Len(t) = IF 1 <= Len(s) - 1 THEN Len(s) - 1 - 1 + 1 ELSE 0
      /\ \A i \in 1..(Len(s) - 1 - 1 + 1) : t[i] = s[1 + i - 1]
  BY <1>1, SubSeqProperties
<1> HIDE DEF t
<1>3. Len(t) = Len(s) - 1
  <2>1. \A n \in Nat \ {0} : (IF 1 <= n - 1 THEN n - 1 - 1 + 1 ELSE 0) = n - 1
    OBVIOUS
  <2> QED BY <1>1, <1>2, <2>1, Zenon
<1>4. ASSUME NEW i \in 1..(Len(s) - 1) PROVE t[i] = s[i]
  <2>1. i \in 1..(Len(s) - 1 - 1 + 1) /\ 1 + i - 1 = i
    BY <1>1
  <2> QED BY <1>2, <2>1
<1> QED BY <1>2, <1>3, <1>4 DEF t

(* Replacing the top activation by another one. *)
LEMMA SetTopType ==
  ASSUME NEW S, NEW s \in Seq(S), s # <<>>, NEW f \in S
  PROVE  /\ [s EXCEPT ![Len(s)] = f] \in Seq(S)
         /\ Len([s EXCEPT ![Len(s)] = f]) = Len(s)
         /\ \A i \in 1..Len(s) :
              [s EXCEPT ![Len(s)] = f][i] = IF i = Len(s) THEN f ELSE s[i]
<1>1. Len(s) \in Nat \ {0}
  BY EmptySeq, LenProperties
<1> QED BY <1>1

(* One more activation on top. *)
LEMMA PushType ==
  ASSUME NEW S, NEW s \in Seq(S), NEW f \in S
  PROVE  /\ Append(s, f) \in Seq(S)
         /\ Len(Append(s, f)) = Len(s) + 1
         /\ \A i \in 1..(Len(s) + 1) :
              Append(s, f)[i] = IF i = Len(s) + 1 THEN f ELSE s[i]
<1>1. Len(s) \in Nat
  BY LenProperties
<1>2. /\ Append(s, f) \in Seq(S) /\ Len(Append(s, f)) = Len(s) + 1
      /\ \A i \in 1..Len(s) : Append(s, f)[i] = s[i]
      /\ Append(s, f)[Len(s) + 1] = f
  BY AppendProperties
<1> QED BY <1>1, <1>2

LEMMA TopFrame ==
  ASSUME TypeOK, stack # <<>>
  PROVE  /\ Len(stack) \in Nat \ {0} /\ Len(stack) \in 1..Len(stack)
         /\ Top \in Frame /\ Top = stack[Len(stack)]
BY TopType DEF TypeOK, Top

LEMMA PoppedFrames ==
  ASSUME TypeOK, PacketInHand, stack # <<>>, stack' = Popped
  PROVE  stack' \in Seq(Frame) /\ PacketInHand'
<1>1. /\ stack' \in Seq(Frame) /\ Len(stack') = Len(stack) - 1
      /\ \A i \in 1..(Len(stack) - 1) : stack'[i] = stack[i]
  BY PopType DEF TypeOK, Popped
<1>2. Len(stack) \in Nat \ {0}
  BY TopFrame
<1> QED BY <1>1, <1>2 DEF PacketInHand

LEMMA ReplacedFrames ==
  ASSUME TypeOK, PacketInHand, stack # <<>>, NEW f \in Frame, stack' = WithTop(f),
         f.kind = "receive" /\ f.phase = "callbacks" => f.packet \in PacketIds
  PROVE  stack' \in Seq(Frame) /\ PacketInHand'
<1>1. /\ stack' \in Seq(Frame) /\ Len(stack') = Len(stack)
      /\ \A i \in 1..Len(stack) : stack'[i] = IF i = Len(stack) THEN f ELSE stack[i]
  BY SetTopType DEF TypeOK, WithTop
<1> QED BY <1>1 DEF PacketInHand

LEMMA PushedFrames ==
  ASSUME TypeOK, PacketInHand, NEW f \in Frame, stack' = Append(stack, f),
         f.kind = "receive" => f.phase = "original"
  PROVE  stack' \in Seq(Frame) /\ PacketInHand'
<1>1. /\ stack' \in Seq(Frame) /\ Len(stack') = Len(stack) + 1 /\ Len(stack) \in Nat
      /\ \A i \in 1..(Len(stack) + 1) :
           stack'[i] = IF i = Len(stack) + 1 THEN f ELSE stack[i]
  BY PushType, LenProperties DEF TypeOK
<1>2. \A i \in 1..Len(stack') : i = Len(stack) + 1 \/ i \in 1..Len(stack)
  BY <1>1
<1> QED BY <1>1, <1>2 DEF PacketInHand

(* A call: the caller's frame, if there is one, only counts it. *)
NestingOf(f) == [f EXCEPT !.nested = @ + 1]
LEMMA NestingType ==
  ASSUME NEW f \in Frame
  PROVE  /\ NestingOf(f) \in Frame
         /\ NestingOf(f).kind = f.kind /\ NestingOf(f).phase = f.phase
         /\ NestingOf(f).live = f.live /\ NestingOf(f).packet = f.packet
<1>1. f.nested + 1 \in Nat
  BY DEF Frame
<1> QED BY <1>1 DEF NestingOf, Frame

LEMMA CallingFrames ==
  ASSUME TypeOK, NEW f \in Frame, Calling(f)
  PROVE  /\ stack' \in Seq(Frame) /\ Len(stack') = Len(stack) + 1 /\ Len(stack) \in Nat
         /\ stack'[Len(stack) + 1] = f
         /\ \A i \in 1..Len(stack) :
              /\ stack'[i].kind = stack[i].kind /\ stack'[i].phase = stack[i].phase
              /\ stack'[i].live = stack[i].live /\ stack'[i].packet = stack[i].packet
<1>0. Len(stack) \in Nat
  BY LenProperties DEF TypeOK
<1>1. CASE stack = <<>>
  <2>1. stack' = Append(stack, f)
    BY <1>1 DEF Calling
  <2>2. /\ stack' \in Seq(Frame) /\ Len(stack') = Len(stack) + 1
        /\ \A i \in 1..(Len(stack) + 1) :
             stack'[i] = IF i = Len(stack) + 1 THEN f ELSE stack[i]
    BY <2>1, PushType DEF TypeOK
  <2> QED BY <1>0, <2>2
<1>2. CASE stack # <<>>
  <2> DEFINE s == WithTop(NestingOf(Top))
  <2>1. stack' = Append(s, f)
    BY <1>2 DEF Calling, NestingOf
  <2>2. Top \in Frame /\ Top = stack[Len(stack)] /\ NestingOf(Top) \in Frame
    BY <1>2, TopFrame, NestingType
  <2>3. /\ s \in Seq(Frame) /\ Len(s) = Len(stack)
        /\ \A i \in 1..Len(stack) : s[i] = IF i = Len(stack) THEN NestingOf(Top) ELSE stack[i]
    BY <1>2, <2>2, SetTopType DEF TypeOK, WithTop
  <2> HIDE DEF s
  <2>4. /\ stack' \in Seq(Frame) /\ Len(stack') = Len(s) + 1
        /\ \A i \in 1..(Len(s) + 1) : stack'[i] = IF i = Len(s) + 1 THEN f ELSE s[i]
    BY <2>1, <2>3, PushType
  <2>5. \A i \in 1..Len(stack) :
          stack'[i] = IF i = Len(stack) THEN NestingOf(Top) ELSE stack[i]
    BY <1>0, <2>3, <2>4
  <2>6. stack'[Len(stack) + 1] = f /\ Len(stack') = Len(stack) + 1
    BY <1>0, <2>3, <2>4
  <2>7. \A i \in 1..Len(stack) :
          /\ stack'[i].kind = stack[i].kind /\ stack'[i].phase = stack[i].phase
          /\ stack'[i].live = stack[i].live /\ stack'[i].packet = stack[i].packet
    BY <2>2, <2>5, NestingType
  <2> QED BY <1>0, <2>4, <2>6, <2>7
<1> QED BY <1>1, <1>2

LEMMA NoPacketType == NoPacket \in 0..MaxPackets
BY DEF NoPacket

LEMMA FramePacket ==
  ASSUME NEW f \in Frame, f.packet # NoPacket
  PROVE  f.packet \in PacketIds
<1>1. f.packet \in 0..MaxPackets
  BY DEF Frame
<1> QED BY <1>1 DEF NoPacket, PacketIds

LEMMA CallingInHand ==
  ASSUME TypeOK, PacketInHand, NEW f \in Frame, Calling(f),
         f.kind = "receive" => f.phase = "original"
  PROVE  stack' \in Seq(Frame) /\ PacketInHand'
<1>1. /\ stack' \in Seq(Frame) /\ Len(stack') = Len(stack) + 1 /\ Len(stack) \in Nat
      /\ stack'[Len(stack) + 1] = f
      /\ \A i \in 1..Len(stack) :
           /\ stack'[i].kind = stack[i].kind /\ stack'[i].phase = stack[i].phase
           /\ stack'[i].packet = stack[i].packet
  BY CallingFrames
<1>2. \A i \in 1..Len(stack') : i = Len(stack) + 1 \/ i \in 1..Len(stack)
  BY <1>1
<1> QED BY <1>1, <1>2 DEF PacketInHand

(* destroy() orphans every activation and touches nothing else of them. *)
LEMMA OrphanedFrames ==
  ASSUME TypeOK, TearDown
  PROVE  /\ stack' \in Seq(Frame) /\ Len(stack') = Len(stack)
         /\ \A i \in 1..Len(stack) :
              /\ stack'[i].kind = stack[i].kind /\ stack'[i].phase = stack[i].phase
              /\ stack'[i].packet = stack[i].packet
<1>1. \A f \in Frame : /\ Orphaned(f) \in Frame /\ Orphaned(f).kind = f.kind
                       /\ Orphaned(f).phase = f.phase /\ Orphaned(f).packet = f.packet
  BY DEF Orphaned, Frame
<1>2. Len(stack) \in Nat /\ \A i \in 1..Len(stack) : stack[i] \in Frame
  BY LenProperties DEF TypeOK
<1>3. stack' = [i \in 1..Len(stack) |-> Orphaned(stack[i])]
  BY DEF TearDown
<1>4. stack' \in Seq(Frame) /\ Len(stack') = Len(stack)
  BY <1>1, <1>2, <1>3
<1>5. \A i \in 1..Len(stack) : stack'[i] = Orphaned(stack[i])
  BY <1>3
<1> QED BY <1>1, <1>2, <1>4, <1>5

-----------------------------------------------------------------------------
(* Every action preserves Inv. *)

LEMMA UpdateType == ASSUME VersionTypeOK, update, UNCHANGED samp PROVE VersionTypeOK'
<1>1. samp # NoEntry => versions_[samp] \in Offsets \cup {NoOffsets}
  BY DEF VersionTypeOK
<1> QED BY <1>1 DEF VersionTypeOK, update, Lookup

LEMMA AddVersionType ==
  ASSUME VersionTypeOK, NEW e \in EntryPoints, NEW o \in Offsets, add_version(e, o),
         UNCHANGED samp
  PROVE  VersionTypeOK'
BY DEF VersionTypeOK, add_version

LEMMA QueueType ==
  ASSUME TypeOK, NEW payload \in Payloads, arrived < MaxPackets, Queue(payload)
  PROVE  arrived' \in 0..MaxPackets /\ inbox' \in Seq(Packet)
<1>1. arrived + 1 \in PacketIds /\ arrived' \in 0..MaxPackets
  BY DEF TypeOK, Queue, PacketIds
<1>2. [id |-> arrived + 1, payload |-> payload] \in Packet
  BY <1>1 DEF Packet
<1> QED BY <1>1, <1>2, AppendProperties DEF TypeOK, Queue

(* The rest of the state of the library and the stack stay as they are. *)
LEMMA HooksUnchanged ==
  ASSUME Inv, TypeOK', UNCHANGED <<hookVars, stack>>
  PROVE  Inv'
BY DEF Inv, AllOrNothing, PeerKnown, PacketInHand, hookVars, AllHooks, NoHooks

LEMMA GameLoadsInv == ASSUME Inv, GameLoads PROVE Inv'
<1>1. TypeOK'
  BY DEF Inv, TypeOK, VersionTypeOK, GameLoads, LoadSamp, versionVars, hookVars, packetVars
<1> QED BY <1>1, HooksUnchanged DEF GameLoads

LEMMA GameStartsInv == ASSUME Inv, GameStarts PROVE Inv'
<1>1. TypeOK'
  BY DEF Inv, TypeOK, VersionTypeOK, GameStarts, versionVars, hookVars, packetVars
<1> QED BY <1>1, HooksUnchanged DEF GameStarts

LEMMA GameConnectsInv == ASSUME Inv, GameConnects PROVE Inv'
<1>1. TypeOK'
  BY DEF Inv, TypeOK, VersionTypeOK, GameConnects, versionVars, hookVars, packetVars
<1> QED BY <1>1, HooksUnchanged DEF GameConnects

LEMMA GameDestroysClientInv == ASSUME Inv, GameDestroysClient PROVE Inv'
<1>1. inbox' \in Seq(Packet) /\ freed' \subseteq PacketIds
  <2>1. \A i \in 1..Len(inbox) : inbox[i] \in Packet
    BY LenProperties DEF Inv, TypeOK
  <2>2. \A i \in 1..Len(inbox) : inbox[i].id \in PacketIds
    BY <2>1 DEF Packet
  <2> QED BY <2>2, EmptySeq DEF Inv, TypeOK, GameDestroysClient
<1>2. TypeOK'
  BY <1>1 DEF Inv, TypeOK, VersionTypeOK, GameDestroysClient, versionVars, hookVars, packetVars
<1> QED BY <1>2, HooksUnchanged DEF GameDestroysClient

LEMMA PacketArrivesInv ==
  ASSUME Inv, NEW payload \in Payloads, PacketArrives(payload) PROVE Inv'
<1>1. arrived' \in 0..MaxPackets /\ inbox' \in Seq(Packet)
  BY QueueType DEF Inv, PacketArrives
<1>2. TypeOK'
  BY <1>1 DEF Inv, TypeOK, VersionTypeOK, PacketArrives, gameVars, versionVars, hookVars
<1> QED BY <1>2, HooksUnchanged DEF PacketArrives

LEMMA GameDeallocatesInv == ASSUME Inv, NEW q \in held, GameDeallocates(q) PROVE Inv'
<1>1. TypeOK'
  BY DEF Inv, TypeOK, VersionTypeOK, GameDeallocates, gameVars, versionVars, hookVars
<1> QED BY <1>1, HooksUnchanged DEF GameDeallocates

LEMMA UserAddsVersionInv ==
  ASSUME Inv, NEW e \in EntryPoints, NEW o \in Offsets, UserAddsVersion(e, o) PROVE Inv'
<1>1. VersionTypeOK'
  BY AddVersionType DEF Inv, TypeOK, UserAddsVersion, gameVars
<1>2. TypeOK'
  BY <1>1 DEF Inv, TypeOK, UserAddsVersion, gameVars, hookVars, packetVars
<1> QED BY <1>2, HooksUnchanged DEF UserAddsVersion

LEMMA UserUpdatesInv == ASSUME Inv, UserUpdates PROVE Inv'
<1>1. VersionTypeOK'
  BY UpdateType DEF Inv, TypeOK, UserUpdates, gameVars
<1>2. TypeOK'
  BY <1>1 DEF Inv, TypeOK, UserUpdates, gameVars, hookVars, packetVars
<1> QED BY <1>2, HooksUnchanged DEF UserUpdates

(* What destroy() does to the invariant, from destroy() and from a failed
   initialize(). *)
LEMMA TearDownInv ==
  ASSUME Inv, TearDown, VersionTypeOK', UNCHANGED <<gameVars, wild, packetVars>>
  PROVE  Inv'
<1>1. /\ stack' \in Seq(Frame) /\ Len(stack') = Len(stack)
      /\ \A i \in 1..Len(stack) :
           /\ stack'[i].kind = stack[i].kind /\ stack'[i].phase = stack[i].phase
           /\ stack'[i].packet = stack[i].packet
  BY OrphanedFrames DEF Inv
<1>2. /\ hooks' = NoHooks /\ ~backend' /\ ~initialized' /\ initialized' \in BOOLEAN
      /\ backend' \in BOOLEAN /\ orig' = NoClient
      /\ rakpeer' = NoClient /\ hookedWith' = NoOffsets /\ gplayerid' = gplayerid
  BY DEF TearDown
<1>3. hooks' \in [Kinds -> {"none", "made", "installed"}]
  BY <1>2 DEF NoHooks
<1>4. TypeOK'
  BY <1>1, <1>2, <1>3 DEF Inv, TypeOK, gameVars, packetVars
<1>5. PacketInHand'
  BY <1>1 DEF Inv, PacketInHand
<1> QED BY <1>2, <1>4, <1>5 DEF Inv, AllOrNothing, PeerKnown

LEMMA DestroyInv == ASSUME Inv, destroy PROVE Inv'
<1>1. VersionTypeOK'
  BY DEF Inv, TypeOK, VersionTypeOK, destroy, gameVars, versionVars
<1> QED BY <1>1, TearDownInv DEF destroy

LEMMA InitializeTooEarlyInv == ASSUME Inv, initializeTooEarly PROVE Inv'
<1>1. VersionTypeOK'
  BY UpdateType DEF Inv, TypeOK, initializeTooEarly, gameVars
<1>2. TypeOK'
  BY <1>1 DEF Inv, TypeOK, initializeTooEarly, gameVars, hookVars, packetVars
<1> QED BY <1>2, HooksUnchanged DEF initializeTooEarly

LEMMA InitializeNoBackendInv == ASSUME Inv, initializeNoBackend PROVE Inv'
<1>1. VersionTypeOK'
  BY UpdateType DEF Inv, TypeOK, initializeNoBackend, gameVars
<1>2. TypeOK'
  BY <1>1 DEF Inv, TypeOK, initializeNoBackend, gameVars, packetVars
<1> QED BY <1>2 DEF Inv, initializeNoBackend, AllOrNothing, PeerKnown, PacketInHand,
     AllHooks, NoHooks

LEMMA InitializeFailsInv == ASSUME Inv, initializeFails PROVE Inv'
<1>1. VersionTypeOK'
  BY UpdateType DEF Inv, TypeOK, initializeFails, gameVars
<1> QED BY <1>1, TearDownInv DEF initializeFails

(* An initialize() that succeeds has installed the four hooks and cached
   the offsets it used. *)
LEMMA AllInstalled == Installed([k \in Kinds |-> TRUE]) = AllHooks
BY DEF Installed, AllHooks

LEMMA InitializeInv == ASSUME Inv, initialize PROVE Inv'
<1>1. VersionTypeOK'
  BY UpdateType DEF Inv, TypeOK, initialize, gameVars
<1>2. /\ hooks' = AllHooks /\ hooks' \in [Kinds -> {"none", "made", "installed"}]
      /\ orig' = client /\ client \in Clients
      /\ hookedWith' \in Offsets \cup {NoOffsets} /\ initialized' = TRUE /\ backend' = TRUE
      /\ UNCHANGED <<rakpeer, gplayerid, stack>> /\ rakpeer = NoClient
  <2>1. hooks' = AllHooks
    BY AllInstalled DEF initialize
  <2>2. AllHooks \in [Kinds -> {"none", "made", "installed"}]
    BY DEF AllHooks
  <2>3. client \in Clients
    BY DEF Inv, TypeOK, initialize, Attachable
  <2>4. rakpeer = NoClient
    BY DEF Inv, TypeOK, PeerKnown, initialize
  <2> QED BY <1>1, <2>1, <2>2, <2>3, <2>4 DEF VersionTypeOK, initialize, get
<1>3. TypeOK'
  BY <1>1, <1>2 DEF Inv, TypeOK, initialize, gameVars, packetVars
<1> QED BY <1>2, <1>3 DEF Inv, AllOrNothing, PeerKnown, PacketInHand

(* The library's state does not change: the stack and the packets do. *)
LEMMA StackChanges ==
  ASSUME Inv, UNCHANGED <<gameVars, versionVars, hookVars>>, wild' \in BOOLEAN,
         stack' \in Seq(Frame), PacketInHand',
         arrived' \in 0..MaxPackets, inbox' \in Seq(Packet),
         held' \subseteq PacketIds, freed' \subseteq PacketIds, vetoed' \subseteq PacketIds
  PROVE  Inv'
<1>1. TypeOK'
  BY DEF Inv, TypeOK, VersionTypeOK, gameVars, versionVars, hookVars
<1> QED BY <1>1 DEF Inv, AllOrNothing, PeerKnown, hookVars, AllHooks, NoHooks

LEMMA GameSendsInv ==
  ASSUME Inv, NEW k \in {"send", "rpc"}, NEW null \in BOOLEAN, GameSends(k, null)
  PROVE  Inv'
<1> DEFINE h == hooks[k] = "installed"
           f == Activation(k, h, IF h /\ ~(k = "rpc" /\ null) THEN "callbacks" ELSE "original",
                           NoPacket)
<1> HIDE DEF h
<1>0. h \in BOOLEAN /\ k \in Kinds /\ NoPacket \in 0..MaxPackets
  BY NoPacketType DEF h, Kinds
<1>1. /\ Activation(k, h, "callbacks", NoPacket) \in Frame
      /\ Activation(k, h, "original", NoPacket) \in Frame
      /\ Activation(k, h, "callbacks", NoPacket).kind = k
      /\ Activation(k, h, "original", NoPacket).kind = k
  BY <1>0 DEF Activation, Frame
<1>2. f \in Frame /\ f.kind # "receive"
  BY <1>1
<1>3. Calling(f)
  BY DEF GameSends, h
<1> HIDE DEF f
<1>4. stack' \in Seq(Frame) /\ PacketInHand'
  BY <1>2, <1>3, CallingInHand DEF Inv
<1> QED BY <1>4, StackChanges DEF GameSends, packetVars, Inv, TypeOK

LEMMA GamePollsInv == ASSUME Inv, GamePolls PROVE Inv'
<1> DEFINE f == Activation("receive", hooks["receive"] = "installed", "original", NoPacket)
<1>1. f \in Frame /\ f.phase = "original"
  <2>1. (hooks["receive"] = "installed") \in BOOLEAN /\ "receive" \in Kinds
    BY DEF Kinds
  <2> QED BY <2>1, NoPacketType DEF Activation, Frame
<1>2. Calling(f)
  BY DEF GamePolls
<1> HIDE DEF f
<1>3. stack' \in Seq(Frame) /\ PacketInHand'
  BY <1>1, <1>2, CallingInHand DEF Inv
<1> QED BY <1>3, StackChanges DEF GamePolls, packetVars, Inv, TypeOK

(* The calls the library makes through a trampoline. *)
LEMMA OriginalCalled ==
  ASSUME Inv, NEW k \in Kinds, Calling(Activation(k, FALSE, "original", NoPacket)),
         UNCHANGED <<gameVars, versionVars, hookVars, wild, packetVars>>
  PROVE  Inv'
<1> DEFINE f == Activation(k, FALSE, "original", NoPacket)
<1>1. f \in Frame /\ f.phase = "original"
  BY NoPacketType DEF Activation, Frame
<1> HIDE DEF f
<1>2. Calling(f)
  BY DEF f
<1>3. stack' \in Seq(Frame) /\ PacketInHand'
  BY <1>1, <1>2, CallingInHand DEF Inv
<1> QED BY <1>3, StackChanges DEF packetVars, Inv, TypeOK

LEMMA UserSendsInv == ASSUME Inv, NEW k \in {"send", "rpc"}, UserSends(k) PROVE Inv'
<1>1. CASE UNCHANGED wild /\ Calling(Activation(k, FALSE, "original", NoPacket))
  BY <1>1, OriginalCalled DEF UserSends, Kinds
<1>2. CASE wild' = TRUE /\ UNCHANGED stack
  BY <1>2, StackChanges DEF UserSends, packetVars, Inv, TypeOK, PacketInHand
<1> QED BY <1>1, <1>2 DEF UserSends

LEMMA EmulRpcInv == ASSUME Inv, emul_rpc PROVE Inv'
<1>1. CASE UNCHANGED wild /\ Calling(Activation("handle_rpc", FALSE, "original", NoPacket))
  BY <1>1, OriginalCalled DEF emul_rpc, Kinds
<1>2. CASE wild' = TRUE /\ UNCHANGED stack
  BY <1>2, StackChanges DEF emul_rpc, packetVars, Inv, TypeOK, PacketInHand
<1> QED BY <1>1, <1>2 DEF emul_rpc

LEMMA EmulPacketInv ==
  ASSUME Inv, NEW payload \in Payloads, emul_packet(payload) PROVE Inv'
<1>1. arrived' \in 0..MaxPackets /\ inbox' \in Seq(Packet) /\ wild' \in BOOLEAN
  <2>1. CASE Queue(payload) /\ UNCHANGED wild
    BY <2>1, QueueType DEF Inv, TypeOK, emul_packet
  <2>2. CASE UNCHANGED <<arrived, inbox>> /\ wild' = TRUE
    BY <2>2 DEF Inv, TypeOK
  <2> QED BY <2>1, <2>2 DEF emul_packet
<1> QED BY <1>1, StackChanges DEF emul_packet, Inv, TypeOK, PacketInHand

LEMMA HeadType ==
  ASSUME TypeOK, inbox # <<>>
  PROVE  /\ Head(inbox).id \in PacketIds /\ Head(inbox).id \in 0..MaxPackets
         /\ Tail(inbox) \in Seq(Packet)
<1>1. Head(inbox) \in Packet /\ Tail(inbox) \in Seq(Packet)
  BY HeadTailProperties DEF TypeOK
<1> QED BY <1>1 DEF Packet, PacketIds

LEMMA ReceiveNothingInv == ASSUME Inv, ReceiveNothing PROVE Inv'
<1>1. stack' \in Seq(Frame) /\ PacketInHand'
  BY PoppedFrames DEF Inv, ReceiveNothing, Polling, InOriginal, Busy
<1> QED BY <1>1, StackChanges DEF ReceiveNothing, packetVars, Inv, TypeOK

(* The frame of a hooked Receive whose callbacks are about to run. *)
DeliveringOf(f, q) == [f EXCEPT !.phase = "callbacks", !.packet = q]
LEMMA DeliveringType ==
  ASSUME NEW f \in Frame, NEW q \in 0..MaxPackets
  PROVE  /\ DeliveringOf(f, q) \in Frame /\ DeliveringOf(f, q).packet = q
         /\ DeliveringOf(f, q).kind = f.kind /\ DeliveringOf(f, q).live = f.live
BY DEF DeliveringOf, Frame

LEMMA ReceivePacketInv == ASSUME Inv, ReceivePacket PROVE Inv'
<1>1. stack # <<>> /\ inbox # <<>> /\ Top \in Frame
  BY TopFrame DEF Inv, ReceivePacket, Polling, InOriginal, Busy
<1>2. Head(inbox).id \in PacketIds /\ Head(inbox).id \in 0..MaxPackets /\ inbox' \in Seq(Packet)
  BY <1>1, HeadType DEF Inv, ReceivePacket
<1>3. held' \subseteq PacketIds
  BY <1>2 DEF Inv, TypeOK, ReceivePacket
<1>4. stack' \in Seq(Frame) /\ PacketInHand'
  <2>1. CASE Top.hooked
    <3>1. stack' = WithTop(DeliveringOf(Top, Head(inbox).id))
      BY <2>1 DEF ReceivePacket, DeliveringOf
    <3> QED BY <1>1, <1>2, <3>1, DeliveringType, ReplacedFrames DEF Inv
  <2>2. CASE ~Top.hooked
    BY <1>1, <2>2, PoppedFrames DEF Inv, ReceivePacket
  <2> QED BY <2>1, <2>2
<1> QED BY <1>2, <1>3, <1>4, StackChanges DEF ReceivePacket, Inv, TypeOK

LEMMA ReceiveRPCInv == ASSUME Inv, NEW p \in Players, ReceiveRPC(p) PROVE Inv'
<1>1. stack # <<>> /\ inbox # <<>>
  BY DEF ReceiveRPC, Polling, InOriginal, Busy
<1>2. Head(inbox).id \in PacketIds /\ Head(inbox).id \in 0..MaxPackets /\ inbox' \in Seq(Packet)
  BY <1>1, HeadType DEF Inv, ReceiveRPC
<1>3. /\ stack' \in Seq(Frame) /\ PacketInHand'
      /\ freed' \subseteq PacketIds
  <2>1. CASE UNCHANGED stack
    BY <1>2, <2>1 DEF Inv, TypeOK, ReceiveRPC, PacketInHand
  <2>2. ASSUME NEW h \in BOOLEAN, NEW ph \in {"callbacks", "original"},
               stack' = Append(stack, Activation("handle_rpc", h, ph, Head(inbox).id)),
               UNCHANGED freed
        PROVE  /\ stack' \in Seq(Frame) /\ PacketInHand'
               /\ freed' \subseteq PacketIds
    <3> DEFINE f == Activation("handle_rpc", h, ph, Head(inbox).id)
    <3>1. f \in Frame /\ f.kind = "handle_rpc"
      <4>1. "handle_rpc" \in Kinds
        BY DEF Kinds
      <4> QED BY <1>2, <4>1 DEF Activation, Frame
    <3>2. stack' = Append(stack, f)
      BY <2>2
    <3> HIDE DEF f
    <3>3. stack' \in Seq(Frame) /\ PacketInHand'
      BY <3>1, <3>2, PushedFrames DEF Inv
    <3> QED BY <2>2, <3>3 DEF Inv, TypeOK
  <2> QED BY <2>1, <2>2 DEF ReceiveRPC
<1>4. CASE hooks["handle_rpc"] = "installed"
  <2>1. initialized /\ rakpeer' = client /\ gplayerid' = p
    BY <1>4 DEF Inv, AllOrNothing, NoHooks, Kinds, ReceiveRPC
  <2>2. TypeOK'
    BY <1>2, <1>3, <2>1 DEF Inv, TypeOK, VersionTypeOK, ReceiveRPC, gameVars, versionVars
  <2> QED BY <1>3, <2>1, <2>2 DEF Inv, AllOrNothing, PeerKnown, ReceiveRPC, AllHooks, NoHooks
<1>5. CASE hooks["handle_rpc"] # "installed"
  <2>1. UNCHANGED hookVars
    BY <1>5 DEF ReceiveRPC, hookVars
  <2> QED BY <1>2, <1>3, <2>1, StackChanges DEF ReceiveRPC, Inv, TypeOK
<1> QED BY <1>4, <1>5

LEMMA OriginalReturnsInv == ASSUME Inv, OriginalReturns PROVE Inv'
<1>1. stack # <<>> /\ Top \in Frame
  BY TopFrame DEF Inv, OriginalReturns, InOriginal, Busy
<1>2. stack' \in Seq(Frame) /\ PacketInHand'
  BY <1>1, PoppedFrames DEF Inv, OriginalReturns
<1>3. freed' \subseteq PacketIds
  BY <1>1, FramePacket DEF Inv, TypeOK, OriginalReturns
<1> QED BY <1>2, <1>3, StackChanges DEF OriginalReturns, Inv, TypeOK

(* The frame of a detour that goes on to the original. *)
ForwardingOf(f) == [f EXCEPT !.phase = "original", !.nested = 0]
LEMMA ForwardingType ==
  ASSUME NEW f \in Frame
  PROVE  /\ ForwardingOf(f) \in Frame /\ ForwardingOf(f).kind = f.kind
         /\ ForwardingOf(f).phase = "original"
BY DEF ForwardingOf, Frame

LEMMA CallbacksApproveInv == ASSUME Inv, CallbacksApprove PROVE Inv'
<1>1. stack # <<>> /\ Top \in Frame /\ Top = stack[Len(stack)] /\ Len(stack) \in 1..Len(stack)
  BY TopFrame DEF Inv, CallbacksApprove, InCallback, Busy
<1>2. CASE Top.kind = "receive" /\ stack' = Popped /\ held' = held \cup {Top.packet} /\ UNCHANGED wild
  <2>1. Top.packet \in PacketIds
    BY <1>1, <1>2 DEF Inv, PacketInHand, CallbacksApprove, InCallback
  <2>2. stack' \in Seq(Frame) /\ PacketInHand'
    BY <1>1, <1>2, PoppedFrames DEF Inv
  <2> QED BY <1>2, <2>1, <2>2, StackChanges DEF CallbacksApprove, Inv, TypeOK
<1>3. CASE stack' = WithTop(ForwardingOf(Top)) /\ UNCHANGED <<held, wild>>
  <2>1. stack' \in Seq(Frame) /\ PacketInHand'
    BY <1>1, <1>3, ForwardingType, ReplacedFrames DEF Inv
  <2> QED BY <1>3, <2>1, StackChanges DEF CallbacksApprove, Inv, TypeOK
<1>4. CASE wild' = TRUE /\ UNCHANGED <<stack, held>>
  BY <1>4, StackChanges DEF CallbacksApprove, Inv, TypeOK, PacketInHand
<1> QED BY <1>2, <1>3, <1>4 DEF CallbacksApprove, ForwardingOf

LEMMA CallbacksRefuseInv == ASSUME Inv, CallbacksRefuse PROVE Inv'
<1>1. stack # <<>> /\ Top \in Frame
  BY TopFrame DEF Inv, CallbacksRefuse, InCallback, Busy
<1>2. stack' \in Seq(Frame) /\ PacketInHand'
  BY <1>1, PoppedFrames DEF Inv, CallbacksRefuse
<1>3. freed' \subseteq PacketIds /\ vetoed' \subseteq PacketIds
  BY <1>1, FramePacket DEF Inv, TypeOK, CallbacksRefuse
<1> QED BY <1>2, <1>3, StackChanges DEF CallbacksRefuse, Inv, TypeOK

LEMMA InitInv == Init => Inv
<1> SUFFICES ASSUME Init PROVE Inv
  OBVIOUS
<1>1. Builtin[samp] \in Offsets \cup {NoOffsets} \/ samp = NoEntry
  BY DEF Init, VersionInit
<1>2. VersionTypeOK
  BY <1>1 DEF Init, VersionInit, VersionTypeOK, Lookup
<1>3. Len(stack) = 0 /\ stack \in Seq(Frame) /\ inbox \in Seq(Packet)
  BY EmptySeq DEF Init
<1>4. hooks \in [Kinds -> {"none", "made", "installed"}]
  BY DEF Init, NoHooks
<1>5. arrived \in 0..MaxPackets
  BY DEF Init
<1>6. TypeOK
  BY <1>2, <1>3, <1>4, <1>5 DEF Init, TypeOK
<1> QED BY <1>3, <1>6 DEF Init, Inv, AllOrNothing, PeerKnown, PacketInHand

LEMMA NextInv == ASSUME Inv, [Next]_vars PROVE Inv'
<1>1. CASE GameLoads \/ GameStarts \/ GameConnects \/ GameDestroysClient
  BY <1>1, GameLoadsInv, GameStartsInv, GameConnectsInv, GameDestroysClientInv
<1>2. CASE \/ \E payload \in Payloads : PacketArrives(payload)
           \/ \E p \in held : GameDeallocates(p)
  BY <1>2, PacketArrivesInv, GameDeallocatesInv
<1>3. CASE (\E e \in EntryPoints, o \in Offsets : UserAddsVersion(e, o)) \/ UserUpdates
  BY <1>3, UserAddsVersionInv, UserUpdatesInv
<1>4. CASE destroy \/ initializeTooEarly \/ initializeNoBackend \/ initializeFails \/ initialize
  BY <1>4, DestroyInv, InitializeTooEarlyInv, InitializeNoBackendInv, InitializeFailsInv,
     InitializeInv
<1>5. CASE \/ \E kind \in {"send", "rpc"}, null \in BOOLEAN : GameSends(kind, null)
           \/ GamePolls
  BY <1>5, GameSendsInv, GamePollsInv
<1>6. CASE \/ \E kind \in {"send", "rpc"} : UserSends(kind)
           \/ emul_rpc
           \/ \E payload \in Payloads : emul_packet(payload)
  BY <1>6, UserSendsInv, EmulRpcInv, EmulPacketInv
<1>7. CASE Returns
  BY <1>7, ReceiveNothingInv, ReceivePacketInv, ReceiveRPCInv, OriginalReturnsInv,
     CallbacksApproveInv, CallbacksRefuseInv DEF Returns
<1>8. CASE UNCHANGED vars
  BY <1>8, StackChanges DEF vars, packetVars, Inv, TypeOK, PacketInHand
<1> QED BY <1>1, <1>2, <1>3, <1>4, <1>5, <1>6, <1>7, <1>8 DEF Next

(* The invariant is inductive. *)
THEOREM Invariance == Spec => []Inv
BY InitInv, NextInv, PTL DEF Spec

(* The hooker's state keeps its types. *)
THEOREM TypeCorrect == Spec => []TypeOK
<1>1. Inv => TypeOK
  BY DEF Inv
<1> QED BY <1>1, Invariance, PTL

(* Whatever install() fails and whenever destroy() is called, the four hooks
   and the backend are there exactly while `initialized' (rakhook.hpp:64-127). *)
THEOREM HooksAllOrNothing == Spec => []AllOrNothing
<1>1. Inv => AllOrNothing
  BY DEF Inv
<1> QED BY <1>1, Invariance, PTL

(* emul_rpc and emul_packet find a peer only while the hooks are installed,
   and the player that came with it (rakhook.hpp:144, 158, 224-225). *)
THEOREM PeerIsKnown == Spec => []PeerKnown
<1>1. Inv => PeerKnown
  BY DEF Inv
<1> QED BY <1>1, Invariance, PTL

-----------------------------------------------------------------------------
(* Defined behaviour. *)

(* What the user and the game are asked to respect. *)
Benign == DestroyFrom \subseteq {"receive"} /\ ~ClientsDie /\ ~LateUpdate

(* A detour that has yet to call its original finds the hooks installed. *)
CallbacksLive ==
  \A i \in 1..Len(stack) :
    stack[i].phase = "callbacks" /\ stack[i].kind # "receive"
      => stack[i].live = TRUE /\ initialized = TRUE

Safe ==
  /\ wild = FALSE
  /\ CallbacksLive
  /\ initialized = TRUE => orig = client /\ get = hookedWith /\ get \in Offsets
  /\ rakpeer # NoClient => rakpeer = client

(* Steps that leave the stack and everything the library relies on alone. *)
LEMMA SafeUnchanged ==
  ASSUME Safe, UNCHANGED <<hookVars, stack, wild, client, current_offsets_>>
  PROVE  Safe'
BY DEF Safe, CallbacksLive, hookVars, get

(* Steps that change only the stack and the packets. *)
LEMMA SafeStack ==
  ASSUME Safe, UNCHANGED <<gameVars, versionVars, hookVars, wild>>, CallbacksLive'
  PROVE  Safe'
BY DEF Safe, hookVars, gameVars, versionVars, get

LEMMA SafePopped ==
  ASSUME Inv, Safe, stack # <<>>, stack' = Popped, UNCHANGED initialized
  PROVE  CallbacksLive'
<1>1. /\ Len(stack') = Len(stack) - 1
      /\ \A i \in 1..(Len(stack) - 1) : stack'[i] = stack[i]
  BY PopType DEF Inv, TypeOK, Popped
<1>2. Len(stack) \in Nat \ {0}
  BY TopFrame DEF Inv
<1> QED BY <1>1, <1>2 DEF Safe, CallbacksLive

LEMMA SafeReplaced ==
  ASSUME Inv, Safe, stack # <<>>, NEW f \in Frame, stack' = WithTop(f),
         f.phase = "callbacks" => f.kind = "receive", UNCHANGED initialized
  PROVE  CallbacksLive'
<1>1. /\ Len(stack') = Len(stack)
      /\ \A i \in 1..Len(stack) : stack'[i] = IF i = Len(stack) THEN f ELSE stack[i]
  BY SetTopType DEF Inv, TypeOK, WithTop
<1> QED BY <1>1 DEF Safe, CallbacksLive

LEMMA SafeCalling ==
  ASSUME Inv, Safe, NEW f \in Frame, Calling(f), UNCHANGED initialized,
         f.phase = "callbacks" => f.live = TRUE /\ initialized = TRUE
  PROVE  CallbacksLive'
<1>1. /\ Len(stack') = Len(stack) + 1 /\ Len(stack) \in Nat
      /\ stack'[Len(stack) + 1] = f
      /\ \A i \in 1..Len(stack) :
           /\ stack'[i].kind = stack[i].kind /\ stack'[i].phase = stack[i].phase
           /\ stack'[i].live = stack[i].live
  BY CallingFrames DEF Inv
<1>2. \A i \in 1..Len(stack') : i = Len(stack) + 1 \/ i \in 1..Len(stack)
  BY <1>1
<1> QED BY <1>1, <1>2 DEF Safe, CallbacksLive

(* An installed hook means the library is attached. *)
LEMMA InstalledMeansInitialized ==
  ASSUME Inv, NEW k \in Kinds, hooks[k] = "installed"
  PROVE  initialized = TRUE
BY DEF Inv, TypeOK, AllOrNothing, NoHooks

LEMMA SafeGame ==
  ASSUME Benign, Inv, Safe,
         \/ GameLoads \/ GameStarts \/ GameConnects \/ GameDestroysClient
         \/ \E payload \in Payloads : PacketArrives(payload)
         \/ \E q \in held : GameDeallocates(q)
         \/ \E e \in EntryPoints, o \in Offsets : UserAddsVersion(e, o)
  PROVE  Safe'
<1>1. CASE GameLoads \/ GameStarts
  BY <1>1, SafeUnchanged DEF GameLoads, GameStarts, LoadSamp, versionVars
<1>2. CASE GameConnects
  <2>1. initialized # TRUE /\ rakpeer = NoClient
    BY <1>2 DEF GameConnects, Inv, TypeOK, AllOrNothing, Safe
  <2> QED BY <1>2, <2>1 DEF GameConnects, Safe, CallbacksLive, hookVars
<1>3. CASE GameDestroysClient
  BY <1>3 DEF GameDestroysClient, Benign
<1>4. CASE \E payload \in Payloads : PacketArrives(payload)
  BY <1>4, SafeUnchanged DEF PacketArrives, versionVars, gameVars
<1>5. CASE \E q \in held : GameDeallocates(q)
  BY <1>5, SafeUnchanged DEF GameDeallocates, versionVars, gameVars
<1>6. CASE \E e \in EntryPoints, o \in Offsets : UserAddsVersion(e, o)
  BY <1>6, SafeUnchanged DEF UserAddsVersion, add_version, gameVars
<1> QED BY <1>1, <1>2, <1>3, <1>4, <1>5, <1>6

(* After destroy() no callback but those of receive_hooked is under way. *)
LEMMA SafeTearDown ==
  ASSUME Inv, Safe, TearDown, UNCHANGED wild,
         \A i \in 1..Len(stack) : stack[i].phase = "callbacks" => stack[i].kind = "receive"
  PROVE  Safe'
<1>1. /\ Len(stack') = Len(stack)
      /\ \A i \in 1..Len(stack) :
           stack'[i].kind = stack[i].kind /\ stack'[i].phase = stack[i].phase
  BY OrphanedFrames DEF Inv
<1>2. CallbacksLive'
  BY <1>1 DEF CallbacksLive
<1> QED BY <1>2 DEF Safe, TearDown

LEMMA SafeLifecycle ==
  ASSUME Benign, Inv, Safe,
         UserUpdates \/ destroy \/ initializeTooEarly \/ initializeNoBackend
           \/ initializeFails \/ initialize
  PROVE  Safe'
<1>1. CASE UserUpdates
  BY <1>1 DEF UserUpdates, Benign, Safe, CallbacksLive, Inv, TypeOK, hookVars, gameVars
<1>2. CASE destroy
  <2>1. ASSUME NEW i \in 1..Len(stack), stack[i].phase = "callbacks"
        PROVE  stack[i].kind = "receive"
    BY <1>2, <2>1 DEF destroy, CallbackKinds, Benign
  <2> QED BY <1>2, <2>1, SafeTearDown DEF destroy
<1>3. CASE initializeTooEarly \/ initializeNoBackend
  BY <1>3 DEF initializeTooEarly, initializeNoBackend, Safe, CallbacksLive, hookVars, gameVars
<1>4. CASE initializeFails
  <2>1. \A i \in 1..Len(stack) : stack[i].phase = "callbacks" => stack[i].kind = "receive"
    BY <1>4 DEF initializeFails, Safe, CallbacksLive
  <2>2. TearDown /\ UNCHANGED wild
    BY <1>4 DEF initializeFails
  <2> QED BY <2>1, <2>2, SafeTearDown
<1>5. CASE initialize
  <2>1. current_offsets_' \in Offsets
    <3>1. current_entry_point_' = samp /\ samp # NoEntry /\ versions_[samp] # NoOffsets
      BY <1>5 DEF initialize, Attachable, valid, update
    <3>2. current_offsets_' = versions_[samp]
      BY <1>5, <3>1 DEF initialize, update, Lookup
    <3> QED BY <3>1, <3>2 DEF Inv, TypeOK, VersionTypeOK
  <2>2. orig' = client' /\ hookedWith' = current_offsets_' /\ rakpeer' = rakpeer
    BY <1>5 DEF initialize, gameVars, get
  <2>3. CallbacksLive'
    BY <1>5 DEF initialize, Safe, CallbacksLive
  <2> QED BY <1>5, <2>1, <2>2, <2>3 DEF initialize, Safe, gameVars, get
<1> QED BY <1>1, <1>2, <1>3, <1>4, <1>5

LEMMA SafeGameSends ==
  ASSUME Inv, Safe, NEW k \in {"send", "rpc"}, NEW null \in BOOLEAN, GameSends(k, null)
  PROVE  Safe'
<1> DEFINE h == hooks[k] = "installed"
           f == Activation(k, h, IF h /\ ~(k = "rpc" /\ null) THEN "callbacks" ELSE "original",
                           NoPacket)
<1>1. f \in Frame /\ f.live = TRUE /\ (f.phase = "callbacks" => h)
  BY NoPacketType DEF Activation, Frame, Kinds
<1>2. h => initialized = TRUE
  BY InstalledMeansInitialized DEF Kinds
<1>3. Calling(f)
  BY DEF GameSends
<1> HIDE DEF f, h
<1>4. CallbacksLive'
  BY <1>1, <1>2, <1>3, SafeCalling DEF GameSends, hookVars
<1> QED BY <1>4, SafeStack DEF GameSends

LEMMA SafeOriginalCalled ==
  ASSUME Inv, Safe, NEW k \in Kinds, NEW h \in BOOLEAN,
         Calling(Activation(k, h, "original", NoPacket)),
         UNCHANGED <<gameVars, versionVars, hookVars, wild>>
  PROVE  Safe'
<1> DEFINE f == Activation(k, h, "original", NoPacket)
<1>1. f \in Frame /\ f.phase = "original"
  BY NoPacketType DEF Activation, Frame
<1>2. Calling(f)
  OBVIOUS
<1> HIDE DEF f
<1>3. CallbacksLive'
  BY <1>1, <1>2, SafeCalling DEF hookVars
<1> QED BY <1>3, SafeStack

LEMMA SafeCalls ==
  ASSUME Inv, Safe,
         \/ \E kind \in {"send", "rpc"}, null \in BOOLEAN : GameSends(kind, null)
         \/ GamePolls
         \/ \E kind \in {"send", "rpc"} : UserSends(kind)
         \/ emul_rpc
         \/ \E payload \in Payloads : emul_packet(payload)
  PROVE  Safe'
<1>1. CASE \E kind \in {"send", "rpc"}, null \in BOOLEAN : GameSends(kind, null)
  BY <1>1, SafeGameSends
<1>2. CASE GamePolls
  <2>1. (hooks["receive"] = "installed") \in BOOLEAN /\ "receive" \in Kinds
    BY DEF Kinds
  <2>2. Calling(Activation("receive", hooks["receive"] = "installed", "original", NoPacket))
    BY <1>2 DEF GamePolls
  <2>3. UNCHANGED <<gameVars, versionVars, hookVars, wild>>
    BY <1>2 DEF GamePolls
  <2> HIDE DEF Kinds
  <2>4. PICK h \in BOOLEAN : h = (hooks["receive"] = "installed")
    BY <2>1
  <2>5. Calling(Activation("receive", h, "original", NoPacket))
    BY <2>2, <2>4
  <2> QED BY <2>1, <2>3, <2>5, SafeOriginalCalled
<1>3. CASE \E kind \in {"send", "rpc"} : UserSends(kind)
  <2>1. PICK kind \in {"send", "rpc"} : UserSends(kind)
    BY <1>3
  <2>2. orig = client
    BY <2>1 DEF UserSends, Safe, Inv, TypeOK
  <2>3. Calling(Activation(kind, FALSE, "original", NoPacket)) /\ UNCHANGED wild
    BY <2>1, <2>2 DEF UserSends
  <2> QED BY <2>1, <2>3, SafeOriginalCalled DEF UserSends, Kinds
<1>4. CASE emul_rpc
  <2>1. rakpeer = client /\ hooks["handle_rpc"] = "installed"
    BY <1>4 DEF emul_rpc, Safe, Inv, TypeOK, AllOrNothing, AllHooks, Kinds
  <2>2. Calling(Activation("handle_rpc", FALSE, "original", NoPacket)) /\ UNCHANGED wild
    BY <1>4, <2>1 DEF emul_rpc
  <2> QED BY <1>4, <2>2, SafeOriginalCalled DEF emul_rpc, Kinds
<1>5. CASE \E payload \in Payloads : emul_packet(payload)
  <2>1. PICK payload \in Payloads : emul_packet(payload)
    BY <1>5
  <2>2. rakpeer = client /\ get = hookedWith
    BY <2>1 DEF emul_packet, Safe, Inv, TypeOK
  <2>3. UNCHANGED wild
    BY <2>1, <2>2 DEF emul_packet
  <2> QED BY <2>1, <2>3, SafeUnchanged DEF emul_packet, gameVars, versionVars
<1> QED BY <1>1, <1>2, <1>3, <1>4, <1>5

LEMMA SafeReceiveRPC ==
  ASSUME Inv, Safe, NEW p \in Players, ReceiveRPC(p)
  PROVE  Safe'
<1>1. stack # <<>> /\ inbox # <<>>
  BY DEF ReceiveRPC, Polling, InOriginal, Busy
<1>2. Head(inbox).id \in 0..MaxPackets
  BY <1>1, HeadType DEF Inv
<1>3. ASSUME NEW h \in BOOLEAN, NEW ph \in {"callbacks", "original"},
             ph = "callbacks" => initialized = TRUE,
             stack' = Append(stack, Activation("handle_rpc", h, ph, Head(inbox).id))
      PROVE  CallbacksLive'
  <2> DEFINE f == Activation("handle_rpc", h, ph, Head(inbox).id)
  <2>1. f \in Frame /\ f.live = TRUE /\ f.phase = ph
    BY <1>2 DEF Activation, Frame, Kinds
  <2>2. stack' = Append(stack, f)
    BY <1>3
  <2> HIDE DEF f
  <2>3. /\ Len(stack') = Len(stack) + 1 /\ Len(stack) \in Nat
        /\ \A i \in 1..(Len(stack) + 1) :
             stack'[i] = IF i = Len(stack) + 1 THEN f ELSE stack[i]
    BY <2>1, <2>2, PushType, LenProperties DEF Inv, TypeOK
  <2>4. \A i \in 1..Len(stack') : i = Len(stack) + 1 \/ i \in 1..Len(stack)
    BY <2>3
  <2>5. UNCHANGED initialized
    BY DEF ReceiveRPC
  <2> QED BY <1>3, <2>1, <2>3, <2>4, <2>5 DEF Safe, CallbacksLive
<1>4. CASE hooks["handle_rpc"] = "installed"
  <2>1. initialized = TRUE
    BY <1>4, InstalledMeansInitialized DEF Kinds
  <2>2. CallbacksLive'
    <3>1. CASE UNCHANGED stack
      BY <3>1 DEF Safe, CallbacksLive, ReceiveRPC
    <3>2. CASE stack' = Append(stack, Activation("handle_rpc", TRUE, "callbacks", Head(inbox).id))
      BY <1>3, <2>1, <3>2
    <3> QED BY <1>4, <3>1, <3>2 DEF ReceiveRPC
  <2> QED BY <1>4, <2>1, <2>2 DEF ReceiveRPC, Safe, gameVars, versionVars, get
<1>5. CASE hooks["handle_rpc"] # "installed"
  <2>1. stack' = Append(stack, Activation("handle_rpc", FALSE, "original", Head(inbox).id))
    BY <1>5 DEF ReceiveRPC
  <2>2. CallbacksLive'
    BY <1>3, <2>1
  <2> QED BY <1>5, <2>2, SafeStack DEF ReceiveRPC, hookVars
<1> QED BY <1>4, <1>5

LEMMA SafeReturns == ASSUME Inv, Safe, Returns PROVE Safe'
<1>1. CASE ReceiveNothing
  BY <1>1, SafePopped, SafeStack DEF ReceiveNothing, Polling, InOriginal, Busy, hookVars
<1>2. CASE ReceivePacket
  <2>1. stack # <<>> /\ inbox # <<>> /\ Top \in Frame /\ Top.kind = "receive"
    BY <1>2, TopFrame DEF Inv, ReceivePacket, Polling, InOriginal, Busy
  <2>2. Head(inbox).id \in 0..MaxPackets
    BY <2>1, HeadType DEF Inv
  <2>3. UNCHANGED <<gameVars, versionVars, hookVars, wild>> /\ UNCHANGED initialized
    BY <1>2 DEF ReceivePacket, hookVars
  <2>4. CASE Top.hooked
    <3> DEFINE f == DeliveringOf(Top, Head(inbox).id)
    <3>1. stack' = WithTop(f)
      BY <1>2, <2>4 DEF ReceivePacket, DeliveringOf
    <3>2. f \in Frame /\ f.kind = "receive"
      BY <2>1, <2>2, DeliveringType
    <3> HIDE DEF f
    <3>3. CallbacksLive'
      BY <2>1, <2>3, <3>1, <3>2, SafeReplaced
    <3> QED BY <2>3, <3>3, SafeStack
  <2>5. CASE ~Top.hooked
    BY <1>2, <2>1, <2>3, <2>5, SafePopped, SafeStack DEF ReceivePacket
  <2> QED BY <2>4, <2>5
<1>3. CASE \E p \in Players : ReceiveRPC(p)
  BY <1>3, SafeReceiveRPC
<1>4. CASE OriginalReturns
  BY <1>4, SafePopped, SafeStack DEF OriginalReturns, InOriginal, Busy, hookVars
<1>5. CASE CallbacksApprove
  <2>1. stack # <<>> /\ Top \in Frame /\ Top = stack[Len(stack)] /\ Len(stack) \in 1..Len(stack)
    BY <1>5, TopFrame DEF Inv, CallbacksApprove, InCallback, Busy
  <2>2. UNCHANGED <<gameVars, versionVars, hookVars>> /\ UNCHANGED initialized
    BY <1>5 DEF CallbacksApprove, hookVars
  <2>3. Top.kind = "receive" \/ Top.live = TRUE
    BY <1>5, <2>1 DEF Safe, CallbacksLive, CallbacksApprove, InCallback
  <2>4. CASE stack' = Popped /\ UNCHANGED wild
    BY <2>1, <2>2, <2>4, SafePopped, SafeStack
  <2>5. CASE stack' = WithTop(ForwardingOf(Top)) /\ UNCHANGED wild
    <3> DEFINE f == ForwardingOf(Top)
    <3>1. f \in Frame /\ f.phase = "original"
      BY <2>1, ForwardingType
    <3>2. stack' = WithTop(f)
      BY <2>5
    <3> HIDE DEF f
    <3>3. CallbacksLive'
      BY <2>1, <2>2, <3>1, <3>2, SafeReplaced
    <3> QED BY <2>2, <2>5, <3>3, SafeStack
  <2> QED BY <1>5, <2>3, <2>4, <2>5 DEF CallbacksApprove, ForwardingOf
<1>6. CASE CallbacksRefuse
  BY <1>6, SafePopped, SafeStack DEF CallbacksRefuse, InCallback, Busy, hookVars
<1> QED BY <1>1, <1>2, <1>3, <1>4, <1>5, <1>6 DEF Returns

LEMMA SafeNext == ASSUME Benign, Inv, Safe, [Next]_vars PROVE Safe'
<1>1. CASE UNCHANGED vars
  BY <1>1, SafeUnchanged DEF vars, gameVars, versionVars
<1> QED BY <1>1, SafeGame, SafeLifecycle, SafeCalls, SafeReturns DEF Next

LEMMA SafeInit == Init => Safe
BY EmptySeq DEF Init, Safe, CallbacksLive

THEOREM Safety == ASSUME Benign PROVE Spec => []Safe
<1>1. Init => Safe
  BY SafeInit
<1>2. Inv /\ Safe /\ [Next]_vars => Safe'
  BY SafeNext
<1> QED BY <1>1, <1>2, Invariance, PTL DEF Spec

(* No detour calls a freed trampoline, emul_rpc finds its hook and no call
   reaches a client or a peer that is gone, for a user who destroys the hooks
   outside the detours or from on_receive_packet. *)
THEOREM BehaviourIsDefined == ASSUME Benign PROVE Spec => []DefinedBehaviour
<1>1. Safe => DefinedBehaviour
  BY DEF Safe, DefinedBehaviour
<1> QED BY <1>1, Safety, PTL

(* emul_packet calls the functions of the version the hooks were installed
   from (rakhook.hpp:161-172), whatever versions are added meanwhile. *)
THEOREM OffsetsAreThoseOfTheHooks == ASSUME Benign PROVE Spec => []OffsetsMatch
<1>1. Inv /\ Safe => OffsetsMatch
  BY DEF Inv, TypeOK, Safe, OffsetsMatch
<1> QED BY <1>1, Invariance, Safety, PTL

-----------------------------------------------------------------------------
(* Why behaviour is undefined when it is, whatever the user and the game do. *)
(* A client that is gone does not come back, so as long as orig is the       *)
(* client nothing has changed since initialize(), and the peer is orig too.  *)

ClientsPass ==
  /\ client \notin spent
  /\ initialized => orig = client \/ orig \in spent
  /\ rakpeer \in Clients => rakpeer = orig \/ orig \in spent

ClientVars == <<client, spent, initialized, orig, rakpeer>>

LEMMA ClientsPassOn == ASSUME Inv, ClientsPass, [Next]_vars PROVE ClientsPass'
<1> USE DEF ClientsPass
<1>0. /\ NoClient \notin Clients /\ spent \subseteq Clients /\ client \in Clients \cup {NoClient}
      /\ initialized => orig \in Clients
      /\ ~initialized => rakpeer \notin Clients
  BY HookerAssumption DEF Inv, TypeOK, AllOrNothing, PeerKnown
<1>1. CASE UNCHANGED ClientVars
  BY <1>1 DEF ClientVars
<1>2. CASE GameConnects
  BY <1>0, <1>2 DEF GameConnects, hookVars
<1>3. CASE GameDestroysClient
  BY <1>0, <1>3 DEF GameDestroysClient, hookVars
<1>4. CASE destroy \/ initializeFails
  <2>1. TearDown /\ UNCHANGED <<client, spent>>
    BY <1>4 DEF destroy, initializeFails, gameVars
  <2> QED BY <1>0, <2>1 DEF TearDown
<1>5. CASE initializeNoBackend \/ initialize
  <2>1. ~initialized /\ orig' = client /\ UNCHANGED <<client, spent, rakpeer>>
    BY <1>5 DEF initializeNoBackend, initialize, gameVars
  <2> QED BY <1>0, <2>1
<1>6. ASSUME NEW p \in Players, ReceiveRPC(p) PROVE ClientsPass'
  <2>1. CASE hooks["handle_rpc"] = "installed"
    <3>1. initialized = TRUE
      BY <2>1, InstalledMeansInitialized DEF Kinds
    <3>2. rakpeer' = client /\ UNCHANGED <<client, spent, initialized, orig>>
      BY <1>6, <2>1 DEF ReceiveRPC, gameVars
    <3> QED BY <3>1, <3>2
  <2>2. CASE hooks["handle_rpc"] # "installed"
    <3>1. UNCHANGED ClientVars
      BY <1>6, <2>2 DEF ReceiveRPC, gameVars, ClientVars
    <3> QED BY <1>1, <3>1
  <2> QED BY <2>1, <2>2
<1>7. CASE \/ GameLoads \/ GameStarts
           \/ \E payload \in Payloads : PacketArrives(payload)
           \/ \E p \in held : GameDeallocates(p)
           \/ \E e \in EntryPoints, o \in Offsets : UserAddsVersion(e, o)
           \/ UserUpdates \/ initializeTooEarly
  <2>1. UNCHANGED ClientVars
    BY <1>7 DEF GameLoads, GameStarts, PacketArrives, GameDeallocates, UserAddsVersion,
                UserUpdates, initializeTooEarly, gameVars, hookVars, ClientVars
  <2> QED BY <1>1, <2>1
<1>8. CASE \/ \E kind \in {"send", "rpc"}, null \in BOOLEAN : GameSends(kind, null)
           \/ GamePolls \/ \E kind \in {"send", "rpc"} : UserSends(kind) \/ emul_rpc
           \/ \E payload \in Payloads : emul_packet(payload)
           \/ ReceiveNothing \/ ReceivePacket
           \/ OriginalReturns \/ CallbacksApprove \/ CallbacksRefuse
  <2>1. UNCHANGED ClientVars
    BY <1>8 DEF GameSends, GamePolls, UserSends, emul_rpc, emul_packet, ReceiveNothing,
                ReceivePacket, OriginalReturns, CallbacksApprove, CallbacksRefuse,
                gameVars, hookVars, ClientVars
  <2> QED BY <1>1, <2>1
<1>9. CASE UNCHANGED vars
  BY <1>1, <1>9 DEF vars, gameVars, hookVars, ClientVars
<1> QED BY <1>2, <1>3, <1>4, <1>5, <1>6, <1>7, <1>8, <1>9 DEF Next, Returns

(* A peer or a client that is gone is one initialize() did not see last. *)
LEMMA GoneIsOrig ==
  ASSUME Inv, ClientsPass, initialized, rakpeer # NoClient, rakpeer # client
  PROVE  orig # client
BY DEF Inv, TypeOK, ClientsPass

LEMMA CauseStays ==
  ASSUME UndefinedHasCause, UNCHANGED <<stack, wild, client, orig, current_offsets_, hookedWith>>
  PROVE  UndefinedHasCause'
BY DEF UndefinedHasCause, Top, get

LEMMA CauseOfNext == ASSUME Inv, ClientsPass, UndefinedHasCause, [Next]_vars
                     PROVE  UndefinedHasCause'
<1>1. CASE wild' = FALSE
  BY <1>1 DEF UndefinedHasCause
<1>2. CASE UNCHANGED vars
  BY <1>2, CauseStays DEF vars, gameVars, versionVars, hookVars
<1>3. ASSUME NEW k \in {"send", "rpc"}, UserSends(k), wild' = TRUE, wild = FALSE
      PROVE  UndefinedHasCause'
  BY <1>3 DEF UserSends, UndefinedHasCause, gameVars, hookVars
<1>4. CASE emul_rpc /\ wild' = TRUE /\ wild = FALSE
  <2>1. hooks["handle_rpc"] = "installed"
    BY <1>4 DEF emul_rpc, Inv, AllOrNothing, AllHooks, Kinds
  <2>2. rakpeer # client /\ rakpeer # NoClient /\ initialized
    BY <1>4, <2>1 DEF emul_rpc
  <2>3. orig' # client'
    BY <1>4, <2>2, GoneIsOrig DEF emul_rpc, gameVars, hookVars
  <2> QED BY <2>3 DEF UndefinedHasCause
<1>5. ASSUME NEW payload \in Payloads, emul_packet(payload), wild' = TRUE, wild = FALSE
      PROVE  UndefinedHasCause'
  <2>1. UNCHANGED <<orig, client, hookedWith>> /\ get' = get
    BY <1>5 DEF emul_packet, gameVars, hookVars, versionVars, get
  <2>2. rakpeer # client \/ get # hookedWith
    BY <1>5 DEF emul_packet
  <2>3. orig # client \/ get # hookedWith
    BY <1>5, <2>2, GoneIsOrig DEF emul_packet
  <2> QED BY <2>1, <2>3 DEF UndefinedHasCause
<1>6. CASE CallbacksApprove /\ wild' = TRUE /\ wild = FALSE
  <2>1. stack # <<>> /\ UNCHANGED stack /\ ~Top.live /\ Top.kind # "receive"
    BY <1>6 DEF CallbacksApprove, InCallback, Busy
  <2> QED BY <2>1 DEF UndefinedHasCause, Top
<1>7. wild \in BOOLEAN /\ wild' \in BOOLEAN
  BY NextInv DEF Inv, TypeOK
<1>8. [Next]_vars => UNCHANGED vars \/ ~wild
  BY DEF Next, Returns, GameLoads, GameStarts, GameConnects, GameDestroysClient, PacketArrives,
         GameDeallocates, UserAddsVersion, UserUpdates, destroy, initializeTooEarly,
         initializeNoBackend, initializeFails, initialize, GameSends, GamePolls, UserSends,
         emul_rpc, emul_packet, ReceiveNothing, ReceivePacket, ReceiveRPC, OriginalReturns,
         CallbacksApprove, CallbacksRefuse, Polling, InOriginal, InCallback, UserRuns, GameRuns,
         Idle, Busy
<1>9. CASE wild = FALSE /\ wild' = TRUE
  <2>1. \/ \E kind \in {"send", "rpc"} : UserSends(kind)
        \/ emul_rpc \/ CallbacksApprove
        \/ \E payload \in Payloads : emul_packet(payload)
    BY <1>9 DEF Next, Returns, vars, GameLoads, GameStarts, GameConnects, GameDestroysClient,
         PacketArrives, GameDeallocates, UserAddsVersion, UserUpdates, destroy,
         initializeTooEarly, initializeNoBackend, initializeFails, initialize, GameSends,
         GamePolls, ReceiveNothing, ReceivePacket, ReceiveRPC, OriginalReturns, CallbacksRefuse
  <2> QED BY <1>3, <1>4, <1>5, <1>6, <1>9, <2>1
<1> QED BY <1>1, <1>2, <1>7, <1>8, <1>9

(* Behaviour is undefined for three reasons only: a callback of a detour that
   goes on to its original destroyed the hooks, the client that orig is died,
   or the version table was updated while attached (rakhook.hpp:113-172). *)
THEOREM UndefinedBehaviourHasCause == Spec => []UndefinedHasCause
<1>1. Init => ClientsPass /\ UndefinedHasCause
  BY HookerAssumption DEF Init, ClientsPass, UndefinedHasCause
<1>2. Inv /\ ClientsPass /\ [Next]_vars => ClientsPass'
  BY ClientsPassOn
<1>3. Inv /\ ClientsPass /\ UndefinedHasCause /\ [Next]_vars => UndefinedHasCause'
  BY CauseOfNext
<1> QED BY <1>1, <1>2, <1>3, Invariance, PTL DEF Spec

-----------------------------------------------------------------------------
(* hooker implements Lifecycle: initialize() attaches, the first RPC and     *)
(* every later one tells the peer and the player, destroy() detaches, and    *)
(* everything else is a stutter.                                             *)

QueueHasOwner == inbox # <<>> => client \in Clients
Owned == Inv /\ QueueHasOwner

LEMMA QueueHasOwnerNext == ASSUME Owned, [Next]_vars PROVE QueueHasOwner'
<1> USE DEF Owned, QueueHasOwner
<1>1. client \in Clients \cup {NoClient} /\ inbox \in Seq(Packet)
  BY DEF Inv, TypeOK
<1>2. CASE UNCHANGED <<client, inbox>>
  BY <1>2
<1>3. CASE GameConnects
  BY <1>3 DEF GameConnects
<1>4. CASE GameDestroysClient
  BY <1>4 DEF GameDestroysClient
<1>5. CASE \E payload \in Payloads : PacketArrives(payload)
  BY <1>1, <1>5 DEF PacketArrives, gameVars
<1>6. CASE \E payload \in Payloads : emul_packet(payload)
  <2>1. UNCHANGED client
    BY <1>6 DEF emul_packet, gameVars
  <2>2. UNCHANGED inbox \/ (rakpeer # NoClient /\ rakpeer = client)
    BY <1>6 DEF emul_packet
  <2> QED BY <1>1, <2>1, <2>2
<1>7. CASE ReceivePacket \/ \E p \in Players : ReceiveRPC(p)
  <2>1. inbox # <<>> /\ UNCHANGED client
    BY <1>7 DEF ReceivePacket, ReceiveRPC, gameVars
  <2> QED BY <2>1
<1>8. CASE UNCHANGED vars
  BY <1>8, <1>2 DEF vars, gameVars, packetVars
<1>9. CASE \/ GameLoads \/ GameStarts \/ \E p \in held : GameDeallocates(p)
           \/ \E e \in EntryPoints, o \in Offsets : UserAddsVersion(e, o)
           \/ UserUpdates \/ destroy
           \/ initializeTooEarly \/ initializeNoBackend \/ initializeFails \/ initialize
  <2>1. UNCHANGED <<client, inbox>>
    BY <1>9 DEF GameLoads, GameStarts, GameDeallocates, UserAddsVersion, UserUpdates, destroy,
                initializeTooEarly, initializeNoBackend, initializeFails, initialize,
                gameVars, packetVars
  <2> QED BY <2>1, <1>2
<1>10. CASE \/ \E kind \in {"send", "rpc"}, null \in BOOLEAN : GameSends(kind, null)
            \/ GamePolls \/ \E kind \in {"send", "rpc"} : UserSends(kind) \/ emul_rpc
            \/ ReceiveNothing \/ OriginalReturns \/ CallbacksApprove \/ CallbacksRefuse
  <2>1. UNCHANGED <<client, inbox>>
    BY <1>10 DEF GameSends, GamePolls, UserSends, emul_rpc, ReceiveNothing, OriginalReturns,
                 CallbacksApprove, CallbacksRefuse, gameVars, packetVars
  <2> QED BY <2>1, <1>2
<1> QED BY <1>3, <1>4, <1>5, <1>6, <1>7, <1>8, <1>9, <1>10 DEF Next, Returns

LEMMA OwnedAlways == Spec => []Owned
<1>1. Init => QueueHasOwner
  BY DEF Init, QueueHasOwner
<1>2. Inv /\ QueueHasOwner /\ [Next]_vars => QueueHasOwner'
  BY QueueHasOwnerNext DEF Owned
<1>3. Inv /\ QueueHasOwner <=> Owned
  BY DEF Owned
<1> QED BY <1>1, <1>2, <1>3, Invariance, PTL DEF Spec

LEMMA LifecycleInit == Init => L!Init
BY DEF Init, L!Init

LEMMA LifecycleStutter ==
  ASSUME UNCHANGED <<initialized, orig, rakpeer, gplayerid>>
  PROVE  UNCHANGED L!vars
BY DEF L!vars

(* orig is set before the backend is there, which is no attachment yet. *)
LEMMA LifecycleDetached ==
  ASSUME ~initialized, ~initialized', UNCHANGED <<rakpeer, gplayerid>>
  PROVE  UNCHANGED L!vars
BY DEF L!vars

LEMMA LifecycleDetach ==
  ASSUME Inv, TearDown
  PROVE  [L!Next]_L!vars
<1>1. CASE initialized
  BY <1>1 DEF Inv, AllOrNothing, TearDown, L!Next, L!Detach
<1>2. CASE ~initialized
  <2>1. rakpeer = NoClient
    BY <1>2 DEF Inv, PeerKnown, TypeOK
  <2> QED BY <1>2, <2>1 DEF TearDown, L!vars
<1> QED BY <1>1, <1>2

LEMMA LifecycleStep == ASSUME Owned, [Next]_vars PROVE [L!Next]_L!vars
<1>1. CASE initialize
  <2>1. ~initialized /\ initialized' /\ client \in Clients /\ orig' = client
    BY <1>1 DEF initialize, Attachable, Owned, Inv, TypeOK, gameVars
  <2>2. UNCHANGED <<rakpeer, gplayerid>>
    BY <1>1 DEF initialize
  <2> QED BY <2>1, <2>2 DEF L!Next, L!Attach
<1>2. CASE initializeFails \/ destroy
  <2>1. TearDown
    BY <1>2 DEF initializeFails, destroy
  <2> QED BY <2>1, LifecycleDetach DEF Owned
<1>3. CASE initializeNoBackend
  BY <1>3, LifecycleDetached DEF initializeNoBackend
<1>4. CASE \E p \in Players : ReceiveRPC(p)
  <2>1. PICK p \in Players : ReceiveRPC(p)
    BY <1>4
  <2>2. CASE hooks["handle_rpc"] = "installed"
    <3>1. initialized /\ orig \in Clients
      BY <2>2, InstalledMeansInitialized DEF Kinds, Owned, Inv, AllOrNothing
    <3>2. client \in Clients
      BY <2>1 DEF ReceiveRPC, Owned, QueueHasOwner
    <3>3. rakpeer' = client /\ gplayerid' = p /\ UNCHANGED <<initialized, orig>>
      BY <2>1, <2>2 DEF ReceiveRPC
    <3> QED BY <3>1, <3>2, <3>3 DEF L!Next, L!Learn
  <2>3. CASE hooks["handle_rpc"] # "installed"
    BY <2>1, <2>3, LifecycleStutter DEF ReceiveRPC
  <2> QED BY <2>2, <2>3
<1>5. CASE UNCHANGED <<initialized, orig, rakpeer, gplayerid>>
  BY <1>5, LifecycleStutter
<1>6. CASE UNCHANGED vars
  BY <1>5, <1>6 DEF vars, hookVars
<1>7. CASE \/ GameLoads \/ GameStarts \/ GameConnects \/ GameDestroysClient
           \/ \E payload \in Payloads : PacketArrives(payload)
           \/ \E p \in held : GameDeallocates(p)
           \/ \E e \in EntryPoints, o \in Offsets : UserAddsVersion(e, o)
           \/ UserUpdates \/ initializeTooEarly
  <2>1. UNCHANGED hookVars
    BY <1>7 DEF GameLoads, GameStarts, GameConnects, GameDestroysClient, PacketArrives,
                GameDeallocates, UserAddsVersion, UserUpdates, initializeTooEarly
  <2> QED BY <1>5, <2>1 DEF hookVars
<1>8. CASE \/ \E kind \in {"send", "rpc"}, null \in BOOLEAN : GameSends(kind, null)
           \/ GamePolls \/ \E kind \in {"send", "rpc"} : UserSends(kind) \/ emul_rpc
           \/ \E payload \in Payloads : emul_packet(payload)
           \/ ReceiveNothing \/ ReceivePacket
           \/ OriginalReturns \/ CallbacksApprove \/ CallbacksRefuse
  <2>1. UNCHANGED hookVars
    BY <1>8 DEF GameSends, GamePolls, UserSends, emul_rpc, emul_packet, ReceiveNothing,
                ReceivePacket, OriginalReturns, CallbacksApprove, CallbacksRefuse
  <2> QED BY <1>5, <2>1 DEF hookVars
<1> QED BY <1>1, <1>2, <1>3, <1>4, <1>6, <1>7, <1>8 DEF Next, Returns

(* The hooker implements Lifecycle, whatever the user does in callbacks and
   whatever becomes of the client: it is attached to one client at a time,
   hears of a peer and a player together and only while attached, and forgets
   the peer when it detaches (rakhook.hpp:64-127, 224-225). *)
THEOREM Implements == Spec => ImplementsLifecycle
<1>1. Init => L!Init
  BY LifecycleInit
<1>2. Owned /\ [Next]_vars => [L!Next]_L!vars
  BY LifecycleStep
<1> QED BY <1>1, <1>2, OwnedAlways, PTL DEF Spec, ImplementsLifecycle, L!Spec

-----------------------------------------------------------------------------
(* Where the packets are: none is lost, none is in two places, and one a     *)
(* callback refused never reaches the game.                                  *)
(*                                                                           *)
(* Accounted says it of the sets of identities; it is not inductive alone.   *)
(* The queue and the stack must each hold an identity once, or taking one    *)
(* out would leave a copy (QueueApart, StackApart), and a Receive that has   *)
(* not returned yet must hold none, or the packet it takes from the queue    *)
(* would replace another one (NotTakenYet).                                  *)

QueueApart ==
  \A i, j \in 1..Len(inbox) : inbox[i].id = inbox[j].id => i = j
StackApart ==
  \A i, j \in 1..Len(stack) :
    stack[i].packet # NoPacket /\ stack[i].packet = stack[j].packet => i = j
NotTakenYet ==
  \A i \in 1..Len(stack) :
    stack[i].kind = "receive" /\ stack[i].phase = "original"
      => stack[i].packet = NoPacket
StackOK == StackApart /\ NotTakenYet

Accounted ==
  /\ Queued \cup Flying \cup held \cup freed = 1..arrived
  /\ Queued \cap (Flying \cup held \cup freed) = {}
  /\ Flying \cap (held \cup freed) = {}
  /\ held \cap freed = {}

Ledger == QueueApart /\ StackOK /\ Accounted /\ vetoed \subseteq freed

-----------------------------------------------------------------------------
(* The queue: what is in it after one packet joins or leaves.               *)

LEMMA QueueLonger ==
  ASSUME TypeOK, QueueApart, NEW e \in Packet, e.id \notin Queued, inbox' = Append(inbox, e)
  PROVE  QueueApart' /\ Queued' = Queued \cup {e.id}
<1>1. /\ Len(inbox) \in Nat /\ Len(inbox') = Len(inbox) + 1
      /\ \A i \in 1..(Len(inbox) + 1) :
           inbox'[i] = IF i = Len(inbox) + 1 THEN e ELSE inbox[i]
  BY PushType, LenProperties DEF TypeOK
<1>2. /\ 1..Len(inbox') = 1..Len(inbox) \cup {Len(inbox) + 1}
      /\ Len(inbox) + 1 \notin 1..Len(inbox)
  BY <1>1
<1>3. \A i \in 1..Len(inbox) : inbox'[i] = inbox[i] /\ inbox[i].id # e.id
  BY <1>1, <1>2 DEF Queued
<1>4. inbox'[Len(inbox) + 1] = e
  BY <1>1
<1>5. QueueApart'
  BY <1>2, <1>3, <1>4, Zenon DEF QueueApart
<1>6. Queued' = Queued \cup {e.id}
  BY <1>2, <1>3, <1>4 DEF Queued
<1> QED BY <1>5, <1>6

LEMMA QueueShorter ==
  ASSUME TypeOK, QueueApart, inbox # <<>>, inbox' = Tail(inbox)
  PROVE  QueueApart' /\ Queued' = Queued \ {Head(inbox).id} /\ Head(inbox).id \in Queued
<1>1. /\ Len(inbox) \in Nat \ {0} /\ Len(inbox') = Len(inbox) - 1 /\ Head(inbox) = inbox[1]
      /\ \A i \in 1..(Len(inbox) - 1) : inbox'[i] = inbox[i + 1]
  BY EmptySeq, LenProperties, HeadTailProperties DEF TypeOK
<1>2. 1 \in 1..Len(inbox) /\ \A i \in 1..Len(inbox') : i + 1 \in 1..Len(inbox) /\ i + 1 # 1
  BY <1>1
<1>3. \A k \in 1..Len(inbox) : k = 1 \/ \E i \in 1..Len(inbox') : k = i + 1
  <2>1. \A k \in 1..Len(inbox) : k = 1 \/ (k - 1 \in 1..Len(inbox') /\ k = (k - 1) + 1)
    BY <1>1
  <2> QED BY <2>1
<1>4. \A i \in 1..Len(inbox') : inbox'[i] = inbox[i + 1] /\ inbox[i + 1].id # inbox[1].id
  BY <1>1, <1>2 DEF QueueApart
<1>5. QueueApart'
  <2> SUFFICES ASSUME NEW i \in 1..Len(inbox'), NEW j \in 1..Len(inbox'),
                      inbox'[i].id = inbox'[j].id
               PROVE  i = j
    BY DEF QueueApart
  <2>1. i + 1 = j + 1
    BY <1>2, <1>4 DEF QueueApart
  <2> QED BY <1>1, <2>1
<1>6. ASSUME NEW q \in Queued' PROVE q \in Queued /\ q # inbox[1].id
  <2>1. PICK i \in 1..Len(inbox') : q = inbox'[i].id
    BY <1>6 DEF Queued
  <2> QED BY <1>2, <1>4, <2>1 DEF Queued
<1>7. ASSUME NEW q \in Queued, q # inbox[1].id PROVE q \in Queued'
  <2>1. PICK k \in 1..Len(inbox) : q = inbox[k].id
    BY <1>7 DEF Queued
  <2>2. PICK i \in 1..Len(inbox') : k = i + 1
    BY <1>3, <1>7, <2>1
  <2> QED BY <1>4, <2>1, <2>2 DEF Queued
<1>8. inbox[1].id \in Queued
  BY <1>2 DEF Queued
<1> QED BY <1>1, <1>5, <1>6, <1>7, <1>8

LEMMA QueueEmptied == ASSUME inbox' = <<>> PROVE QueueApart' /\ Queued' = {}
<1>1. Len(inbox') = 0
  BY EmptySeq
<1> QED BY <1>1 DEF QueueApart, Queued

LEMMA QueueSame == ASSUME QueueApart, inbox' = inbox PROVE QueueApart' /\ Queued' = Queued
BY DEF QueueApart, Queued

(* As many identities as packets. *)
LEMMA QueueCounted ==
  ASSUME TypeOK, QueueApart
  PROVE  Cardinality(Queued) = Len(inbox)
<1> DEFINE n == Len(inbox)
           f == [i \in 1..n |-> inbox[i].id]
<1>1. n \in Nat
  BY LenProperties DEF TypeOK
<1>2. f \in [1..n -> Queued] /\ \A q \in Queued : \E i \in 1..n : f[i] = q
  BY DEF Queued
<1>3. \A i, j \in 1..n : f[i] = f[j] => i = j
  BY DEF QueueApart
<1> HIDE DEF f, n
<1>4. f \in Injection(1..n, Queued)
  BY <1>2, <1>3, Fun_IsInj
<1>5. f \in Surjection(1..n, Queued)
  BY <1>2, Fun_IsSurj
<1>6. ExistsBijection(1..n, Queued)
  BY <1>4, <1>5 DEF ExistsBijection, Bijection
<1>7. Cardinality(Queued) = n
  BY <1>1, <1>6, FS_CountingElements
<1> QED BY <1>7 DEF n

-----------------------------------------------------------------------------
(* The stack: the packets in flight after an activation comes or goes.      *)

LEMMA StackSame ==
  ASSUME TypeOK, StackOK, Len(stack') = Len(stack),
         \A i \in 1..Len(stack) :
           /\ stack'[i].kind = stack[i].kind /\ stack'[i].phase = stack[i].phase
           /\ stack'[i].packet = stack[i].packet
  PROVE  StackOK' /\ Flying' = Flying
BY DEF StackOK, StackApart, NotTakenYet, Flying, NoPacket

LEMMA StackHigher ==
  ASSUME TypeOK, StackOK, NEW f, Len(stack') = Len(stack) + 1,
         stack'[Len(stack) + 1] = f,
         \A i \in 1..Len(stack) :
           /\ stack'[i].kind = stack[i].kind /\ stack'[i].phase = stack[i].phase
           /\ stack'[i].packet = stack[i].packet,
         f.packet \notin Flying, f.kind = "receive" => f.packet = NoPacket
  PROVE  StackOK' /\ Flying' = Flying \cup ({f.packet} \ {NoPacket})
<1>1. Len(stack) \in Nat
  BY LenProperties DEF TypeOK
<1>2. /\ 1..Len(stack') = 1..Len(stack) \cup {Len(stack) + 1}
      /\ Len(stack) + 1 \notin 1..Len(stack)
  BY <1>1
<1>3. \A i \in 1..Len(stack) : stack[i].packet # NoPacket => stack[i].packet # f.packet
  BY DEF Flying
<1>4. StackApart'
  <2> SUFFICES ASSUME NEW i \in 1..Len(stack'), NEW j \in 1..Len(stack'),
                      stack'[i].packet # NoPacket, stack'[i].packet = stack'[j].packet
               PROVE  i = j
    BY DEF StackApart
  <2>1. CASE i = Len(stack) + 1 \/ j = Len(stack) + 1
    BY <1>2, <1>3, <2>1
  <2>2. CASE i \in 1..Len(stack) /\ j \in 1..Len(stack)
    BY <2>2 DEF StackOK, StackApart
  <2> QED BY <1>2, <2>1, <2>2
<1>5. NotTakenYet'
  BY <1>2, Zenon DEF StackOK, NotTakenYet, NoPacket
<1>6. Flying' = Flying \cup ({f.packet} \ {NoPacket})
  BY <1>2 DEF Flying, NoPacket
<1> QED BY <1>4, <1>5, <1>6 DEF StackOK

LEMMA StackPopped ==
  ASSUME TypeOK, StackOK, stack # <<>>, stack' = Popped
  PROVE  /\ StackOK' /\ Flying' = Flying \ {Top.packet}
         /\ Top.packet # NoPacket => Top.packet \in Flying
<1>1. /\ Len(stack') = Len(stack) - 1 /\ Len(stack) \in Nat \ {0}
      /\ \A i \in 1..(Len(stack) - 1) : stack'[i] = stack[i]
  BY PopType, TopFrame DEF TypeOK, Popped
<1>2. /\ 1..Len(stack) = 1..Len(stack') \cup {Len(stack)}
      /\ Len(stack) \notin 1..Len(stack')
  BY <1>1
<1>3. \A i \in 1..Len(stack') : stack'[i] = stack[i]
  BY <1>1
<1>4. \A i \in 1..Len(stack') :
        stack[i].packet # NoPacket => stack[i].packet # stack[Len(stack)].packet
  BY <1>2 DEF StackOK, StackApart
<1>9. \A i \in 1..Len(stack') : i \in 1..Len(stack)
  BY <1>2
<1>10. StackApart'
  BY <1>3, <1>9 DEF StackOK, StackApart, NoPacket
<1>11. NotTakenYet'
  BY <1>3, <1>9 DEF StackOK, NotTakenYet, NoPacket
<1>5. StackOK'
  BY <1>10, <1>11 DEF StackOK
<1>6. Flying' = Flying \ {stack[Len(stack)].packet}
  BY <1>2, <1>3, <1>4 DEF Flying, NoPacket
<1>7. \A i \in 1..Len(stack) : stack[i].packet # NoPacket => stack[i].packet \in Flying
  BY DEF Flying
<1>8. stack[Len(stack)].packet # NoPacket => stack[Len(stack)].packet \in Flying
  BY <1>2, <1>7
<1> QED BY <1>5, <1>6, <1>8 DEF Top

LEMMA StackReplaced ==
  ASSUME TypeOK, StackOK, stack # <<>>, NEW f \in Frame, stack' = WithTop(f),
         \/ f.packet = Top.packet
         \/ Top.packet = NoPacket /\ f.packet \notin Flying,
         f.kind = "receive" /\ f.phase = "original" => f.packet = NoPacket
  PROVE  StackOK' /\ Flying' = Flying \cup ({f.packet} \ {NoPacket})
<1> DEFINE n == Len(stack)
<1>1. /\ Len(stack') = n /\ n \in 1..n /\ Top = stack[n]
      /\ \A i \in 1..n : stack'[i] = IF i = n THEN f ELSE stack[i]
  BY SetTopType, TopFrame DEF TypeOK, WithTop
<1> HIDE DEF n
<1>2. \A i \in 1..n : i # n /\ stack[i].packet # NoPacket => stack[i].packet # f.packet
  BY <1>1 DEF StackOK, StackApart, Flying, n
<1>3. StackApart'
  BY <1>1, <1>2 DEF StackOK, StackApart, NoPacket, n
<1>4. NotTakenYet'
  BY <1>1 DEF StackOK, NotTakenYet, NoPacket, n
<1>5. Flying' = Flying \cup ({f.packet} \ {NoPacket})
  <2>1. ASSUME NEW q \in Flying' PROVE q \in Flying \cup ({f.packet} \ {NoPacket})
    BY <1>1, <2>1 DEF Flying, NoPacket, n
  <2>2. ASSUME NEW q \in Flying PROVE q \in Flying'
    <3>1. PICK i \in 1..n : q = stack[i].packet /\ q # NoPacket
      BY <2>2 DEF Flying, n
    <3>2. CASE i # n
      BY <1>1, <3>1, <3>2 DEF Flying, NoPacket, n
    <3>3. CASE i = n
      BY <1>1, <3>1, <3>3 DEF Flying, NoPacket, n
    <3> QED BY <3>2, <3>3
  <2>3. f.packet # NoPacket => f.packet \in Flying'
    BY <1>1 DEF Flying, NoPacket, n
  <2> QED BY <2>1, <2>2, <2>3
<1> QED BY <1>3, <1>4, <1>5 DEF StackOK

LEMMA StackUnchanged == ASSUME StackOK, stack' = stack PROVE StackOK' /\ Flying' = Flying
BY DEF StackOK, StackApart, NotTakenYet, Flying, NoPacket

(* A call carries no packet. *)
LEMMA StackCalling ==
  ASSUME TypeOK, StackOK, NEW f \in Frame, Calling(f), f.packet = NoPacket
  PROVE  StackOK' /\ Flying' = Flying
<1>1. NoPacket \notin Flying
  BY DEF Flying
<1>2. StackOK' /\ Flying' = Flying \cup ({f.packet} \ {NoPacket})
  BY <1>1, CallingFrames, StackHigher
<1> QED BY <1>2

-----------------------------------------------------------------------------
(* Every action keeps the ledger.  First the sets alone.                    *)

LEMMA LedgerSame ==
  ASSUME Accounted, UNCHANGED <<Queued, Flying, held, freed, arrived>>
  PROVE  Accounted'
BY DEF Accounted

LEMMA LedgerArrival ==
  ASSUME TypeOK, Accounted, arrived' = arrived + 1, Queued' = Queued \cup {arrived + 1},
         UNCHANGED <<Flying, held, freed>>
  PROVE  Accounted'
<1> DEFINE new == arrived + 1
<1>1. 1..arrived' = 1..arrived \cup {new} /\ new \notin 1..arrived
  BY DEF TypeOK
<1>2. Queued' = Queued \cup {new}
  OBVIOUS
<1> HIDE DEF new
<1>3. Flying' = Flying /\ held' = held /\ freed' = freed
  OBVIOUS
<1> QED BY ONLY Accounted, <1>1, <1>2, <1>3, SMT DEF Accounted

LEMMA NewIdentity ==
  ASSUME TypeOK, Accounted
  PROVE  arrived + 1 \notin Queued /\ NoPacket \notin 1..arrived
<1>1. arrived + 1 \notin 1..arrived /\ NoPacket \notin 1..arrived
  BY DEF TypeOK, NoPacket
<1> QED BY <1>1 DEF Accounted

(* A packet moves from the queue or a detour to a place further on.         *)
LEMMA LedgerMove ==
  ASSUME Accounted, NEW q, UNCHANGED arrived,
         \/ q \in Queued /\ Queued' = Queued \ {q} /\ Flying' = Flying \cup {q}
            /\ UNCHANGED <<held, freed>>
         \/ q \in Queued /\ Queued' = Queued \ {q} /\ held' = held \cup {q}
            /\ UNCHANGED <<Flying, freed>>
         \/ q \in Queued /\ Queued' = Queued \ {q} /\ freed' = freed \cup {q}
            /\ UNCHANGED <<Flying, held>>
         \/ q \in Flying /\ Flying' = Flying \ {q} /\ held' = held \cup {q}
            /\ UNCHANGED <<Queued, freed>>
         \/ q \in Flying /\ Flying' = Flying \ {q} /\ freed' = freed \cup {q}
            /\ UNCHANGED <<Queued, held>>
         \/ q \in held /\ held' = held \ {q} /\ freed' = freed \cup {q}
            /\ UNCHANGED <<Queued, Flying>>
  PROVE  Accounted'
<1> USE DEF Accounted
<1>1. CASE q \in Queued /\ Queued' = Queued \ {q}
  BY <1>1
<1>2. CASE q \in Flying /\ Flying' = Flying \ {q}
  BY <1>2
<1>3. CASE q \in held /\ held' = held \ {q}
  BY <1>3
<1> QED BY <1>1, <1>2, <1>3

(* Steps that touch neither the packets nor the activations.                *)
LEMMA LedgerUnchanged == ASSUME Ledger, UNCHANGED <<stack, packetVars>> PROVE Ledger'
<1>1. QueueApart' /\ Queued' = Queued /\ StackOK' /\ Flying' = Flying
  BY QueueSame, StackUnchanged DEF Ledger, packetVars
<1> QED BY <1>1, LedgerSame DEF Ledger, packetVars

(* Steps that touch the stack but no packet.                                *)
LEMMA LedgerStack ==
  ASSUME Ledger, UNCHANGED packetVars, StackOK', Flying' = Flying PROVE Ledger'
<1>1. QueueApart' /\ Queued' = Queued
  BY QueueSame DEF Ledger, packetVars
<1> QED BY <1>1, LedgerSame DEF Ledger, packetVars

LEMMA LedgerTearDown == ASSUME Inv, Ledger, TearDown, UNCHANGED packetVars PROVE Ledger'
<1>1. StackOK' /\ Flying' = Flying
  BY OrphanedFrames, StackSame DEF Inv, Ledger
<1> QED BY <1>1, LedgerStack

LEMMA LedgerCalling ==
  ASSUME Inv, Ledger, UNCHANGED packetVars, NEW k \in Kinds, NEW h \in BOOLEAN,
         NEW ph \in {"callbacks", "original"}, Calling(Activation(k, h, ph, NoPacket))
  PROVE  Ledger'
<1> DEFINE f == Activation(k, h, ph, NoPacket)
<1>1. f \in Frame /\ f.packet = NoPacket
  BY NoPacketType DEF Activation, Frame
<1>2. Calling(f)
  OBVIOUS
<1> HIDE DEF f
<1> QED BY <1>1, <1>2, StackCalling, LedgerStack DEF Inv, Ledger

LEMMA LedgerQueue ==
  ASSUME Inv, Ledger, NEW payload \in Payloads, Queue(payload), arrived < MaxPackets,
         UNCHANGED <<stack, held, freed, vetoed>>
  PROVE  Ledger'
<1> DEFINE e == [id |-> arrived + 1, payload |-> payload]
<1>1. e \in Packet /\ e.id = arrived + 1 /\ inbox' = Append(inbox, e) /\ arrived' = arrived + 1
  <2>1. arrived + 1 \in PacketIds
    BY HookerAssumption DEF Inv, TypeOK, PacketIds
  <2> QED BY <2>1 DEF Packet, Queue
<1>2. e.id \notin Queued
  BY <1>1, NewIdentity DEF Inv, Ledger
<1> HIDE DEF e
<1>3. QueueApart' /\ Queued' = Queued \cup {arrived + 1}
  BY <1>1, <1>2, QueueLonger DEF Inv, Ledger
<1>4. StackOK' /\ Flying' = Flying
  BY StackUnchanged DEF Ledger
<1>5. Accounted'
  BY <1>1, <1>3, <1>4, LedgerArrival DEF Inv, Ledger
<1> QED BY <1>3, <1>4, <1>5 DEF Ledger

LEMMA GameLedger ==
  ASSUME Inv, Ledger,
         \/ GameLoads \/ GameStarts \/ GameConnects \/ GameDestroysClient
         \/ \E payload \in Payloads : PacketArrives(payload)
         \/ \E p \in held : GameDeallocates(p)
         \/ \E e \in EntryPoints, o \in Offsets : UserAddsVersion(e, o)
         \/ UserUpdates
  PROVE  Ledger'
<1>1. CASE \/ GameLoads \/ GameStarts \/ GameConnects \/ UserUpdates
           \/ \E e \in EntryPoints, o \in Offsets : UserAddsVersion(e, o)
  <2>1. UNCHANGED <<stack, packetVars>>
    BY <1>1 DEF GameLoads, GameStarts, GameConnects, UserUpdates, UserAddsVersion
  <2> QED BY <2>1, LedgerUnchanged
<1>2. CASE GameDestroysClient
  <2>1. /\ inbox' = <<>> /\ freed' = freed \cup Queued
        /\ UNCHANGED <<stack, arrived, held, vetoed>>
    BY <1>2 DEF GameDestroysClient, Queued
  <2>2. QueueApart' /\ Queued' = {}
    BY <2>1, QueueEmptied
  <2>3. StackOK' /\ Flying' = Flying
    BY <2>1, StackUnchanged DEF Ledger
  <2>4. Accounted'
    BY <2>1, <2>2, <2>3 DEF Ledger, Accounted
  <2> QED BY <2>1, <2>2, <2>3, <2>4 DEF Ledger
<1>3. ASSUME NEW payload \in Payloads, PacketArrives(payload) PROVE Ledger'
  BY <1>3, LedgerQueue DEF PacketArrives
<1>4. ASSUME NEW q \in held, GameDeallocates(q) PROVE Ledger'
  <2>1. /\ held' = held \ {q} /\ freed' = freed \cup {q}
        /\ UNCHANGED <<stack, inbox, arrived, vetoed>>
    BY <1>4 DEF GameDeallocates
  <2>2. QueueApart' /\ Queued' = Queued /\ StackOK' /\ Flying' = Flying
    BY <2>1, QueueSame, StackUnchanged DEF Ledger
  <2>3. Accounted'
    BY <2>1, <2>2, LedgerMove DEF Ledger
  <2> QED BY <2>1, <2>2, <2>3 DEF Ledger
<1> QED BY <1>1, <1>2, <1>3, <1>4

LEMMA LifecycleLedger ==
  ASSUME Inv, Ledger,
         destroy \/ initializeTooEarly \/ initializeNoBackend \/ initializeFails \/ initialize
  PROVE  Ledger'
<1>1. CASE destroy \/ initializeFails
  <2>1. TearDown /\ UNCHANGED packetVars
    BY <1>1 DEF destroy, initializeFails
  <2> QED BY <2>1, LedgerTearDown
<1>2. CASE initializeTooEarly \/ initializeNoBackend \/ initialize
  <2>1. UNCHANGED <<stack, packetVars>>
    BY <1>2 DEF initializeTooEarly, initializeNoBackend, initialize
  <2> QED BY <2>1, LedgerUnchanged
<1> QED BY <1>1, <1>2

LEMMA CallsLedger ==
  ASSUME Inv, Ledger,
         \/ \E kind \in {"send", "rpc"}, null \in BOOLEAN : GameSends(kind, null)
         \/ GamePolls
         \/ \E kind \in {"send", "rpc"} : UserSends(kind)
         \/ emul_rpc
         \/ \E payload \in Payloads : emul_packet(payload)
  PROVE  Ledger'
<1>0. {"send", "rpc"} \subseteq Kinds /\ "receive" \in Kinds /\ "handle_rpc" \in Kinds
  BY DEF Kinds
<1>1. ASSUME NEW k \in {"send", "rpc"}, NEW null \in BOOLEAN, GameSends(k, null)
      PROVE  Ledger'
  <2> DEFINE h == hooks[k] = "installed"
             ph == IF h /\ ~(k = "rpc" /\ null) THEN "callbacks" ELSE "original"
  <2>1. h \in BOOLEAN /\ ph \in {"callbacks", "original"} /\ k \in Kinds
    BY <1>0
  <2>2. Calling(Activation(k, h, ph, NoPacket)) /\ UNCHANGED packetVars
    BY <1>1 DEF GameSends
  <2> HIDE DEF h, ph
  <2> QED BY <2>1, <2>2, LedgerCalling
<1>2. CASE GamePolls
  <2> DEFINE h == hooks["receive"] = "installed"
  <2>1. Calling(Activation("receive", h, "original", NoPacket)) /\ UNCHANGED packetVars
    BY <1>2 DEF GamePolls
  <2>2. h \in BOOLEAN
    OBVIOUS
  <2> HIDE DEF h
  <2> QED BY <1>0, <2>1, <2>2, LedgerCalling
<1>3. ASSUME NEW k \in {"send", "rpc"}, UserSends(k) PROVE Ledger'
  <2>1. UNCHANGED packetVars
    BY <1>3 DEF UserSends
  <2>2. UNCHANGED stack \/ Calling(Activation(k, FALSE, "original", NoPacket))
    BY <1>3 DEF UserSends
  <2> QED BY <1>0, <2>1, <2>2, LedgerCalling, LedgerUnchanged
<1>4. CASE emul_rpc
  <2>1. UNCHANGED packetVars
    BY <1>4 DEF emul_rpc
  <2>2. UNCHANGED stack \/ Calling(Activation("handle_rpc", FALSE, "original", NoPacket))
    BY <1>4 DEF emul_rpc
  <2> QED BY <1>0, <2>1, <2>2, LedgerCalling, LedgerUnchanged
<1>5. ASSUME NEW payload \in Payloads, emul_packet(payload) PROVE Ledger'
  <2>1. UNCHANGED <<stack, held, freed, vetoed>> /\ arrived < MaxPackets
    BY <1>5 DEF emul_packet
  <2>2. Queue(payload) \/ UNCHANGED <<arrived, inbox>>
    BY <1>5 DEF emul_packet
  <2> QED BY <2>1, <2>2, LedgerQueue, LedgerUnchanged DEF packetVars
<1> QED BY <1>1, <1>2, <1>3, <1>4, <1>5

LEMMA ReceivePacketLedger == ASSUME Inv, Ledger, ReceivePacket PROVE Ledger'
<1> DEFINE q == Head(inbox).id
<1>1. /\ stack # <<>> /\ inbox # <<>> /\ inbox' = Tail(inbox) /\ Top \in Frame
      /\ Top.kind = "receive" /\ Top.phase = "original"
      /\ Top = stack[Len(stack)] /\ Len(stack) \in 1..Len(stack)
      /\ UNCHANGED <<arrived, freed, vetoed>>
  BY TopFrame DEF Inv, ReceivePacket, Polling, InOriginal, Busy
<1>2. q \in 0..MaxPackets /\ q \in PacketIds
  BY <1>1, HeadType DEF Inv
<1>3. QueueApart' /\ Queued' = Queued \ {q} /\ q \in Queued
  BY <1>1, QueueShorter DEF Inv, Ledger
<1>4. q # NoPacket /\ q \notin Flying /\ NoPacket \notin Flying
  BY <1>2, <1>3 DEF PacketIds, NoPacket, Ledger, Accounted, Flying
<1>5. Top.packet = NoPacket
  BY <1>1 DEF Ledger, StackOK, NotTakenYet
<1>6. CASE Top.hooked
  <2> DEFINE f == DeliveringOf(Top, q)
  <2>1. f \in Frame /\ f.packet = q /\ f.phase = "callbacks"
    BY <1>1, <1>2, DeliveringType DEF DeliveringOf, Frame
  <2>2. stack' = WithTop(f) /\ UNCHANGED held
    BY <1>6 DEF ReceivePacket, DeliveringOf
  <2> HIDE DEF f, q
  <2>3. StackOK' /\ Flying' = Flying \cup {q}
    BY <1>1, <1>4, <1>5, <2>1, <2>2, StackReplaced DEF Inv, Ledger
  <2>4. Accounted'
    BY <1>1, <1>3, <2>2, <2>3, LedgerMove DEF Ledger
  <2> QED BY <1>1, <1>3, <2>3, <2>4 DEF Ledger
<1>7. CASE ~Top.hooked
  <2>1. stack' = Popped /\ held' = held \cup {q}
    BY <1>7 DEF ReceivePacket
  <2>2. StackOK' /\ Flying' = Flying
    BY <1>1, <1>4, <1>5, <2>1, StackPopped DEF Inv, Ledger
  <2> HIDE DEF q
  <2>3. Accounted'
    BY <1>1, <1>3, <2>1, <2>2, LedgerMove DEF Ledger
  <2> QED BY <1>1, <1>3, <2>2, <2>3 DEF Ledger
<1> QED BY <1>6, <1>7

LEMMA ReceiveRPCLedger == ASSUME Inv, Ledger, NEW p \in Players, ReceiveRPC(p) PROVE Ledger'
<1> DEFINE q == Head(inbox).id
<1>1. stack # <<>> /\ inbox # <<>> /\ inbox' = Tail(inbox) /\ UNCHANGED <<arrived, held, vetoed>>
  BY DEF ReceiveRPC, Polling, InOriginal, Busy
<1>2. q \in 0..MaxPackets /\ q \in PacketIds
  BY <1>1, HeadType DEF Inv
<1>3. QueueApart' /\ Queued' = Queued \ {q} /\ q \in Queued
  BY <1>1, QueueShorter DEF Inv, Ledger
<1>4. q # NoPacket /\ q \notin Flying
  BY <1>2, <1>3 DEF PacketIds, NoPacket, Ledger, Accounted
<1>5. \/ UNCHANGED stack /\ freed' = freed \cup {q}
      \/ /\ UNCHANGED freed
         /\ \E h \in BOOLEAN, ph \in {"callbacks", "original"} :
              stack' = Append(stack, Activation("handle_rpc", h, ph, q))
  BY DEF ReceiveRPC
<1> HIDE DEF q
<1>6. CASE UNCHANGED stack /\ freed' = freed \cup {q}
  <2>1. StackOK' /\ Flying' = Flying
    BY <1>6, StackUnchanged DEF Ledger
  <2>2. Accounted'
    BY <1>1, <1>3, <1>6, <2>1, LedgerMove DEF Ledger
  <2> QED BY <1>1, <1>3, <1>6, <2>1, <2>2 DEF Ledger
<1>7. ASSUME NEW h \in BOOLEAN, NEW ph \in {"callbacks", "original"}, UNCHANGED freed,
             stack' = Append(stack, Activation("handle_rpc", h, ph, q))
      PROVE  Ledger'
  <2> DEFINE f == Activation("handle_rpc", h, ph, q)
  <2>1. f \in Frame /\ f.packet = q /\ f.kind # "receive"
    BY <1>2 DEF Activation, Frame, Kinds
  <2>2. stack' = Append(stack, f)
    BY <1>7
  <2> HIDE DEF f
  <2>3. /\ Len(stack') = Len(stack) + 1 /\ Len(stack) \in Nat
        /\ \A i \in 1..(Len(stack) + 1) :
             stack'[i] = IF i = Len(stack) + 1 THEN f ELSE stack[i]
    BY <2>1, <2>2, PushType, LenProperties DEF Inv, TypeOK
  <2>4. stack'[Len(stack) + 1] = f /\ \A i \in 1..Len(stack) : stack'[i] = stack[i]
    BY <2>3
  <2>5. StackOK' /\ Flying' = Flying \cup {q}
    BY <1>4, <2>1, <2>3, <2>4, StackHigher DEF Inv, Ledger
  <2>6. Accounted'
    BY <1>1, <1>3, <1>7, <2>5, LedgerMove DEF Ledger
  <2> QED BY <1>1, <1>3, <1>7, <2>5, <2>6 DEF Ledger
<1> QED BY <1>5, <1>6, <1>7

(* An activation ends: its packet, if it has one, goes to the game or is
   deallocated. *)
LEMMA EndedLedger ==
  ASSUME Inv, Ledger, stack # <<>>, stack' = Popped, UNCHANGED <<arrived, inbox>>,
         \/ Top.packet = NoPacket /\ UNCHANGED <<held, freed, vetoed>>
         \/ /\ Top.packet # NoPacket /\ held' = held \cup {Top.packet}
            /\ UNCHANGED <<freed, vetoed>>
         \/ /\ Top.packet # NoPacket /\ freed' = freed \cup {Top.packet}
            /\ vetoed' \subseteq vetoed \cup {Top.packet} /\ UNCHANGED held
  PROVE  Ledger'
<1> DEFINE q == Top.packet
<1>1. /\ StackOK' /\ Flying' = Flying \ {q} /\ (q # NoPacket => q \in Flying)
      /\ QueueApart' /\ Queued' = Queued
  BY StackPopped, QueueSame DEF Inv, Ledger
<1> HIDE DEF q
<1>2. CASE q = NoPacket /\ UNCHANGED <<held, freed, vetoed>>
  <2>1. Flying' = Flying
    BY <1>1, <1>2 DEF Flying
  <2>2. Accounted'
    BY <1>1, <1>2, <2>1, LedgerSame DEF Ledger
  <2> QED BY <1>1, <1>2, <2>2 DEF Ledger
<1>3. CASE q # NoPacket /\ held' = held \cup {q} /\ UNCHANGED <<freed, vetoed>>
  <2>1. Accounted'
    BY <1>1, <1>3, LedgerMove DEF Ledger
  <2> QED BY <1>1, <1>3, <2>1 DEF Ledger
<1>4. CASE q # NoPacket /\ freed' = freed \cup {q} /\ vetoed' \subseteq vetoed \cup {q}
           /\ UNCHANGED held
  <2>1. Accounted'
    BY <1>1, <1>4, LedgerMove DEF Ledger
  <2> QED BY <1>1, <1>4, <2>1 DEF Ledger
<1> QED BY <1>2, <1>3, <1>4 DEF q

LEMMA ReturnsLedger == ASSUME Inv, Ledger, Returns PROVE Ledger'
<1>1. CASE ReceiveNothing
  <2>1. /\ stack # <<>> /\ stack' = Popped /\ UNCHANGED packetVars
        /\ Top.kind = "receive" /\ Top.phase = "original"
    BY <1>1 DEF ReceiveNothing, Polling, InOriginal, Busy
  <2>2. Top.packet = NoPacket
    BY <2>1, TopFrame DEF Inv, Ledger, StackOK, NotTakenYet
  <2> QED BY <2>1, <2>2, EndedLedger DEF packetVars
<1>2. CASE ReceivePacket
  BY <1>2, ReceivePacketLedger
<1>3. CASE \E p \in Players : ReceiveRPC(p)
  BY <1>3, ReceiveRPCLedger
<1>4. CASE OriginalReturns
  <2>1. stack # <<>> /\ stack' = Popped /\ UNCHANGED <<arrived, inbox, held, vetoed>>
    BY <1>4 DEF OriginalReturns, InOriginal, Busy
  <2>2. freed' = IF Top.packet = NoPacket THEN freed ELSE freed \cup {Top.packet}
    BY <1>4 DEF OriginalReturns
  <2> QED BY <2>1, <2>2, EndedLedger
<1>5. CASE CallbacksApprove
  <2>1. /\ stack # <<>> /\ Top \in Frame /\ Top.phase = "callbacks"
        /\ Top = stack[Len(stack)] /\ Len(stack) \in 1..Len(stack)
        /\ UNCHANGED <<arrived, inbox, freed, vetoed>>
    BY <1>5, TopFrame DEF Inv, CallbacksApprove, InCallback, Busy
  <2>2. CASE Top.kind = "receive" /\ stack' = Popped /\ held' = held \cup {Top.packet}
    <3>1. Top.packet # NoPacket
      BY <2>1, <2>2 DEF Inv, PacketInHand, PacketIds, NoPacket
    <3> QED BY <2>1, <2>2, <3>1, EndedLedger
  <2>3. CASE Top.kind # "receive" /\ stack' = WithTop(ForwardingOf(Top)) /\ UNCHANGED held
    <3> DEFINE f == ForwardingOf(Top)
    <3>1. f \in Frame /\ f.kind # "receive" /\ f.packet = Top.packet
      BY <2>1, <2>3, ForwardingType DEF ForwardingOf, Frame
    <3>2. stack' = WithTop(f)
      BY <2>3
    <3> HIDE DEF f
    <3>3. StackOK' /\ Flying' = Flying \cup ({Top.packet} \ {NoPacket})
      BY <2>1, <3>1, <3>2, StackReplaced DEF Inv, Ledger
    <3>4. Flying' = Flying
      BY <2>1, <3>3 DEF Flying
    <3> QED BY <2>1, <2>3, <3>3, <3>4, LedgerStack DEF packetVars
  <2>4. CASE UNCHANGED <<stack, held>>
    BY <2>1, <2>4, LedgerUnchanged DEF packetVars
  <2> QED BY <1>5, <2>2, <2>3, <2>4 DEF CallbacksApprove, ForwardingOf
<1>6. CASE CallbacksRefuse
  <2>1. stack # <<>> /\ stack' = Popped /\ UNCHANGED <<arrived, inbox, held>>
    BY <1>6 DEF CallbacksRefuse, InCallback, Busy
  <2>2. IF Top.packet = NoPacket
        THEN UNCHANGED <<freed, vetoed>>
        ELSE freed' = freed \cup {Top.packet} /\ vetoed' = vetoed \cup {Top.packet}
    BY <1>6 DEF CallbacksRefuse
  <2> QED BY <2>1, <2>2, EndedLedger
<1> QED BY <1>1, <1>2, <1>3, <1>4, <1>5, <1>6 DEF Returns

LEMMA LedgerNext == ASSUME Inv, Ledger, [Next]_vars PROVE Ledger'
<1>1. CASE UNCHANGED vars
  <2>1. UNCHANGED <<stack, packetVars>>
    BY <1>1 DEF vars
  <2> QED BY <2>1, LedgerUnchanged
<1> QED BY <1>1, GameLedger, LifecycleLedger, CallsLedger, ReturnsLedger DEF Next

LEMMA LedgerInit == Init => Ledger
<1> SUFFICES ASSUME Init PROVE Ledger
  OBVIOUS
<1>1. Len(inbox) = 0 /\ Len(stack) = 0
  BY EmptySeq DEF Init
<1>2. Queued = {} /\ Flying = {} /\ QueueApart /\ StackOK
  BY <1>1 DEF Queued, Flying, QueueApart, StackOK, StackApart, NotTakenYet
<1>3. Accounted
  BY <1>2 DEF Init, Accounted
<1> QED BY <1>2, <1>3 DEF Init, Ledger

LEMMA LedgerAlways == Spec => []Ledger
<1>1. Inv /\ Ledger /\ [Next]_vars => Ledger'
  BY LedgerNext
<1> QED BY <1>1, LedgerInit, Invariance, PTL DEF Spec

(* Every packet that ever arrived is queued, inside a detour, with the game
   or deallocated, and in one of these places only, however the hooks come
   and go meanwhile (rakhook.hpp:191-271): none leaks, none is used after it
   is freed, none is freed twice. *)
THEOREM EveryPacketIsAccounted == Spec => []PacketsAccounted
<1>1. Inv /\ Ledger => PacketsAccounted
  BY QueueCounted DEF Inv, Ledger, Accounted, PacketsAccounted
<1> QED BY <1>1, Invariance, LedgerAlways, PTL

(* A packet or an RPC a callback refused is deallocated, and neither the
   queue nor the game has it afterwards (rakhook.hpp:203-206, 268-270). *)
THEOREM VetoesAreFinal == Spec => VetoIsFinal
<1> DEFINE A == \A p \in vetoed' : p \in freed' /\ p \notin held' /\ p \notin Queued'
<1>1. Ledger' => A
  BY DEF Ledger, Accounted
<1>2. Spec => [][A]_vars
  <2> HIDE DEF A
  <2> QED BY <1>1, LedgerAlways, PTL
<1> QED BY <1>2 DEF VetoIsFinal

-----------------------------------------------------------------------------
(* The minhook wrapper, for any number of hook objects.  What the flags say *)
(* holds however the wrapper is used: a failed MH_RemoveHook leaves an      *)
(* entry that no flag speaks of, and an object that was alive when the      *)
(* library was uninitialized is one of an outlived target.  The originals   *)
(* need one object of a type at a time, since the objects of a type share   *)
(* one static trampoline, and the contract that nobody uninitializes the    *)
(* library under living objects, as hooker does not.                        *)

USE MinHookAssumption, EntryAssumption

(* The library is initialized when the wrapper thinks so, else it is empty. *)
LibraryAgrees ==
  /\ initialized_ => mh
  /\ ~mh => \A t \in Targets : table[t] = NoHook

(* Two created objects share a target only after it was outlived. *)
OneOfEachTarget ==
  \A o, p \in alive :
    created_[o] /\ created_[p] /\ TargetOf[o] = TargetOf[p] /\ TargetOf[o] \notin outlived => o = p

MinHookInv == MinHookTypeOK /\ LibraryAgrees /\ OneOfEachTarget /\ FlagsAreTrue

LEMMA MinHookInitInv == MinHookInit => MinHookInv
BY DEF MinHookInit, MinHookInv, MinHookTypeOK, LibraryAgrees, OneOfEachTarget, FlagsAreTrue

(* Changing the enabled bit of an entry keeps its slot and its thunk. *)
Switched(e, b) == [e EXCEPT !.enabled = b]
LEMMA SwitchedType ==
  ASSUME NEW e \in Entry, NEW b \in BOOLEAN
  PROVE  /\ Switched(e, b) \in Entry /\ Switched(e, b) # NoHook
         /\ Switched(e, b).slot = e.slot /\ Switched(e, b).thunk = e.thunk
         /\ Switched(e, b).enabled = b
<1>1. /\ Switched(e, b) \in Entry
      /\ Switched(e, b).slot = e.slot /\ Switched(e, b).thunk = e.thunk
      /\ Switched(e, b).enabled = b
  BY DEF Switched, Entry
<1> QED BY <1>1, Zenon

LEMMA MinHookInitializeInv == ASSUME MinHookInv, minhook_initialize PROVE MinHookInv'
<1>1. MinHookTypeOK' /\ LibraryAgrees'
  BY DEF MinHookInv, MinHookTypeOK, LibraryAgrees, minhook_initialize
<1>2. UNCHANGED <<alive, created_, enabled_, table, outlived>> /\ mh'
  BY DEF minhook_initialize
<1> QED BY <1>1, <1>2 DEF MinHookInv, OneOfEachTarget, FlagsAreTrue, Has

(* MH_Uninitialize empties the table, or only switches entries off. *)
LEMMA LibraryUninitialized ==
  ASSUME MinHookInv, MH_Uninitialize
  PROVE  /\ mh' \in BOOLEAN /\ table' \in [Targets -> Entry \cup {NoHook}]
         /\ ~mh' => \A t \in Targets : table'[t] = NoHook
         /\ \A t \in Targets : table'[t] # NoHook =>
              /\ table[t] # NoHook /\ table'[t].slot = table[t].slot
              /\ table'[t].thunk = table[t].thunk
              /\ table'[t].enabled => table[t].enabled
<1>0. table \in [Targets -> Entry \cup {NoHook}] /\ mh \in BOOLEAN
      /\ (~mh => \A t \in Targets : table[t] = NoHook)
  BY DEF MinHookInv, MinHookTypeOK, LibraryAgrees
<1>1. CASE mh' = FALSE /\ table' = [t \in Targets |-> NoHook]
  BY <1>1
<1>2. ASSUME NEW disabled \in SUBSET {t \in Targets : table[t] # NoHook},
             table' = [t \in Targets |-> IF t \in disabled THEN [table[t] EXCEPT !.enabled = FALSE]
                                         ELSE table[t]],
             mh' = mh
      PROVE  /\ table' \in [Targets -> Entry \cup {NoHook}]
             /\ \A t \in Targets : \/ t \in disabled /\ table'[t] = Switched(table[t], FALSE)
                                   \/ t \notin disabled /\ table'[t] = table[t]
             /\ \A t \in disabled : table[t] \in Entry
  <2>1. \A t \in disabled : t \in Targets /\ table[t] \in Entry
    BY <1>0
  <2>2. \A t \in disabled : Switched(table[t], FALSE) \in Entry
    BY <2>1, SwitchedType
  <2>3. table' = [t \in Targets |-> IF t \in disabled THEN Switched(table[t], FALSE) ELSE table[t]]
    BY <1>2 DEF Switched
  <2> QED BY <1>0, <2>1, <2>2, <2>3
<1>3. CASE UNCHANGED mh /\ \E disabled \in SUBSET {t \in Targets : table[t] # NoHook} :
             table' = [t \in Targets |-> IF t \in disabled THEN [table[t] EXCEPT !.enabled = FALSE]
                                         ELSE table[t]]
  <2>1. PICK disabled \in SUBSET {t \in Targets : table[t] # NoHook} :
             table' = [t \in Targets |-> IF t \in disabled THEN [table[t] EXCEPT !.enabled = FALSE]
                                         ELSE table[t]]
    BY <1>3
  <2>2. /\ table' \in [Targets -> Entry \cup {NoHook}]
        /\ \A t \in Targets : \/ t \in disabled /\ table'[t] = Switched(table[t], FALSE)
                              \/ t \notin disabled /\ table'[t] = table[t]
        /\ \A t \in disabled : table[t] \in Entry
    BY <1>2, <1>3, <2>1
  <2>3. \A t \in disabled : /\ table[t] # NoHook
                            /\ Switched(table[t], FALSE).slot = table[t].slot
                            /\ Switched(table[t], FALSE).thunk = table[t].thunk
                            /\ Switched(table[t], FALSE).enabled = FALSE
    BY <2>1, <2>2, SwitchedType
  <2> QED BY <1>0, <1>3, <2>2, <2>3
<1> QED BY <1>1, <1>3 DEF MH_Uninitialize

LEMMA UninitializeInv == ASSUME MinHookInv, uninitialize PROVE MinHookInv'
<1>1. /\ MH_Uninitialize /\ UNCHANGED <<trampoline, alive, created_, enabled_>>
      /\ initialized_' = FALSE
      /\ outlived' = outlived \cup {TargetOf[o] : o \in {p \in alive : created_[p]}}
  BY DEF uninitialize
<1>2. /\ outlived' \subseteq Targets
      /\ \A o \in alive : created_[o] => TargetOf[o] \in outlived'
  BY <1>1 DEF MinHookInv, MinHookTypeOK
<1>3. MinHookTypeOK' /\ LibraryAgrees'
  BY <1>1, <1>2, LibraryUninitialized DEF MinHookInv, MinHookTypeOK, LibraryAgrees
<1>4. OneOfEachTarget' /\ FlagsAreTrue'
  BY <1>1, <1>2 DEF OneOfEachTarget, FlagsAreTrue
<1> QED BY <1>3, <1>4 DEF MinHookInv

(* What a successful MH_CreateHook writes. *)
LEMMA Created ==
  ASSUME MinHookInv, NEW t \in Targets, NEW a \in Adapters, NEW s \in FreeSlots,
         MH_CreateHook(t, a, s)
  PROVE  /\ table' \in [Targets -> Entry \cup {NoHook}]
         /\ table'[t] # NoHook /\ table'[t].slot = s
         /\ table'[t].thunk = a /\ table'[t].enabled = FALSE
         /\ \A u \in Targets : u # t => table'[u] = table[u]
<1> DEFINE e == [slot |-> s, thunk |-> a, enabled |-> FALSE]
<1>1. e \in Entry
  BY DEF FreeSlots, Entry
<1>2. e.slot = s /\ e.thunk = a /\ e.enabled = FALSE
  OBVIOUS
<1>3. e # NoHook
  BY <1>1, Zenon
<1>4. table' = [table EXCEPT ![t] = e] /\ table \in [Targets -> Entry \cup {NoHook}]
  BY DEF MH_CreateHook, MinHookInv, MinHookTypeOK
<1> HIDE DEF e
<1> QED BY <1>1, <1>2, <1>3, <1>4

LEMMA ConstructInv == ASSUME MinHookInv, NEW o \in Objects, Construct(o) PROVE MinHookInv'
<1> DEFINE t == TargetOf[o]
           a == AdapterOf[o]
<1>1. /\ o \notin alive /\ alive' = alive \cup {o} /\ t \in Targets /\ a \in Adapters
      /\ ~created_[o] /\ ~enabled_[o] /\ UNCHANGED <<mh, initialized_, enabled_, outlived>>
  BY DEF Construct, MinHookInv, MinHookTypeOK
<1>2. CASE UNCHANGED <<table, trampoline, created_>>
  <2>1. MinHookTypeOK' /\ LibraryAgrees'
    BY <1>1, <1>2 DEF MinHookInv, MinHookTypeOK, LibraryAgrees
  <2>2. OneOfEachTarget' /\ FlagsAreTrue'
    BY <1>1, <1>2 DEF MinHookInv, OneOfEachTarget, FlagsAreTrue, Has
  <2> QED BY <2>1, <2>2 DEF MinHookInv
<1>3. CASE /\ mh /\ table[t] = NoHook
           /\ \E s \in FreeSlots :
                /\ MH_CreateHook(t, a, s)
                /\ trampoline' = [trampoline EXCEPT ![a] = s]
           /\ created_' = [created_ EXCEPT ![o] = TRUE]
  <2>1. PICK s \in FreeSlots : /\ MH_CreateHook(t, a, s)
                               /\ trampoline' = [trampoline EXCEPT ![a] = s]
    BY <1>3
  <2>2. /\ table' \in [Targets -> Entry \cup {NoHook}]
        /\ table'[t] # NoHook /\ table'[t].thunk = a /\ table'[t].enabled = FALSE
        /\ \A u \in Targets : u # t => table'[u] = table[u]
    BY <1>1, <2>1, Created
  <2> HIDE DEF t, a
  <2>3. \A p \in alive : created_[p] /\ TargetOf[p] \notin outlived => TargetOf[p] # t
    BY <1>3 DEF MinHookInv, FlagsAreTrue, Has
  <2>4. /\ created_' \in [Objects -> BOOLEAN] /\ created_'[o] = TRUE
        /\ \A p \in Objects : p # o => created_'[p] = created_[p]
    BY <1>3 DEF MinHookInv, MinHookTypeOK
  <2>5. MinHookTypeOK'
    BY <1>1, <2>1, <2>2, <2>4 DEF MinHookInv, MinHookTypeOK, FreeSlots
  <2>6. LibraryAgrees'
    BY <1>1, <1>3 DEF MinHookInv, LibraryAgrees
  <2>7. \A p \in alive : p \in Objects /\ p # o /\ TargetOf[p] \in Targets
    BY <1>1 DEF MinHookInv, MinHookTypeOK
  <2>8. OneOfEachTarget'
    BY <1>1, <2>3, <2>4, <2>7 DEF MinHookInv, OneOfEachTarget, t
  <2>9. FlagsAreTrue'
    <3>1. Has(TargetOf[o])' /\ table'[TargetOf[o]].thunk = AdapterOf[o]
          /\ table'[TargetOf[o]].enabled = enabled_'[o]
      <4>1. enabled_'[o] = FALSE
        BY <1>1 DEF MinHookInv, MinHookTypeOK
      <4> QED BY <1>1, <1>3, <2>2, <4>1 DEF Has, t, a
    <3>2. ASSUME NEW p \in alive, created_'[p], TargetOf[p] \notin outlived
          PROVE  /\ Has(TargetOf[p])' /\ table'[TargetOf[p]].thunk = AdapterOf[p]
                 /\ table'[TargetOf[p]].enabled = enabled_'[p]
      BY <1>1, <2>2, <2>3, <2>4, <2>7, <3>2 DEF MinHookInv, FlagsAreTrue, Has
    <3> QED BY <1>1, <3>1, <3>2 DEF FlagsAreTrue
  <2> QED BY <2>5, <2>6, <2>8, <2>9 DEF MinHookInv
<1> QED BY <1>2, <1>3 DEF Construct

(* ~hook() touches no entry but that of its target, and frees it or not. *)
LEMMA Destructed ==
  ASSUME MinHookInv, NEW o \in Objects, Destruct(o)
  PROVE  /\ o \in alive /\ alive' = alive \ {o} /\ UNCHANGED <<mh, initialized_, trampoline>>
         /\ table' \in [Targets -> Entry \cup {NoHook}]
         /\ \A t \in Targets : table'[t] # NoHook => table'[t] = table[t]
         /\ \A t \in Targets : t # TargetOf[o] \/ ~created_[o] => table'[t] = table[t]
         /\ \A p \in alive' : /\ p \in Objects /\ p \in alive /\ p # o
                              /\ created_'[p] = created_[p] /\ enabled_'[p] = enabled_[p]
         /\ outlived' \subseteq outlived
         /\ \A p \in alive' : created_[p] /\ TargetOf[p] \in outlived => TargetOf[p] \in outlived'
<1>1. /\ o \in alive /\ Forget(o)
      /\ table \in [Targets -> Entry \cup {NoHook}] /\ alive \subseteq Objects
      /\ created_ \in [Objects -> BOOLEAN] /\ enabled_ \in [Objects -> BOOLEAN]
  BY DEF Destruct, MinHookInv, MinHookTypeOK
<1>2. /\ table' \in [Targets -> Entry \cup {NoHook}]
      /\ \A t \in Targets : table'[t] # NoHook => table'[t] = table[t]
      /\ \A t \in Targets : t # TargetOf[o] \/ ~created_[o] => table'[t] = table[t]
  BY <1>1 DEF Destruct, MH_RemoveHook
<1>3. /\ alive' = alive \ {o} /\ UNCHANGED <<mh, initialized_, trampoline>>
      /\ created_' = [created_ EXCEPT ![o] = FALSE] /\ enabled_' = [enabled_ EXCEPT ![o] = FALSE]
      /\ outlived' = {t \in outlived : \E p \in alive \ {o} : created_[p] /\ TargetOf[p] = t}
  BY <1>1 DEF Forget
<1>4. \A p \in alive' : /\ p \in Objects /\ p \in alive /\ p # o
                        /\ created_'[p] = created_[p] /\ enabled_'[p] = enabled_[p]
  BY <1>1, <1>3
<1>5. \A p \in alive' : created_[p] /\ TargetOf[p] \in outlived => TargetOf[p] \in outlived'
  BY <1>3
<1> QED BY <1>1, <1>2, <1>3, <1>4, <1>5

LEMMA DestructInv == ASSUME MinHookInv, NEW o \in Objects, Destruct(o) PROVE MinHookInv'
<1>1. /\ o \in alive /\ alive' = alive \ {o} /\ UNCHANGED <<mh, initialized_, trampoline>>
      /\ table' \in [Targets -> Entry \cup {NoHook}]
      /\ \A t \in Targets : table'[t] # NoHook => table'[t] = table[t]
      /\ \A t \in Targets : t # TargetOf[o] \/ ~created_[o] => table'[t] = table[t]
      /\ \A p \in alive' : /\ p \in Objects /\ p \in alive /\ p # o /\ TargetOf[p] \in Targets
                           /\ created_'[p] = created_[p] /\ enabled_'[p] = enabled_[p]
      /\ outlived' \subseteq outlived
      /\ \A p \in alive' : created_[p] /\ TargetOf[p] \in outlived => TargetOf[p] \in outlived'
  BY Destructed
<1>2. MinHookTypeOK'
  BY <1>1 DEF Destruct, Forget, MinHookInv, MinHookTypeOK
<1>3. LibraryAgrees'
  BY <1>1 DEF MinHookInv, LibraryAgrees
<1>4. \A p \in alive' : created_[p] /\ TargetOf[p] \notin outlived' =>
        TargetOf[p] \notin outlived /\ (created_[o] => TargetOf[p] # TargetOf[o])
  BY <1>1 DEF MinHookInv, OneOfEachTarget
<1>5. OneOfEachTarget'
  BY <1>1, <1>4 DEF MinHookInv, OneOfEachTarget
<1>6. FlagsAreTrue'
  BY <1>1, <1>4 DEF MinHookInv, FlagsAreTrue, Has
<1> QED BY <1>2, <1>3, <1>5, <1>6 DEF MinHookInv

(* What MH_EnableHook and MH_DisableHook write. *)
LEMMA SwitchedTable ==
  ASSUME MinHookInv, NEW t \in Targets, NEW b \in BOOLEAN, table[t] # NoHook,
         MH_SetEnabled(t, b)
  PROVE  /\ table' \in [Targets -> Entry \cup {NoHook}]
         /\ table'[t] # NoHook /\ table'[t].slot = table[t].slot
         /\ table'[t].thunk = table[t].thunk /\ table'[t].enabled = b
         /\ \A u \in Targets : u # t => table'[u] = table[u]
<1>1. table \in [Targets -> Entry \cup {NoHook}] /\ table[t] \in Entry
  BY DEF MinHookInv, MinHookTypeOK
<1>2. table' = [table EXCEPT ![t] = Switched(table[t], b)]
  BY <1>1 DEF MH_SetEnabled, Switched
<1>3. /\ Switched(table[t], b) \in Entry /\ Switched(table[t], b) # NoHook
      /\ Switched(table[t], b).slot = table[t].slot
      /\ Switched(table[t], b).thunk = table[t].thunk /\ Switched(table[t], b).enabled = b
  BY <1>1, SwitchedType
<1> QED BY <1>1, <1>2, <1>3

(* install() and uninstall() flip one flag and the enabled bit it mirrors. *)
LEMMA SwitchInv ==
  ASSUME MinHookInv, NEW o \in alive, NEW b \in BOOLEAN, created_[o], Has(TargetOf[o]),
         MH_SetEnabled(TargetOf[o], b), enabled_' = [enabled_ EXCEPT ![o] = b],
         UNCHANGED <<mh, initialized_, trampoline, alive, created_, outlived>>
  PROVE  MinHookInv'
<1> DEFINE t == TargetOf[o]
<1>1. o \in Objects /\ t \in Targets /\ mh /\ table[t] # NoHook
  BY DEF MinHookInv, MinHookTypeOK, Has
<1>2. /\ table' \in [Targets -> Entry \cup {NoHook}]
      /\ table'[t] # NoHook /\ table'[t].slot = table[t].slot
      /\ table'[t].thunk = table[t].thunk /\ table'[t].enabled = b
      /\ \A u \in Targets : u # t => table'[u] = table[u]
  BY <1>1, SwitchedTable
<1>3. /\ enabled_' \in [Objects -> BOOLEAN] /\ enabled_'[o] = b
      /\ \A p \in Objects : p # o => enabled_'[p] = enabled_[p]
  BY <1>1 DEF MinHookInv, MinHookTypeOK
<1> HIDE DEF t
<1>4. MinHookTypeOK'
  BY <1>1, <1>2, <1>3 DEF MinHookInv, MinHookTypeOK
<1>5. LibraryAgrees' /\ OneOfEachTarget'
  BY <1>1 DEF MinHookInv, LibraryAgrees, OneOfEachTarget
<1>6. \A p \in alive : /\ p \in Objects /\ TargetOf[p] \in Targets
                       /\ created_[p] /\ TargetOf[p] \notin outlived /\ p # o => TargetOf[p] # t
  BY DEF MinHookInv, MinHookTypeOK, OneOfEachTarget, t
<1>7. ASSUME NEW p \in alive, created_[p], TargetOf[p] \notin outlived
      PROVE  /\ mh /\ table'[TargetOf[p]] # NoHook /\ table'[TargetOf[p]].thunk = AdapterOf[p]
             /\ table'[TargetOf[p]].enabled = enabled_'[p]
  <2>1. CASE p = o
    BY <1>1, <1>2, <1>3, <1>7, <2>1 DEF MinHookInv, FlagsAreTrue, Has, t
  <2>2. CASE p # o
    BY <1>2, <1>3, <1>6, <1>7, <2>2 DEF MinHookInv, FlagsAreTrue, Has
  <2> QED BY <2>1, <2>2
<1>8. FlagsAreTrue'
  BY <1>7 DEF FlagsAreTrue, Has
<1> QED BY <1>4, <1>5, <1>8 DEF MinHookInv

LEMMA MinHookNextInv == ASSUME MinHookInv, [MinHookNext]_minhook_vars PROVE MinHookInv'
<1>1. CASE minhook_initialize
  BY <1>1, MinHookInitializeInv
<1>2. CASE uninitialize
  BY <1>2, UninitializeInv
<1>3. ASSUME NEW o \in Objects, Construct(o) PROVE MinHookInv'
  BY <1>3, ConstructInv
<1>4. ASSUME NEW o \in Objects, Destruct(o) PROVE MinHookInv'
  BY <1>4, DestructInv
<1>5. ASSUME NEW o \in Objects, install(o) PROVE MinHookInv'
  BY <1>5, SwitchInv DEF install
<1>6. ASSUME NEW o \in Objects, uninstall(o) PROVE MinHookInv'
  BY <1>6, SwitchInv DEF uninstall
<1>7. CASE UNCHANGED minhook_vars
  BY <1>7 DEF minhook_vars, MinHookInv, MinHookTypeOK, LibraryAgrees, OneOfEachTarget,
              FlagsAreTrue, Has
<1> QED BY <1>1, <1>2, <1>3, <1>4, <1>5, <1>6, <1>7 DEF MinHookNext

LEMMA MinHookInvariance == MinHookSpec => []MinHookInv
<1>1. MinHookInv /\ [MinHookNext]_minhook_vars => MinHookInv'
  BY MinHookNextInv
<1> QED BY <1>1, MinHookInitInv, PTL DEF MinHookSpec

(* The fields of the wrapper have their types; an enabled object is created,
   a created one alive (minhook.hpp:109-117). *)
THEOREM FlagsHaveTypes == MinHookSpec => []MinHookTypeOK
<1>1. MinHookInv => MinHookTypeOK
  BY DEF MinHookInv
<1> QED BY <1>1, MinHookInvariance, PTL

(* Whatever fails and whoever uninitializes the library, the flags of a hook
   object tell the truth about it, so that install() and uninstall() do what
   they report (minhook.hpp:73-103), unless its target was outlived. *)
THEOREM FlagsTellTheTruth == MinHookSpec => []FlagsAreTrue
<1>1. MinHookInv => FlagsAreTrue
  BY DEF MinHookInv
<1> QED BY <1>1, MinHookInvariance, PTL

-----------------------------------------------------------------------------
(* The originals: with one object of a type at a time, what MH_CreateHook   *)
(* wrote stays in the static trampoline while the object is there.          *)

OneOfEachType == \A o, p \in alive : AdapterOf[o] = AdapterOf[p] => o = p

(* OriginalIsOwn, for the hooks that are not enabled too. *)
SlotKept(t) ==
  \/ trampoline[table[t].thunk] = table[t].slot
  \/ Orphan(t) /\ \E o \in Objects : AdapterOf[o] = table[t].thunk /\ TargetOf[o] # t
SlotsKept == \A t \in Targets : table[t] # NoHook => SlotKept(t)

OriginalsInv == OneOfEachType /\ SlotsKept

(* Entries keep slot and thunk, trampolines and objects stay as they are.   *)
LEMMA EntriesSame ==
  ASSUME OriginalsInv, UNCHANGED <<alive, created_, trampoline>>,
         \A t \in Targets : table'[t] # NoHook =>
           /\ table[t] # NoHook /\ table'[t].slot = table[t].slot
           /\ table'[t].thunk = table[t].thunk
  PROVE  OriginalsInv'
<1>1. OneOfEachType'
  BY DEF OriginalsInv, OneOfEachType
<1>2. SlotsKept'
  BY DEF OriginalsInv, SlotsKept, SlotKept, Orphan
<1> QED BY <1>1, <1>2 DEF OriginalsInv

LEMMA ConstructOriginals ==
  ASSUME OneEach, MinHookInv, OriginalsInv, NEW o \in Objects, TypeIsFree(o), Construct(o)
  PROVE  OriginalsInv'
<1> DEFINE t == TargetOf[o]
           a == AdapterOf[o]
<1>1. /\ o \notin alive /\ alive' = alive \cup {o} /\ t \in Targets /\ a \in Adapters
      /\ ~created_[o] /\ \A p \in alive : AdapterOf[p] # a /\ p \in Objects
  BY DEF Construct, TypeIsFree, MinHookInv, MinHookTypeOK
<1>2. OneOfEachType'
  BY <1>1 DEF OneOfEachType, OriginalsInv
<1>3. CASE UNCHANGED <<table, trampoline, created_>>
  <2>1. SlotsKept'
    BY <1>1, <1>3 DEF OriginalsInv, SlotsKept, SlotKept, Orphan
  <2> QED BY <1>2, <2>1 DEF OriginalsInv
<1>4. CASE /\ mh /\ table[t] = NoHook
           /\ \E s \in FreeSlots :
                /\ MH_CreateHook(t, a, s)
                /\ trampoline' = [trampoline EXCEPT ![a] = s]
           /\ created_' = [created_ EXCEPT ![o] = TRUE]
  <2>1. PICK s \in FreeSlots : /\ MH_CreateHook(t, a, s)
                               /\ trampoline' = [trampoline EXCEPT ![a] = s]
    BY <1>4
  <2>2. /\ table'[t].slot = s /\ table'[t].thunk = a
        /\ \A u \in Targets : u # t => table'[u] = table[u]
    <3>1. t \in Targets /\ a \in Adapters /\ MH_CreateHook(t, a, s)
      BY <1>1, <2>1
    <3> HIDE DEF t, a
    <3> QED BY <3>1, Created
  <2>3. /\ trampoline'[a] = s
        /\ \A b \in Adapters : b # a => trampoline'[b] = trampoline[b]
    BY <1>1, <2>1 DEF MinHookInv, MinHookTypeOK
  <2>4. \A p \in alive : created_'[p] = created_[p]
    BY <1>1, <1>4 DEF MinHookInv, MinHookTypeOK
  <2>5. SlotKept(t)'
    BY <2>2, <2>3 DEF SlotKept
  <2>6. ASSUME NEW u \in Targets, u # t, table'[u] # NoHook PROVE SlotKept(u)'
    <3>1. table'[u] = table[u] /\ table[u].thunk \in Adapters /\ SlotKept(u)
      BY <2>2, <2>6 DEF MinHookInv, MinHookTypeOK, OriginalsInv, SlotsKept, Entry
    <3>2. CASE table[u].thunk = a
      <4>1. Orphan(u)'
        BY <1>1, <2>4, <2>6, <3>1, <3>2 DEF Orphan
      <4>2. AdapterOf[o] = table'[u].thunk /\ TargetOf[o] # u
        BY <2>6, <3>1, <3>2
      <4> QED BY <4>1, <4>2 DEF SlotKept
    <3>3. CASE table[u].thunk # a
      <4>1. trampoline'[table'[u].thunk] = trampoline[table[u].thunk]
        BY <2>3, <3>1, <3>3
      <4>2. Orphan(u) => Orphan(u)'
        BY <1>1, <2>4, <2>6, <3>1, <3>3 DEF Orphan
      <4> QED BY <3>1, <4>1, <4>2 DEF SlotKept
    <3> QED BY <3>2, <3>3
  <2> QED BY <1>2, <2>5, <2>6 DEF OriginalsInv, SlotsKept
<1> QED BY <1>3, <1>4 DEF Construct

LEMMA DestructOriginals ==
  ASSUME MinHookInv, OriginalsInv, NEW o \in Objects, Destruct(o)
  PROVE  OriginalsInv'
<1>1. /\ alive' = alive \ {o} /\ trampoline' = trampoline
      /\ \A t \in Targets : table'[t] # NoHook => table'[t] = table[t]
      /\ \A p \in alive' : p \in alive /\ created_'[p] = created_[p]
  BY Destructed
<1>2. OneOfEachType'
  BY <1>1 DEF OriginalsInv, OneOfEachType
<1>3. SlotsKept'
  BY <1>1 DEF OriginalsInv, SlotsKept, SlotKept, Orphan
<1> QED BY <1>2, <1>3 DEF OriginalsInv

LEMMA SwitchOriginals ==
  ASSUME MinHookInv, OriginalsInv, NEW t \in Targets, NEW b \in BOOLEAN, table[t] # NoHook,
         MH_SetEnabled(t, b), UNCHANGED <<alive, created_, trampoline>>
  PROVE  OriginalsInv'
<1>1. /\ table'[t].slot = table[t].slot /\ table'[t].thunk = table[t].thunk
      /\ \A u \in Targets : u # t => table'[u] = table[u]
  BY SwitchedTable
<1>2. \A u \in Targets : table'[u] # NoHook =>
           /\ table[u] # NoHook /\ table'[u].slot = table[u].slot
           /\ table'[u].thunk = table[u].thunk
  BY <1>1
<1> QED BY <1>2, EntriesSame

LEMMA OriginalsNext ==
  ASSUME OneEach, MinHookInv, OriginalsInv, [MinHookNext]_minhook_vars
  PROVE  OriginalsInv'
<1>1. CASE minhook_initialize \/ UNCHANGED minhook_vars
  BY <1>1, EntriesSame DEF minhook_initialize, minhook_vars
<1>2. CASE uninitialize
  BY <1>2, LibraryUninitialized, EntriesSame DEF uninitialize
<1>3. ASSUME NEW o \in Objects, TypeIsFree(o), Construct(o) PROVE OriginalsInv'
  BY <1>3, ConstructOriginals
<1>4. ASSUME NEW o \in Objects, Destruct(o) PROVE OriginalsInv'
  BY <1>4, DestructOriginals
<1>5. ASSUME NEW o \in Objects, install(o) PROVE OriginalsInv'
  BY <1>5, SwitchOriginals DEF install, Has
<1>6. ASSUME NEW o \in Objects, uninstall(o) PROVE OriginalsInv'
  BY <1>6, SwitchOriginals DEF uninstall, Has
<1> QED BY <1>1, <1>2, <1>3, <1>4, <1>5, <1>6 DEF MinHookNext

(* With one object of a type at a time, the thunk of a hooked function hands
   its detour the trampoline of that function and of no other (minhook.hpp:34-56,
   74), except for a detour whose object failed to remove it. *)
THEOREM OriginalsAreOwn == ASSUME OneEach PROVE MinHookSpec => []OriginalIsOwn
<1>1. MinHookInit => OriginalsInv
  BY DEF MinHookInit, OriginalsInv, OneOfEachType, SlotsKept
<1>2. MinHookInv /\ OriginalsInv /\ [MinHookNext]_minhook_vars => OriginalsInv'
  BY OriginalsNext
<1>3. OriginalsInv => OriginalIsOwn
  BY DEF OriginalsInv, SlotsKept, SlotKept, OriginalIsOwn
<1> QED BY <1>1, <1>2, <1>3, MinHookInvariance, PTL DEF MinHookSpec

-----------------------------------------------------------------------------
(* The wrapper implements HookContract while no target is outlived: then an *)
(* entry that is enabled for a created object is that object's.             *)

NoneOutlived == outlived = {}

(* What a step does to one target's reach is what it does to its entry. *)
Reach(t) == IF Has(t) /\ table[t].enabled THEN table[t].thunk ELSE NoHook
LEMMA ReachedIs == /\ Reached \in [Targets -> {Reach(t) : t \in Targets}]
                   /\ Reached = [t \in Targets |-> Reach(t)]
                   /\ \A t \in Targets : Reached[t] = Reach(t)
BY DEF Reached, Reach

LEMMA ReachedAlone ==
  ASSUME NEW t \in Targets, \A u \in Targets : u # t => Reach(u)' = Reach(u)
  PROVE  Reached' = [Reached EXCEPT ![t] = Reach(t)']
<1>1. /\ Reached = [u \in Targets |-> Reach(u)]
      /\ Reached' = [u \in Targets |-> Reach(u)']
  BY DEF Reached, Reach
<1> HIDE DEF Reach
<1> QED BY <1>1

LEMMA UninitializeContract ==
  ASSUME MinHookInv, uninitialize
  PROVE  C!Shutdown
<1>1. UNCHANGED alive /\ MH_Uninitialize /\ mh
  BY DEF uninitialize, MinHookInv, LibraryAgrees
<1> DEFINE undone == {t \in Targets : Reach(t)' = NoHook}
<1>2. ASSUME NEW t \in Targets, Reach(t)' # NoHook PROVE Reach(t)' = Reach(t)
  <2>1. mh' /\ table'[t] # NoHook /\ table'[t].enabled /\ Reach(t)' = table'[t].thunk
    BY <1>2 DEF Reach, Has
  <2>2. table[t] # NoHook /\ table'[t].thunk = table[t].thunk /\ table[t].enabled
    BY <1>1, <2>1, LibraryUninitialized
  <2> QED BY <1>1, <2>1, <2>2 DEF Reach, Has
<1>3. \A t \in Targets : Reach(t)' = IF t \in undone THEN NoHook ELSE Reach(t)
  BY <1>2
<1>4. /\ Reached' = [t \in Targets |-> Reach(t)']
      /\ \A t \in Targets : Reached[t] = Reach(t)
  BY DEF Reached, Reach
<1>5. Reached' = [t \in Targets |-> IF t \in undone THEN NoHook ELSE Reached[t]]
  <2> HIDE DEF Reach, undone
  <2> QED BY <1>3, <1>4
<1>6. undone \in SUBSET Targets
  OBVIOUS
<1> HIDE DEF undone
<1> QED BY <1>1, <1>5, <1>6 DEF C!Shutdown

LEMMA ConstructContract ==
  ASSUME MinHookInv, NEW o \in Objects, Construct(o)
  PROVE  C!Make(o)
<1>1. o \notin alive /\ alive' = alive \cup {o} /\ mh' = mh /\ TargetOf[o] \in Targets
      /\ AdapterOf[o] \in Adapters
  BY DEF Construct
<1>2. ASSUME NEW t \in Targets PROVE Reach(t)' = Reach(t)
  <2>1. CASE UNCHANGED table
    BY <1>1, <2>1 DEF Reach, Has
  <2>2. ASSUME NEW s \in FreeSlots, table[TargetOf[o]] = NoHook,
               MH_CreateHook(TargetOf[o], AdapterOf[o], s)
        PROVE  Reach(t)' = Reach(t)
    <3>1. /\ table'[TargetOf[o]].enabled = FALSE
          /\ \A u \in Targets : u # TargetOf[o] => table'[u] = table[u]
      BY <1>1, <2>2, Created, Zenon
    <3>2. CASE t = TargetOf[o]
      BY <2>2, <3>1, <3>2 DEF Reach, Has
    <3>3. CASE t # TargetOf[o]
      BY <1>1, <3>1, <3>3 DEF Reach, Has
    <3> QED BY <3>2, <3>3
  <2> QED BY <2>1, <2>2 DEF Construct
<1>3. Reached = [t \in Targets |-> Reach(t)] /\ Reached' = [t \in Targets |-> Reach(t)']
  BY DEF Reached, Reach
<1>4. UNCHANGED Reached
  <2> HIDE DEF Reach
  <2> QED BY <1>2, <1>3
<1> QED BY <1>1, <1>4 DEF C!Make

LEMMA DestructContract ==
  ASSUME MinHookInv, NoneOutlived, NEW o \in Objects, Destruct(o)
  PROVE  C!Drop(o)
<1> DEFINE t == TargetOf[o]
<1>1. /\ o \in alive /\ alive' = alive \ {o} /\ mh' = mh /\ t \in Targets
      /\ \A u \in Targets : u # t \/ ~created_[o] => table'[u] = table[u]
      /\ table'[t] # NoHook => table'[t] = table[t]
  BY Destructed
<1>2. \A u \in Targets : u # t => Reach(u)' = Reach(u)
  BY <1>1 DEF Reach, Has
<1>3. Reached' = [Reached EXCEPT ![t] = Reach(t)']
  BY <1>1, <1>2, ReachedAlone, Zenon
<1>4. Reached \in [Targets -> {Reach(u) : u \in Targets}] /\ Reached[t] = Reach(t)
  BY <1>1, ReachedIs
<1>5. CASE Reach(t)' = Reach(t)
  <2>1. UNCHANGED Reached
    <3> HIDE DEF Reach, t
    <3> QED BY <1>3, <1>4, <1>5
  <2> QED BY <1>1, <2>1 DEF C!Drop
<1>6. CASE Reach(t)' # Reach(t)
  <2>1. created_[o] /\ table'[t] = NoHook
    BY <1>1, <1>6 DEF Reach, Has
  <2>2. mh /\ table[t] # NoHook /\ table[t].thunk = AdapterOf[o]
    BY <1>1, <2>1 DEF MinHookInv, FlagsAreTrue, NoneOutlived, Has
  <2>3. Reach(t)' = NoHook
    BY <2>1 DEF Reach, Has
  <2>4. Reach(t) = AdapterOf[o]
    BY <1>6, <2>2, <2>3 DEF Reach, Has
  <2> QED BY <1>1, <1>3, <1>4, <2>3, <2>4 DEF C!Drop, C!Reaches
<1> QED BY <1>5, <1>6

LEMMA SwitchContract ==
  ASSUME MinHookInv, NoneOutlived, NEW o \in Objects, NEW b \in BOOLEAN,
         o \in alive, created_[o], Has(TargetOf[o]), table[TargetOf[o]].enabled = ~b,
         MH_SetEnabled(TargetOf[o], b), UNCHANGED <<mh, alive>>
  PROVE  IF b THEN C!Install(o) ELSE C!Uninstall(o)
<1> DEFINE t == TargetOf[o]
<1>1. t \in Targets /\ mh /\ mh' /\ table[t] # NoHook /\ table[t].thunk = AdapterOf[o]
  BY DEF MinHookInv, FlagsAreTrue, NoneOutlived, Has
<1>2. /\ table'[t] # NoHook /\ table'[t].thunk = table[t].thunk /\ table'[t].enabled = b
      /\ \A u \in Targets : u # t => table'[u] = table[u]
  BY <1>1, SwitchedTable
<1>3. \A u \in Targets : u # t => Reach(u)' = Reach(u)
  BY <1>1, <1>2 DEF Reach, Has
<1>4. /\ Reach(t) = IF b THEN NoHook ELSE AdapterOf[o]
      /\ Reach(t)' = IF b THEN AdapterOf[o] ELSE NoHook
  BY <1>1, <1>2 DEF Reach, Has
<1>5. Reached[t] = Reach(t) /\ Reached' = [Reached EXCEPT ![t] = Reach(t)']
  BY <1>1, <1>3, ReachedIs, ReachedAlone, Zenon
<1> HIDE DEF Reach
<1> QED BY <1>4, <1>5 DEF C!Install, C!Uninstall, C!Reaches

LEMMA ContractStep ==
  ASSUME MinHookInv, NoneOutlived, [MinHookNext]_minhook_vars
  PROVE  [C!Next]_C!vars
<1>1. CASE UNCHANGED minhook_vars
  BY <1>1 DEF minhook_vars, Reached, Has, C!vars
<1>2. CASE minhook_initialize
  BY <1>2 DEF minhook_initialize, MinHookInv, LibraryAgrees, Reached, Has, C!vars
<1>3. CASE uninitialize
  BY <1>3, UninitializeContract DEF C!Next
<1>4. ASSUME NEW o \in Objects, Construct(o) PROVE C!Make(o)
  BY <1>4, ConstructContract
<1>5. ASSUME NEW o \in Objects, Destruct(o) PROVE C!Drop(o)
  BY <1>5, DestructContract
<1>6. ASSUME NEW o \in Objects, install(o) PROVE C!Install(o)
  <2>1. table[TargetOf[o]].enabled = FALSE
    <3>1. table[TargetOf[o]] \in Entry
      BY <1>6 DEF install, Has, MinHookInv, MinHookTypeOK
    <3> QED BY <1>6, <3>1 DEF install, Entry
  <2> QED BY <1>6, <2>1, SwitchContract DEF install
<1>7. ASSUME NEW o \in Objects, uninstall(o) PROVE C!Uninstall(o)
  <2>1. table[TargetOf[o]].enabled = TRUE
    <3>1. table[TargetOf[o]] \in Entry
      BY <1>7 DEF uninstall, Has, MinHookInv, MinHookTypeOK
    <3> QED BY <1>7, <3>1 DEF uninstall, Entry
  <2> QED BY <1>7, <2>1, SwitchContract DEF uninstall
<1> QED BY <1>1, <1>2, <1>3, <1>4, <1>5, <1>6, <1>7 DEF MinHookNext, C!Next

(* While no target is outlived, as under hooker, the minhook wrapper satisfies
   the contract of rakhook.hpp:28-45, whatever fails: a target reaches a detour
   after the install() of one of its objects, and no operation on an object
   changes which detour another one's target reaches. *)
THEOREM ImplementsHookContract == MinHookSpec => ImplementsContract
<1>1. MinHookInit => C!Init
  BY DEF MinHookInit, C!Init, Reached, Has
<1>2. MinHookInv /\ [MinHookNext]_minhook_vars => [outlived = {} => C!Next]_C!vars
  BY ContractStep DEF NoneOutlived
<1> QED BY <1>1, <1>2, MinHookInvariance, PTL DEF MinHookSpec, ImplementsContract
=============================================================================
