------------------------------- MODULE Hooker -------------------------------
(***************************************************************************)
(* rakhook::hooker<HookImpl> (include/RakHook/rakhook.hpp) inside a game:  *)
(* initialize() and destroy(), the four detours, the functions that send   *)
(* and emulate, and the traffic that passes through them.                  *)
(*                                                                         *)
(* Everything runs on the game's thread, so the state of control is one    *)
(* stack of activations of the four functions that can be detoured.  An    *)
(* activation is in its callbacks (user code runs) or in the original      *)
(* function (game code runs).  User code may call the library at any time  *)
(* it runs, in particular destroy() the hooks whose detours are below it   *)
(* on the stack.  An incoming packet is one of Receive's queue; Receive    *)
(* handles RPCs itself, by HandleRPCPacket, and returns the others.        *)
(***************************************************************************)
EXTENDS VersionManager, Sequences, FiniteSets

CONSTANTS
  Clients,        \* RakClient instances SA:MP creates, one after the other
  NoClient,
  Players,        \* PlayerIDs of servers
  NoPlayer,       \* PlayerID{}
  DestroyFrom,    \* kinds of callbacks from which the user calls destroy()
  ClientsDie,     \* SA:MP destroys its RakClient
  LateUpdate,     \* the user calls versions.update() while initialized
  MaxPackets,     \* bound: packets that ever arrive
  MaxDepth,       \* bound: activations on the stack
  MaxNested       \* bound: calls made by one activation

Kinds == {"send", "receive", "rpc", "handle_rpc"}
Payloads == {"packet", "rpc", "malformed"}

ASSUME HookerAssumption ==
  /\ NoClient \notin Clients
  /\ NoPlayer \notin Players
  /\ DestroyFrom \subseteq Kinds
  /\ ClientsDie \in BOOLEAN /\ LateUpdate \in BOOLEAN
  /\ MaxPackets \in Nat /\ MaxDepth \in Nat /\ MaxNested \in Nat

VARIABLES
  netGame,        \* environment: the CNetGame singleton exists
  client,         \* environment: CNetGame::m_pRakClient
  spent,          \* environment: clients destroyed so far
  initialized, orig, rakpeer, gplayerid,
  hooks,          \* per kind: no object, constructed, or installed
  backend,        \* HookImpl is initialized
  hookedWith,     \* history: offsets the hooks were installed with
  stack,          \* activations, the running one last
  wild,           \* undefined behaviour: a dead trampoline or client was used
  arrived,        \* packets that arrived or were emulated: ids 1..arrived
  inbox,          \* packets Receive has not taken yet, oldest first
  held,           \* packets Receive returned and the game still uses
  freed,          \* packets deallocated
  vetoed          \* history: packets a callback refused

hookVars == <<initialized, orig, rakpeer, gplayerid, hooks, backend, hookedWith>>
gameVars == <<samp, netGame, client, spent>>
packetVars == <<arrived, inbox, held, freed, vetoed>>
vars == <<gameVars, versionVars, hookVars, stack, wild, packetVars>>

PacketIds == 1..MaxPackets
NoPacket == 0
Packet == [id : PacketIds, payload : Payloads]

(* live: the trampoline the detour got as `orig' has not been freed.  The   *)
(* wrapper's own thunk is taken to outlive the hook, as minhook's static    *)
(* adapter does; kthook and cyanide generate theirs with the hook.  A frame *)
(* that is not hooked runs the function itself, called by the game when no  *)
(* hook is installed or by the library through its trampoline.              *)
Frame == [kind : Kinds, hooked : BOOLEAN, phase : {"callbacks", "original"},
          live : BOOLEAN, packet : 0..MaxPackets, nested : Nat]

Top == stack[Len(stack)]
WithTop(f) == [stack EXCEPT ![Len(stack)] = f]
Popped == SubSeq(stack, 1, Len(stack) - 1)

Idle == ~wild /\ stack = <<>>
Busy == ~wild /\ stack # <<>>
InCallback == Busy /\ Top.phase = "callbacks"
InOriginal == Busy /\ Top.phase = "original"
UserRuns == Idle \/ InCallback
(* Game code that sends runs in the game's loop and in its RPC handlers. *)
GameRuns == Idle \/ (InOriginal /\ Top.kind = "handle_rpc")

NoHooks == [k \in Kinds |-> "none"]
AllHooks == [k \in Kinds |-> "installed"]

Init ==
  /\ VersionInit
  /\ netGame = FALSE /\ client = NoClient /\ spent = {}
  /\ initialized = FALSE /\ orig = NoClient /\ rakpeer = NoClient
  /\ gplayerid = NoPlayer /\ hooks = NoHooks /\ backend = FALSE
  /\ hookedWith = NoOffsets
  /\ stack = <<>> /\ wild = FALSE
  /\ arrived = 0 /\ inbox = <<>> /\ held = {} /\ freed = {} /\ vetoed = {}

-----------------------------------------------------------------------------
(* The game: samp.dll is loaded, then CNetGame, then its RakClient appear.  *)

GameLoads ==
  /\ Idle
  /\ LoadSamp
  /\ UNCHANGED <<netGame, client, spent, hookVars, stack, wild, packetVars>>

GameStarts ==
  /\ Idle
  /\ samp # NoEntry
  /\ ~netGame
  /\ netGame' = TRUE
  /\ UNCHANGED <<samp, client, spent, versionVars, hookVars, stack, wild, packetVars>>

GameConnects ==
  /\ Idle
  /\ netGame
  /\ client = NoClient
  /\ client' \in Clients \ spent
  /\ UNCHANGED <<samp, netGame, spent, versionVars, hookVars, stack, wild, packetVars>>

(* The queue of the client goes with it. *)
GameDestroysClient ==
  /\ ClientsDie
  /\ Idle
  /\ client # NoClient
  /\ client' = NoClient
  /\ spent' = spent \cup {client}
  /\ inbox' = <<>>
  /\ freed' = freed \cup {inbox[i].id : i \in 1..Len(inbox)}
  /\ UNCHANGED <<samp, netGame, versionVars, hookVars, stack, wild, arrived, held, vetoed>>

Queue(payload) ==
  /\ arrived' = arrived + 1
  /\ inbox' = Append(inbox, [id |-> arrived + 1, payload |-> payload])

(* The network thread queues a packet. *)
PacketArrives(payload) ==
  /\ ~wild
  /\ client # NoClient
  /\ arrived < MaxPackets
  /\ Queue(payload)
  /\ UNCHANGED <<gameVars, versionVars, hookVars, stack, wild, held, freed, vetoed>>

(* The game is done with a packet Receive gave it. *)
GameDeallocates(p) ==
  /\ Idle
  /\ p \in held
  /\ held' = held \ {p}
  /\ freed' = freed \cup {p}
  /\ UNCHANGED <<gameVars, versionVars, hookVars, stack, wild, arrived, inbox, vetoed>>

-----------------------------------------------------------------------------
(* versions is a public member.  README.md, "Custom SA:MP version":         *)
(* versions are added before initialize() is called.                        *)

UserAddsVersion(e, o) ==
  /\ UserRuns
  /\ add_version(e, o)
  /\ UNCHANGED <<gameVars, hookVars, stack, wild, packetVars>>

UserUpdates ==
  /\ UserRuns
  /\ LateUpdate \/ ~initialized
  /\ update
  /\ UNCHANGED <<gameVars, hookVars, stack, wild, packetVars>>

(* destroy(): the four hook objects are deleted, which frees the            *)
(* trampolines the detours on the stack hold, then the backend goes.        *)
Orphaned(f) == [f EXCEPT !.live = FALSE]
(* Mutant of TearDown: rakpeer survives.                                    *)
TearDownKeepingPeer ==
  /\ hooks' = NoHooks
  /\ stack' = [i \in 1..Len(stack) |-> Orphaned(stack[i])]
  /\ backend' = FALSE
  /\ initialized' = FALSE
  /\ orig' = NoClient
  /\ hookedWith' = NoOffsets
  /\ UNCHANGED <<rakpeer, gplayerid>>

TearDown ==
  /\ hooks' = NoHooks
  /\ stack' = [i \in 1..Len(stack) |-> Orphaned(stack[i])]
  /\ backend' = FALSE
  /\ initialized' = FALSE
  /\ orig' = NoClient
  /\ rakpeer' = NoClient
  /\ hookedWith' = NoOffsets
  /\ UNCHANGED gplayerid

CallbackKinds ==
  {stack[i].kind : i \in {j \in 1..Len(stack) : stack[j].phase = "callbacks"}}

destroy ==
  /\ UserRuns
  /\ CallbackKinds \subseteq DestroyFrom
  /\ initialized
  /\ TearDown
  /\ UNCHANGED <<gameVars, versionVars, wild, packetVars>>

(* install() is called on the four hooks in this order until one fails. *)
Order == [send |-> 1, receive |-> 2, rpc |-> 3, handle_rpc |-> 4]
Installed(results) ==
  [k \in Kinds |-> IF \A j \in Kinds : Order[j] <= Order[k] => results[j]
                   THEN "installed" ELSE "made"]

(* The early returns of initialize(): no samp.dll, an unknown version, no   *)
(* CNetGame or no client (lines 69-83); only the version cache changes.     *)
Attachable == base_' /\ valid' /\ netGame /\ client # NoClient

initializeTooEarly ==
  /\ UserRuns
  /\ ~initialized
  /\ update
  /\ ~Attachable
  /\ UNCHANGED <<gameVars, hookVars, stack, wild, packetVars>>

(* No vtable, or HookImpl::initialize() fails (lines 87-94): orig is set.   *)
initializeNoBackend ==
  /\ UserRuns
  /\ ~initialized
  /\ update
  /\ Attachable
  /\ orig' = client
  /\ UNCHANGED <<gameVars, initialized, rakpeer, gplayerid, hooks, backend,
                 hookedWith, stack, wild, packetVars>>

(* Some install() fails (lines 96-107): initialized is set, so that         *)
(* destroy() does its work.                                                 *)
(* Mutant of initializeFails: destroy() before initialized is set.          *)
initializeFailsEarly ==
  /\ UserRuns
  /\ ~initialized
  /\ update
  /\ Attachable
  /\ \E results \in [Kinds -> BOOLEAN] :
       /\ Installed(results) # AllHooks
       /\ hooks' = Installed(results)
  /\ orig' = client
  /\ UNCHANGED <<gameVars, initialized, rakpeer, gplayerid, backend, hookedWith,
                 stack, wild, packetVars>>

initializeFails ==
  /\ UserRuns
  /\ ~initialized
  /\ update
  /\ Attachable
  /\ \E results \in [Kinds -> BOOLEAN] :
       /\ Installed(results) # AllHooks
       /\ TearDown
  /\ UNCHANGED <<gameVars, wild, packetVars>>

initialize ==
  /\ UserRuns
  /\ ~initialized
  /\ update
  /\ Attachable
  /\ hooks' = Installed([k \in Kinds |-> TRUE])
  /\ backend' = TRUE
  /\ initialized' = TRUE
  /\ orig' = client
  /\ hookedWith' = get'
  /\ UNCHANGED <<gameVars, rakpeer, gplayerid, stack, wild, packetVars>>

-----------------------------------------------------------------------------
(* Calls.  A function the game calls runs its detour when its hook is       *)
(* installed; the library calls the original through the trampoline.        *)

Activation(kind, hooked, phase, p) ==
  [kind |-> kind, hooked |-> hooked, phase |-> phase, live |-> TRUE,
   packet |-> p, nested |-> 0]

(* The activation below, if any, counts the calls it makes. *)
CanCall == Len(stack) < MaxDepth /\ (stack # <<>> => Top.nested < MaxNested)
Calling(f) ==
  stack' = Append(IF stack = <<>> THEN stack
                  ELSE WithTop([Top EXCEPT !.nested = @ + 1]), f)

(* send_hooked and rpc_hooked start with the callbacks; rpc_hooked skips    *)
(* them when uniqueID is null (line 212).                                   *)
GameSends(kind, null) ==
  /\ GameRuns /\ CanCall
  /\ client # NoClient
  /\ LET hooked == hooks[kind] = "installed"
     IN  Calling(Activation(kind, hooked,
                   IF hooked /\ ~(kind = "rpc" /\ null) THEN "callbacks" ELSE "original",
                   NoPacket))
  /\ UNCHANGED <<gameVars, versionVars, hookVars, wild, packetVars>>

(* receive_hooked calls the original first (line 198). *)
GamePolls ==
  /\ Idle /\ CanCall
  /\ client # NoClient
  /\ Calling(Activation("receive", hooks["receive"] = "installed", "original", NoPacket))
  /\ UNCHANGED <<gameVars, versionVars, hookVars, wild, packetVars>>

(* hooker::send and send_rpc: the original, on orig. *)
UserSends(kind) ==
  /\ UserRuns /\ CanCall
  /\ initialized /\ hooks[kind] = "installed"
  /\ \/ /\ orig = client
        /\ Calling(Activation(kind, FALSE, "original", NoPacket))
        /\ UNCHANGED wild
     \/ /\ orig # client
        /\ wild' = TRUE
        /\ UNCHANGED stack
  /\ UNCHANGED <<gameVars, versionVars, hookVars, packetVars>>

(* emul_rpc: the original HandleRPCPacket, on rakpeer; the hook object is   *)
(* dereferenced without a check (line 154).                                 *)
(* Mutant of emul_rpc: rakpeer is not tested.                               *)
emul_rpc_unguarded ==
  /\ UserRuns /\ CanCall
  /\ initialized
  /\ \/ /\ rakpeer = client /\ hooks["handle_rpc"] = "installed"
        /\ Calling(Activation("handle_rpc", FALSE, "original", NoPacket))
        /\ UNCHANGED wild
     \/ /\ rakpeer # client \/ hooks["handle_rpc"] # "installed"
        /\ wild' = TRUE
        /\ UNCHANGED stack
  /\ UNCHANGED <<gameVars, versionVars, hookVars, packetVars>>

emul_rpc ==
  /\ UserRuns /\ CanCall
  /\ initialized /\ rakpeer # NoClient
  /\ \/ /\ rakpeer = client /\ hooks["handle_rpc"] = "installed"
        /\ Calling(Activation("handle_rpc", FALSE, "original", NoPacket))
        /\ UNCHANGED wild
     \/ /\ rakpeer # client \/ hooks["handle_rpc"] # "installed"
        /\ wild' = TRUE
        /\ UNCHANGED stack
  /\ UNCHANGED <<gameVars, versionVars, hookVars, packetVars>>

(* emul_packet: a packet of any content joins the queue of rakpeer; the     *)
(* addresses come from the version cache.                                   *)
emul_packet(payload) ==
  /\ UserRuns
  /\ initialized /\ rakpeer # NoClient
  /\ arrived < MaxPackets
  /\ \/ /\ rakpeer = client /\ get = hookedWith
        /\ Queue(payload)
        /\ UNCHANGED wild
     \/ /\ rakpeer # client \/ get # hookedWith
        /\ wild' = TRUE
        /\ UNCHANGED <<arrived, inbox>>
  /\ UNCHANGED <<gameVars, versionVars, hookVars, stack, held, freed, vetoed>>

-----------------------------------------------------------------------------
(* The original Receive (external): takes packets off the queue.  An RPC is *)
(* handled at once and its packet deallocated; the first other packet is    *)
(* what Receive returns, nullptr if there is none.                          *)

Polling == InOriginal /\ Top.kind = "receive"

ReceiveNothing ==
  /\ Polling
  /\ inbox = <<>>
  /\ stack' = Popped
  /\ UNCHANGED <<gameVars, versionVars, hookVars, wild, packetVars>>

(* The packet goes to the callbacks, or straight to the game if Receive was *)
(* not hooked.                                                              *)
ReceivePacket ==
  /\ Polling
  /\ inbox # <<>> /\ Head(inbox).payload = "packet"
  /\ inbox' = Tail(inbox)
  /\ IF Top.hooked
     THEN /\ stack' = WithTop([Top EXCEPT !.phase = "callbacks",
                                          !.packet = Head(inbox).id])
          /\ UNCHANGED held
     ELSE /\ stack' = Popped
          /\ held' = held \cup {Head(inbox).id}
  /\ UNCHANGED <<gameVars, versionVars, hookVars, wild, arrived, freed, vetoed>>

(* HandleRPCPacket is entered.  handle_rpc_packet notes the peer and the    *)
(* player, and drops an RPC it cannot parse (lines 224-259).                *)
ReceiveRPC(player) ==
  /\ Polling
  /\ inbox # <<>> /\ Head(inbox).payload # "packet"
  /\ Len(stack) < MaxDepth
  /\ inbox' = Tail(inbox)
  /\ IF hooks["handle_rpc"] = "installed"
     THEN /\ rakpeer' = client
          /\ gplayerid' = player
          /\ IF Head(inbox).payload = "malformed"
             THEN /\ freed' = freed \cup {Head(inbox).id}
                  /\ UNCHANGED stack
             ELSE /\ stack' = Append(stack, Activation("handle_rpc", TRUE, "callbacks",
                                                       Head(inbox).id))
                  /\ UNCHANGED freed
     ELSE /\ stack' = Append(stack, Activation("handle_rpc", FALSE, "original",
                                               Head(inbox).id))
          /\ UNCHANGED <<rakpeer, gplayerid, freed>>
  /\ UNCHANGED <<gameVars, versionVars, initialized, orig, hooks, backend,
                 hookedWith, wild, arrived, held, vetoed>>

(* The original Send, RPC or HandleRPCPacket returns, and so does whatever  *)
(* called it; Receive deallocates the packet of an RPC it handled.          *)
OriginalReturns ==
  /\ InOriginal
  /\ Top.kind # "receive"
  /\ stack' = Popped
  /\ freed' = IF Top.packet = NoPacket THEN freed ELSE freed \cup {Top.packet}
  /\ UNCHANGED <<gameVars, versionVars, hookVars, wild, arrived, inbox, held, vetoed>>

(* The callbacks approve.  receive_hooked returns the packet; the other     *)
(* detours call the original through the trampoline they were given.        *)
CallbacksApprove ==
  /\ InCallback
  /\ \/ /\ Top.kind = "receive"
        /\ stack' = Popped
        /\ held' = held \cup {Top.packet}
        /\ UNCHANGED wild
     \/ /\ Top.kind # "receive" /\ Top.live
        /\ stack' = WithTop([Top EXCEPT !.phase = "original", !.nested = 0])
        /\ UNCHANGED <<held, wild>>
     \/ /\ Top.kind # "receive" /\ ~Top.live
        /\ wild' = TRUE
        /\ UNCHANGED <<stack, held>>
  /\ UNCHANGED <<gameVars, versionVars, hookVars, arrived, inbox, freed, vetoed>>

(* A callback refuses: the detour returns without the original;             *)
(* receive_hooked deallocates the packet (line 204), Receive the packet of  *)
(* a refused RPC.                                                           *)
(* Mutant of CallbacksRefuse: DeallocatePacket is forgotten.                *)
CallbacksRefuseLeaking ==
  /\ InCallback
  /\ stack' = Popped
  /\ UNCHANGED <<gameVars, versionVars, hookVars, wild, packetVars>>

(* Mutant of CallbacksRefuse: the deallocated packet is returned.           *)
CallbacksRefuseReturning ==
  /\ InCallback
  /\ stack' = Popped
  /\ IF Top.packet = NoPacket
     THEN UNCHANGED <<freed, vetoed, held>>
     ELSE /\ freed' = freed \cup {Top.packet}
          /\ vetoed' = vetoed \cup {Top.packet}
          /\ held' = held \cup {Top.packet}
  /\ UNCHANGED <<gameVars, versionVars, hookVars, wild, arrived, inbox>>

(* Mutant of CallbacksRefuse: receive_hooked polls again with its original. *)
CallbacksRefusePolling ==
  /\ InCallback
  /\ Top.packet # NoPacket
  /\ freed' = freed \cup {Top.packet}
  /\ vetoed' = vetoed \cup {Top.packet}
  /\ wild' = ~Top.live
  /\ stack' = WithTop([Top EXCEPT !.phase = "original", !.packet = NoPacket])
  /\ UNCHANGED <<gameVars, versionVars, hookVars, arrived, inbox, held>>

CallbacksRefuse ==
  /\ InCallback
  /\ stack' = Popped
  /\ IF Top.packet = NoPacket
     THEN UNCHANGED <<freed, vetoed>>
     ELSE /\ freed' = freed \cup {Top.packet}
          /\ vetoed' = vetoed \cup {Top.packet}
  /\ UNCHANGED <<gameVars, versionVars, hookVars, wild, arrived, inbox, held>>

-----------------------------------------------------------------------------
Returns ==
  \/ ReceiveNothing \/ ReceivePacket \/ (\E p \in Players : ReceiveRPC(p))
  \/ OriginalReturns \/ CallbacksApprove \/ CallbacksRefuse

Next ==
  \/ GameLoads \/ GameStarts \/ GameConnects \/ GameDestroysClient
  \/ \E payload \in Payloads : PacketArrives(payload)
  \/ \E p \in held : GameDeallocates(p)
  \/ \E e \in EntryPoints, o \in Offsets : UserAddsVersion(e, o)
  \/ UserUpdates
  \/ destroy
  \/ initializeTooEarly \/ initializeNoBackend \/ initializeFails \/ initialize
  \/ \E kind \in {"send", "rpc"}, null \in BOOLEAN : GameSends(kind, null)
  \/ GamePolls
  \/ \E kind \in {"send", "rpc"} : UserSends(kind)
  \/ emul_rpc
  \/ \E payload \in Payloads : emul_packet(payload)
  \/ Returns

Spec == Init /\ [][Next]_vars

(* The game's loop polls the client every frame and is done with a packet   *)
(* before long; callbacks and originals return.  Nothing else is promised.  *)
FairSpec ==
  /\ Spec
  /\ WF_vars(Returns)
  /\ SF_vars(GamePolls)
  /\ \A p \in PacketIds : SF_vars(GameDeallocates(p))

-----------------------------------------------------------------------------
TypeOK ==
  /\ VersionTypeOK
  /\ netGame \in BOOLEAN
  /\ client \in Clients \cup {NoClient} /\ spent \subseteq Clients
  /\ initialized \in BOOLEAN /\ backend \in BOOLEAN
  /\ orig \in Clients \cup {NoClient} /\ rakpeer \in Clients \cup {NoClient}
  /\ gplayerid \in Players \cup {NoPlayer}
  /\ hooks \in [Kinds -> {"none", "made", "installed"}]
  /\ hookedWith \in Offsets \cup {NoOffsets}
  /\ stack \in Seq(Frame) /\ wild \in BOOLEAN
  /\ arrived \in 0..MaxPackets /\ inbox \in Seq(Packet)
  /\ held \subseteq PacketIds /\ freed \subseteq PacketIds /\ vetoed \subseteq PacketIds

(* initialize() and destroy() are all or nothing: the four hooks, the       *)
(* backend and orig are there exactly while `initialized', whichever        *)
(* install() fails (lines 96-107) and whenever destroy() is called.         *)
AllOrNothing ==
  IF initialized THEN hooks = AllHooks /\ backend /\ orig \in Clients
                 ELSE hooks = NoHooks /\ ~backend

(* emul_rpc and emul_packet find a peer only while the hooks are installed, *)
(* with the player that came with it (lines 144, 154 and 224): destroy()    *)
(* forgets rakpeer but keeps gplayerid, and no detour runs afterwards.      *)
PeerKnown == rakpeer \in Clients => initialized /\ gplayerid \in Players

(* emul_packet calls the functions of the version the hooks were taken      *)
(* from, although the table may get new entries meanwhile (line 161).       *)
OffsetsMatch == initialized => get = hookedWith /\ get \in Offsets

(* No detour calls a freed trampoline, no call reaches a client or a peer   *)
(* that is gone, emul_rpc finds its hook: when destroy() is called from     *)
(* outside the detours or from on_receive_packet, whose detour calls the    *)
(* original before its callbacks and not after (lines 191-208).             *)
DefinedBehaviour == ~wild

(* Behaviour is undefined for these reasons only: a callback other than     *)
(* on_receive_packet destroyed the hooks its detour goes on with, SA:MP     *)
(* destroyed the client that orig is, or the user called versions.update(). *)
UndefinedHasCause ==
  wild => \/ stack # <<>> /\ ~Top.live /\ Top.kind # "receive"
          \/ orig # client
          \/ get # hookedWith

(* Every packet is in one place: queued, inside a detour, with the game, or *)
(* deallocated, once.  None is lost and none is used after it is freed,     *)
(* also when hooks come and go while it is under way (lines 198-207).       *)
Queued == {inbox[i].id : i \in 1..Len(inbox)}
Flying == {stack[i].packet : i \in 1..Len(stack)} \ {NoPacket}
PacketsAccounted ==
  /\ Queued \cup Flying \cup held \cup freed = 1..arrived
  /\ Cardinality(Queued) = Len(inbox)
  /\ Queued \cap (Flying \cup held \cup freed) = {}
  /\ Flying \cap (held \cup freed) = {}
  /\ held \cap freed = {}

(* A packet or an RPC a callback refused is deallocated and stays away from *)
(* the game (README.md:19, "can stop the event by returning false").        *)
VetoIsFinal == [][\A p \in vetoed' : p \in freed' /\ p \notin held' /\ p \notin Queued']_vars

(* Refusing a packet makes Receive return nullptr, so the game stops        *)
(* polling for this frame (line 205); still every packet is dealt with.     *)
EveryPacketEnds == \A p \in PacketIds : p \in Queued ~> p \in freed

(* hooker implements the promise of Lifecycle.                              *)
L == INSTANCE Lifecycle WITH
       attached <- IF initialized THEN orig ELSE NoClient,
       peer <- rakpeer, player <- gplayerid
ImplementsLifecycle == L!Spec
=============================================================================
