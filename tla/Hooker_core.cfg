\* Initialise, destroy and traffic on one client; destroy() is called outside the
\* detours or from on_receive_packet.
CONSTANTS
  r1 = r1
  dl = dl
  o1 = o1
  o2 = o2
  EntryPoints = {r1, dl}
  NoEntry = NoEntry
  Offsets = {o1, o2}
  NoOffsets = NoOffsets
  Builtin <- MCBuiltin
  Clients = {k1}
  NoClient = NoClient
  Players = {p1}
  NoPlayer = NoPlayer
  DestroyFrom = {"receive"}
  ClientsDie = FALSE
  LateUpdate = FALSE
  MaxPackets = 2
  MaxDepth = 3
  MaxNested = 1
SPECIFICATION FairSpec
INVARIANTS AllOrNothing PeerKnown OffsetsMatch DefinedBehaviour
PROPERTIES VetoIsFinal ImplementsLifecycle EveryPacketEnds
