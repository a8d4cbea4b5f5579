\* The user and the game do what the hooker does not expect; after undefined
\* behaviour the model stops, hence no deadlock check.
CONSTANTS
  r1 = r1
  dl = dl
  o1 = o1
  o2 = o2
  EntryPoints = {r1}
  NoEntry = NoEntry
  Offsets = {o1, o2}
  NoOffsets = NoOffsets
  Builtin <- MCBuiltin
  Clients = {k1, k2}
  NoClient = NoClient
  Players = {p1}
  NoPlayer = NoPlayer
  DestroyFrom = {"send", "receive", "rpc", "handle_rpc"}
  ClientsDie = TRUE
  LateUpdate = TRUE
  MaxPackets = 2
  MaxDepth = 3
  MaxNested = 1
SPECIFICATION Spec
CHECK_DEADLOCK FALSE
INVARIANTS UndefinedHasCause PacketsAccounted
