# RakHook in TLA+

RakHook hooks the RakNet client of SA:MP: user callbacks see every packet and
RPC that goes out or comes in, may change or refuse it, and the user can send
and emulate packets and RPCs. This directory models its core in TLA+, checks
the models with TLC and proves the main invariants with TLAPS.

Paths below are relative to `src/`.

## 1. The system

| Part | Source | State | Operations |
|---|---|---|---|
| signal | `include/RakHook/signal.hpp` | `functions_`, a vector of `std::function`s | `push_back`, `operator+=`, `call` |
| version_manager | `include/RakHook/version_manager.hpp` | table of versions; cached base, entry point, offsets | `add_version`, `update`, `base`, `valid`, `get` |
| hooker | `include/RakHook/rakhook.hpp` | `initialized`, `orig`, `rakpeer`, `gplayerid`, four hook objects, four signals | `initialize`, `destroy`, `send`, `send_rpc`, `emul_rpc`, `emul_packet`, four detours |
| wrappers | `include/RakHook/wrappers/*.hpp` | per hook object: created/enabled or a hook implementation; per `<Fn, Detour>`: minhook's trampoline | constructor, destructor, `install`, `uninstall`, `get_original`, `initialize`, `uninitialize` |
| BitStream | `include/RakNet/BitStream.h`, `src/RakNet/BitStream.cpp` | buffer (inline or heap), bits used, bits allocated, read offset, `copyData` | read/write of bits, bytes, typed values, compressed integers; alignment |
| RPC path | `rakhook.hpp:143-155, 223-281` | the bits of an RPC | parse, hand to callbacks, encode again, emulate |
| StringCompressor | `src/RakNet/StringCompressor.cpp` | Huffman trees by language, reference count | encode/decode strings, add/remove reference, generate a tree |
| Huffman tree | `src/RakNet/DS_HuffmanEncodingTree.cpp` | tree, encoding table | generate, encode, decode |
| linked lists | `include/RakNet/DS_LinkedList.h` | nodes in a ring; root, position, size | insert, add, delete, move, search, copy, concatenate, sort |
| Map, OrderedList | `include/RakNet/DS_Map.h`, `DS_OrderedList.h` | an array of nodes ordered by key; the result of the last search | get, set, has, pop, delete, by index, copy |
| Queue, List | `include/RakNet/DS_Queue.h`, `DS_List.h` | an array that grows: a ring with head and tail; a list with a size | push, pop, insert, replace, remove, search, compress, clear, copy |
| PluginInterface | `src/RakNet/PluginInterface.cpp` | none | callbacks that do nothing |
| example | `example/` | one hooker and the game loop hook | start, stop, emulation |

How they interact: SA:MP's code calls a hooked function; the wrapper's trampoline
code calls the hooker's detour; the detour fires a signal; the signal calls user
callbacks, and these may call the library again. `version_manager` gives the
hooker the addresses. Incoming RPCs are decoded into a BitStream for the
callbacks and encoded again for the original function. Strings in an RPC go
through the StringCompressor, whose trees and Map the callbacks of all threads
share. The Map keeps its nodes in an OrderedList, which is a List; the Huffman tree
is built with a LinkedList and freed with a Queue of its nodes.

What is hard: callbacks re-enter everything (a signal that is being walked, a
hook whose detour is running); hooks come and go while activations are on the
stack; installation may fail halfway; what was cached (client, peer, player,
offsets, the Map's last search) may be stale when used; bits are merged into
bytes that have to be clear; reads run out of bits in the middle of a value;
containers copy, grow and free by hand, with special cases at every end.
`PROJECT.json` lists these hazards line by line with the properties that cover
them.

What makes each part correct:

- signal: each callback once and in order, vetoes stop the call, no iterator is
  used after it was invalidated, calls end.
- hooker: attached wholly or not at all; peer, player and offsets belong to the
  attachment; no freed trampoline, client or peer is used; no packet is lost,
  used after it was freed, or seen by the game after a veto.
- wrappers: what an object believes about its hook is so; a detour's `original`
  is that of its own function; what cannot be undone disturbs nothing else.
- BitStream: bits stay in the buffer and survive growth, the right blocks are
  freed; what was written is what is read; a read that ran out of bits says so.
- RPC path: every reader sees the bits the sender wrote, whatever header the
  packet has and however often it is taken apart and put together.
- StringCompressor: a call uses the tree of its language; trees are neither
  leaked nor freed twice; strings come back; trees are prefix codes,
  optimal for the weights of their leaves.
- containers: to its caller each is a sequence with a cursor, a set of pairs ordered
  by key, a sequence; no node or array is leaked, shared or used after it was freed;
  loops end; the saved search result of a Map is never a stale one.

## 2. The modules

| Module | Models | Composed with |
|---|---|---|
| `Signal` | signal.hpp, an iteration of `call()`'s loop a step | |
| `VersionManager` | version_manager.hpp | extended by `Hooker` |
| `Hooker` | rakhook.hpp and the game around it | `VersionManager`; refines `Lifecycle` |
| `Lifecycle` | what hooker promises: attach, learn peer and player, detach | |
| `MinHook` | wrappers/minhook.hpp over the external MinHook library | refines `HookContract` |
| `HookContract` | what hooker relies on of any wrapper | |
| `BitStreamMemory` | where a BitStream's bytes are | |
| `BitStream` | the bits in them, an iteration of each loop a step | |
| `TypedStream` | operators: the encodings of typed values and their reads | extended by `RpcPacket` |
| `RpcPacket` | an RPC's bits from sender to game through detours | `TypedStream` |
| `Huffman` | operators: the tree for a frequency table, coding | extended by `StringCompressor` |
| `StringCompressor` | the singleton, its Map, threads that code strings | `Huffman` |
| `CursorList` | what the linked lists promise: sequences with a cursor, atomic calls | |
| `CircularList` | DS_LinkedList.h on a heap of nodes, an iteration of each loop a step | refines `CursorList` |
| `KeyedStore` | what Map promises: a set of pairs, one for a key | |
| `OrderedMap` | DS_Map.h and its OrderedList, a round of the search a step | refines `KeyedStore` |
| `SequenceStore` | what Queue and List promise: sequences | |
| `Arrays` | what Queue and List share: arrays, who owns them, undefined behaviour | extended by both |
| `ArrayQueue`, `ArrayList` | DS_Queue.h, DS_List.h | refine `SequenceStore` |
| `MC...` | values of constants for TLC; `MCArrays` runs queues or lists | |
| `...Proofs` | theorems and their lemmas | |

### How state and actions correspond to the code

`Signal`. A frame of `stack` is an activation of `call()`: its iterator, whether
a callback runs, and whether C++ still lets the iterator be used. `PushBack`
reallocates when the vector is full (the new capacity is any larger one) and
then invalidates every frame's iterator; `Erase` invalidates those at or behind
the erased slot. Using an invalidated one sets `wild`, where the model stops.
`IsBool = TRUE` covers signals that return nothing: they lack `ReturnFalse` only.

`Hooker`. Everything runs on the game's thread, so control is one stack of
activations of Send, Receive, RPC and HandleRPCPacket, each in its callbacks or
in its original. `initialize` is four actions, one per outcome; the failing
`install()` is any of the four. `destroy` resets the hooks and so kills the
trampolines (`live`) of the activations below it. `receive_hooked` calls its
original first and its callbacks afterwards, the other three detours the other
way round. The game (external) loads samp.dll, creates and destroys clients,
sends, polls and deallocates packets. Use of something dead sets `wild`. The
wrapper's own thunk is taken to outlive the hook, which is so for minhook's
static adapter; kthook and cyanide generate the relay with the hook object, so
for them `destroy()` from on_receive_packet returns into freed code, too.

`MinHook`. `table` is the library's entry per target, the flags are the
wrapper's. Every call of the library may fail. Where the wrapper looks at the result and
changes nothing, that is a stuttering step; where it does not look, in `~hook()`
(`MH_RemoveHook`) and `uninitialize` (`MH_Uninitialize`), the object is gone, or
`initialized_` is false, and the library may still have the entries, live ones included;
a failed `MH_Uninitialize` has disabled some of them. `OneEach` says how the program uses
the wrapper: one object of a hook type at a time, as hooker does. `outlived` has the targets
of the objects that an `uninitialize` left alive, hooker's own never being among them:
for these targets the flags and the contract say nothing. `HookContract` lets the detours
stay which a destructor or uninitialize() should have undone, since neither reports
anything; in `Hooker` they are undone.

`BitStreamMemory` and `BitStream` split the class in two: which buffer holds how many
bytes, and what the bits are. The first has every constructor, `AddBitsAndReallocate`,
`AssertCopyData` and the destructor, and abstracts a write to the number of bits
(`bitsUsed` is numberOfBitsUsed, `pointer` what data points to; `BitStream` has the names
of the code); the second has a fixed room of bytes with anything in them and does every
write, merge, alignment and read on bits.

`RpcPacket` does what `handle_rpc_packet` does to one RPC: `Parse`, the
callbacks' stream (`Received`), and the new packet (`Rpc`). Callbacks read typed
values, rewrite the stream (Reset and Write, as `example/events.hpp` does), add
to it, refuse or approve. The original may be the detour of another hooker,
`MaxPasses` of them. `Encode` and `Decode` of `TypedStream` are the typed writes
and reads; a read that branches on an uninitialized variable has all outcomes. Of the
numbers that are not in the stream, x of a normalized vector and w of a quaternion, a read
gives the sign and what the code takes the root of. The length in a packet is unsigned
and `ReadBits` adds it as an int: `Parse` adds as ints do (`AsInt`), and a sum that came
round would leave the reader with nothing that can be told (`Refuses`).

`StringCompressor`. `map` holds the OrderedList's nodes and the cache of the last
search; `trees` every tree ever made. A call is one step per access to what
threads share: the lookup in `Has`, the stores of SaveLastSearch one by one in
any order, the same for `Get`, the element, and then the coding. `raced` says that a
thread has used the cache in the middle of another's use of it (`Meets`); calls go on, with
whatever tree that gives them.
`GenerateTreeFromStrings` with no input deletes a known tree and leaves it in
the Map: `emptied` has these languages.

`CircularList`. `next`, `previous` and `item` are the fields of every node of a heap;
`root`, `position` and `size` those of every list; `chain` is a history variable, the
nodes of a list in order, which the invariants compare the pointers with. A call without a
loop is one step. Clear, the searches, assignment, Concatenate and Sort are lists of tasks
(`todo`), and a step is one iteration of the first task's loop, with `current`, `saved`
(save_position, Null while it is not set) and `counter` for the code's locals. Mergesort
and Merge read the list item by item and add the result to a list of their own item by
item. That list, the X which the outermost Merge returns, is made of nodes; the sublists
are not, they are the items `values` has. To the caller nothing changes until the call
returns: the mapping to `CursorList` uses what was `held` when it began.

`OrderedMap`. `nodes` is the OrderedList, `saved` the three lastSearch fields, `call`
the call whose binary search is in progress, with `lower`, `upper` and `index` as in
the code and a round of the loop a step. `CallSaved` is a call that trusts the saved
result, `CallEmpty` one that finds no list, `CallSearches` begins a search and `Hit` or
`Miss` completes the call: `Complete` reads, removes, stores, and saves or invalidates.
`Allowed` has the assertions of SetExisting, SetNew, Get and Delete.

`Arrays`. An object's array pointer is null, unset, owned or freed; cells without an
item are `Garbage`. Every call says which cells it touches (`Reachable`), which pointer it
deletes (`Deletable`) and which fields it reads; when one of these is not there it ends in
a `fault` with the call, the object and the position. `made` and `freed` count the `new[]`
and `delete[]` of a call, and `Lost` is the balance: the arrays `subject` had and the call
made, less those it deleted and the one `subject` has now. A call of `ArrayQueue` or
`ArrayList` is one step: nothing re-enters it. A position out of range is what a release
build makes of it; the assertions of a debug build (DS_Queue.h:371, DS_List.h:334) stop
there.

The abstract specifications `CursorList`, `KeyedStore` and `SequenceStore` have what the
last call was and returned among their variables (`done`, `value`, `result`). A call
that changes nothing is thus a step of theirs all the same, and one that returned the
wrong item, or was for the wrong key, is a violation although the contents are right.
`CursorList` says what DS_LinkedList.h:37-62 says; two calls do something else, and the
refinement names them (`ReturnsOldItem`, `AppendsTwice`) instead of promising it.

## 3. The runs

| Run | Question | Bounds |
|---|---|---|
| `Signal_calls` | callbacks once, in order, calls return, only growth invalidates | 2 callbacks and the empty one, 3 slots, 3 activations, 1 nested call each |
| `Hooker_core` | the hooker's invariants, vetoes, refinement of `Lifecycle`, every packet ends | 1 client, 2 versions, 2 packets, 3 activations |
| `Hooker_causes` | what undefined behaviour can come from when user and game do anything; packets | 2 clients that may die, destroy() from any callback, late update() |
| `MinHook_calls` | flags, trampolines, refinement of `HookContract` | 4 objects of 3 types, 2 targets, any call fails, uninitialized at any time |
| `BitStream_all` | the bits: holds and reads what was written | 2 bytes of ones |
| | the memory: growth keeps the bits, the right blocks are freed | inline buffer of 2 bytes, 40 bits |
| `RpcPacket_path` | what readers see, round trip of eleven kinds of values, short reads | 2 values, 3 reads, 2 detours |
| `StringCompressor_threads` | trees, Map, coding, threads | 2 threads, 2 languages, 3 trees, 2 references, 4 characters |
| `StringCompressor_race` | violation: the tree of another language | the same |
| `CircularList_calls` | rings, nodes, refinement of `CursorList`, calls return | 2 lists and Sort's own, 2 items, 6 nodes, 4 of them between calls |
| `CircularList_append` | violation: Concatenate onto an empty list | the same |
| `OrderedMap_calls` | saved results, searches, refinement of `KeyedStore`, searches end | 2 maps, 3 keys, 2 values, 4 nodes |
| `Arrays_calls` | causes of faults and of lost arrays, refinement of `SequenceStore` | 2 queues or 2 lists, arrays of up to 4 cells, 6 in all |

`BitStream_all` checks two modules that share no variable, the two halves of a BitStream: a
behaviour is one of either, while the other stays as it begins.

The type invariants of `Signal`, `Hooker`, `MinHook`, `BitStreamMemory`, `BitStream` and
`OrderedMap` are theorems for all constants (section 4); those of the other modules are
conjuncts of an invariant of their run (`SeesWhatWasWritten`, `MapIsInOrder`,
`RingsAreWhole`, `FaultHasCause`), and these are theorems, too.

Why the bounds are enough to be of interest:

- Nesting: two activations are needed for an inner one to disturb an outer one;
  with three there is also one in the middle. Two packets are needed to see one
  pass the other; two clients and versions to see a stale one used.
- `BitStreamMemory`: with an inline buffer of two bytes, five bytes pass the
  boundary, double, and double again. The proofs cover every size.
- `MinHook`: two objects on one target and two of one type are what can disturb each
  other; of the four there are two such pairs, and three slots are one more than targets.
- `BitStream`: two bytes have one boundary with whole and partial writes on both
  sides. The inputs are a left-aligned half byte, a byte and an eleven-bit
  right-aligned input. The memory starts full of ones, the worst case for `|=`.
- `RpcPacket` and `TypedStream` scale the widths: unsigned short 4 bits for 16,
  float and unsigned int 8 for 32, the RPC's length 2 bytes for 4. A component of
  a vector is a multiple of a fifth, so that 3-4-5 triangles are exact. `MCItems`
  has a value for every branch of an encoding: leading zero bytes, a high half
  byte, delta equal or not, vectors of length zero, each sign and each zero.
- `StringCompressor`: four characters of two bits for 256 of eight, so that a
  tree has several shapes and all complete trees can be enumerated to compare
  weights; a count of three bits for 16, so that a string's code can be longer
  than its count. A byte has as many bits as a character, so the padding always
  finds a code longer than what is missing, as with 256 characters. Symmetry of
  the threads is sound: nothing distinguishes them.

- `CircularList`: four nodes in two lists give lists of no, one, two and more nodes on
  either side of an assignment or concatenation, with the position anywhere. Two more
  nodes are for what a call makes before it frees, so Sort gets through with two or three
  items: one of three merges a sublist that was itself merged. Sublists with an order to
  lose, of three and more (`Added` keeps the first and turns the rest round), are seen by
  the proof only. Two items show order and repetitions.
  new returns the lowest free node: nodes are only compared for being the same.
- `OrderedMap`: with three keys a search goes left, right and beyond either end; a
  fourth node is in the other map, which copies come from. The proofs cover all.
- `Arrays`: a first array of 2 cells for 16, which doubles once to 4; arrays of 4 are
  large (> 3, for > 32 and > 512) and those of 2 are not; 6 cells leave room for a
  large and a small one at once. Symmetry of the objects is sound: nothing
  distinguishes them, and `LossHasCause` and `ImplementsSequenceStore` are without liveness.

Deadlock is checked except where a model stops by design: after undefined
behaviour (`Signal_calls`, `Hooker_causes`, `StringCompressor_threads`,
`Arrays_calls`) and when an RPC has been handled (`RpcPacket_path`).

Fairness. `Signal`: weak fairness of the loop and of callbacks returning; the loop
is plain code of one thread. Nothing obliges the user to register or fire.
`CallsReturn` therefore has the alternative that callbacks keep registering,
because `functions_.end()` is read again each time round. `Hooker`: weak
fairness of activations returning; strong fairness of the game polling and of
its deallocating a packet it holds, because the game's loop does both every
frame, whatever else it does between frames. `CircularList` and `OrderedMap`: weak
fairness of the loop of the call in progress, which is plain code; nobody has to
call.

### What the violations show

- `StringCompressor_race`: line 317 of StringCompressor.cpp counts on "multiple threads at
  the same time". With a second tree in the Map two threads that look up two languages
  store index and key of the last search in between each other, and one codes with the
  other's tree. `GetsItsTree` shows what does hold: threads that do not meet in the cache
  get their trees, wherever else their steps interleave, and with the default tree alone
  they never meet.
- `CircularList_append`: DS_LinkedList.h:60 says concatenate "appends L to the current
  list". Onto an empty list L is assigned (998-999) and then appended as well: its items
  are there twice. `ImplementsCursorList` shows that this and what Add returns for a list
  of one item are the only departures.

### Noticed while modelling, and not run

The models have the behaviour of the code in each of these; what is said after "in the
model" is how to see it there.

- destroy() called from on_send_packet, on_send_rpc or on_receive_rpc frees the
  trampoline which the running detour calls next (rakhook.hpp:117, 194, 220, 280). In
  the model: `DefinedBehaviour` with `DestroyFrom = {"send"}`; it is the first of the
  causes of `UndefinedHasCause`.
- BitStream(data, 256, true) puts exactly 256 bytes on the heap (BitStream.cpp:107 tests
  `<`) and the destructor (139) frees only what is larger: the block leaks. The copies
  of an RPC in handle_rpc_packet get there. An empty copy that is written to, and
  AssertCopyData, leak in the same way. In the model: `data = "heap" => size >
  StackBytes` fails.
- Bits read with ReadBits(.., false) and written with WriteBits(.., false), as
  BitStream.h:390-394 and 432-434 recommend, may spoil the bits written next, because
  ReadBits leaves later bits of the stream in the last byte. No caller in the
  repository does this. In the model: `HoldsWhatWasWritten` with `Recopy = TRUE`.
- BitStream.h:55 warns that Write on a stream over the caller's buffer (`_copyData` false)
  writes to unallocated memory. It does not any more: a write that does not fit moves the
  bits to a buffer of the stream's own (BitStream.cpp:627-643), which a debug build asserts
  against (603). In the model: `GrowthKeepsBits`, after `ConstructOver`.
- Read(PlayerID) returns true from a stream with 16 to 31 bits left, without an address:
  the result of its first read is dropped (BitStream.h:872), although the Serialize that
  calls it is false if "the read was not successful" (74). ReadNormVector takes a bit of y
  for z's flag in the same way. In the model: `ShortReadsAreRefused` without the two
  exceptions; the other kinds refuse.
- BitStream.h:128, 262 and 302 promise a normalized vector accurate to 1/32767.5.
  ReadNormVector takes the root of 1 - y*y - z*z (1143) without the guard ReadNormQuat
  has (1208). y and z are rounded towards minus infinity when they are written, so
  (0, -0.6, -0.8) comes back with x not a number; and where x is small the root is less
  accurate than its square. In the model: that vector is among `MCItems`, and `SquareOfX`
  of what is read is less than 0. `ReadsGiveWhatWasWritten` says what does hold of x and
  w: the sign, and the square as accurate as those it is made of.
- StringCompressor.h:47 promises "the optimal encoding tree" for an array of strings. A
  character that does not occur weighs 1 all the same (DS_HuffmanEncodingTree.cpp:90-91),
  so the strings 3 3 2 3 1 take 9 bits where another prefix code takes 8. In the model:
  this text is among `MCSamples`; `TreesAreOptimal` is about those weights.
- WriteCompressed(1.0) of a double multiplies to 2^32, more than the unsigned long it is
  converted to can hold (BitStream.h:768). The model leaves this one number out.
- minhook. A failed MH_Uninitialize leaves the library initialized and the wrapper not, and
  since MH_Initialize then refuses, initialize() fails for good (minhook.hpp:12, 22). A
  failed MH_RemoveHook (79) leaves a detour whose object is gone; the next object of the
  type on another target overwrites the static trampoline, and that detour gets the
  original of another function: `OriginalIsOwn` without its second disjunct. Neither
  result is looked at.
- Nothing tells the hooker that SA:MP destroyed its client. Registering a callback from a
  callback of the same signal may reallocate under the loop (signal.hpp:36).
- CircularLinkedList. Add to a list of one node returns the old item, not the new one
  (DS_LinkedList.h:717-731): `ReturnsOldItem`. Concatenating a list with itself never
  ends, because L.list_size grows with it (1006): `Concatenate` leaves that call out, and
  says so with `l # m`.
- Map. SetNew of a key that is there saves an index that is none (DS_Map.h:224-234; an
  assertion forbids the call).
- Queue. A copy of an empty queue has no head, tail or array; an assignment loses a small
  array; PushAtHead with a position across the array's end leaves the array; Clear keeps
  the pointer to a large array it has deleted, which ClearAndForceAllocation deletes
  again. List. A copy of an empty list has no array pointer, and the first Insert deletes
  what happens to be there; an assignment loses a small array. These are the causes of
  `FaultHasCause` and `LossHasCause`. None of them is reached from the hooker. Compress
  of a List "frees overallocated members" (DS_List.h:95), but its new array is as large as
  the old one (399).

## 4. What is proved

| Module | Theorems | Assumptions |
|---|---|---|
| `SignalProofs` | `TypeCorrect`, `CallsAPrefix`, `CallsInOrder`, `ErasesAreHarmless` | none |
| | `CallsAreDefined` | callbacks do not register on the signal calling them |
| `HookerProofs` | `TypeCorrect`, `HooksAllOrNothing`, `PeerIsKnown`, `UndefinedBehaviourHasCause`, `EveryPacketIsAccounted`, `VetoesAreFinal`, `Implements` (Lifecycle) | none |
| | `BehaviourIsDefined`, `OffsetsAreThoseOfTheHooks` | destroy() outside detours or from on_receive_packet; the client stays; no update() while attached |
| | `FlagsHaveTypes`, `FlagsTellTheTruth`, `ImplementsHookContract` (HookContract), of `MinHook` | none |
| | `OriginalsAreOwn`, of `MinHook` | `OneEach` |
| `BitStreamMemoryProofs` | `TypeCorrect`, `BitsStayInBuffer`, `GrowthIsLossless`, `DestructorFreesWhatItOwns` | none |
| `BitStreamProofs` | `TypeCorrect`, `StreamHoldsWhatWasWritten`, `StreamReadsWhatWasWritten` | `TidyCallers` |
| `CircularListProofs` | `Invariance`, `RingsHold`, `NodesHaveOwners`, `ListsImplementCursorList` (CursorList) | none |
| `ContainerProofs` | `TypeCorrect`, `NodesAscend`, `SavedResultIsRight`, `SearchesAreRight`, `MapImplementsStore` (KeyedStore), of `OrderedMap` | none |
| | `ArraysInvariance`, `FaultsHaveCauses`, `LossesHaveCauses`, `ContainersImplementSequenceStore` (SequenceStore), of queues and lists | none |
| `StringCompressorProofs` | `Inductive`, `SearchesFind`, `CodesInItsLanguage`, `NoTreeLeaks`, `ComesBack`, `TreesAreCodes` | none |
| `RpcPacketProofs` | `Invariance`, `BitsArrive`, `PassesOn`, `ReadersFollow`, `NoPartIsMissing` | the assumptions of `TypedStream` and `RpcPacket` on the widths and values |

They hold for every value of the constants, the bounds included. The assumptions on
constants say what the code fixes: `TidyCallers`, `OneEach` and those on callbacks are
explained below; `RpcPacket` has values of the eleven kinds (`Item`), integers in
whole bytes, vectors and quaternions of length 1 where they have to be, numbers of RPCs in
one byte, packets whose bits an int can count (`LengthAssumption`), and a long that is
whole bytes; TLC evaluates them with the
values of the run.

Induction is stated of sets and functions and not of operators: a set of naturals that is
not empty has a least member (`LeastNumber`), a set with 0 and the successors of its
members has them all (`NumberInduction`), and a recursive function on the naturals has the
values its equations say (`PrimitiveRecursion`). Each proof module has those it uses. A
fold of the community modules is a function on sets of indices that is CHOSEN to obey its
equation: `FoldExists` builds one, step by step, from the functions the loop applies, and
only then is the equation known of the fold (`MaxOfFirst`: the index taken last is the
greatest). Powers of two and division lead up to "two numbers with the same bits are the
same" (`BitsDetermine`); that 2^n is a positive natural (`PowerOfTwo`) rests on the
library's FS_SUBSET, which counts the subsets of a set.

The arguments:

- Signal. `CalledPrefix` alone is not inductive: an erasure by a nested call must
  not hit what an outer frame has passed. `Suspended` says that every frame below
  the top is inside a callback, so with `CalledPrefix` the slots up to and
  including its iterator are all callable and the empty slot that is erased lies
  behind it. `GrowthInvalidates`, `GrowthIsReentrant` and `WildAtTop` tie the
  validity of iterators to reallocation, and reallocation to registration. That the
  calls are in order (`CallsInOrder`) needs a lemma on `Callables`: what is selected
  from a longer prefix continues what is selected from a shorter one.
- Hooker. `Inv` adds to the type, `AllOrNothing` and `PeerKnown` only that
  receive_hooked has a packet once its callbacks run. `Safe` needs
  `CallbacksLive`: an activation whose detour has yet to call its original keeps
  its trampoline; it is preserved because destroy() is only called where every
  such activation is absent or has already called its original. `Owned` adds
  that a queue has a client, which the refinement needs: what Receive returns
  teaches the hooker the peer of its own client. `UndefinedHasCause` needs
  `ClientsPass`: a client that is gone does not come back, so while orig is the
  client the peer is orig too, and a peer that is gone means an orig that is gone.
- Hooker's packets. `Accounted` says where the identities are; to be inductive it
  needs that the queue and the stack hold each of them once (`QueueApart`,
  `StackApart`), or taking one out would leave a copy, and that a Receive that has
  not returned holds none (`NotTakenYet`), or the next one would replace it. Every
  step is then an arrival, one move of one packet (`LedgerMove`), or the end of a
  client's queue. That `Queued` has as many members as the queue has packets is
  counted with a bijection (`QueueCounted`). `VetoIsFinal` follows since what is
  vetoed is freed, and what is freed is nowhere else.
- MinHook. `MinHookInv` needs no condition on the program: an entry is there for each
  object that believes in one because only that object's calls change it
  (`OneOfEachTarget`), unless somebody uninitialized the library, and then the target is
  outlived; a library that is not initialized is empty (`LibraryAgrees`). The originals need
  `OneEach`: two objects of a type share the static trampoline. `SlotsKept` says it of
  hooks that are not enabled, too, and that an entry whose trampoline was overwritten is
  an `Orphan` of an object that could not remove it. The contract is kept while no target
  is outlived (`NoneOutlived`): then what an object enables or disables is its own. After
  MH_Uninitialize has taken the hooks of objects that are alive there is none: they may
  enable the entry of another object of their target, or remove it.
- BitStreamMemory. `IInv`: the buffer is as big as the bits allocated, the inline
  buffer never counts as more than itself, a large heap block counts as more.
- BitStream. Every bit behind numberOfBitsUsed in its byte is clear (`Clear`); that
  is what makes `|=` right and what every call has to restore. For the loops,
  `InWriteBits`, `InWriteStream` and `InReadBits` say how far they are.
  `TidyCallers` is needed: left-aligned inputs have no bits set behind their
  last. All callers satisfy it: rakhook.hpp:277 and StringCompressor.cpp:386
  write whole bytes, DS_HuffmanEncodingTree.cpp:182 writes codes that end clear;
  its line 194 writes the beginning of a code, which does not, but ends at a byte
  boundary and so spoils nothing.
- OrderedMap. Three facts hold each other up. The nodes ascend (`KeysAscend`) because a
  node is inserted only where a search has failed; what a search has excluded cannot
  hold its key (`SearchIsRight`) because the nodes ascend and do not change while it
  runs; a saved result is right (`SavedIsRight`) because every call that moves nodes
  saves or invalidates. `Inv` adds what a call's assertions tell its search
  (`Expects`). For `MapImplementsStore` the array's contents are the set of its pairs:
  taking out, putting in and replacing a node are taken over one by one
  (`PairsRemoved`, `PairsInserted`, `PairsReplaced`), and the index of a node is the
  number of pairs with smaller keys (`CountBefore`), which makes the calls by index
  those of the specification. A round of a search is a stutter.
- Queue and List. `ArraysInv` says of each object what its methods rely on: a queue's
  head and tail lie in its array and its items are the cells from one to the other,
  around the end, with one cell left (`GoodQueue`); a list's items are the first
  `list_size` cells (`GoodList`), and its pointer never is to an array it has deleted.
  Each way of making new fields of old ones has a lemma saying that they are good and
  which items they hold. For a queue: pushed, popped, grown, moved to a new array, with
  one cell less; for a list: inserted, replaced, removed. `QueueBecomes` and
  `ListBecomes` carry that to the state and the `Seen` lemmas to a step of
  `SequenceStore`. `FaultHasCause` follows since the cells a call touches are in the
  array of a good object: head, tail, the items and the cell behind them, and what is
  deleted is owned. What is left is a copy of an empty one, which has set no fields, the
  pointer to a deleted array that was kept, and PushAtHead reaching across the array's
  end. `LossHasCause` rests on the same invariant: an array an object counts on is owned,
  so each delete[] frees what the balance needs; of the calls only an assignment forgets
  a pointer, or leaves one it does not count on, which the next array overwrites.
- CircularLinkedList. `IInv` has three parts. `HeapOK`: each node in use is in one chain,
  once. `Resting`: between calls each list is `Whole`, a ring through its chain.
  `InCall`: within a call, what each of its tasks has done so far and what the tasks
  behind it will find (`Clearing`, `Copying`, `Appending` and the sort's own
  stages), and that the other lists are as they were when the call began. `RingsAreWhole`
  is not inductive, since it says nothing of the list that is being worked on, nor of
  what the loop's registers point to. A step that changes pointers is proved from where
  in its chain the node is. That merging the sorted halves sorts the whole is a lemma on
  functions (`MergesortSorts`), by induction on the length; that the items stay the same
  ones is counted. The last step of a call then is the step of `CursorList`, or one of the
  two departures, the others are stutters.
- StringCompressor. That `Bisection` is what its equation says is proved by looking at a
  least number of places left to search for which it is not (`RestIsShorter`,
  `BisectionExists`, `BisectionIterates`), and that it finds what there is
  (`SearchIsRight`) because what it has excluded lies to one side of the key. `Set` keeps
  the order, and leaves of every other key what there was (`Changed`). `GetsItsTree` and
  `MapIsInOrder` are not inductive: between the stores of one call the cache holds a key
  with another's index. `IInv` says who can see it. As long as threads have not met in the
  cache (`~raced`), one that stores into it is the only one, nobody else trusts it, and
  what it has stored so far is what it found (`Alone`), so whoever trusts the cache finds
  its own language there (`CacheInv`). With the default tree alone the cache has its key
  from the start and nothing stores, so threads cannot meet. After they have met an index
  is still one of the Map's (`MapIsSafe`), which is what `TreesAreOwned` needs: a call
  that trusts a wrong one deletes and replaces the same tree. That a dead tree in the Map
  is one that was left without input (`DeadIsEmptied`) is what a call, a deletion or the
  destructor needs to be defined. The languages, the threads and the strings are any;
  `CompressorAssumption` says that language 0 is one, that languages are integers, that
  frequencies count, that samples and texts are strings of characters (texts without 0),
  and that bounds are naturals.
- StringCompressor's codes. `ComesBack` and `TreesAreCodes` follow four folds of
  Huffman. A tree is made by growing a list of leaves and merging its two first nodes
  until one is left. The invariant of both loops is `Forest`: every character is a leaf
  of exactly one node, and the codes in a node are no beginnings of each other. It does
  not matter where the insertion puts a node, so it holds whatever the weights are, and
  2^CharBits - 1 merges leave one prefix code of all characters (`GenerateIsCode`),
  whose codes are not empty (`CodesAreLong`). `Layout` says where the code of each
  character stands in the encoding (`FlattenLayout`), and `PaddingIs` that what is
  behind the last is a proper beginning of a code or nothing. Then after each bit the
  decoder has read the first k characters and stands inside the next code
  (`ReadsBack`): it can read no other character there, since no code begins another,
  and none from the padding, which is shorter than the code it begins. A count that is
  cut leaves a shorter beginning of the same bits. `CodingInv` carries this over: the
  table of a tree never changes, dead or alive (`Stay`), and what is in the stream or
  was decoded is what such a table gives (`Encoded`).
- RpcPacket. The proof has three parts. The first is about the encodings, each a
  lemma on sequences of bits: a compressed word is read back as it was
  (`ReadsCompressed`: the bytes that are left out are those `ReadCompressed` fills in,
  by induction over the bytes), also with other bits behind it, and a compressed word
  that is cut is refused (`ReadCompressedCut`); the words for two lengths differ
  (`CountWordDiffers`), so the length that is read is the one that was written. Hence
  `ParseCarried`: of a packet that begins with an RPC or a part of one, `Parse` finds
  the header, the number and the bits, or fails. The second is what one read does:
  `DecodeType` for any bits and `DecodesBack` for a value that was written at the
  reader's position, kind by kind; an integer over Steps is at most one step away
  from the fraction it stands for (`FloatsAreNear`), and the squares of numbers that
  near (`SquaresAreNear`), of which those of the vector sum to 1, leave of 1 what the last
  one's square is, within eight steps (`SquareOfXIsNear`, `SquareOfWIsNear`). The third is the invariant `Inv`:
  a packet carries the bits written last, alone or to the end of a byte, perhaps cut
  (`InPacket`); a reader's stream begins with them (`Filled`); they take no more room
  than their number has (`RoomFor`), without which the length would wrap, or the sum of
  ints by which ReadBits sees the end (`Counted`). A packet
  that was passed on is not cut, because what `Parse` accepted is all there.
  `SeesWhatWasWritten` alone is not inductive: it says nothing of packets on the way.
  For `ReadersFollow` the invariant also has where each value begins (`Laid`) and that
  a reader who read what it expected is behind the last of them (`Followed`).

Only model-checked: all liveness (`CallsReturn`, `EveryPacketEnds`, `SearchesEnd` and
CircularList's `CallsReturn`), which is beyond this prover; that a tree is optimal, the
other half of `TreesAreOptimal` (that it is a prefix code is `TreesAreCodes`), which
compares it with every other code; and the five violations, which are counterexamples.

## 5. What is abstracted or left out

- Entry point 0 as a key of the version table; two versions with one entry point.
- BitStream's counters are unbounded: the model stands for streams below 2^30
  bits, where line 607 doubles an int. Matrices, CopyData, SetData, PrintBits,
  endian swapping and the signed compression no template uses.
- Vectors whose length is not a number or underflows a float: WriteVector tests
  `> 0` and ReadVector `!= 0`, and the reader would lose its place.
- Callbacks of one RPC share readOffset: how they divide the reading is theirs;
  the model has one reader per detour, starting at bit 0. The buffer of
  handle_rpc_packet needs no action: ReadBits refuses before it writes, if its sum does
  not wrap. It wraps for lengths near 2^31 only, which no sender of the model claims:
  theirs are those of streams.
- AddReference, RemoveReference and GenerateTreeFromStrings run only while no call is in
  progress: nothing locks, so callers have to see to it. `example/main.cpp:36` adds a
  reference and never removes it. Encoded texts have no character 0. Weights do not wrap,
  and hence the sums in a tree neither.
- LinkedList's own Mergesort and Merge (DS_LinkedList.h:1113-1190) do not compile when
  they are used; a LinkedList sorts with those of CircularLinkedList. OrderedList's
  InsertAtIndex, InsertAtEnd, Del, Remove and its reads by key are used by nothing, and
  some of them may break the order the rest relies on. A position or index outside a
  container is the caller's mistake (asserted), as is a call on an empty list that has
  no result. Bounds keep arrays and lists far from the overflow of unsigned sizes.
- cyanide and kthook forward to libraries that are not in the repository and
  keep no state of their own; `HookContract` stands for them. PluginInterface,
  the declarations of RakNet's interfaces, examples, tests and build files have
  no logic of their own; the example's callbacks are where `RpcPacket`'s reads
  and rewrites are taken from.

## 6. Plan

Done, in this order: Signal; VersionManager and Hooker with Lifecycle; HookContract
and MinHook; BitStreamMemory and BitStream; TypedStream and RpcPacket; Huffman and
StringCompressor; proofs of the first four; the containers with their three abstract
specifications; the proofs of OrderedMap, RpcPacket and StringCompressor; those of
CircularList, Queue and List. With these, every safety property of the passing runs
is a theorem, but for the optimality in `TreesAreOptimal`.

What would come next: that the tree is optimal, by Huffman's exchange of two
leaves; matrices in `TypedStream`.
