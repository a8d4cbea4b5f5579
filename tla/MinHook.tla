------------------------------- MODULE MinHook -------------------------------
(***************************************************************************)
(* rakhook::wrappers::minhook (include/RakHook/wrappers/minhook.hpp): hook *)
(* objects over the MinHook library.  The library keeps one entry per      *)
(* target; the wrapper keeps two flags per object and, for every hook      *)
(* type <Fn, Detour>, one static trampoline that the thunk hands to the    *)
(* detour as the original.                                                 *)
(*                                                                         *)
(* MinHook itself is external: MH_CreateHook refuses a target that has an  *)
(* entry and writes the trampoline only on success, MH_RemoveHook frees    *)
(* the entry, MH_Uninitialize frees them all, and every call may fail.     *)
(* initialize, install and uninstall look at the result and change nothing *)
(* when it is a failure, which is a stutter here; the constructor          *)
(* remembers it; ~hook and uninitialize do not look.                       *)
(***************************************************************************)
EXTENDS Naturals

CONSTANTS
  Objects,        \* hook objects
  Targets,        \* functions that are hooked
  Adapters,       \* hook types <Fn, Detour>: one thunk, one static trampoline
  Slots,          \* trampoline slots of the library
  TargetOf, AdapterOf,
  OneEach,        \* the program keeps one object of a hook type at a time
  NoSlot, NoHook

ASSUME MinHookAssumption ==
  /\ TargetOf \in [Objects -> Targets]
  /\ AdapterOf \in [Objects -> Adapters]
  /\ OneEach \in BOOLEAN
  /\ NoSlot \notin Slots /\ NoHook \notin Adapters

Entry == [slot : Slots, thunk : Adapters, enabled : BOOLEAN]
ASSUME EntryAssumption == NoHook \notin Entry

VARIABLES
  mh,             \* external: the library is initialized
  table,          \* external: its entry for each target
  initialized_, trampoline,
  alive,          \* objects that exist
  created_, enabled_,
  outlived        \* history: targets with objects that uninitialize() left alive

minhook_vars == <<mh, table, initialized_, trampoline, alive, created_, enabled_, outlived>>

MinHookInit ==
  /\ mh = FALSE
  /\ table = [t \in Targets |-> NoHook]
  /\ initialized_ = FALSE
  /\ trampoline = [a \in Adapters |-> NoSlot]
  /\ alive = {}
  /\ created_ = [o \in Objects |-> FALSE]
  /\ enabled_ = [o \in Objects |-> FALSE]
  /\ outlived = {}

(* The library calls. *)
Has(t) == mh /\ table[t] # NoHook
FreeSlots == {s \in Slots : \A t \in Targets : table[t] = NoHook \/ table[t].slot # s}
MH_CreateHook(t, a, s) ==
  table' = [table EXCEPT ![t] = [slot |-> s, thunk |-> a, enabled |-> FALSE]]
MH_SetEnabled(t, b) == table' = [table EXCEPT ![t] = [@ EXCEPT !.enabled = b]]
MH_RemoveHook(t) ==
  \/ mh /\ table' = [table EXCEPT ![t] = NoHook]
  \/ UNCHANGED table
(* It disables the hooks one after another; one that cannot be disabled     *)
(* ends it, and the library stays initialized with all entries.             *)
MH_Uninitialize ==
  \/ mh' = FALSE /\ table' = [t \in Targets |-> NoHook]
  \/ /\ \E disabled \in SUBSET {t \in Targets : table[t] # NoHook} :
           table' = [t \in Targets |->
                       IF t \in disabled THEN [table[t] EXCEPT !.enabled = FALSE] ELSE table[t]]
     /\ UNCHANGED mh

(* MH_Initialize refuses a library that is still initialized.               *)
minhook_initialize ==
  /\ ~initialized_ /\ ~mh
  /\ mh' = TRUE
  /\ initialized_' = TRUE
  /\ UNCHANGED <<table, trampoline, alive, created_, enabled_, outlived>>

uninitialize ==
  /\ initialized_
  /\ MH_Uninitialize
  /\ initialized_' = FALSE
  /\ outlived' = outlived \cup {TargetOf[o] : o \in {p \in alive : created_[p]}}
  /\ UNCHANGED <<trampoline, alive, created_, enabled_>>

(* hook(target).  The library writes the trampoline of the object's type.   *)
(* Mutant of Construct: the static trampoline is keyed by Fn, not by the    *)
(* detour.                                                                  *)
ConstructSharing(o) ==
  /\ o \notin alive
  /\ alive' = alive \cup {o}
  /\ \/ /\ mh /\ table[TargetOf[o]] = NoHook
        /\ \E s \in FreeSlots :
             /\ MH_CreateHook(TargetOf[o], AdapterOf[o], s)
             /\ trampoline' = [a \in Adapters |-> s]
        /\ created_' = [created_ EXCEPT ![o] = TRUE]
     \/ UNCHANGED <<table, trampoline, created_>>
  /\ UNCHANGED <<mh, initialized_, enabled_, outlived>>

Construct(o) ==
  /\ o \notin alive
  /\ alive' = alive \cup {o}
  /\ \/ /\ mh /\ table[TargetOf[o]] = NoHook
        /\ \E s \in FreeSlots :
             /\ MH_CreateHook(TargetOf[o], AdapterOf[o], s)
             /\ trampoline' = [trampoline EXCEPT ![AdapterOf[o]] = s]
        /\ created_' = [created_ EXCEPT ![o] = TRUE]
     \/ UNCHANGED <<table, trampoline, created_>>
  /\ UNCHANGED <<mh, initialized_, enabled_, outlived>>

(* ~hook(): the object is gone whatever the library answers.                *)
Forget(o) ==
  /\ alive' = alive \ {o}
  /\ created_' = [created_ EXCEPT ![o] = FALSE]
  /\ enabled_' = [enabled_ EXCEPT ![o] = FALSE]
  /\ outlived' = {t \in outlived : \E p \in alive \ {o} : created_[p] /\ TargetOf[p] = t}
  /\ UNCHANGED <<mh, initialized_, trampoline>>

(* Mutant of Destruct: created_ is not tested.                              *)
DestructUnchecked(o) == o \in alive /\ Forget(o) /\ MH_RemoveHook(TargetOf[o])

Destruct(o) ==
  /\ o \in alive
  /\ IF created_[o] THEN MH_RemoveHook(TargetOf[o]) ELSE UNCHANGED table
  /\ Forget(o)

(* Mutant of install: created_ is not tested.                               *)
installUnchecked(o) ==
  /\ o \in alive
  /\ ~enabled_[o]
  /\ Has(TargetOf[o]) /\ ~table[TargetOf[o]].enabled
  /\ MH_SetEnabled(TargetOf[o], TRUE)
  /\ enabled_' = [enabled_ EXCEPT ![o] = TRUE]
  /\ UNCHANGED <<mh, initialized_, trampoline, alive, created_, outlived>>

install(o) ==
  /\ o \in alive
  /\ created_[o] /\ ~enabled_[o]
  /\ Has(TargetOf[o]) /\ ~table[TargetOf[o]].enabled
  /\ MH_SetEnabled(TargetOf[o], TRUE)
  /\ enabled_' = [enabled_ EXCEPT ![o] = TRUE]
  /\ UNCHANGED <<mh, initialized_, trampoline, alive, created_, outlived>>

uninstall(o) ==
  /\ o \in alive
  /\ created_[o] /\ enabled_[o]
  /\ Has(TargetOf[o]) /\ table[TargetOf[o]].enabled
  /\ MH_SetEnabled(TargetOf[o], FALSE)
  /\ enabled_' = [enabled_ EXCEPT ![o] = FALSE]
  /\ UNCHANGED <<mh, initialized_, trampoline, alive, created_, outlived>>

(* What the program does with the wrapper.                                  *)
TypeIsFree(o) == OneEach => \A p \in alive : AdapterOf[p] # AdapterOf[o]

MinHookNext ==
  \/ minhook_initialize
  \/ uninitialize
  \/ \E o \in Objects : \/ TypeIsFree(o) /\ Construct(o)
                        \/ Destruct(o) \/ install(o) \/ uninstall(o)

MinHookSpec == MinHookInit /\ [][MinHookNext]_minhook_vars

-----------------------------------------------------------------------------
MinHookTypeOK ==
  /\ mh \in BOOLEAN /\ initialized_ \in BOOLEAN
  /\ table \in [Targets -> Entry \cup {NoHook}]
  /\ trampoline \in [Adapters -> Slots \cup {NoSlot}]
  /\ alive \subseteq Objects
  /\ created_ \in [Objects -> BOOLEAN] /\ enabled_ \in [Objects -> BOOLEAN]
  /\ \A o \in Objects : (enabled_[o] => created_[o]) /\ (created_[o] => o \in alive)
  /\ outlived \subseteq Targets

(* What an object believes is so: the library has its entry, with the thunk *)
(* of its type, enabled when enabled_ is set (lines 73-103); so a later     *)
(* uninstall() and install() can succeed again.  It is not for the objects  *)
(* of a target that were alive when somebody uninitialized the library.     *)
FlagsAreTrue ==
  \A o \in alive : created_[o] /\ TargetOf[o] \notin outlived =>
    /\ Has(TargetOf[o])
    /\ table[TargetOf[o]].thunk = AdapterOf[o]
    /\ table[TargetOf[o]].enabled = enabled_[o]

(* The entry of an object that is gone, and that it failed to remove.       *)
Orphan(t) ==
  /\ table[t] # NoHook
  /\ ~\E o \in alive : created_[o] /\ TargetOf[o] = t /\ AdapterOf[o] = table[t].thunk

(* A call of a hooked function hands its detour the trampoline of that very *)
(* function (lines 34-36, 44-46, 54-56): rakhook.hpp:43, `original'.  Only  *)
(* the detour of an object that is gone and could not be removed may get    *)
(* another one, of a later object of its type on another function.          *)
OriginalIsOwn ==
  \A t \in Targets : table[t] # NoHook /\ table[t].enabled =>
    \/ trampoline[table[t].thunk] = table[t].slot
    \/ Orphan(t) /\ \E o \in Objects : AdapterOf[o] = table[t].thunk /\ TargetOf[o] # t

(* The wrapper keeps the contract the hooker relies on (rakhook.hpp:28-45), *)
(* whatever the library refuses, while no target is outlived: hooker        *)
(* uninitializes when its hooks are gone, and outlives none.                *)
Reached == [t \in Targets |-> IF Has(t) /\ table[t].enabled THEN table[t].thunk ELSE NoHook]
C == INSTANCE HookContract WITH made <- alive, reached <- Reached, Nothing <- NoHook
ImplementsContract == C!Init /\ [][outlived = {} => C!Next]_C!vars
=============================================================================
