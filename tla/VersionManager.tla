--------------------------- MODULE VersionManager ---------------------------
(***************************************************************************)
(* rakhook::version_manager (include/RakHook/version_manager.hpp): a table *)
(* from the entry point of samp.dll to the offsets of that version, and a  *)
(* cache, filled by update(), of the entry point and the offsets of the    *)
(* samp.dll that is loaded.  valid() asks the table, get() the cache.      *)
(*                                                                         *)
(* `samp' is the environment: the entry point of the loaded samp.dll.  The *)
(* module base is nonzero exactly when the module is loaded.               *)
(***************************************************************************)
EXTENDS Naturals

CONSTANTS
  EntryPoints,    \* AddressOfEntryPoint of the samp.dll builds there are
  NoEntry,        \* current_entry_point_ == 0
  Offsets,        \* values of version_offsets
  NoOffsets,      \* version_offsets{}
  Builtin         \* the table the constructor fills

ASSUME VersionAssumption ==
  /\ NoEntry \notin EntryPoints
  /\ NoOffsets \notin Offsets
  /\ Builtin \in [EntryPoints -> Offsets \cup {NoOffsets}]

VARIABLES
  samp,                 \* entry point of the loaded samp.dll, NoEntry if none
  versions_,            \* NoOffsets for an entry point that is not in the map
  base_,                \* base_ != 0
  current_entry_point_,
  current_offsets_

versionVars == <<versions_, base_, current_entry_point_, current_offsets_>>

base == base_
valid == current_entry_point_ # NoEntry /\ versions_[current_entry_point_] # NoOffsets
get == current_offsets_

(* What update() caches when the table is t. *)
Lookup(t, e) == IF e = NoEntry THEN NoOffsets ELSE t[e]

(* The constructor: the built-in table, then update(). *)
VersionInit ==
  /\ samp \in EntryPoints \cup {NoEntry}
  /\ versions_ = Builtin
  /\ base_ = (samp # NoEntry)
  /\ current_entry_point_ = samp
  /\ current_offsets_ = Lookup(Builtin, samp)

(* SA:MP is loaded into the game; it is never unloaded. *)
LoadSamp ==
  /\ samp = NoEntry
  /\ samp' \in EntryPoints
  /\ UNCHANGED versionVars

(* add_version: the table only, not the cache. *)
(* Mutant of add_version: an entry for the loaded version is used at once.  *)
add_version_cached(e, o) ==
  /\ versions_' = [versions_ EXCEPT ![e] = o]
  /\ current_offsets_' = IF e = current_entry_point_ THEN o ELSE current_offsets_
  /\ UNCHANGED <<base_, current_entry_point_>>

add_version(e, o) ==
  /\ versions_' = [versions_ EXCEPT ![e] = o]
  /\ UNCHANGED <<base_, current_entry_point_, current_offsets_>>

(* update: module base, entry point and offsets from scratch. *)
update ==
  /\ base_' = (samp # NoEntry)
  /\ current_entry_point_' = samp
  /\ current_offsets_' = Lookup(versions_, samp)
  /\ UNCHANGED versions_

VersionTypeOK ==
  /\ samp \in EntryPoints \cup {NoEntry}
  /\ versions_ \in [EntryPoints -> Offsets \cup {NoOffsets}]
  /\ base_ \in BOOLEAN
  /\ current_entry_point_ \in EntryPoints \cup {NoEntry}
  /\ current_offsets_ \in Offsets \cup {NoOffsets}
=============================================================================
