-------------------------- MODULE StringCompressor --------------------------
(***************************************************************************)
(* The singleton StringCompressor: its Huffman trees by language in a Map  *)
(* (an OrderedList and a cache of the last search), and threads that       *)
(* encode and decode strings while they share the Map without a lock.      *)
(* EncodeString and DecodeString look their tree up with Has and Get, both *)
(* of which may write the cache, member by member and in any order, since  *)
(* a compiler may exchange stores nothing synchronizes; they are one step  *)
(* for each read or write of what is shared.  References and trees come    *)
(* and go while no call is in progress, as callers have to see to.  Calls  *)
(* go on after their accesses to the cache have met, when it may hold one  *)
(* key with another's index: what follows for a tree that is looked up,    *)
(* deleted or replaced is what the code does.                              *)
(***************************************************************************)
EXTENDS Huffman

CONSTANTS
  Threads,
  Languages,      \* integers, the keys of the Map
  English,        \* englishCharacterFrequencies
  Samples,        \* strings trees are generated from
  Texts,          \* strings that are encoded: no character 0
  Limits,         \* values of maxCharsToWrite, 0 for no limit; readers have
                  \* room for one more
  Short,          \* bits of an unsigned short (16)
  MaxReferences,  \* bound on referenceCount
  MaxTrees        \* bound on the trees ever made

ASSUME CompressorAssumption ==
  /\ 0 \in Languages /\ Languages \subseteq Int
  /\ English \in [Char -> Nat]
  /\ Samples \subseteq Seq(Char) /\ Texts \subseteq Seq(Char \ {0})
  /\ Limits \subseteq Nat /\ Short \in Nat
  /\ MaxReferences \in Nat /\ MaxTrees \in Nat

EmptyMap == [nodes |-> <<>>, index |-> 0, key |-> 0, valid |-> FALSE]
Idle == [pc |-> "idle", unsaved |-> {}]
Nothing == [bits |-> <<>>, text |-> <<>>, tree |-> 0]
NotDecoded == [string |-> Nothing, limit |-> 1, tree |-> 0, output |-> <<>>]

VARIABLES
  referenceCount,
  map,            \* huffmanEncodingTrees: nodes, lastSearchIndex, -Key, -IndexValid
  trees,          \* every HuffmanEncodingTree made: its encodingTable, and
                  \* the language and frequencies it was made for
  emptied,        \* history: keys whose tree was deleted and left in the Map
  wild,           \* behaviour is undefined
  raced,          \* history: in this instance of the singleton, a thread used
                  \* the cache in the middle of another's use of it
  thread,         \* what each thread does
  stream,         \* the string that was encoded last
  decoded         \* what was decoded last, until the next call begins

vars == <<referenceCount, map, trees, emptied, wild, raced, thread, stream, decoded>>

Init ==
  /\ referenceCount = 0
  /\ map = EmptyMap
  /\ trees = <<>> /\ emptied = {} /\ wild = FALSE /\ raced = FALSE
  /\ thread = [t \in Threads |-> Idle]
  /\ stream = Nothing
  /\ decoded = NotDecoded

-----------------------------------------------------------------------------
(* OrderedList::GetIndexFromKey: whether there is the key, and its index or *)
(* that of the first larger key.                                            *)
Bounds(nodes) == [index : 0..Len(nodes), lower : 0..Len(nodes), upper : -1..Len(nodes)]

Bisection(nodes, key) ==
  LET search[s \in Bounds(nodes)] ==
        IF nodes[s.index + 1].key = key THEN [found |-> TRUE, at |-> s.index]
        ELSE LET up == IF key < nodes[s.index + 1].key THEN s.index - 1 ELSE s.upper
                 low == IF key < nodes[s.index + 1].key THEN s.lower ELSE s.index + 1
             IN  IF low > up THEN [found |-> FALSE, at |-> low]
                 ELSE search[[index |-> low + (up - low) \div 2, lower |-> low, upper |-> up]]
  IN  search

GetIndexFromKey(nodes, key) ==
  LET n == Len(nodes)
  IN  IF n = 0 THEN [found |-> FALSE, at |-> 0]
      ELSE Bisection(nodes, key)[[index |-> n \div 2, lower |-> 0, upper |-> n - 1]]

HasSavedSearchResult(m, key) == m.valid /\ m.key = key
SaveLastSearch(m, key, index) == [m EXCEPT !.index = index, !.key = key, !.valid = TRUE]

(* Mutant of Set: a new key goes to the end.                                *)
SetAtEnd(m, key, data) ==
  LET s == GetIndexFromKey(m.nodes, key) IN
  IF HasSavedSearchResult(m, key) THEN [m EXCEPT !.nodes[m.index + 1].data = data]
  ELSE IF s.found
       THEN [SaveLastSearch(m, key, s.at) EXCEPT !.nodes[s.at + 1].data = data]
       ELSE [SaveLastSearch(m, key, Len(m.nodes)) EXCEPT
               !.nodes = Append(m.nodes, [key |-> key, data |-> data])]

Set(m, key, data) ==
  LET s == GetIndexFromKey(m.nodes, key) IN
  IF HasSavedSearchResult(m, key) THEN [m EXCEPT !.nodes[m.index + 1].data = data]
  ELSE IF s.found
       THEN [SaveLastSearch(m, key, s.at) EXCEPT !.nodes[s.at + 1].data = data]
       ELSE [SaveLastSearch(m, key, s.at) EXCEPT
               !.nodes = InsertAt(m.nodes, s.at + 1, [key |-> key, data |-> data])]

Has(m, key) == HasSavedSearchResult(m, key) \/ GetIndexFromKey(m.nodes, key).found
(* The Map after Has or Get.                                                *)
Searched(m, key) ==
  LET s == GetIndexFromKey(m.nodes, key) IN
  IF HasSavedSearchResult(m, key) \/ ~s.found THEN m ELSE SaveLastSearch(m, key, s.at)
Slot(m, key) == m.nodes[Searched(m, key).index + 1]
Get(m, key) == Slot(m, key).data

-----------------------------------------------------------------------------
Quiet == ~wild /\ \A t \in Threads : thread[t].pc = "idle"
Instance == referenceCount > 0

Made(language, frequencies) ==
  [table |-> GenerateFromFrequencyTable(frequencies), alive |-> TRUE,
   language |-> language, frequencies |-> frequencies]

(* AddReference, and the constructor for the first one.                     *)
AddReference ==
  /\ Quiet /\ referenceCount < MaxReferences
  /\ Instance \/ Len(trees) < MaxTrees
  /\ referenceCount' = referenceCount + 1
  /\ IF Instance THEN UNCHANGED <<map, trees>>
     ELSE /\ trees' = Append(trees, Made(0, English))
          /\ map' = Set(EmptyMap, 0, Len(trees'))
  /\ UNCHANGED <<emptied, wild, raced, thread, stream, decoded>>

(* Mutant of Delete: the tree is forgotten and not deleted.                 *)
DeleteNothing(a) == trees

Delete(a) == [trees EXCEPT ![a].alive = FALSE]
InMap == {map.nodes[i].data : i \in 1..Len(map.nodes)}

(* RemoveReference, and the destructor for the last one: every tree of the  *)
(* Map is deleted, dead or alive.                                           *)
RemoveReference ==
  /\ Quiet /\ Instance
  /\ referenceCount' = referenceCount - 1
  /\ IF referenceCount' > 0 THEN UNCHANGED <<map, trees, emptied, wild, raced>>
     ELSE /\ trees' = [a \in 1..Len(trees) |->
                         IF a \in InMap THEN [trees[a] EXCEPT !.alive = FALSE] ELSE trees[a]]
          /\ wild' = \E a \in InMap : ~trees[a].alive
          /\ map' = EmptyMap
          /\ emptied' = IF wild' THEN emptied ELSE {}
          /\ raced' = FALSE
  /\ UNCHANGED <<thread, stream, decoded>>

Frequencies(input) == [c \in Char |-> Cardinality({i \in 1..Len(input) : input[i] = c})]

(* The tree found for the language is deleted first, and only replaced if   *)
(* there is input to make another from.                                     *)
GenerateTreeFromStrings(input, languageID) ==
  LET known == Has(map, languageID)
      old == Get(map, languageID)
      left == IF known THEN Delete(old) ELSE trees
  IN  /\ Quiet /\ Instance
      /\ input = <<>> \/ Len(trees) < MaxTrees
      /\ wild' = (known /\ ~trees[old].alive)
      /\ IF input = <<>>
         THEN /\ trees' = left
              /\ map' = Searched(map, languageID)
              /\ emptied' = IF known THEN emptied \cup {Slot(map, languageID).key} ELSE emptied
         ELSE /\ trees' = Append(left, Made(languageID, Frequencies(input)))
              /\ map' = Set(Searched(map, languageID), languageID, Len(trees'))
              /\ emptied' = IF wild' THEN emptied ELSE emptied \ {Slot(map', languageID).key}
      /\ UNCHANGED <<referenceCount, raced, thread, stream, decoded>>

-----------------------------------------------------------------------------
(* A thread looks into the cache or begins to write it, while another is in *)
(* the middle of writing it or has found its key there and is about to read *)
(* the index.                                                               *)
Meets(t) ==
  \E u \in Threads \ {t} :
    \/ thread[u].unsaved # {}
    \/ thread[u].pc = "cached" /\ thread'[t].unsaved # {}

(* A thread's call of EncodeString or DecodeString for a language; its other *)
(* arguments are chosen where they are used.                                *)
Begin(t, function, languageID) ==
  /\ ~wild /\ Instance
  /\ thread[t].pc = "idle"
  /\ thread' = [thread EXCEPT ![t] =
                  [pc |-> "has", key |-> languageID, at |-> 0, unsaved |-> {}, function |-> function]]
  /\ decoded' = NotDecoded
  /\ UNCHANGED <<referenceCount, map, trees, emptied, wild, raced, stream>>

Shared == <<referenceCount, trees, emptied>>

At(t, place) == ~wild /\ thread[t].pc = place /\ thread[t].unsaved = {}
Goto(t, place) == thread' = [thread EXCEPT ![t].pc = place]

(* Has and Get begin in the same way; Has is followed by Get.  Without the  *)
(* language a call returns and has written or read nothing.                 *)
(* Mutant of Search: Has finds every language.                              *)
SearchAnyway(t, place, cached, searched) ==
  LET s == GetIndexFromKey(map.nodes, thread[t].key) IN
  /\ At(t, place)
  /\ \/ /\ HasSavedSearchResult(map, thread[t].key)
        /\ Goto(t, cached)
     \/ /\ ~HasSavedSearchResult(map, thread[t].key)
        /\ thread' = [thread EXCEPT ![t].at = s.at, ![t].pc = searched,
                                    ![t].unsaved = {"index", "key", "valid"}]
  /\ raced' = (raced \/ Meets(t))
  /\ UNCHANGED <<Shared, map, wild, stream, decoded>>

Search(t, place, cached, searched) ==
  LET s == GetIndexFromKey(map.nodes, thread[t].key) IN
  /\ At(t, place)
  /\ \/ /\ HasSavedSearchResult(map, thread[t].key)
        /\ Goto(t, cached)
     \/ /\ ~HasSavedSearchResult(map, thread[t].key) /\ s.found
        /\ thread' = [thread EXCEPT ![t].at = s.at, ![t].pc = searched,
                                    ![t].unsaved = {"index", "key", "valid"}]
     \/ /\ ~HasSavedSearchResult(map, thread[t].key) /\ ~s.found
        /\ thread' = [thread EXCEPT ![t] = Idle]
  /\ raced' = (raced \/ Meets(t))
  /\ UNCHANGED <<Shared, map, wild, stream, decoded>>

(* SaveLastSearch, a member at a time.                                      *)
Save(t) ==
  \E member \in thread[t].unsaved :
    /\ ~wild
    /\ map' = [map EXCEPT ![member] = CASE member = "index" -> thread[t].at
                                        [] member = "key" -> thread[t].key
                                        [] member = "valid" -> TRUE]
    /\ thread' = [thread EXCEPT ![t].unsaved = @ \ {member}]
    /\ UNCHANGED <<Shared, raced, wild, stream, decoded>>

(* mapNodeList[lastSearchIndex], or the index of Get's own search.          *)
Fetch(t) ==
  /\ \/ /\ At(t, "cached")
        /\ thread' = [thread EXCEPT ![t].at = map.nodes[map.index + 1].data, ![t].pc = "code"]
     \/ /\ At(t, "found")
        /\ thread' = [thread EXCEPT ![t].at = map.nodes[thread[t].at + 1].data, ![t].pc = "code"]
  /\ UNCHANGED <<Shared, raced, map, wild, stream, decoded>>

Cut(text, limit) ==
  IF limit <= 0 \/ Len(text) < limit THEN text ELSE SubSeq(text, 1, limit - 1)

(* The rest of EncodeString: the number of bits is an unsigned short.       *)
EncodeString(t, input, maxCharsToWrite) ==
  LET a == thread[t].at
      text == Cut(input, maxCharsToWrite)
      bits == EncodeArray(trees[a].table, text)
  IN  /\ At(t, "code") /\ thread[t].function = "encode"
      /\ wild' = ~trees[a].alive
      /\ stream' = IF wild' THEN stream
                   ELSE [bits |-> SubSeq(bits, 1, Len(bits) % 2^Short), text |-> text, tree |-> a]
      /\ thread' = [thread EXCEPT ![t] = Idle]
      /\ UNCHANGED <<Shared, raced, map, decoded>>

(* The rest of DecodeString: it refuses a string of which bits are missing; *)
(* output is what stands before the terminator.                             *)
Stored(read, limit) == IF Len(read) < limit THEN read ELSE SubSeq(read, 1, limit - 1)

DecodeString(t, maxCharsToWrite, missing) ==
  LET a == thread[t].at
      read == DecodeArray(trees[a].table, stream.bits)
  IN  /\ At(t, "code") /\ thread[t].function = "decode"
      /\ missing \/ stream.tree # 0
      /\ wild' = (~missing /\ ~trees[a].alive)
      /\ decoded' = IF missing \/ wild' THEN decoded
                    ELSE [string |-> stream, limit |-> maxCharsToWrite, tree |-> a,
                          output |-> Stored(read, maxCharsToWrite)]
      /\ thread' = [thread EXCEPT ![t] = Idle]
      /\ UNCHANGED <<Shared, raced, map, stream>>

Next ==
  \/ AddReference \/ RemoveReference
  \/ \E input \in Samples, l \in Languages : GenerateTreeFromStrings(input, l)
  \/ \E t \in Threads :
       \/ \E f \in {"encode", "decode"}, l \in Languages : Begin(t, f, l)
       \/ Search(t, "has", "get", "get")
       \/ Search(t, "get", "cached", "found")
       \/ Save(t) \/ Fetch(t)
       \/ \E text \in Texts, n \in Limits : EncodeString(t, text, n)
       \/ \E n \in Limits, missing \in BOOLEAN : DecodeString(t, n + 1, missing)

Spec == Init /\ [][Next]_vars

-----------------------------------------------------------------------------
TypeOK ==
  /\ referenceCount \in 0..MaxReferences
  /\ map.index \in 0..Len(map.nodes) /\ map.key \in Languages /\ map.valid \in BOOLEAN
  /\ \A i \in 1..Len(map.nodes) :
       map.nodes[i].key \in Languages /\ map.nodes[i].data \in 1..Len(trees)
  /\ Len(trees) <= MaxTrees
  /\ emptied \subseteq Languages /\ wild \in BOOLEAN /\ raced \in BOOLEAN

(* Whatever trees there are, a call codes with the tree of its language, as *)
(* long as no thread uses the cache in the middle of another's use of it:   *)
(* lookups may come between Has and Get of others, and between Get and the  *)
(* use of its tree.  With the default tree alone threads never meet in the  *)
(* cache, as nothing stores (DS_Map.h:127-138, 236-248, 299-312).           *)
GetsItsTree ==
  /\ raced => Len(map.nodes) > 1
  /\ \A t \in Threads :
       thread[t].pc = "code" /\ thread[t].key \notin emptied /\ ~raced =>
         trees[thread[t].at].alive /\ trees[thread[t].at].language = thread[t].key

(* "this is used for RPC possibly from multiple threads at the same time"   *)
(* (StringCompressor.cpp:317): of calls at the same time, each codes with   *)
(* the tree of its language.                                                *)
ThreadsGetTheirTree ==
  \A t \in Threads :
    thread[t].pc = "code" /\ thread[t].key \notin emptied =>
      trees[thread[t].at].language = thread[t].key

(* The keys are in order, and so binary search finds what there is; between *)
(* calls a saved search is right, unless threads met in the cache           *)
(* (DS_OrderedList.h:108-174).                                              *)
MapIsInOrder ==
  /\ TypeOK
  /\ \A i, j \in 1..Len(map.nodes) : i < j => map.nodes[i].key < map.nodes[j].key
  /\ \A key \in Languages :
       GetIndexFromKey(map.nodes, key).found <=> \E i \in 1..Len(map.nodes) : map.nodes[i].key = key
  /\ Quiet /\ map.valid /\ ~raced => map.nodes[map.index + 1].key = map.key

(* No tree leaks and none is freed twice: the trees alive are those of the  *)
(* Map, except for keys whose tree was deleted for want of input, the only  *)
(* way into undefined behaviour (StringCompressor.cpp:325-335, 350-354).    *)
(* This is so even of calls that trust a cache in which threads have met.   *)
TreesAreOwned ==
  /\ wild => emptied # {}
  /\ ~wild => {a \in 1..Len(trees) : trees[a].alive} =
                {map.nodes[i].data : i \in {j \in 1..Len(map.nodes) : map.nodes[j].key \notin emptied}}

(* Of a string that is decoded with the tree that encoded it come back as   *)
(* many characters as there is room for before the terminator; only if its  *)
(* code is too long for the unsigned short that counts the bits are there   *)
(* fewer, and the padding never adds one (DS_HuffmanEncodingTree.cpp:175-   *)
(* 236, StringCompressor.cpp:371-386, 396-414).                             *)
DecodesWhatWasEncoded ==
  LET text == decoded.string.text IN
  /\ Len(decoded.output) < decoded.limit
  /\ decoded.tree = decoded.string.tree /\ decoded.tree # 0 =>
       /\ IsPrefix(decoded.output, text)
       /\ \/ Len(EncodeArray(trees[decoded.tree].table, text)) >= 2^Short
          \/ decoded.output = Cut(text, decoded.limit)

(* A tree that is made is a prefix code.  It is optimal for the weights of  *)
(* its leaves: no other codes a text in fewer bits that has each character  *)
(* as often as the table says, and those that the table says are absent     *)
(* once (DS_HuffmanEncodingTree.cpp:54-134).  For the strings themselves,   *)
(* without that once, there may be a shorter one.                           *)
TreesAreOptimal ==
  [][\A a \in Len(trees) + 1..Len(trees') :
       IsPrefixCode(trees'[a].table) /\ IsOptimal(trees'[a].table, trees'[a].frequencies)]_trees
=============================================================================
