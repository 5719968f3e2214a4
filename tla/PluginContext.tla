---------------------------- MODULE PluginContext ----------------------------
(***************************************************************************)
(* What a plugin is given to work with: the tree of a file's metadata      *)
(* (MetadataNode), the two key-value stores (KVStore, and                  *)
(* MetadataNodeKVStore over the tree), the cache directory; and two small  *)
(* functions of the API over the same data: reading a record and naming a  *)
(* file by its content.                                                    *)
(*                                                                         *)
(* A tree is a function from paths to nodes: an object, a text or a set of *)
(* texts.  Paths are sequences of names, the empty path the root, always   *)
(* an object.  undefined is the empty set.                                 *)
(***************************************************************************)
EXTENDS Integers, Sequences, FiniteSets, SequencesExt, Functions, TLC

CONSTANTS
    Word          \* the bits of a number under <<, 32

Object == [kind |-> "object"]
Text(s) == [kind |-> "text", text |-> s]
SetOf(texts) == [kind |-> "set", texts |-> texts]

EmptyTree == <<>> :> Object

Above(path) == {SubSeq(path, 1, n) : n \in 0..(Len(path) - 1)}
Under(path, tree) == {p \in DOMAIN tree : Len(p) > Len(path) /\ SubSeq(p, 1, Len(path)) = path}

-----------------------------------------------------------------------------
(* MetadataNode: a node is the path to it.                                 *)

Node(tree, path) == IF path \in DOMAIN tree THEN {tree[path]} ELSE {}

\* ensurePath(true): what is missing above becomes an object; nothing can be
\* put under a text.
CanReach(tree, path) == \A p \in Above(path) \cap DOMAIN tree : tree[p].kind # "text"
EnsurePath(tree, path) == tree @@ [p \in Above(path) |-> Object]

\* set(): under the default rule the new value replaces whatever was there,
\* with all that was below it.
SetNode(tree, path, node) ==
    CASE path = <<>> -> tree
      [] path # <<>> /\ Node(tree, path) = {node} -> tree
      [] path # <<>> /\ Node(tree, path) # {node} ->
            (path :> node) @@ Restrict(EnsurePath(tree, path),
                                       DOMAIN EnsurePath(tree, path) \ Under(path, tree))

AddToNode(tree, path, s) ==
    IF path \in DOMAIN tree /\ tree[path].kind = "set"
    THEN [tree EXCEPT ![path].texts = @ \cup {s}]
    ELSE SetNode(tree, path, SetOf({s}))

\* getKeysAsSet(), of an object or a set.
KeysAt(tree, path) ==
    CASE Node(tree, path) = {} -> {}
      [] Node(tree, path) # {} /\ tree[path].kind = "set" -> tree[path].texts
      [] Node(tree, path) # {} /\ tree[path].kind # "set" ->
            {p[Len(path) + 1] : p \in Under(path, tree)}

-----------------------------------------------------------------------------
(* MetadataNodeKVStore.  A key is a path; at() refuses an empty part, so a *)
(* key with one names nothing.                                             *)

Navigable(key) == \A i \in DOMAIN key : key[i] # ""

TreeGet(tree, key) ==
    {node.text : node \in {n \in (IF Navigable(key) THEN Node(tree, key) ELSE {}) : n.kind = "text"}}

\* A write that throws is logged, and lost.
TreeTakes(tree, key, value) ==
    key # <<>> /\ value # {} /\ Navigable(key) /\ CanReach(tree, key)

TreeSet(tree, key, value) ==
    IF TreeTakes(tree, key, value) THEN SetNode(tree, key, Text(CHOOSE v \in value : TRUE))
    ELSE tree
TreeAdd(tree, key, value) ==
    IF TreeTakes(tree, key, value) THEN AddToNode(tree, key, CHOOSE v \in value : TRUE)
    ELSE tree

\* delete() sets undefined, which set() passes over.
TreeDelete(tree, key) == tree
TreeKeys(tree, prefix) == <<>>

-----------------------------------------------------------------------------
(* KVStore.                                                                *)

StoreOf(initial) == Restrict(initial, {k \in DOMAIN initial : initial[k].kind = "text"})
StoreGet(store, key) == IF key \in DOMAIN store THEN {store[key].text} ELSE {}
StoreSet(store, key, value) ==
    IF key = <<>> \/ value = {} THEN store ELSE (key :> Text(CHOOSE v \in value : TRUE)) @@ store
StoreDelete(store, key) == Restrict(store, DOMAIN store \ {key})
StoreKeys(store, prefix) == {k \in DOMAIN store : Len(k) >= Len(prefix) /\ SubSeq(k, 1, Len(prefix)) = prefix}

-----------------------------------------------------------------------------
(* PluginCacheImpl: a directory, missing until it is first used.  A folder *)
(* in it cannot be unlinked.                                               *)

MakeDir(dir) == IF dir.exists THEN dir ELSE [dir EXCEPT !.exists = TRUE]
ReadJson(dir, name) ==
    LET there == MakeDir(dir)
    IN  [dir |-> there,
         result |-> CASE name \notin DOMAIN there.files -> [kind |-> "none"]
                      [] name \in DOMAIN there.files -> there.files[name]]
WriteJson(dir, name, value) ==
    [MakeDir(dir) EXCEPT !.files = (name :> [kind |-> "json", value |-> value]) @@ @]
DeleteFile(dir, name) == [MakeDir(dir) EXCEPT !.files = Restrict(@, DOMAIN @ \ {name})]
ClearFiles(dir) == [dir EXCEPT !.files = Restrict(@, {n \in DOMAIN @ : @[n].kind = "folder"})]

-----------------------------------------------------------------------------
(* GET /meta/:hash and GET /meta/:hash/{key}.  The record is nested, the   *)
(* key is looked up as it stands.                                          *)

GetRecord(answer) ==
    IF answer.thrown THEN [code |-> 500]
    ELSE [code |-> 200, metadata |-> IF answer.value = {} THEN EmptyTree ELSE CHOOSE t \in answer.value : TRUE]

GetRecordKey(answer, key) ==
    CASE key = <<>> -> 400
      [] key # <<>> /\ answer.thrown -> 500
      [] key # <<>> /\ ~answer.thrown ->
            IF \E tree \in answer.value : Len(key) = 1 /\ key \in DOMAIN tree THEN 200 ELSE 404

-----------------------------------------------------------------------------
(* POST /file/cid: the bytes in groups of five bits, from a number that    *)
(* takes byte after byte and is never emptied; << drops what leaves the    *)
(* word.  Taken are the letters' places.                                   *)

Shifted(n, bits) == (n * 2^bits) % 2^Word
BitsAt(n, bits) == (n \div 2^bits) % 32

Base32(bytes) ==
    LET Take(s, byte) ==
            LET value == (Shifted(s.value, 8) + byte) % 2^Word
                bits == s.bits + 8
                groups == bits \div 5
            IN  [value |-> value, bits |-> bits % 5,
                 letters |-> s.letters \o [g \in 1..groups |-> BitsAt(value, bits - 5 * g)]]
        end == FoldLeft(Take, [value |-> 0, bits |-> 0, letters |-> <<>>], bytes)
    IN  IF end.bits = 0 THEN end.letters
        ELSE Append(end.letters, Shifted(end.value, 5 - end.bits) % 32)

FileCid(path, file) ==
    CASE path = {} -> [code |-> 400]
      [] path # {} /\ file.kind = "folder" -> [code |-> 400]
      [] path # {} /\ file.kind = "missing" -> [code |-> 404]
      [] path # {} /\ file.kind = "unreadable" -> [code |-> 500]
      [] path # {} /\ file.kind = "file" -> [code |-> 200, cid |-> Base32(file.bytes), size |-> file.size]
=============================================================================
