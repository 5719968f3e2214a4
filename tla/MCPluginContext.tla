--------------------------- MODULE MCPluginContext ---------------------------
(***************************************************************************)
(* PluginContext over every short sequence of calls on a few keys.         *)
(***************************************************************************)
EXTENDS Integers, Sequences, FiniteSets, SequencesExt, Functions, TLC

\* Words of 16 bits stand for JavaScript's 32: TLC's own integers have 32.
X == INSTANCE PluginContext WITH Word <- 16

ContextKeys == {<<"a">>, <<"a", "b">>, <<"a", "b", "c">>, <<"d">>}
ContextCalls ==
    [op : {"set", "add"}, key : ContextKeys, value : {{"v"}, {"w"}}]
        \cup [op : {"set"}, key : {<<"a", "">>, <<>>}, value : {{"v"}}]
        \cup [op : {"set", "delete"}, key : {<<"a">>}, value : {{}}]

TreeCall(tree, call) ==
    CASE call.op = "set" -> X!TreeSet(tree, call.key, call.value)
      [] call.op = "add" -> X!TreeAdd(tree, call.key, call.value)
      [] call.op = "delete" -> X!TreeDelete(tree, call.key)
StoreCall(store, call) ==
    CASE call.op = "set" -> X!StoreSet(store, call.key, call.value)
      [] call.op = "add" -> store
      [] call.op = "delete" -> X!StoreDelete(store, call.key)

Trees(n) == {FoldLeft(TreeCall, X!EmptyTree, calls) : calls \in TupleOf(ContextCalls, n)}
Reachable == Trees(1) \cup Trees(2)

\* Every node but the root is under an object or a set, never under a text.
TreesAreTrees ==
    \A tree \in Reachable : \A path \in DOMAIN tree : \A p \in X!Above(path) :
        p \in DOMAIN tree /\ tree[p].kind # "text"
ASSUME TreesAreTrees

\* A write that reaches its place is read back; what it takes with it is
\* what was below that place, and nothing beside it changes.  A write under
\* a text, or to a key with an empty part, is lost without a trace.
WritesAreLocal ==
    \A tree \in Reachable, key \in ContextKeys \cup {<<"a", "">>} :
        LET after == X!TreeSet(tree, key, {"v"})
            reached == X!Navigable(key) /\ X!CanReach(tree, key)
        IN  /\ reached <=> X!TreeGet(after, key) = {"v"}
            /\ ~reached => after = tree
            /\ \A other \in DOMAIN tree :
                   ~IsPrefix(key, other) => other \in DOMAIN after /\ after[other] = tree[other]
ASSUME WritesAreLocal

\* Over the tree a deletion removes nothing and no key is ever listed; the
\* plain store does both.
DeletesDoNothing ==
    \A tree \in Reachable, key \in ContextKeys :
        /\ X!TreeDelete(tree, key) = tree /\ X!TreeKeys(tree, <<>>) = <<>>
        /\ LET store == X!StoreOf(Restrict(tree, DOMAIN tree \ {<<>>}))
           IN  /\ X!StoreGet(X!StoreDelete(store, key), key) = {}
               /\ X!StoreGet(store, key) = X!TreeGet(tree, key)
               /\ X!StoreKeys(store, <<>>) = DOMAIN store
               /\ key \in X!StoreKeys(X!StoreSet(store, key, {"v"}), <<Head(key)>>)
ASSUME DeletesDoNothing

\* The two stores hold the same after any two writes to keys of which none
\* is under the other, and can differ after a write under a text.
StoresDiffer ==
    LET Both(calls) ==
            [tree |-> FoldLeft(TreeCall, X!EmptyTree, calls), store |-> FoldLeft(StoreCall, <<>>, calls)]
        Agree(b) == \A key \in ContextKeys : X!TreeGet(b.tree, key) = X!StoreGet(b.store, key)
        Sets == {c \in ContextCalls : c.op = "set" /\ c.key \in ContextKeys}
    IN  \A calls \in TupleOf(Sets, 2) :
            (calls[1].value # {} /\ calls[2].value # {}) =>
                (Agree(Both(calls)) <=>
                    \/ calls[1].key = calls[2].key
                    \/ ~IsPrefix(calls[1].key, calls[2].key) /\ ~IsPrefix(calls[2].key, calls[1].key))
ASSUME StoresDiffer

\* Adding collects, in any order; onto a text or an object it starts anew.
AddsCollect ==
    \A tree \in Reachable, key \in ContextKeys :
        X!CanReach(tree, key) =>
            LET once == X!TreeAdd(tree, key, {"v"})
                set == once[key].texts
            IN  /\ "v" \in set /\ X!TreeAdd(once, key, {"v"}) = once
                /\ (X!Node(tree, key) = {} \/ tree[key].kind # "set") => set = {"v"}
                /\ X!TreeAdd(once, key, {"w"})[key].texts = set \cup {"w"}
                /\ X!KeysAt(once, key) = set
ASSUME AddsCollect

-----------------------------------------------------------------------------
Json(v) == [kind |-> "json", value |-> v]
Dirs == {[exists |-> e, files |-> f] : e \in BOOLEAN,
             f \in {<<>>, "n" :> Json(1), "n" :> [kind |-> "folder"], ("n" :> Json(1)) @@ ("m" :> [kind |-> "folder"])}}
\* What was written is read until it is deleted or the cache is cleared;
\* clearing leaves folders.
CacheReadsBack ==
    \A dir \in {d \in Dirs : d.exists \/ d.files = <<>>} :
        /\ X!ReadJson(X!WriteJson(dir, "n", 2), "n").result = Json(2)
        /\ X!ReadJson(X!DeleteFile(dir, "n"), "n").result.kind = "none"
        /\ X!ReadJson(dir, "none").dir.exists
        /\ \A n \in DOMAIN dir.files : n \in DOMAIN X!ClearFiles(dir).files <=> dir.files[n].kind = "folder"
ASSUME CacheReadsBack

-----------------------------------------------------------------------------
Bits(bytes) == [i \in 1..(8 * Len(bytes)) |-> (bytes[(i - 1) \div 8 + 1] \div 2^(7 - ((i - 1) % 8))) % 2]
Padded(bits) == [i \in 1..(((Len(bits) + 4) \div 5) * 5) |-> IF i \in DOMAIN bits THEN bits[i] ELSE 0]
Grouped(bits) ==
    [g \in 1..(Len(bits) \div 5) |-> FoldLeft(LAMBDA n, b : 2 * n + b, 0, SubSeq(bits, 5 * g - 4, 5 * g))]

\* The letters are the bits in groups of five, although the number they are
\* taken from overflows: what is still needed of it are 12 bits at most.
OverflowIsHarmless ==
    \A n \in 0..5 : \A bytes \in TupleOf({0, 1, 85, 254, 255}, n) :
        X!Base32(bytes) = Grouped(Padded(Bits(bytes)))
ASSUME OverflowIsHarmless

\* Only a file that could be read has a name, and a request without a path
\* none.
CidAnswers ==
    \A kind \in {"file", "folder", "missing", "unreadable"}, path \in {{}, {"p"}} :
        X!FileCid(path, [kind |-> kind, bytes |-> <<7>>, size |-> 1]).code = 200 <=> path # {} /\ kind = "file"
ASSUME CidAnswers

\* A record that is there or not is answered 200; one of its nested values
\* is never found by the key that wrote it.
NestedKeysAreNotFound ==
    \A tree \in Reachable, key \in ContextKeys :
        LET answer == [thrown |-> FALSE, value |-> {tree}]
        IN  /\ X!GetRecord(answer).code = 200 /\ X!GetRecord([thrown |-> FALSE, value |-> {}]).code = 200
            /\ X!GetRecordKey(answer, key) = 200 <=> Len(key) = 1 /\ key \in DOMAIN tree
            /\ X!GetRecordKey([thrown |-> TRUE], key) = 500
ASSUME NestedKeysAreNotFound
=============================================================================
