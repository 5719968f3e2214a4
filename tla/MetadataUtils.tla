----------------------------- MODULE MetadataUtils -----------------------------
(***************************************************************************)
(* Between the nested metadata of a file and the flat record in the store: *)
(* kv/MetadataUtils.ts.                                                    *)
(*                                                                         *)
(* A path is a sequence of keys.  A tree maps each path that leads         *)
(* somewhere in it to what is there: a value, an object or an array; its   *)
(* root is at the empty path.  A record maps paths to stored strings.  A   *)
(* stored string is the set of its comma-separated parts; the empty one    *)
(* is {}.  A value is the string that String() makes of it, and its type.  *)
(* An array's keys are written as strings, as its paths spell them.        *)
(*                                                                         *)
(* Not modelled: key prefixes and their parsing.                           *)
(***************************************************************************)
EXTENDS Naturals, FiniteSets, Sequences, SequencesExt

CONSTANT Spelling       \* of each string that reads as a number: how JavaScript spells it

ASSUME SpellingAssumption ==
    /\ \A n \in DOMAIN Spelling : n \in STRING /\ Spelling[n] \in STRING
    /\ DOMAIN Spelling \cap {"true", "false", "null"} = {}

\* TLC's :> and @@, which the provers do not know.
Only(key, x) == [k \in {key} |-> x]
Over(f, g) == [k \in DOMAIN f \cup DOMAIN g |-> IF k \in DOMAIN f THEN f[k] ELSE g[k]]

\* bound: array indices
IndexKeys == <<"0", "1", "2">>
Numeric(k) == \E i \in DOMAIN IndexKeys : IndexKeys[i] = k

Leaf(v) == [kind |-> "value", at |-> v, type |-> "string"]
Node(kind) == [kind |-> kind, at |-> {}]
EmptyTree == Only(<<>>, Node("object"))
Broken == <<>>

\* parseValue() and String(): what a stored string is when it has been read and is
\* written back.  A number loses what is not in its usual spelling (leading zeros, zeros
\* of the fraction, digits beyond a double's), null becomes empty.
Numbers == {{n} : n \in DOMAIN Spelling}

ReadBack(v) ==
    CASE v = {"null"} -> {}
      [] v \in Numbers -> {Spelling[n] : n \in v}
      [] OTHER -> v

TypeOf(v) ==
    CASE v \in {{}, {"null"}} -> "null"
      [] v \in {{"true"}, {"false"}} -> "boolean"
      [] v \in Numbers -> "number"
      [] OTHER -> "string"

ParseValue(v) == [kind |-> "value", at |-> ReadBack(v), type |-> TypeOf(v)]

Falsy(leaf) ==
    <<leaf.type, leaf.at>> \in {<<"null", {}>>, <<"boolean", {"false"}>>, <<"number", {"0"}>>}

\* The paths that a path goes through, the root first, and the key it takes after one.
Above(path) == {SubSeq(path, 1, n) : n \in 0..(Len(path) - 1)}
KeyAfter(p, path) == path[Len(p) + 1]

\* What is at p once the value v is set at path, the nodes on the way being made.
NodeAt(p, t, path, v) ==
    IF p = path THEN ParseValue(v)
    ELSE IF p \in DOMAIN t THEN t[p]
    ELSE Node(IF Numeric(KeyAfter(p, path)) THEN "array" ELSE "object")

\* reconstructMetadata(), one pair.  A value has no properties: setting one throws.
Insert(t, path, v) ==
    IF t = Broken \/ \E p \in Above(path) \cap DOMAIN t : t[p].kind = "value" THEN Broken
    ELSE [p \in {q \in DOMAIN t : ~IsPrefix(path, q)} \cup Above(path) \cup {path} |->
              NodeAt(p, t, path, v)]

KeysAt(t, p) == {KeyAfter(p, q) : q \in {r \in DOMAIN t : IsStrictPrefix(p, r)}}
Sequential(keys) == \E n \in 1..Len(IndexKeys) : keys = {IndexKeys[i] : i \in 1..n}

\* convertNumericObjectsToArrays().  An array keeps what is at its indices.
Converted(t) ==
    [p \in {q \in DOMAIN t : \A r \in Above(q) :
                t[r].kind = "array" => Numeric(KeyAfter(r, q))} |->
         IF t[p].kind = "object" /\ Sequential(KeysAt(t, p)) THEN Node("array") ELSE t[p]]

\* reconstructMetadata(): pairs in the order in which they come.
Reconstruct(pairs) ==
    LET after[i \in 0..Len(pairs)] ==
            IF i = 0 THEN EmptyTree ELSE Insert(after[i - 1], pairs[i][1], pairs[i][2])
        t == after[Len(pairs)]
    IN  IF t = Broken THEN Broken ELSE Converted(t)

\* flattenMetadata(): the exclusions hold in objects, at every level.
Flatten(t, excluded) ==
    [p \in {q \in DOMAIN t :
                /\ t[q].kind = "value"
                /\ \A r \in Above(q) : t[r].kind = "object" => KeyAfter(r, q) \notin excluded} |->
         t[p].at]

StructuralFields == {"cids", "hashId"}

\* buildRecordFields(): the list of CIDs becomes a set of keys.  A CID is a string of one
\* part.
Cids(t) ==
    IF <<"cids">> \in DOMAIN t /\ t[<<"cids">>].kind = "array"
    THEN LET at == {p \in DOMAIN t : /\ Len(p) = 2 /\ p[1] = "cids"
                                     /\ t[p].kind = "value" /\ t[p].type = "string"}
         IN  {cid \in UNION {t[p].at : p \in at} : \E p \in at : t[p].at = {cid}}
    ELSE {}

CidFields(t) == [path \in {<<"cids", cid>> : cid \in Cids(t)} |-> {"true"}]

RecordFields(t, excluded) == Over(CidFields(t), Flatten(t, excluded \cup StructuralFields))
=============================================================================
