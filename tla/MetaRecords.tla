------------------------------ MODULE MetaRecords ------------------------------
(***************************************************************************)
(* The record of one file in the store of meta-core, and those who write   *)
(* it: the /meta routes of api/UnifiedAPIServer.ts, each of which reads    *)
(* the record, changes one key of it and writes all of it back, the file   *)
(* processor and the plugins, which write fields, and the deletion of the  *)
(* file.  The client (RedisClient.ts) writes through MetaCoreApiWriter.ts: *)
(* a write merges its fields into the record (external).                   *)
(*                                                                         *)
(* Not modelled: a PATCH of several keys, or of values that are no         *)
(* strings; the index of all records; the direct writes to Redis, for a    *)
(* client without an API.                                                  *)
(***************************************************************************)
EXTENDS MetadataUtils

CONSTANTS
    Writers,        \* bound: requests at once, numbered
    Stored,         \* the record to begin with
    Keys,           \* keys that requests name, as paths
    Values          \* strings they write

VARIABLES
    record,
    routes          \* what each request is at

recordVars == <<record, routes>>

Paths == Seq(STRING) \ {<<>>}

\* Strings are strings: the provers do not know it of any.
ASSUME StringAssumption == {"cids", "true", "7"} \subseteq STRING

ASSUME RecordAssumption ==
    /\ IsFiniteSet(DOMAIN Stored)
    /\ \A path \in Keys \cup DOMAIN Stored : path \in Paths
    /\ \A v \in Values \cup {Stored[path] : path \in DOMAIN Stored} : v \subseteq STRING

NoRoute == [at |-> "idle", op |-> "none", key |-> <<>>, value |-> {}, fields |-> <<>>,
            alone |-> TRUE]

RecordInit ==
    /\ record = Stored
    /\ routes = [w \in Writers |-> NoRoute]

\* PATCH of meta-core: fields that are not named stay.
Merged(r, fields) == Over(fields, r)

\* The metadata as getMetadataFlat() may return them: the pairs come in any order.
Readings(r) ==
    {Reconstruct(pairs) : pairs \in SetToSeqs({<<path, r[path]>> : path \in DOMAIN r})}

\* The metadata t without one key of the object, or with a string at it.  An array has
\* no other keys than its indices: what is set at one is not written.
Without(t, key) == Restrict(t, {p \in DOMAIN t : ~IsPrefix(key, p)})

With(t, key, v) ==
    IF t[<<>>].kind = "array" /\ ~Numeric(key[1]) THEN t
    ELSE Over(Only(key, Leaf(v)), Without(t, key))

\* { ...t }: of an array, an object with its indices for keys.
Spread(t) == [t EXCEPT ![<<>>] = Node("object")]

Nested(key) == Len(key) > 1

Begin(w, op, key, v) ==
    /\ routes[w].at = "idle"
    /\ routes' = [routes EXCEPT ![w] = [at |-> "read", op |-> op, key |-> key, value |-> v,
                                       fields |-> <<>>, alone |-> TRUE]]
    /\ UNCHANGED record

Reply(w) == routes' = [routes EXCEPT ![w] = NoRoute]

\* BUG variant: _add starts from nothing.
MutantCurrent(t, key) == {}

\* The string that _add puts the value into: none where the key has null, false or
\* zero, and split() throws on whatever else is no string.
CannotAdd(t, key) ==
    /\ ~Nested(key) /\ key \in DOMAIN t
    /\ t[key].kind = "value" => t[key].type # "string" /\ ~Falsy(t[key])

Current(t, key) ==
    IF Nested(key) \/ key \notin DOMAIN t \/ t[key].kind # "value" \/ Falsy(t[key]) THEN {}
    ELSE t[key].at

\* The object with one key changed, as its fields.  A key with a slash is no key of the
\* nested object, but one beside them.
Changed(t, key, v) ==
    CASE ~Nested(key) -> RecordFields(With(t, key, v), {})
      [] Nested(key) /\ t[<<>>].kind = "array" -> RecordFields(t, {})
      [] OTHER -> Over(CidFields(t), Over(Only(key, v), Flatten(t, StructuralFields)))

FieldsOf(r, t) ==
    CASE r.op = "set" -> Changed(t, r.key, r.value)
      [] r.op = "patch" -> Changed(Spread(t), r.key, r.value)
      [] r.op = "add" -> Changed(t, r.key, Current(t, r.key) \cup r.value)
      [] r.op = "delete" -> RecordFields(IF Nested(r.key) THEN t ELSE Without(t, r.key), {})

AtWrite(r, fields, alone) ==
    [at |-> "write", op |-> r.op, key |-> r.key, value |-> r.value, fields |-> fields,
     alone |-> alone]

\* getMetadataFlat() and the change of one key; or the route answers 500.
RouteRead(w) ==
    /\ routes[w].at = "read"
    /\ \E t \in Readings(record) :
           IF t = Broken \/ (routes[w].op = "add" /\ CannotAdd(t, routes[w].key))
           THEN Reply(w)
           ELSE routes' = [routes EXCEPT ![w] =
                              AtWrite(routes[w], FieldsOf(routes[w], t), TRUE)]
    /\ UNCHANGED record

\* A request that was to write comes after another now.
Overtaken(r) == IF r.at = "write" THEN AtWrite(r, r.fields, FALSE) ELSE r
AllOvertaken == [v \in Writers |-> Overtaken(routes[v])]

\* setMetadataFlat().
RouteWrite(w) ==
    /\ routes[w].at = "write"
    /\ record' = Merged(record, routes[w].fields)
    /\ routes' = [AllOvertaken EXCEPT ![w] = NoRoute]

\* The client throws: 500.
RouteFails(w) ==
    /\ routes[w].at \in {"read", "write"}
    /\ Reply(w) /\ UNCHANGED record

\* A plugin, or the file processor, writes a field.
Store(key, v) ==
    /\ record' = Merged(record, Only(key, v))
    /\ routes' = AllOvertaken

\* deleteFile(): deleteMetadataFlat(), whatever other paths have the content.
DropRecord ==
    /\ record' = <<>>
    /\ routes' = AllOvertaken
-----------------------------------------------------------------------------
\* What a request that reads and writes back does to the fields it does not name.
SameOrReadBack(v) == {v} \cup {{Spelling[n]} : n \in {m \in DOMAIN Spelling : v = {m}}}
                         \cup (IF v = {"null"} THEN {{}} ELSE {})

\* What _add takes for nothing.
ReadAsNothing(v) ==
    v \in {{}, {"null"}, {"false"}} \cup {{n} : n \in {m \in DOMAIN Spelling : Spelling[m] = "0"}}

\* Fields that buildRecordFields() makes, or leaves out, itself.
Structural(path) == path[1] = "cids" \/ path = <<"hashId">>

\* A record of numbered fields only is read as an array.
Listed(r) == Sequential({path[1] : path \in DOMAIN r})

\* What the write of a request keeps, and what it leaves at the key that it names.
Kept(w) ==
    LET key == routes[w].key
        written == ~Structural(key) /\ (routes[w].op = "patch" \/ ~Listed(record))
    IN  /\ DOMAIN record \subseteq DOMAIN record'
        /\ \A path \in DOMAIN record' \ {key} :
               \/ path[1] = "cids"
               \/ path \in DOMAIN record /\ record'[path] \in SameOrReadBack(record[path])
        /\ routes[w].op \in {"set", "patch"} /\ written => record'[key] = routes[w].value
        /\ routes[w].op = "add" /\ written =>
               /\ routes[w].value \subseteq record'[key]
               /\ ~Nested(key) /\ key \in DOMAIN record =>
                      record[key] \subseteq record'[key] \/ ReadAsNothing(record[key])

\* A request that nobody overtakes between its reading and its writing changes its own
\* key and no other: it loses none, it adds none, and the others keep their values, but
\* for those that parseValue() takes for a number, which come back as JavaScript spells
\* it, or for null, and for the CIDs that it spells as keys.  It writes what it was asked
\* to, unless buildRecordFields() has a use of its own for the key or an array hides it.
\* What _add puts a value into keeps its parts, but for null, false and a zero, which it
\* takes for nothing; of a nested key it forgets them (UnifiedAPIServer.ts 1302-1420,
\* RedisClient.ts 323-395, MetadataUtils.ts 39-275).
RecordsKept ==
    [][\A w \in Writers :
           routes[w].at = "write" /\ routes'[w].at = "idle" /\ routes[w].alone
               /\ record' # record => Kept(w)]_recordVars
-----------------------------------------------------------------------------
\* A field is under the place of another's value.
Clash(r) == \E p, q \in DOMAIN r : IsStrictPrefix(p, q)

\* What the code makes of nested metadata: no field clashes, the parts at one place
\* have numbers or names, and no key is one that records use for themselves.
Proper(r) ==
    /\ ~Clash(r)
    /\ \A p, q \in DOMAIN r : \A a \in (Above(p) \cap Above(q)) \ {<<>>} :
           Numeric(KeyAfter(a, p)) <=> Numeric(KeyAfter(a, q))
    /\ \A p \in DOMAIN r : \A i \in 1..Len(p) : p[i] \notin StructuralFields

\* Read, in whatever order its fields come, and written, the record is what it was, but
\* for the values that parseValue() spells anew.
RoundTrips(r) ==
    \A t \in Readings(r) :
        t # Broken /\ RecordFields(t, {}) = [path \in DOMAIN r |-> ReadBack(r[path])]
=============================================================================
