----------------------------- MODULE RedisClient -----------------------------
(***************************************************************************)
(* RedisKVClient and MetaCoreApiWriter: the operations on keys and on file *)
(* records, by a connection to Redis or through the API of meta-core, and  *)
(* the consumer of a Redis stream.                                         *)
(*                                                                         *)
(* db is Redis: its keys, as paths, with the strings under them, the set   *)
(* file:__index__, and the keyspace's SCAN, which goes through pages: a    *)
(* key there from beginning to end is on at least one of them, and may be  *)
(* on several.  null is the empty set.                                     *)
(***************************************************************************)
EXTENDS Integers, Sequences, FiniteSets, SequencesExt, Functions, TLC

CONSTANTS
    ReadCount,            \* 10, the entries one XREADGROUP brings
    HealthTimeout         \* 5000 ms

-----------------------------------------------------------------------------
(* Strings: a JSON text stands for its value, others for themselves.       *)

Stringify(v) == [json |-> TRUE, value |-> v]
TextOf(s) == [json |-> FALSE, value |-> s]
ParsedOrRaw(text) == text.value

Lookup(table, key) == IF key \in DOMAIN table THEN {table[key]} ELSE {}
WithKeys(table, fields) == fields @@ table
Less(table, keys) == Restrict(table, DOMAIN table \ keys)

-----------------------------------------------------------------------------
(* Keys.                                                                   *)

BuildKey(prefix, key) == prefix \o key

SetKey(db, key, text) == [db EXCEPT !.keys = WithKeys(@, key :> text)]
GetKey(db, key) == {ParsedOrRaw(text) : text \in Lookup(db.keys, key)}
GetProperty(db, key) == Lookup(db.keys, key)
DeleteKeys(db, keys) == [db EXCEPT !.keys = Less(@, keys)]
SetMultiple(db, pairs) == FoldLeft(LAMBDA d, pair : SetKey(d, pair.key, pair.value), db, pairs)

CountKeysWithPrefix(pages) == FoldLeft(LAMBDA n, page : n + Len(page), 0, pages)

\* What is deleted between SCAN and MGET has no value any more.
GetRange(db, pages) ==
    FoldLeft(LAMBDA pairs, page :
                 pairs \o [i \in DOMAIN SelectSeq(page, LAMBDA k : k \in DOMAIN db.keys) |->
                              LET key == SelectSeq(page, LAMBDA k : k \in DOMAIN db.keys)[i]
                              IN  [key |-> key, value |-> db.keys[key]]],
             <<>>, pages)

DeleteRange(db, pages) ==
    FoldLeft(LAMBDA r, page :
                 LET here == {page[i] : i \in DOMAIN page} \cap DOMAIN r.db.keys
                 IN  [db |-> DeleteKeys(r.db, here), deleted |-> r.deleted + Cardinality(here)],
             [db |-> db, deleted |-> 0], pages)

-----------------------------------------------------------------------------
(* Records, over the connection: a key for every field, and the index.     *)

FieldKeys(db, id) == {key \in DOMAIN db.keys : Len(key) > 1 /\ Head(key) = id}

\* The fields are sent in one pipeline, whose results nobody reads, and the
\* id to the index after it: failing, the second leaves a record that is in
\* no list.
SetFields(db, id, fields, refused, listed) ==
    IF fields = <<>> THEN db
    ELSE LET written == [key \in {<<id>> \o path : path \in DOMAIN fields \ refused} |-> fields[Tail(key)]]
         IN  [keys |-> WithKeys(db.keys, written),
              index |-> IF listed THEN db.index \cup {id} ELSE db.index]

SetMetadataProperty(db, id, path, text) ==
    [keys |-> WithKeys(db.keys, (<<id>> \o path) :> text), index |-> db.index \cup {id}]

GetMetadataFlat(db, id) ==
    IF FieldKeys(db, id) = {} THEN {}
    ELSE {[path \in {Tail(key) : key \in FieldKeys(db, id)} |-> db.keys[<<id>> \o path]]}

GetMetadata(db, id, path) == GetKey(db, <<id>> \o path)

DeleteMetadataFlat(db, id, pages) ==
    LET r == DeleteRange(db, pages)
    IN  [db |-> [r.db EXCEPT !.index = @ \ {id}], deleted |-> r.deleted]

-----------------------------------------------------------------------------
(* The same through the API.  An answer is thrown (a timeout, no           *)
(* connection), or has a code and a body, which may be empty.              *)

Thrown == [thrown |-> TRUE]
Returned(v) == [thrown |-> FALSE, value |-> v]

FetchJson(answer) ==
    IF answer.kind = "thrown" \/ answer.code \notin 200..299 THEN Thrown ELSE Returned(answer.body)

FetchJsonAllowing404(answer) ==
    IF answer.kind # "thrown" /\ answer.code = 404 THEN Returned({}) ELSE FetchJson(answer)

\* A body is a set with one record of the fields it has.
BodyField(result, field) ==
    IF result.thrown THEN Thrown
    ELSE Returned(UNION {IF field \in DOMAIN body THEN {body[field]} ELSE {} : body \in result.value})

ApiGetMetadataFlat(answer) == BodyField(FetchJsonAllowing404(answer), "metadata")
ApiGetMetadata(answer) ==
    LET result == FetchJsonAllowing404(answer)
    IN  IF result.thrown THEN Thrown ELSE Returned({ParsedOrRaw(text) : text \in result.value})
ApiDeleteMetadataFlat(answer) ==
    LET result == BodyField(FetchJson(answer), "deleted")
    IN  IF result.thrown THEN Thrown ELSE Returned(CHOOSE n \in result.value \cup {0} :
                                                       result.value = {} \/ n \in result.value)
ApiGetAllHashIds(answer) ==
    LET result == BodyField(FetchJson(answer), "hashIds")
    IN  IF result.thrown THEN Thrown ELSE Returned(UNION result.value)
ApiHealth(answer) == answer.kind # "thrown" /\ answer.code \in 200..299
ApiHealthTimeout(timeout) == IF timeout < HealthTimeout THEN timeout ELSE HealthTimeout

-----------------------------------------------------------------------------
(* The client: which way an operation takes.                               *)

Mode(url, api) ==
    CASE api = {} -> "redis"
      [] api # {} /\ url = {} -> "http only"
      [] api # {} /\ url # {} -> "both"

RoutedThroughApi == {"setMetadataFlat", "getMetadataFlat", "getMetadata", "setMetadataProperty",
                     "deleteMetadataFlat", "getAllHashIds", "health"}
Way(mode, operation) ==
    CASE operation \in RoutedThroughApi /\ mode # "redis" -> "api"
      [] operation \notin RoutedThroughApi /\ mode = "http only" -> "fails"
      [] mode = "redis" \/ (operation \notin RoutedThroughApi /\ mode = "both") -> "redis"

\* connect() does nothing when there is nothing to connect to.
Connects(mode, connected) == ~connected /\ mode # "http only"

-----------------------------------------------------------------------------
(* The stream consumer.  g is the consumer group: how far the log has been *)
(* delivered and which entries are delivered and not acknowledged.  An     *)
(* entry that cannot be parsed is given to nobody.                         *)

ParseStreamEntry(entry) ==
    IF entry.type = {} \/ (entry.path = {} /\ entry.type # {"reset"}) THEN {} ELSE {entry}

InitStreamConsumer(g) ==
    IF g.exists THEN g ELSE [exists |-> TRUE, delivered |-> 0, pending |-> {}]

\* Entries given to the handler in turn; fails are those for which it, or
\* the acknowledgement, throws.
Handle(g, log, ids, fails) ==
    LET given == SelectSeq(ids, LAMBDA id : ParseStreamEntry(log[id]) # {})
        acknowledged == {given[i] : i \in DOMAIN given} \ fails
    IN  [given |-> given, group |-> [g EXCEPT !.pending = @ \ acknowledged],
         processed |-> Cardinality(acknowledged)]

\* One turn of the loop: new entries only.  Without a group it is made
\* anew, at the beginning of the stream.
ConsumeTurn(g, log, fails) ==
    IF ~g.exists THEN [given |-> <<>>, group |-> InitStreamConsumer(g), processed |-> 0]
    ELSE LET end == IF g.delivered + ReadCount < Len(log) THEN g.delivered + ReadCount ELSE Len(log)
             ids == [i \in 1..(end - g.delivered) |-> g.delivered + i]
         IN  Handle([g EXCEPT !.delivered = end, !.pending = @ \cup {ids[i] : i \in DOMAIN ids}],
                    log, ids, fails)

\* XAUTOCLAIM goes through the pending entries in pages and claims those
\* idle for long enough; a page without any ends the search.
ProcessPendingEntries(g, log, pages, idle, fails) ==
    LET Claimed(page) == SelectSeq(page, LAMBDA id : id \in g.pending /\ id \in idle)
        ends == {k \in DOMAIN pages : Claimed(pages[k]) = <<>>}
        last == IF ends = {} THEN Len(pages) ELSE (CHOOSE k \in ends : \A j \in ends : k <= j) - 1
        ids == FoldLeft(LAMBDA all, page : all \o Claimed(page), <<>>, SubSeq(pages, 1, last))
    IN  Handle(g, log, ids, fails)
=============================================================================
