---------------------------- MODULE MCRedisClient ----------------------------
(***************************************************************************)
(* RedisClient over small key spaces, scans and streams.                   *)
(***************************************************************************)
EXTENDS Integers, Sequences, FiniteSets, SequencesExt, Functions, TLC

R == INSTANCE RedisClient WITH ReadCount <- 2, HealthTimeout <- 5

-----------------------------------------------------------------------------
(* Two records, "x" and "y", of the fields a and b.                        *)

DbFields == {<<"a">>, <<"b">>}
DbIds == {"x", "y"}
DbKeys == {<<id>> \o path : id \in DbIds, path \in DbFields}
Database(keys) == [keys |-> [key \in keys |-> R!Stringify(1)], index |-> {Head(key) : key \in keys}]
Databases == {Database(keys) : keys \in SUBSET DbKeys}
KeysOf(id) == {<<id>> \o path : path \in DbFields}
FieldMaps == UNION {[paths -> {R!Stringify(2), R!TextOf(3)}] : paths \in SUBSET DbFields}

\* SCAN: two pages that between them have every key of the record, some twice.
Scans(db, id) ==
    LET here == KeysOf(id) \cap DOMAIN db.keys
    IN  {<<SetToSeq(s), SetToSeq(t)>> : s, t \in SUBSET here}
Whole(db, id) == {scan \in Scans(db, id) :
                      R!FieldKeys(db, id) = {scan[1][i] : i \in DOMAIN scan[1]} \cup {scan[2][i] : i \in DOMAIN scan[2]}}

\* A key that a scan meets twice is counted twice, listed twice, and deleted
\* and reported as deleted once.
ScansRepeat ==
    \A db \in Databases : \A pages \in Whole(db, "x") :
        LET here == R!FieldKeys(db, "x")
            pairs == R!GetRange(db, pages)
            gone == R!DeleteRange(db, pages)
        IN  /\ R!CountKeysWithPrefix(pages) >= Cardinality(here)
            /\ Len(pairs) = R!CountKeysWithPrefix(pages)
            /\ {pairs[i].key : i \in DOMAIN pairs} = here
            /\ gone.deleted = Cardinality(here)
            /\ DOMAIN gone.db.keys = DOMAIN db.keys \ here
            /\ R!SetMultiple(gone.db, pairs) = db
            /\ \A key \in here : R!GetRange(R!DeleteKeys(db, {key}), pages)
                                     = SelectSeq(pairs, LAMBDA p : p.key # key)
ASSUME ScansRepeat

-----------------------------------------------------------------------------
(* meta-core, as the comments of the client say it: a write merges its     *)
(* fields into the record and lists it; a deletion removes both.           *)

CoreOf(db) == [id \in db.index |-> IF R!GetMetadataFlat(db, id) = {} THEN <<>>
                                   ELSE CHOOSE r \in R!GetMetadataFlat(db, id) : TRUE]
CoreAnswer(code, body) == [kind |-> "answer", code |-> code, body |-> body]
CoreGet(core, id) ==
    CoreAnswer(IF id \in DOMAIN core THEN 200 ELSE 404,
           IF id \in DOMAIN core THEN {[metadata |-> core[id]]} ELSE {})
CoreSet(core, id, fields) ==
    LET old == IF id \in DOMAIN core THEN core[id] ELSE <<>> IN (id :> (fields @@ old)) @@ core

\* Both ways read back what was written, over what was there, and leave the
\* other record; a write of nothing is none.
BothWaysAgree ==
    \A db \in Databases, fields \in FieldMaps :
        LET after == R!SetFields(db, "x", fields, {}, TRUE)
            core == IF fields = <<>> THEN CoreOf(db) ELSE CoreSet(CoreOf(db), "x", fields)
        IN  /\ \A id \in DbIds :
                   R!Returned(R!GetMetadataFlat(after, id)) = R!ApiGetMetadataFlat(CoreGet(core, id))
            /\ after.index = R!ApiGetAllHashIds(CoreAnswer(200, {[hashIds |-> DOMAIN core]})).value
            /\ R!GetMetadataFlat(after, "y") = R!GetMetadataFlat(db, "y")
            /\ \A path \in DOMAIN fields : R!GetMetadata(after, "x", path) = {fields[path].value}
ASSUME BothWaysAgree

\* A connection that refuses part of a write, or is lost before the index is
\* written, leaves a record in part or one that no list names; nothing tells
\* the caller of the first.
WritesMayBePartial ==
    \A fields \in {m \in FieldMaps : m # <<>>}, refused \in SUBSET DbFields, listed \in BOOLEAN :
        LET after == R!SetFields(Database({}), "x", fields, refused, listed)
        IN  /\ R!GetMetadataFlat(after, "x") = {} <=> DOMAIN fields \subseteq refused
            /\ "x" \in after.index <=> listed
ASSUME WritesMayBePartial

\* A deletion takes all of a record and nothing else.
DeletesAreWhole ==
    \A db \in Databases : \A pages \in Whole(db, "x") :
        LET gone == R!DeleteMetadataFlat(db, "x", pages)
        IN  /\ R!GetMetadataFlat(gone.db, "x") = {} /\ "x" \notin gone.db.index
            /\ R!GetMetadataFlat(gone.db, "y") = R!GetMetadataFlat(db, "y")
            /\ R!ApiDeleteMetadataFlat(CoreAnswer(200, {[deleted |-> gone.deleted]})) = R!Returned(gone.deleted)
ASSUME DeletesAreWhole

\* The readers of an answer without the expected part report nothing there:
\* no record, no ids, nothing deleted; an empty value is read as no value,
\* where the connection reads it as an empty text.
AnswersWithoutParts ==
    /\ \A body \in {{}, {[other |-> 1]}} :
           /\ R!ApiGetAllHashIds(CoreAnswer(200, body)) = R!Returned({})
           /\ R!ApiDeleteMetadataFlat(CoreAnswer(200, body)) = R!Returned(0)
           /\ R!ApiGetMetadataFlat(CoreAnswer(200, body)) = R!Returned({})
    /\ R!ApiGetMetadata(CoreAnswer(200, {})) = R!Returned({})
    /\ R!GetMetadata(R!SetMetadataProperty(Database({}), "x", <<"a">>, R!TextOf("")), "x", <<"a">>) = {""}
    /\ \A code \in {404, 500} :
           /\ R!ApiGetAllHashIds(CoreAnswer(code, {})) = R!Thrown
           /\ R!ApiGetMetadataFlat(CoreAnswer(code, {})).thrown <=> code = 500
           /\ ~R!ApiHealth(CoreAnswer(code, {}))
    /\ \A timeout \in 1..9 : R!ApiHealthTimeout(timeout) <= 5
ASSUME AnswersWithoutParts

\* With an address of the API and none of Redis, all that is not routed
\* through the API fails, close() with it.
WhatFailsWithoutRedis ==
    \A operation \in R!RoutedThroughApi \cup {"get", "set", "getRange", "publish", "xadd", "close"} :
        /\ R!Way(R!Mode({}, {1}), operation) = "fails" <=> operation \notin R!RoutedThroughApi
        /\ R!Way(R!Mode({1}, {1}), operation) = "api" <=> operation \in R!RoutedThroughApi
        /\ R!Way(R!Mode({1}, {}), operation) = "redis"
        /\ ~R!Connects(R!Mode({}, {1}), FALSE)
ASSUME WhatFailsWithoutRedis

-----------------------------------------------------------------------------
(* Streams of three entries, the second without what it needs or not.      *)

Sound == [type |-> {"add"}, path |-> {"p"}]
StreamLogs == {<<Sound, e, Sound>> : e \in {Sound, [type |-> {}, path |-> {"p"}],
                                            [type |-> {"add"}, path |-> {}], [type |-> {"reset"}, path |-> {}]}}
NewGroup == R!InitStreamConsumer([exists |-> FALSE])

\* The turns of the loop, until the log is at its end.
Turns(log, fails) ==
    LET first == R!ConsumeTurn(NewGroup, log, fails)
        second == R!ConsumeTurn(first.group, log, fails)
        third == R!ConsumeTurn(second.group, log, {})
    IN  [given |-> first.given \o second.given \o third.given, group |-> third.group]

\* The loop gives every good entry once, in order, and never again: what
\* failed, and what could not be parsed, stays pending, whatever number of
\* turns follow, although the code says it "will be reprocessed".
FailedEntriesStay ==
    \A log \in StreamLogs, fails \in SUBSET (1..3) :
        LET after == Turns(log, fails)
            good == {i \in 1..3 : R!ParseStreamEntry(log[i]) # {}}
        IN  /\ after.given = SelectSeq(<<1, 2, 3>>, LAMBDA i : i \in good)
            /\ after.group.pending = ((1..3) \ good) \cup (good \cap fails)
ASSUME FailedEntriesStay

\* Claiming gives the failed entries again, except those behind a page on
\* which none was idle; a bad one stays pending for good.
ClaimingGivesAgain ==
    \A log \in StreamLogs, fails \in SUBSET (1..3), idle \in SUBSET (1..3),
       cut \in 0..3 :
        LET g == Turns(log, fails).group
            order == SetToSortSeq(g.pending, <)
            at == IF cut < Len(order) THEN cut ELSE Len(order)
            pages == <<SubSeq(order, 1, at), SubSeq(order, at + 1, Len(order))>>
            again == R!ProcessPendingEntries(g, log, pages, idle, {})
            blocked == {pages[1][i] : i \in DOMAIN pages[1]} \cap idle = {}
            good == {i \in 1..3 : R!ParseStreamEntry(log[i]) # {}}
        IN  /\ again.group.pending =
                   IF blocked THEN g.pending ELSE g.pending \ (good \cap idle)
            /\ again.processed = Len(again.given)
ASSUME ClaimingGivesAgain

\* A group that was deleted is made anew at the start of the stream: every
\* entry still there is handled a second time.
RecoveryReplays ==
    \A log \in StreamLogs :
        LET lost == R!ConsumeTurn([exists |-> FALSE], log, {})
            turn == R!ConsumeTurn(lost.group, log, {})
        IN  lost.given = <<>> /\ turn.given = SelectSeq(<<1, 2>>, LAMBDA i : R!ParseStreamEntry(log[i]) # {})
ASSUME RecoveryReplays
=============================================================================
