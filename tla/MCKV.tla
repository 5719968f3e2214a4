---------------------------------- MODULE MCKV ----------------------------------
(***************************************************************************)
(* An instance of KV for TLC, and the bounded checks of MetadataUtils.     *)
(***************************************************************************)
EXTENDS KV, MCRedisClient

\* Two reports of a change side by side, or a report and a request.
MCLookers == {1, 2}

MCWriters == {1, 2}
\* Leading zeros, a fraction of zeros, and a zero.
MCSpelling == [n \in {"0", "2", "7", "2.0", "007"} |->
                   CASE n = "007" -> "7" [] n = "2.0" -> "2" [] OTHER -> n]

MCStored == (<<"a">> :> {"w"}) @@ (<<"b", "0">> :> {"2.0"}) @@ (<<"c">> :> {"0"})
MCKeys == {<<"a">>, <<"b">>, <<"c">>, <<"b", "0">>}
MCValues == {{"x"}}
-----------------------------------------------------------------------------
\* Records of up to three fields over these paths.
SmallPaths == {<<"a">>, <<"b">>, <<"a", "0">>, <<"a", "1">>, <<"a", "b">>, <<"b", "0", "a">>}
SmallRecords == UNION {[fields -> {{"w"}, {"007"}, {"null"}}] :
                           fields \in {s \in SUBSET SmallPaths : Cardinality(s) \in 1..3}}

\* A record without a clash is read and written back as it is, in whatever order
\* its fields come, but for the values that parseValue() spells anew
\* (MetadataUtils.ts 40-120, 136-258).
ASSUME RoundTrip == \A r \in SmallRecords : Proper(r) => RoundTrips(r)

\* A record with a field under another's value, and no other, cannot be read again in
\* every order of its fields: nothing keeps the routes from making one
\* (MetadataUtils.ts 154-174).
ASSUME ClashBreaks == \A r \in SmallRecords : Clash(r) <=> Broken \in Readings(r)

\* What is put at a key of a record that is read as an array is lost, what is patched
\* is not, nor what the array has (UnifiedAPIServer.ts 1320-1324, 1376-1379).
ASSUME PatchOfArray ==
    LET r == <<"0">> :> {"w"}
        new == <<"a">> :> {"x"}
    IN  \A t \in Readings(r) : /\ Changed(t, <<"a">>, {"x"}) = r
                               /\ Changed(Spread(t), <<"a">>, {"x"}) = r @@ new

Cid == [k \in {"0", "1"} |-> IF k = "0" THEN "sha256" ELSE "midhash"]

\* The list of CIDs of a file comes to the record as keys, never as numbered fields, and
\* the file's address is not in its record (MetadataUtils.ts 25-78).
ASSUME CidsAsKeys ==
    \A n \in 0..2 :
        LET keys == {IndexKeys[i] : i \in 1..n}
            t == EmptyTree @@ (<<"cids">> :> Node("array")) @@ (<<"hashId">> :> Leaf({"h"}))
                     @@ (<<"a">> :> Leaf({"w"})) @@ [p \in {<<"cids", k>> : k \in keys} |->
                                                         Leaf({Cid[p[2]]})]
        IN  DOMAIN RecordFields(t, {}) = {<<"a">>} \cup {<<"cids", Cid[k]>> : k \in keys}
=============================================================================
