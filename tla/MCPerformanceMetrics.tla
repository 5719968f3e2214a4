------------------------- MODULE MCPerformanceMetrics -------------------------
(***************************************************************************)
(* PerformanceMetrics after every short sequence of calls, against what    *)
(* the calls since the last reset say.                                     *)
(***************************************************************************)
EXTENDS Integers, Sequences, FiniteSetsExt, SequencesExt

M == INSTANCE PerformanceMetrics
         WITH Infinity <- 99, MaxRecentEntries <- 2, RecentShown <- 1, MaxFailedFilesHistory <- 2

Call(kind, key, ms) == [kind |-> kind, key |-> key, ms |-> ms]
MetricsCalls ==
    {Call("file", "f", 2), Call("file", "f", 5), Call("metadata", "", 3), Call("hash", "", 4),
     Call("duplicates", "", 2), Call("structure", "", 6), Call("hit", "midhash256", 0),
     Call("miss", "midhash256", 0), Call("computed", "midhash256", 7), Call("plugin", "p", 1),
     Call("failed", "metadata", 0), Call("failed", "processing", 0), Call("reset", "", 0)}

\* The moment of a call is its place.
After(m, now, call) ==
    CASE call.kind = "file" -> M!RecordFileProcessing(m, now, call.key, call.ms)
      [] call.kind = "metadata" -> M!RecordMetadataProcessing(m, now, call.ms)
      [] call.kind = "hash" -> M!RecordHashProcessing(m, now, call.ms)
      [] call.kind = "duplicates" -> M!RecordDuplicateDetection(m, now, call.ms, 1)
      [] call.kind = "structure" -> M!RecordVirtualStructureGeneration(m, now, call.ms)
      [] call.kind = "hit" -> M!RecordCacheHit(m, now, call.key)
      [] call.kind = "miss" -> M!RecordCacheMiss(m, now, call.key)
      [] call.kind = "computed" -> M!RecordHashComputation(m, now, call.key, call.ms)
      [] call.kind = "plugin" -> M!RecordPluginProcessing(m, now, call.key, call.ms)
      [] call.kind = "failed" -> M!RecordFailedFile(m, now, "f", 0, call.key)
      [] call.kind = "reset" ->
            M!HandleRequest(m, now, TRUE, "/metrics", "POST", "/reset").metrics

AfterAll(calls) ==
    FoldLeft(LAMBDA m, i : After(m, i, calls[i]), M!NewMetrics(0), [i \in DOMAIN calls |-> i])

\* The calls after the last reset, and what their durations come to.
SinceReset(calls) ==
    LET resets == {i \in DOMAIN calls : calls[i].kind = "reset"}
    IN  SubSeq(calls, (IF resets = {} THEN 0 ELSE Max(resets)) + 1, Len(calls))

OfKind(calls, kind) == SelectSeq(calls, LAMBDA c : c.kind = kind)
Durations(calls) ==
    LET all == {calls[i].ms : i \in DOMAIN calls}
        sum == FoldLeft(LAMBDA t, c : t + c.ms, 0, calls)
    IN  [total |-> sum, count |-> Len(calls),
         average |-> IF calls = <<>> THEN <<0, 1>> ELSE <<sum, Len(calls)>>,
         min |-> IF calls = <<>> THEN 0 ELSE Min(all), max |-> IF calls = <<>> THEN 0 ELSE Max(all)]

\* Nothing is lost, counted twice, or left over by a reset; the lists keep the latest
\* (PerformanceMetrics.ts 158-530, MetricsAPI.ts 132-159).
ASSUME MetricsAddUp ==
    \A calls \in BoundedSeq(MetricsCalls, 3) :
        LET shown == M!GetMetrics(AfterAll(calls), Len(calls) + 1)
            since == SinceReset(calls)
            of(kind) == Durations(OfKind(since, kind))
            failed == OfKind(since, "failed")
            hits == of("hit").count
            misses == of("miss").count
        IN  /\ shown.files = of("file") /\ shown.metadata = of("metadata")
            /\ shown.hash = of("hash")
            /\ shown.averageDuplicateDetection = of("duplicates").average
            /\ shown.duplicatesFound = of("duplicates").count
            /\ shown.averageStructure = of("structure").average
            /\ \A table \in {shown.hashComputationTimes, shown.pluginProcessingTimes} :
                   \A key \in DOMAIN table :
                       table[key] = of(IF key = "p" THEN "plugin" ELSE "computed")
            /\ DOMAIN shown.pluginProcessingTimes = IF of("plugin").count > 0 THEN {"p"} ELSE {}
            /\ shown.totalFilesDiscovered = of("file").count + of("failed").count
            /\ shown.totalFailedFiles = Len(failed)
            /\ shown.metadataFailures = Len(SelectSeq(failed, LAMBDA c : c.key = "metadata"))
            /\ [i \in DOMAIN shown.failed |-> shown.failed[i].stage]
                   = SubSeq([i \in DOMAIN failed |-> Reverse(failed)[i].key], 1,
                            IF Len(failed) < 2 THEN Len(failed) ELSE 2)
            /\ [i \in DOMAIN shown.recent |-> shown.recent[i].value]
                   = IF of("file").count = 0 THEN <<>> ELSE <<Last(OfKind(since, "file")).ms>>
            \* A cache that was never hit has no rate, however often it was missed.
            /\ DOMAIN shown.cacheHitRate = IF hits > 0 THEN {"midhash256"} ELSE {}
            /\ hits > 0 => shown.cacheHitRate["midhash256"] = <<hits, hits + misses>>
            /\ shown.lastActivity = Len(calls) /\ shown.uptime = Len(since) + 1

\* A plugin has a timing exactly when one of its runs was recorded: none is, nothing in
\* the program calls recordPluginProcessing() (TaskScheduler.ts 180, 259).
ASSUME PluginTimings ==
    \A calls \in BoundedSeq(MetricsCalls, 2) :
        M!GetPluginTiming(AfterAll(calls), "p")
            = IF OfKind(SinceReset(calls), "plugin") = <<>> THEN {}
              ELSE {Durations(OfKind(SinceReset(calls), "plugin"))}

\* Only POST /reset changes what is counted, and a preflight never does (MetricsAPI.ts 75-108).
ASSUME OnlyResetClears ==
    \A method \in {"GET", "POST", "OPTIONS"}, cors \in BOOLEAN,
       path \in {"/metrics", "/health", "/reset", "/other"} :
        LET before == AfterAll(<<Call("hit", "midhash256", 0)>>)
            answer == M!HandleRequest(before, 2, cors, "/metrics", method, path)
        IN  /\ answer.metrics # before <=> (method = "POST" /\ path = "/reset")
            /\ "body" \in DOMAIN answer <=> (method = "GET" /\ path = "/metrics")
=============================================================================
