-------------------------- MODULE PerformanceMetrics --------------------------
(***************************************************************************)
(* The counters of PerformanceMetrics.ts and the routes that show and      *)
(* clear them (MetricsAPI.ts), as functions of the object: every method    *)
(* runs to its end without waiting.                                        *)
(***************************************************************************)
EXTENDS Integers, Sequences, SequencesExt, Functions

CONSTANTS
    Infinity,                 \* above every duration
    MaxRecentEntries,         \* 100
    RecentShown,              \* the 20 of getMetrics()
    MaxFailedFilesHistory     \* 50

NoTimes == [sum |-> 0, count |-> 0, min |-> Infinity, max |-> 0]

\* The constructor and reset().
NewMetrics(now) ==
    [files |-> NoTimes, metadata |-> NoTimes, hash |-> NoTimes,
     duplicates |-> [sum |-> 0, count |-> 0, last |-> 0, found |-> 0],
     structure |-> [sum |-> 0, count |-> 0, last |-> 0],
     recent |-> <<>>, failed |-> <<>>, metadataFailures |-> 0, hashFailures |-> 0,
     hits |-> <<>>, misses |-> <<>>, hashTimings |-> <<>>, pluginTimings |-> <<>>,
     start |-> now, lastActivity |-> now]

Timed(times, ms) ==
    [sum |-> times.sum + ms, count |-> times.count + 1,
     min |-> IF ms < times.min THEN ms ELSE times.min,
     max |-> IF ms > times.max THEN ms ELSE times.max]

\* The entry of a key, fresh at first, and the table with another one.
EntryOf(table, key, fresh) == IF key \in DOMAIN table THEN table[key] ELSE fresh

Entered(table, key, entry) ==
    [k \in DOMAIN table \cup {key} |-> IF k = key THEN entry ELSE table[k]]

Counted(table, key) == Entered(table, key, EntryOf(table, key, 0) + 1)

TimedIn(table, key, ms) == Entered(table, key, Timed(EntryOf(table, key, NoTimes), ms))

RecordFileProcessing(m, now, file, ms) ==
    LET recent == Append(m.recent, [timestamp |-> now, value |-> ms, label |-> file])
    IN  [m EXCEPT !.files = Timed(@, ms), !.lastActivity = now,
                  !.recent = IF Len(recent) > MaxRecentEntries THEN Tail(recent) ELSE recent]

RecordMetadataProcessing(m, now, ms) ==
    [m EXCEPT !.metadata = Timed(@, ms), !.lastActivity = now]

RecordHashProcessing(m, now, ms) ==
    [m EXCEPT !.hash = Timed(@, ms), !.lastActivity = now]

RecordDuplicateDetection(m, now, ms, found) ==
    [m EXCEPT !.duplicates = [sum |-> @.sum + ms, count |-> @.count + 1, last |-> ms,
                              found |-> @.found + found],
              !.lastActivity = now]

RecordVirtualStructureGeneration(m, now, ms) ==
    [m EXCEPT !.structure = [sum |-> @.sum + ms, count |-> @.count + 1, last |-> ms],
              !.lastActivity = now]

RecordCacheHit(m, now, cache) ==
    [m EXCEPT !.hits = Counted(@, cache), !.lastActivity = now]

RecordCacheMiss(m, now, cache) ==
    [m EXCEPT !.misses = Counted(@, cache), !.lastActivity = now]

RecordHashComputation(m, now, algorithm, ms) ==
    [m EXCEPT !.hashTimings = TimedIn(@, algorithm, ms),
              !.lastActivity = now]

RecordPluginProcessing(m, now, plugin, ms) ==
    [m EXCEPT !.pluginTimings = TimedIn(@, plugin, ms),
              !.lastActivity = now]

\* The newest first; a failure in any stage but metadata counts as one of hashing.
RecordFailedFile(m, now, file, retryCount, stage) ==
    LET entry == [filePath |-> file, timestamp |-> now, retryCount |-> retryCount,
                  stage |-> stage]
        all == <<entry>> \o m.failed
    IN  [m EXCEPT !.failed = IF Len(all) > MaxFailedFilesHistory
                             THEN SubSeq(all, 1, MaxFailedFilesHistory) ELSE all,
                  !.metadataFailures = IF stage = "metadata" THEN @ + 1 ELSE @,
                  !.hashFailures = IF stage = "metadata" THEN @ ELSE @ + 1,
                  !.lastActivity = now]

\* A quotient is the pair of its terms; of nothing it is zero.
Quotient(sum, count) == IF count > 0 THEN <<sum, count>> ELSE <<0, 1>>

ShownTimes(times) ==
    [total |-> times.sum, count |-> times.count, average |-> Quotient(times.sum, times.count),
     min |-> IF times.min = Infinity THEN 0 ELSE times.min, max |-> times.max]

At(table, key) == IF key \in DOMAIN table THEN table[key] ELSE 0

GetMetrics(m, now) ==
    LET failures == m.metadataFailures + m.hashFailures
        uptime == now - m.start
    IN  [files |-> ShownTimes(m.files), metadata |-> ShownTimes(m.metadata),
         hash |-> ShownTimes(m.hash),
         totalFilesDiscovered |-> m.files.count + failures,
         recent |-> SubSeq(m.recent, IF Len(m.recent) > RecentShown
                                     THEN Len(m.recent) - RecentShown + 1 ELSE 1, Len(m.recent)),
         hashComputationTimes |-> [a \in DOMAIN m.hashTimings |-> ShownTimes(m.hashTimings[a])],
         pluginProcessingTimes |-> [p \in DOMAIN m.pluginTimings |-> ShownTimes(m.pluginTimings[p])],
         averageDuplicateDetection |-> Quotient(m.duplicates.sum, m.duplicates.count),
         lastDuplicateDetection |-> m.duplicates.last, duplicatesFound |-> m.duplicates.found,
         averageStructure |-> Quotient(m.structure.sum, m.structure.count),
         lastStructure |-> m.structure.last,
         failed |-> m.failed, totalFailedFiles |-> failures,
         metadataFailures |-> m.metadataFailures, hashFailures |-> m.hashFailures,
         uptime |-> uptime, start |-> m.start, lastActivity |-> m.lastActivity,
         filesPerTime |-> Quotient(m.files.count, uptime),
         cacheHits |-> m.hits, cacheMisses |-> m.misses,
         cacheHitRate |-> [c \in DOMAIN m.hits |->
                              Quotient(m.hits[c], m.hits[c] + At(m.misses, c))]]

\* getPluginTiming(): null is the empty set.
GetPluginTiming(m, plugin) == {ShownTimes(m.pluginTimings[p]) : p \in {plugin} \cap DOMAIN m.pluginTimings}
-----------------------------------------------------------------------------
\* MetricsAPI: a request's answer and what is left of the counters.
HandleRequest(m, now, enableCors, mountPath, method, path) ==
    CASE enableCors /\ method = "OPTIONS" -> [status |-> 204, metrics |-> m]
      [] method = "GET" /\ path = mountPath ->
            [status |-> 200, metrics |-> m, body |-> GetMetrics(m, now)]
      [] method = "GET" /\ path = "/health" /\ path # mountPath -> [status |-> 200, metrics |-> m]
      [] method = "POST" /\ path = "/reset" -> [status |-> 200, metrics |-> NewMetrics(now)]
      [] OTHER -> [status |-> 404, metrics |-> m]
=============================================================================
