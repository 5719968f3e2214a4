-------------------------- MODULE StreamingPipeline --------------------------
(***************************************************************************)
(* The way of a file through class StreamingPipeline (logic/pipeline),     *)
(* with the file processor it calls (logic/fileProcessor/                  *)
(* FileProcessorPiscina.ts) and the state manager both write               *)
(* (logic/UnifiedProcessingStateManager.ts).                               *)
(*                                                                         *)
(* A job is one file event and the chain of queued promises it starts:     *)
(* validation, light phase, hash phase.  Two jobs of one path run side by  *)
(* side when an event comes before the last one was dealt with.  The three *)
(* p-queues are first in, first out; how many jobs they start depends on   *)
(* the other files in them, which are not modelled, so a job may wait for  *)
(* any time.  The code between two awaits is one action.                   *)
(*                                                                         *)
(* The plugin scheduler is its promise (ContainerPluginScheduler.tla, run  *)
(* scheduler_steady): the paths dispatched for a hash are announced once   *)
(* by file:complete, or forgotten by clear().  A container that reports a  *)
(* status the scheduler does not know takes the promise back; it is not    *)
(* modelled here.                                                          *)
(***************************************************************************)
EXTENDS Naturals, FiniteSets, Sequences, SequencesExt

CONSTANTS
    Paths,
    Hashes,       \* midhash256 values
    NoHash,       \* no hash: an absent entry of a map
    Supported,    \* paths whose extension is supported
    MaxEvents,    \* bound: add, change and rename events
    MaxResets     \* bound: reset events

ASSUME PipelineAssumption ==
    /\ IsFiniteSet(Paths) /\ Supported \subseteq Paths
    /\ NoHash \notin Hashes
    /\ MaxEvents \in Nat /\ MaxResets \in Nat

VARIABLES
    jobs,         \* the events so far and how far each one's chain has come
    validationQ, fastQ, backgroundQ,   \* jobs waiting in the three p-queues
    generation,   \* resetGeneration
    gens,         \* fileGenerations; NoEntry where the map has none
    counts,       \* validatedCount, filteredCount, fast/backgroundProcessedCount
    discovered, light,   \* stages of the state manager
    hashing,      \* its third stage: the hash of each path in it, or NoHash
    done,         \* its last stage
    total,        \* totalProcessedCount
    db,           \* the file processor's database: hashId of each path
    failed,       \* performanceMetrics: failed files
    connected,    \* a container plugin scheduler is configured
    tasks,        \* <<hash, path>> dispatched and not yet announced
    finishing,    \* file:complete handlers awaiting the metadata of a hash
    deleted,      \* bound: paths that were deleted
    undisturbed   \* paths whose last event found nothing of theirs in flight, and
                  \* whose plugins, if dispatched, were there

queueVars == <<validationQ, fastQ, backgroundQ>>
stateVars == <<discovered, light, hashing, done, total>>
resetVars == <<generation, gens>>
pluginVars == <<connected, tasks, finishing>>
boundVars == <<deleted, undisturbed>>
vars == <<jobs, queueVars, resetVars, counts, stateVars, db, failed,
          pluginVars, boundVars>>

NoEntry == MaxResets + 1
Ids == DOMAIN jobs
JobPath(j) == jobs[j].path
Current(p) == gens[p] = generation

Init ==
    /\ jobs = <<>>
    /\ validationQ = <<>> /\ fastQ = <<>> /\ backgroundQ = <<>>
    /\ generation = 0
    /\ gens = [p \in Paths |-> NoEntry]
    /\ counts = [validated |-> 0, filtered |-> 0, fast |-> 0, background |-> 0]
    /\ discovered = {} /\ light = {} /\ done = {} /\ total = 0
    /\ hashing = [p \in Paths |-> NoHash]
    /\ db = [p \in Paths |-> NoHash]
    /\ failed = {}
    /\ connected \in BOOLEAN
    /\ tasks = {}
    /\ finishing = [p \in Paths |-> [h \in Hashes |-> 0]]
    /\ deleted = {} /\ undisturbed = {}
-----------------------------------------------------------------------------
\* The state manager.
RemoveFile(p) ==
    /\ discovered' = discovered \ {p}
    /\ light' = light \ {p}
    /\ hashing' = [hashing EXCEPT ![p] = NoHash]
    /\ done' = {d \in done : d.path # p}

StartLightProcessing(p) ==
    /\ discovered' = discovered \ {p}
    /\ light' = light \cup {p}
    /\ UNCHANGED <<hashing, done, total>>

CompleteLightProcessing(p, h) ==
    /\ light' = light \ {p}
    /\ hashing' = [hashing EXCEPT ![p] = h]
    /\ UNCHANGED <<discovered, done, total>>

DoneEntry(p, h, error) ==
    [path |-> p, hash |-> IF h = NoHash THEN hashing[p] ELSE h, error |-> error]

CompleteHashProcessing(p, h, error) ==
    /\ hashing' = [hashing EXCEPT ![p] = NoHash]
    /\ done' = done \cup {DoneEntry(p, h, error)}
    /\ total' = total + 1
    /\ UNCHANGED <<discovered, light>>
-----------------------------------------------------------------------------
InFlight(p) ==
    \/ \E j \in Ids : JobPath(j) = p /\ jobs[j].at # "over"
    \/ \E h \in Hashes : <<h, p>> \in tasks \/ finishing[p][h] > 0

MoveTo(j, stage) == jobs' = [jobs EXCEPT ![j].at = stage]

Count(c) == counts' = [counts EXCEPT ![c] = @ + 1]

\* An event marks its path with the generation, the pass for every later check.
MutantUnmarked(p) == UNCHANGED gens

MarkGeneration(p) == gens' = [gens EXCEPT ![p] = generation]

\* A job begins: the path is marked with the generation, and the validation of
\* the job is queued.  The event may carry the hash meta-core computed.
Enter(p, h) ==
    /\ Len(jobs) < MaxEvents
    /\ MarkGeneration(p)
    /\ jobs' = Append(jobs, [path |-> p, hash |-> h,
                             gen |-> generation, seen |-> NoHash, at |-> "validationQ"])
    /\ validationQ' = Append(validationQ, Len(jobs) + 1)
    /\ UNCHANGED <<fastQ, backgroundQ, generation, counts, total, failed, pluginVars>>

\* Whether an event on p starts from a clean slate is noted for the properties.
NoteEvent(p) ==
    undisturbed' = IF InFlight(p) THEN undisturbed \ {p} ELSE undisturbed \cup {p}

\* handleFileAdded().
FileAdded(p, h) ==
    /\ Enter(p, h)
    /\ NoteEvent(p)
    /\ UNCHANGED <<discovered, light, hashing, done, db, deleted>>

\* handleFileChanged().
FileChanged(p, h) ==
    /\ Enter(p, h)
    /\ RemoveFile(p)
    /\ NoteEvent(p)
    /\ UNCHANGED <<db, deleted>>

\* handleFileDeleted(): the local record goes, and what KV holds of the file's
\* hash (meta-core's store is not modelled here).  Jobs of the path run on.
Forget(p) ==
    /\ p \notin deleted /\ \E j \in Ids : JobPath(j) = p
    /\ db' = [db EXCEPT ![p] = NoHash]
    /\ RemoveFile(p)
    /\ deleted' = deleted \cup {p}

FileDeleted(p) ==
    /\ Forget(p)
    /\ undisturbed' = undisturbed \ {p}
    /\ UNCHANGED <<jobs, queueVars, resetVars, counts, total, failed, pluginVars>>

\* The rename event: handleFileDeleted() of the old path and, in the same turn,
\* handleFileAdded() of the new one.
FileRenamed(old, p, h) ==
    /\ old # p
    /\ Forget(old)
    /\ Enter(p, h)
    /\ undisturbed' = IF InFlight(p) THEN undisturbed \ {old, p}
                                     ELSE (undisturbed \ {old}) \cup {p}

\* Queued jobs vanish.
MutantKeepsBackground ==
    /\ validationQ' = <<>> /\ fastQ' = <<>>
    /\ UNCHANGED backgroundQ

ClearQueues == validationQ' = <<>> /\ fastQ' = <<>> /\ backgroundQ' = <<>>

\* reset(): the queued jobs vanish, running ones go on.
Reset ==
    /\ generation < MaxResets
    /\ generation' = generation + 1
    /\ gens' = [p \in Paths |-> NoEntry]
    /\ jobs' = [j \in Ids |-> IF jobs[j].at \in {"validationQ", "fastQ", "backgroundQ"}
                              THEN [jobs[j] EXCEPT !.at = "over"] ELSE jobs[j]]
    /\ ClearQueues
    /\ tasks' = {}
    /\ counts' = [c \in DOMAIN counts |-> 0]
    /\ discovered' = {} /\ light' = {} /\ done' = {} /\ total' = 0 /\ failed' = {}
    /\ hashing' = [p \in Paths |-> NoHash]
    /\ undisturbed' = {}
    /\ UNCHANGED <<db, connected, finishing, deleted>>
-----------------------------------------------------------------------------
\* Stage 1, validateFile(): whatever it decides, the file leaves the state
\* manager; a supported file of this generation goes on to the fast queue.
Validate(j) ==
    /\ validationQ # <<>> /\ j = Head(validationQ)
    /\ validationQ' = Tail(validationQ)
    /\ RemoveFile(JobPath(j))
    /\ \/ /\ JobPath(j) \notin Supported
          /\ Count("filtered")
          /\ MoveTo(j, "over")
          /\ UNCHANGED fastQ
       \/ /\ JobPath(j) \in Supported /\ ~Current(JobPath(j))
          /\ MoveTo(j, "over")
          /\ UNCHANGED <<counts, fastQ>>
       \/ /\ JobPath(j) \in Supported /\ Current(JobPath(j))
          /\ Count("validated")
          /\ MoveTo(j, "fastQ")
          /\ fastQ' = Append(fastQ, j)
    /\ UNCHANGED <<backgroundQ, resetVars, total, db, failed, pluginVars, boundVars>>

\* Stage 2, processLightPhase(), up to its first await.
MutantMarksFirst(j) ==
    /\ fastQ # <<>> /\ j = Head(fastQ)
    /\ fastQ' = Tail(fastQ)
    /\ StartLightProcessing(JobPath(j))
    /\ MoveTo(j, IF Current(JobPath(j)) THEN "light" ELSE "over")
    /\ UNCHANGED <<validationQ, backgroundQ, resetVars, counts, db, failed, pluginVars,
                   boundVars>>

StartLight(j) ==
    /\ fastQ # <<>> /\ j = Head(fastQ)
    /\ fastQ' = Tail(fastQ)
    /\ \/ /\ Current(JobPath(j))
          /\ StartLightProcessing(JobPath(j))
          /\ MoveTo(j, "light")
       \/ /\ ~Current(JobPath(j))
          /\ MoveTo(j, "over")
          /\ UNCHANGED stateVars
    /\ UNCHANGED <<validationQ, backgroundQ, resetVars, counts, db, failed,
                   pluginVars, boundVars>>

\* Whether the end of a light phase counts.
MutantCountsStale(p) == Count("fast")

CountFast(p) == IF Current(p) THEN Count("fast") ELSE UNCHANGED counts

\* dispatchContainerPluginTasks(): no task is created when no plugin is enabled and
\* healthy, or while the scheduler rejects tasks.
DispatchPlugins(h, p) ==
    \/ ~connected /\ UNCHANGED <<tasks, undisturbed>>
    \/ connected /\ tasks' = tasks \cup {<<h, p>>} /\ UNCHANGED undisturbed
    \/ connected /\ undisturbed' = undisturbed \ {p} /\ UNCHANGED tasks

\* The light phase succeeds, stored in KV or not (a failed store is only
\* logged): the record is kept, the plugins are dispatched and the hash phase is
\* queued; only the counter depends on the generation.
EndLight(j) ==
    /\ jobs[j].at = "light"
    /\ db' = [db EXCEPT ![JobPath(j)] = jobs[j].hash]
    /\ CompleteLightProcessing(JobPath(j), jobs[j].hash)
    /\ DispatchPlugins(jobs[j].hash, JobPath(j))
    /\ backgroundQ' = Append(backgroundQ, j)
    /\ MoveTo(j, "backgroundQ")
    /\ CountFast(JobPath(j))
    /\ UNCHANGED <<validationQ, fastQ, resetVars, failed, connected, finishing, deleted>>

\* The light phase fails, when the event carried no hash and the file cannot be
\* read: the file processor completes the file with an error; then the pipeline
\* takes it out of the state manager again, unless a reset came between.
FailLight(j) ==
    LET p == JobPath(j)
    IN  /\ jobs[j].at = "light"
        /\ MoveTo(j, "over")
        /\ total' = total + 1
        /\ \/ /\ Current(p)
              /\ RemoveFile(p)
              /\ failed' = failed \cup {p}
           \/ /\ ~Current(p)
              /\ light' = light \ {p}
              /\ hashing' = [hashing EXCEPT ![p] = NoHash]
              /\ done' = done \cup {DoneEntry(p, NoHash, TRUE)}
              /\ UNCHANGED <<discovered, failed>>
        /\ UNCHANGED <<queueVars, resetVars, counts, db, pluginVars, boundVars>>

\* Stage 3, processHashPhase(), up to its first await.  Without a local record
\* it fails at once.
StartHash(j) ==
    LET p == JobPath(j)
    IN  /\ backgroundQ # <<>> /\ j = Head(backgroundQ)
        /\ backgroundQ' = Tail(backgroundQ)
        /\ \/ /\ ~Current(p)
              /\ MoveTo(j, "over")
              /\ UNCHANGED <<gens, stateVars, failed>>
           \/ /\ Current(p) /\ db[p] # NoHash
              /\ jobs' = [jobs EXCEPT ![j].at = "hashing", ![j].seen = db[p]]
              /\ UNCHANGED <<gens, stateVars, failed>>
           \/ /\ Current(p) /\ db[p] = NoHash
              /\ MoveTo(j, "over")
              /\ failed' = failed \cup {p}
              /\ gens' = [gens EXCEPT ![p] = NoEntry]
              /\ CompleteHashProcessing(p, NoHash, TRUE)
        /\ UNCHANGED <<validationQ, fastQ, generation, counts, db, pluginVars,
                       boundVars>>

\* After the collision check in KV: the record read before it is put back.
HashRead(j) ==
    /\ jobs[j].at = "hashing"
    /\ db' = [db EXCEPT ![JobPath(j)] = jobs[j].seen]
    /\ jobs' = [jobs EXCEPT ![j].at = "storing", ![j].seen = NoHash]
    /\ UNCHANGED <<queueVars, resetVars, counts, stateVars, failed, pluginVars,
                   boundVars>>

\* What the end of a hash phase does: with a scheduler the file stays in the hash
\* stage until file:complete, without one it is done.
CompleteNow(p) ==
    /\ gens' = [gens EXCEPT ![p] = NoEntry]
    /\ CompleteHashProcessing(p, db[p], FALSE)

MutantNeverWaits(p) == Count("background") /\ CompleteNow(p)

MutantForgetsGeneration(p) ==
    /\ Count("background")
    /\ IF connected THEN gens' = [gens EXCEPT ![p] = NoEntry] /\ UNCHANGED stateVars
                    ELSE CompleteNow(p)

HashPhaseOver(p) ==
    /\ Count("background")
    /\ IF connected THEN UNCHANGED <<gens, stateVars>> ELSE CompleteNow(p)

\* After the second store in KV.
EndHash(j) ==
    /\ jobs[j].at = "storing"
    /\ MoveTo(j, "over")
    /\ \/ Current(JobPath(j)) /\ HashPhaseOver(JobPath(j))
       \/ ~Current(JobPath(j)) /\ UNCHANGED <<counts, gens, stateVars>>
    /\ UNCHANGED <<queueVars, generation, db, failed, pluginVars, boundVars>>
-----------------------------------------------------------------------------
\* The scheduler emits file:complete for every path dispatched under a hash, and
\* the handler runs up to its await: it accepts the event for a path of this
\* generation that is in the hash stage under this hash.
Accepted(h) ==
    {p \in Paths : <<h, p>> \in tasks /\ Current(p) /\ hashing[p] = h}

\* An accepted path loses its entry in fileGenerations before the await, so that
\* nothing else completes it meanwhile.
MutantKeepsEntry(h) == UNCHANGED gens

ConsumeEntries(h) == gens' = [p \in Paths |-> IF p \in Accepted(h) THEN NoEntry ELSE gens[p]]

FileComplete(h) ==
    /\ \E p \in Paths : <<h, p>> \in tasks
    /\ tasks' = {t \in tasks : t[1] # h}
    /\ ConsumeEntries(h)
    /\ finishing' = [p \in Paths |-> IF p \in Accepted(h)
                                     THEN [finishing[p] EXCEPT ![h] = @ + 1]
                                     ELSE finishing[p]]
    /\ UNCHANGED <<jobs, queueVars, generation, counts, stateVars, db, failed,
                   connected, boundVars>>

\* The rest of the handler: the metadata KV returned, if any, replaces the local
\* record, and the file is done.
Finish(p, h) ==
    /\ finishing[p][h] > 0
    /\ finishing' = [finishing EXCEPT ![p][h] = @ - 1]
    /\ db' \in {db, [db EXCEPT ![p] = h]}
    /\ CompleteHashProcessing(p, h, FALSE)
    /\ UNCHANGED <<jobs, queueVars, resetVars, counts, failed, connected, tasks,
                   boundVars>>
-----------------------------------------------------------------------------
\* POST /api/processing/retry and retry-all: the failed file is marked as
\* discovered, which no code acts on.
RetryFailed(p) ==
    /\ p \in failed
    /\ discovered' = discovered \cup {p}
    /\ UNCHANGED <<jobs, queueVars, resetVars, counts, light, hashing, done, total,
                   db, failed, pluginVars, boundVars>>

Event ==
    \/ \E p \in Paths, h \in Hashes :
          \/ FileAdded(p, h) \/ FileChanged(p, h)
          \/ \E old \in Paths : FileRenamed(old, p, h)
    \/ \E p \in Paths : FileDeleted(p)
    \/ Reset

JobStep(j) ==
    \/ Validate(j) \/ StartLight(j) \/ EndLight(j) \/ FailLight(j)
    \/ StartHash(j) \/ HashRead(j) \/ EndHash(j)

Next ==
    \/ Event
    \/ \E j \in Ids : JobStep(j)
    \/ \E h \in Hashes : FileComplete(h) \/ \E p \in Paths : Finish(p, h)
    \/ \E p \in Paths : RetryFailed(p)

Spec == Init /\ [][Next]_vars

\* A queue starts its jobs in turn, requests to KV are
\* answered, and the scheduler announces what was dispatched.
Fairness ==
    /\ \A j \in 1..MaxEvents : WF_vars(j \in Ids /\ JobStep(j))
    /\ \A h \in Hashes : WF_vars(FileComplete(h))
    /\ \A p \in Paths, h \in Hashes : WF_vars(Finish(p, h))

FairSpec == Spec /\ Fairness
-----------------------------------------------------------------------------
Stages == {"validationQ", "fastQ", "light", "backgroundQ", "hashing", "storing", "over"}

HashOrNone == Hashes \cup {NoHash}

Job == [path : Paths, hash : Hashes, gen : 0..MaxResets,
        seen : HashOrNone, at : Stages]

Waiting(q, stage) ==
    /\ \A i \in DOMAIN q : q[i] \in Ids /\ jobs[q[i]].at = stage
    /\ \A j \in Ids : jobs[j].at = stage => \E i \in DOMAIN q : q[i] = j

TypeOK ==
    /\ jobs \in Seq(Job)
    /\ Waiting(validationQ, "validationQ") /\ Waiting(fastQ, "fastQ")
    /\ Waiting(backgroundQ, "backgroundQ")
    /\ connected \in BOOLEAN
    /\ generation \in 0..MaxResets
    /\ gens \in [Paths -> 0..NoEntry]
    /\ counts \in [{"validated", "filtered", "fast", "background"} -> Nat]
    /\ discovered \subseteq Paths /\ light \subseteq Paths
    /\ hashing \in [Paths -> HashOrNone]
    /\ done \subseteq [path : Paths, hash : HashOrNone, error : BOOLEAN]
    /\ total \in Nat
    /\ db \in [Paths -> HashOrNone]
    /\ failed \subseteq Paths
    /\ tasks \subseteq Hashes \X Paths
    /\ finishing \in [Paths -> [Hashes -> Nat]]
    /\ deleted \subseteq Paths /\ undisturbed \subseteq Paths

\* A path shown in the light stage has a light phase running: no way out of the
\* phase (success, failure, a reset in between) leaves its entry behind.
LightOwned ==
    \A p \in light : \E j \in Ids : JobPath(j) = p /\ jobs[j].at = "light"

\* Of a path whose last event found nothing of it in flight, a file shown as
\* done has no plugin task left to run, and without plugins no phase either:
\* "the background queue completes, but the file stays in hashProcessing until
\* the ContainerPluginScheduler emits file:complete"
\* (streaming-pipeline-architecture.md:156-158).
DoneMeansOver ==
    \A p \in undisturbed : \A d \in done : (d.path = p /\ ~d.error) =>
        /\ \A h \in Hashes : <<h, p>> \notin tasks
        /\ ~connected => \A j \in Ids :
               JobPath(j) = p => jobs[j].at \in {"validationQ", "over"}

\* Such a path in the hash stage has someone who will take it out: its entry in
\* fileGenerations still lets file:complete or its own job through, or the
\* handler is on its way.
HashStageClaimed ==
    \A p \in undisturbed : hashing[p] # NoHash =>
        \/ Current(p) /\ InFlight(p)
        \/ \E h \in Hashes : finishing[p][h] > 0

\* totalProcessedCount counts each file once, as long as every path had one
\* event: file:complete, the end of the hash phase and their error paths do not
\* complete one file twice.
CompletedOnce ==
    (\A i, j \in Ids : JobPath(i) = JobPath(j) => i = j) => total <= Len(jobs)

ThisGeneration == {j \in Ids : jobs[j].gen = generation}

ReAdded(p) ==
    \E i \in ThisGeneration, j \in Ids \ ThisGeneration : JobPath(i) = p /\ JobPath(j) = p

\* "Used to ignore callbacks from tasks started before the reset"
\* (StreamingPipeline.ts:28): the counters count this generation's jobs only, in
\* the order of the stages, as long as no path of an older one came back.
CountersOrdered ==
    (\A p \in Paths : ~ReAdded(p)) =>
        /\ counts.fast <= counts.validated
        /\ counts.validated + counts.filtered <= Cardinality(ThisGeneration)

IsDone(p, h) == \E d \in done : d.path = p /\ d.hash = h

\* A supported file whose event found nothing of it in flight, and whose plugins
\* were there to dispatch to, reaches done under its hash or is listed as failed,
\* unless another event, a deletion or a reset comes between; the announcement is that
\* of a scheduler none of whose jobs hangs.
EventuallyDone ==
    \A p \in Supported, h \in Hashes :
        (p \in undisturbed /\ \E j \in Ids : JobPath(j) = p /\ jobs[j].hash = h
                                           /\ \A i \in Ids : JobPath(i) = p => i <= j)
            ~> (p \notin undisturbed \/ IsDone(p, h) \/ p \in failed)
-----------------------------------------------------------------------------
\* "This is the primary defense against: Old tasks completing into a cleared
\* state manager" (streaming-pipeline-architecture.md:249-253): a path is in a
\* stage only if an event of this generation brought it.
ResetForgets ==
    \A p \in Paths :
        (p \in light \/ hashing[p] # NoHash \/ \E d \in done : d.path = p)
            => \E j \in ThisGeneration : JobPath(j) = p
=============================================================================
