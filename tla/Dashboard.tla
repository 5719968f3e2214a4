------------------------------ MODULE Dashboard ------------------------------
(***************************************************************************)
(* What an operator is shown: the status functions of the schedulers, the  *)
(* pipeline and the state manager, the /api routes that put them together, *)
(* and the figures Monitor.tsx draws from the answers.  Each reads the     *)
(* state at one moment, so each is an operator of that state.              *)
(*                                                                         *)
(* A value that may be missing (undefined, null, a component not started)  *)
(* is a set of at most one element.                                        *)
(***************************************************************************)
EXTENDS Integers, Sequences, FiniteSets, SequencesExt, FiniteSetsExt

CONSTANTS
    MaxItemsPerState,     \* 100, the samples of a snapshot
    DoneShown,            \* 50
    PollInterval,         \* 500 ms, of waitForEmpty()
    TotalSizeCacheTtl     \* 60 s

Queues == {"fast", "background"}
First(n, list) == SubSeq(list, 1, Min({n, Len(list)}))
The(option, default) == IF option = {} THEN default ELSE CHOOSE x \in option : TRUE
Elements(list) == {list[i] : i \in DOMAIN list}

-----------------------------------------------------------------------------
(* ContainerPluginScheduler: c.tasks are its pendingTasks, in the order    *)
(* they were made, and c.callbacks the tasks a container has accepted.     *)

FilesOf(tasks) == {t.file : t \in tasks}
InContainers(c, q) == {t \in c.callbacks : t.queue = q}
RunningFiles(c, q) == FilesOf(InContainers(c, q))
WaitingFiles(c, q) ==
    FilesOf({t \in Elements(c.tasks) : t.queue = q /\ t.status = "pending"}) \ RunningFiles(c, q)

QueueCounts(c, q) ==
    [pending |-> c.queue[q].size + Cardinality(InContainers(c, q)),
     running |-> Cardinality(InContainers(c, q)),
     waiting |-> c.queue[q].size]

\* The path shown for a holder is that of its oldest task of the phase;
\* c.left[q][f] is 0 of a file without a counter.
SnapshotCacheSlot(c, q) ==
    LET Holder(f) ==
            LET own == SelectSeq(c.tasks, LAMBDA t : t.file = f /\ t.queue = q)
            IN  [fileHash |-> f,
                 filePath |-> {t.path : t \in Elements(First(1, own))},
                 currentPlugin |-> {r.plugin : r \in {x \in c.current : x.file = f /\ x.queue = q}},
                 tasksRemaining |-> c.left[q][f]]
    IN  [capacity |-> c.gate[q].capacity, inUse |-> Len(c.gate[q].holders),
         waiting |-> Len(c.gate[q].waiters), paused |-> c.queue[q].paused,
         holders |-> [i \in DOMAIN c.gate[q].holders |-> Holder(c.gate[q].holders[i])]]

SchedulerStatus(c) ==
    [fast |-> QueueCounts(c, "fast"), background |-> QueueCounts(c, "background"),
     pendingTasks |-> Len(c.tasks), pendingCallbacks |-> Cardinality(c.callbacks),
     files |-> [fastRunning |-> Cardinality(RunningFiles(c, "fast")),
                fastWaiting |-> Cardinality(WaitingFiles(c, "fast")),
                backgroundRunning |-> Cardinality(RunningFiles(c, "background")),
                backgroundWaiting |-> Cardinality(WaitingFiles(c, "background"))],
     cacheSlots |-> [q \in Queues |-> SnapshotCacheSlot(c, q)]]

GateStatus(c) ==
    [isOpen |-> c.accepting,
     fastPending |-> QueueCounts(c, "fast").pending,
     fastRunning |-> QueueCounts(c, "fast").running,
     backgroundPending |-> QueueCounts(c, "background").pending,
     backgroundRunning |-> QueueCounts(c, "background").running]

Drained(c) ==
    LET g == GateStatus(c)
    IN  g.fastPending + g.fastRunning + g.backgroundPending + g.backgroundRunning = 0

\* waitForEmpty(): seen[k] is the scheduler at the k-th look, made at the
\* earliest moment it can be; a timeout that is no number is never reached.
WaitForEmpty(seen, timeout) ==
    \E k \in DOMAIN seen :
        /\ timeout # {} /\ (k - 1) * PollInterval < The(timeout, 0)
        /\ Drained(seen[k])

RunningTasks(c) == SelectSeq(c.tasks, LAMBDA t : t.status = "dispatched")
PendingTasksForFile(c, f) == SelectSeq(c.tasks, LAMBDA t : t.file = f)

\* Whatever goes wrong, a plugin is sent no metadata.
FetchExistingMetadata(answer) ==
    IF answer.kind = "ok" THEN The(answer.metadata, <<>>) ELSE <<>>

-----------------------------------------------------------------------------
(* TaskScheduler.                                                          *)

BuildQueueStatus(t, q) ==
    LET Tasks(status) == Cardinality({x \in t.tasks : x.queue = q /\ x.status = status})
    IN  [pending |-> Tasks("pending"), ready |-> t.queue[q].size, running |-> t.queue[q].pending,
         completed |-> Cardinality({x \in t.completed : t.classify[x.plugin] = q}),
         failed |-> 0, isPaused |-> t.queue[q].paused]

TaskSchedulerStats(t) ==
    [totalTasksCreated |-> t.created, totalTasksCompleted |-> t.done, totalTasksFailed |-> t.failed,
     pendingTaskCount |-> Cardinality(t.tasks), completedTaskCount |-> Cardinality(t.completed),
     filesInProgress |-> Cardinality(t.files)]

-----------------------------------------------------------------------------
(* UnifiedProcessingStateManager: its maps keep the order of insertion, so *)
(* they are sequences of entries with distinct paths.                      *)

Paths(list) == {list[i].path : i \in DOMAIN list}
EntryOf(list, path) == {e \in Elements(list) : e.path = path}
Without(list, path) == SelectSeq(list, LAMBDA e : e.path # path)
Put(list, entry) ==
    IF entry.path \in Paths(list)
    THEN [i \in DOMAIN list |-> IF list[i].path = entry.path THEN entry ELSE list[i]]
    ELSE Append(list, entry)

Snapshot(u) ==
    [discovered |-> First(MaxItemsPerState, u.discovered),
     lightProcessing |-> First(MaxItemsPerState, u.light),
     hashProcessing |-> First(MaxItemsPerState, u.hash),
     done |-> First(DoneShown, u.done),
     totalDiscovered |-> Len(u.discovered), totalLightProcessing |-> Len(u.light),
     totalHashProcessing |-> Len(u.hash), totalDone |-> u.processed,
     awaitingFastQueue |-> 0, awaitingBackground |-> Len(u.hash),
     totalDuplicates |-> u.duplicates, uniqueHashes |-> u.unique]

FileState(u, path) ==
    LET found == SelectSeq(u.discovered \o u.light \o u.hash, LAMBDA e : e.path = path)
    IN  Elements(First(1, found))

TotalFileCount(u) == Len(u.discovered) + Len(u.light) + Len(u.hash) + Len(u.done)

AddDiscovered(u, path, now) ==
    [u EXCEPT !.discovered = Put(@, [path |-> path, start |-> {}, since |-> now, retries |-> 0])]

RetryProcessing(u, path) ==
    LET states == Elements(First(1, SelectSeq(u.light \o u.hash, LAMBDA e : e.path = path)))
    IN  [done |-> states # {},
         u |-> IF states = {} THEN u
               ELSE LET state == The(states, {})
                    IN  [u EXCEPT !.light = Without(@, path), !.hash = Without(@, path),
                                  !.discovered = Put(@, [path |-> path, start |-> {}, since |-> state.since,
                                                         retries |-> state.retries + 1])]]

\* || passes over a count of 0.
RetryCount(u, path) ==
    LET counts == SelectSeq([i \in DOMAIN (u.light \o u.hash \o u.discovered) |->
                                LET e == (u.light \o u.hash \o u.discovered)[i]
                                IN  IF e.path = path THEN e.retries ELSE 0],
                            LAMBDA n : n # 0)
    IN  IF counts = <<>> THEN 0 ELSE Head(counts)

-----------------------------------------------------------------------------
(* StreamingPipeline and WatchedFileProcessor.  A PQueue's pending are the *)
(* jobs it runs and its size those that wait; of a container queue the     *)
(* size is everything that is left.                                        *)

Jobs(queue) == [pending |-> queue.pending, size |-> queue.size]

PipelineStats(p, containers) ==
    LET Stage(q) ==
            IF containers = {} THEN Jobs(p.queue[q])
            ELSE LET counts == QueueCounts(The(containers, {}), q)
                 IN  [pending |-> counts.running, size |-> counts.pending]
    IN  [filtered |-> p.filtered, validation |-> Jobs(p.validation),
         fast |-> Stage("fast"), background |-> Stage("background"),
         files |-> {SchedulerStatus(c).files : c \in containers}]

Paused(p, paused) ==
    [p EXCEPT !.validation.paused = paused, !.queue["fast"].paused = paused,
              !.queue["background"].paused = paused]
IsPaused(p) == p.validation.paused \/ \E q \in Queues : p.queue[q].paused

\* getQueueStatus() of WatchedFileProcessor: from the pipeline; before there
\* is one, from TaskScheduler, with size and pending of the first queue
\* exchanged; before that, zeroes.
QueueStatus(w) ==
    IF w.pipeline # {} THEN
        LET stats == PipelineStats(The(w.pipeline, {}), w.containers)
            Busy(jobs) == [running |-> jobs.pending, pending |-> jobs.size, size |-> jobs.size,
                           isPaused |-> FALSE]
        IN  [preProcess |-> [size |-> stats.validation.size, pending |-> stats.validation.pending,
                             isPaused |-> FALSE],
             fast |-> Busy(stats.fast), background |-> Busy(stats.background),
             files |-> stats.files,
             cacheSlots |-> {SchedulerStatus(c).cacheSlots : c \in w.containers}]
    ELSE
        LET Idle == [running |-> 0, pending |-> 0, size |-> 0, isPaused |-> FALSE]
            Tasks(q) ==
                LET s == BuildQueueStatus(The(w.tasks, {}), q)
                IN  [running |-> s.running, pending |-> s.pending, size |-> s.ready,
                     isPaused |-> s.isPaused]
            Pre == IF w.tasks = {} THEN [size |-> 0, pending |-> 0, isPaused |-> FALSE]
                   ELSE [size |-> w.pre.pending, pending |-> w.pre.size, isPaused |-> w.pre.paused]
        IN  [preProcess |-> Pre,
             fast |-> IF w.tasks = {} THEN Idle ELSE Tasks("fast"),
             background |-> IF w.tasks = {} THEN Idle ELSE Tasks("background"),
             files |-> {}, cacheSlots |-> {}]

-----------------------------------------------------------------------------
(* The routes.  w holds every component: w.u the state manager, w.failed   *)
(* the failures PerformanceMetrics lists, w.totalFailed how many there     *)
(* were.                                                                   *)

\* GET /api/processing/queue
QueueItems(w) ==
    LET running == IF w.containers = {} THEN <<>> ELSE RunningTasks(The(w.containers, {}))
        Idle(list) == SelectSeq(list, LAMBDA e : e.path \notin Paths(running))
        Item(e, phase, plugin) == [path |-> e.path, phase |-> phase, start |-> e.start, plugin |-> plugin]
        Task(t) == Item(t, IF t.queue = "background" THEN "hash" ELSE "light", {t.plugin})
    IN  [i \in DOMAIN running |-> Task(running[i])]
        \o [i \in DOMAIN Idle(w.u.light) |-> Item(Idle(w.u.light)[i], "light", {})]
        \o [i \in DOMAIN Idle(w.u.hash) |-> Item(Idle(w.u.hash)[i], "hash", {})]

\* GET /api/processing/status
ProcessingStatus(w) ==
    LET q == QueueStatus(w)
        waiting == IF q.files = {} THEN q.fast.pending
                   ELSE LET files == The(q.files, {}) IN files.fastWaiting + files.fastRunning
        snapshot == Snapshot(w.u)
        gate == {GateStatus(c) : c \in w.containers}
    IN  [snapshot |-> [snapshot EXCEPT
             !.totalDiscovered = waiting, !.awaitingFastQueue = waiting,
             !.awaitingBackground = Max({0, @ - q.background.running})],
         queueStatus |-> q,
         computed |->
            [preProcessRunning |-> q.preProcess.pending, preProcessPending |-> q.preProcess.size,
             preProcessPaused |-> q.preProcess.isPaused,
             fastQueueRunning |-> q.fast.running, fastQueuePending |-> q.fast.pending,
             fastQueueTotal |-> q.fast.running + q.fast.pending + q.fast.size,
             fastQueuePaused |-> q.fast.isPaused,
             backgroundQueueRunning |-> q.background.running,
             backgroundQueuePending |-> q.background.pending,
             backgroundQueueTotal |-> q.background.running + q.background.pending + q.background.size,
             backgroundQueuePaused |-> q.background.isPaused,
             gateOpen |-> gate = {} \/ The(gate, {}).isOpen,
             pipelinePaused |-> \E p \in w.pipeline : IsPaused(p)],
         totalFailed |-> w.totalFailed,
         totalFiltered |-> IF w.pipeline = {} THEN 0 ELSE The(w.pipeline, {}).filtered]

\* GET /api/processing/failed, POST retry and retry-all
FailedFiles(w) == [failedFiles |-> w.failed, totalFailed |-> w.totalFailed]
RetryFile(w, path, now) ==
    IF path = {} THEN [status |-> 400, u |-> w.u]
    ELSE [status |-> 200, u |-> AddDiscovered(w.u, The(path, {}), now)]
RetryAll(w, now) ==
    [queued |-> Len(w.failed),
     u |-> FoldLeft(LAMBDA u, path : AddDiscovered(u, path, now), w.u, w.failed)]

\* POST /api/processing/wait-empty
WaitEmpty(w, seen, timeout) ==
    IF w.containers = {} THEN [code |-> 503, status |-> "error"]
    ELSE [code |-> 200, status |-> IF WaitForEmpty(seen, timeout) THEN "ok" ELSE "timeout"]

\* getTotalFileSizeFromRedis(): kv.ids is missing when the client cannot
\* list, kv.size[id] when a record has no usable size or cannot be read.
TotalFileSize(cache, now, kv) ==
    IF \E entry \in cache : now - entry.timestamp < TotalSizeCacheTtl
    THEN [value |-> The(cache, {}).value, cache |-> cache]
    ELSE IF kv = {} THEN [value |-> 0, cache |-> cache]
    ELSE LET store == The(kv, {})
             total == FoldFunctionOnSet(LAMBDA s, sum : s + sum, 0,
                          [id \in The(store.ids, {}) |-> Max({0, The(store.size[id], 0)})],
                          The(store.ids, {}))
         IN  [value |-> total, cache |-> {[value |-> total, timestamp |-> now]}]

\* GET /api/stats, a route there is only with a client.
ShownStats(cache, now, kv) ==
    IF The(kv, {}).ids = {} THEN [code |-> 500, cache |-> cache]
    ELSE LET size == TotalFileSize(cache, now, kv)
         IN  [code |-> 200, fileCount |-> Cardinality(The(The(kv, {}).ids, {})),
              totalSize |-> size.value, memory |-> The(The(kv, {}).memory, 0), cache |-> size.cache]

\* GET /api/health
Health(kv) ==
    LET redis == \E store \in kv : store.answers
    IN  [redis |-> redis, status |-> IF redis THEN "ok" ELSE "degraded"]

\* GET /api/services: the leader is asked, and its answer handed on.
Services(manager, leader, upstream) ==
    CASE manager = {} -> 503
      [] manager # {} /\ leader = {} -> 503
      [] manager # {} /\ leader # {} /\ upstream.kind = "thrown" -> 502
      [] manager # {} /\ leader # {} /\ upstream.kind # "thrown" -> upstream.code

\* GET /api/plugins and /api/plugins/timings
PluginList(plugins, order) ==
    [plugins |-> plugins, executionOrder |-> order,
     activeCount |-> Cardinality({p \in plugins : p.active}), totalCount |-> Cardinality(plugins)]
PluginTiming(times) ==
    [totalCalls |-> times.count, totalTime |-> times.total,
     avgTime |-> IF times.count > 0 THEN (2 * times.total + times.count) \div (2 * times.count) ELSE 0,
     minTime |-> times.min, maxTime |-> times.max]

\* POST /api/plugins/clear-cache: what cannot be removed stays, uncounted.
ClearCache(entries, stuck) ==
    [left |-> entries \cap stuck,
     deletedDirs |-> Cardinality({e \in entries \ stuck : e.directory}),
     deletedFiles |-> Cardinality({e \in entries \ stuck : ~e.directory})]

-----------------------------------------------------------------------------
(* Monitor.tsx.                                                            *)

\* fetchData() asks five routes at once.  One answer that does not come
\* leaves the whole view; a refusal leaves its part; a body that cannot be
\* read leaves its part and those after it.
MonitorParts == <<"status", "metrics", "queue", "stats", "failed">>
FetchData(view, answers) ==
    LET bad == {i \in DOMAIN MonitorParts : answers[MonitorParts[i]].kind = "unreadable"}
        last == IF \E part \in DOMAIN answers : answers[part].kind = "thrown" THEN 0
                ELSE IF bad = {} THEN Len(MonitorParts) ELSE Min(bad) - 1
        Set == {MonitorParts[i] : i \in 1..last}
    IN  [part \in DOMAIN view |->
            IF part \in Set /\ answers[part].kind = "ok" THEN answers[part].body ELSE view[part]]

\* The widths of the bar's segments are the shares of these counts.
Progress(st) ==
    LET counts == [discovered |-> st.snapshot.totalDiscovered,
                   fast |-> st.computed.fastQueueRunning,
                   awaitingBackground |-> st.snapshot.awaitingBackground,
                   background |-> st.computed.backgroundQueueRunning,
                   done |-> st.snapshot.totalDone,
                   failed |-> st.totalFailed]
        total == FoldFunction(LAMBDA n, sum : n + sum, 0, counts)
    IN  [total |-> total,
         percent |-> IF total = 0 THEN [segment \in DOMAIN counts |-> IF segment = "done" THEN 100 ELSE 0]
                     ELSE [segment \in DOMAIN counts |-> (counts[segment] * 100) \div total]]

\* The cards of the two queues: by cache slots when there are any.
QueueStats(st, fastMax, backgroundMax) ==
    LET slots == st.queueStatus.cacheSlots
        Slots(q) == [running |-> The(slots, {})[q].inUse, pending |-> The(slots, {})[q].waiting,
                     max |-> The(slots, {})[q].capacity, paused |-> The(slots, {})[q].paused]
    IN  [preProcess |-> [running |-> st.computed.preProcessRunning, pending |-> st.computed.preProcessPending,
                         max |-> 2 * fastMax, paused |-> st.computed.preProcessPaused],
         fast |-> IF slots # {} THEN Slots("fast")
                  ELSE [running |-> st.computed.fastQueueRunning, pending |-> st.computed.fastQueuePending,
                        max |-> fastMax, paused |-> st.computed.fastQueuePaused],
         background |-> IF slots # {} THEN Slots("background")
                        ELSE [running |-> st.computed.backgroundQueueRunning,
                              pending |-> st.computed.backgroundQueuePending,
                              max |-> backgroundMax, paused |-> st.computed.backgroundQueuePaused]]

FillPercent(slot) == Min({100, (slot.inUse * 100) \div Max({1, slot.capacity})})

\* The word under a card.
Badge(card) ==
    CASE card.paused -> "paused"
      [] ~card.paused /\ card.running > 0 -> "running"
      [] ~card.paused /\ card.running = 0 -> "idle"

\* "Unique files": what the state manager has seen or, while that is
\* nothing, what the store holds.
UniqueFiles(st, stats) ==
    IF st.snapshot.uniqueHashes # 0 THEN {st.snapshot.uniqueHashes} ELSE {s.fileCount : s \in stats}
=============================================================================
