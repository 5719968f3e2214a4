# meta-sort in TLA+

meta-sort receives file events from meta-core, takes every file through a streaming
pipeline (validation, light phase, hash phase), hands it to plugin containers, and keeps
metadata in a key-value store owned by meta-core. It is one Node.js process: the code
between two `await`s runs without interruption, and everything hard about it lies in what
happens *between* awaits: promise continuations, HTTP callbacks, timers, events for
the same file, resets.

This directory models the parts of that process that keep state (scheduling, the pipeline,
the event stream, containers, plugins, the connection to the store and its records) and the
calculations around them, checks them with TLC on small instances, and proves every
safety property those runs check, and three refinements, for all sizes with TLAPS.
`PROJECT.json` maps each definition to the source lines it stands for and lists the runs,
the mutants each property must notice, the hazards and the theorems.

File names below are relative to `src/packages/meta-sort-core/src/` unless they start with
`src/`.

## 1. Inventory

### How the parts interact

```
 meta-core --SSE--> SSEEventClient -> FileEventConsumer -> StreamingPipeline
                                                             |  validationQ -> fastQ -> backgroundQ
                                       FileProcessorPiscina <+  (light phase)    (hash phase)
                                        |           |        |
                            KVManager <-+           |        +-> dispatchAllPlugins
                             |                      v               |
                       LeaderClient    UnifiedProcessingState       v
                     (kv-leader.info)     Manager (stages)   ContainerPluginScheduler
                                            ^                 |  FileSlotGate x 2, p-queue x 2
                                            |                 |      | POST /process
                                            +-- file:complete-+      v
                                                              ^   plugin containers <- ContainerManager
                                     callback -> UnifiedAPIServer                        (DockerClient)
```

Calls go down; `file:complete` and the HTTP callbacks come back up, asynchronously. The
pipeline and the scheduler share no variable: they are tied by the path/hash pairs one
dispatches and the other announces, and by the generation the pipeline keeps to tell
announcements from before a reset.

### Components

| Component | State | Operations | What is hard | What makes it correct |
|---|---|---|---|---|
| **FileSlotGate** (`container-plugins/FileSlotGate.ts`) | holders, FIFO of waiters | acquire, release, holds | the grant is a resolved promise whose continuation runs later | at most *capacity* files; no lost wake-up; FIFO; nobody starves |
| **ContainerPluginScheduler** (`container-plugins/ContainerPluginScheduler.ts`) | tasks, staged tasks and counters per file, two gates, two p-queues, dependency promises, pending callbacks | dispatchAllPlugins, enqueueTask, executeTask, handleCallback, idle handler, cancelFile, setGate, pause/resume, clear, waitForEmpty | a job spans four awaits; callbacks, time limits, `clear()` at any point; two paths may share a hash | slots held exactly as long as needed; background yields to fast; each path announced, once, when over |
| **StreamingPipeline** (`logic/pipeline/StreamingPipeline.ts`) | three p-queues, `resetGeneration`, `fileGenerations`, counters | add, change, delete, rename, reset; three phases; file:complete handler | overlapping jobs of one path; events and resets between the awaits of a phase | an undisturbed file ends in done or failed; nothing is completed twice; a reset keeps what follows clean |
| **UnifiedProcessingStateManager** (`logic/UnifiedProcessingStateManager.ts`) | discovered, light, hash, done; totals | moves between stages | written by two components in any order | no entry without an owner |
| **FileProcessorPiscina** (`logic/fileProcessor/`) | local database of records | light phase, hash phase, deleteFile | reads a record, awaits, writes it back | what a phase writes back belongs to the file's current round |
| **SSEEventClient / FileEventConsumer** (`events/`) | connection, cursor in memory and on disk | connect, reconnect, flush, dispatch | crash between event and flush, two flushes at once, gaps | every event is handled at least once, the cursor never runs ahead |
| **TaskScheduler** (`plugin-engine/TaskScheduler.ts`) | tables of pending and completed tasks per file | recompute, started/complete/failed events | ids that change; a failure is reported twice; a reset drops tasks | a recomputed file is reported, and nothing else is waited for |
| **ContainerManager** (`container-plugins/ContainerManager.ts`) | instances, health, timers | start, stop, restart, health check, add/remove plugin | awaits on Docker between check and write | configuration, known instances and running containers agree between calls; every call ends |
| **KVManager / LeaderClient / RedisClient** (`kv/`) | client, leader info, caches | connect, reconnect, watch, stop | two leader changes in a row, stop while reconnecting | the client follows the leader; no client is lost or closed in use |
| **ServiceRegistration** (`kv/ServiceRegistration.ts`) | the service's file, the heartbeat | register, heartbeat, unregister | read and write of a heartbeat with an unlink between them | the file says whether the process runs |
| **/meta routes** (`api/UnifiedAPIServer.ts`, `kv/RedisClient.ts`) | the record of a file, shared | get, put, patch, _add, delete | each reads a whole record and writes it back | a request changes its own key |
| **MetadataUtils** (`kv/MetadataUtils.ts`) | none | flatten, reconstruct | lists, sets and nesting | reconstruct inverts flatten |
| **PluginManager / PluginExecutor** (`plugin-engine/`) and the page of plugins (`meta-sort-ui/src/pages/Plugins.tsx`) | active plugins, configurations, `plugins.json`, execution order | activate, deactivate, configure, rescan, save, load | two pages and the start-up interleave; save reads, awaits and writes; cycles, missing plugins | dependencies first; what was asked for stays |
| **HashIndexManager** (`src/packages/shared/meta-hash/`) | index in memory, CSV on disk | add, load, save | save and load interleave, a failing save | every hash is in the file once, in the end |
| **UnifiedAPIServer** (`api/`) and the monitor page | one cached size | callback, retry, status | late or unknown callbacks; a status is put together from several reads | every callback reaches the scheduler; the figures are those of the state |
| **Calculations**: hashes of a file (`src/packages/shared/meta-hash/`), names (`src/packages/shared/filename-tool/`), metadata trees (`src/packages/shared/meta-interface/`, `plugin-engine/PluginContext.ts`), metrics | none, or one object | | chunks, boundaries, clashes of keys | agree with a reference definition |
| Folder watchers, async-utils queues, Jellyfin export, virtual paths, superseded state managers | see `PROJECT.json` | | | |

`PROJECT.json` lists every component with its status, and under `hazards` each place where
this code is hard to test, with the properties that watch it or the reason none does yet.

## 2. Modules

State machines and what they are composed of:

| Module | Models | Notes |
|---|---|---|
| `SlotSemaphore` | the promise of a phase: ask, enter, leave | abstract specification |
| `SlotGate` | `acquire`, `release`, the continuation of a grant, as operators on a record | shared by the next two |
| `FileSlotGate` | one gate and its callers | refines `SlotSemaphore` |
| `ContainerPluginScheduler` | the scheduler with both gates and both p-queues, the containers and the network | each phase refines `SlotSemaphore` between two resets |
| `StreamingPipeline` | pipeline, file processor and state manager | uses the scheduler's promise |
| `EventLog` | what an event stream with a saved place promises | abstract specification |
| `EventStream` | SSE client, cursor file and consumer, crashes and restarts, meta-core's end | refines `EventLog` |
| `HashIndex` | the index of hashes in memory and in its CSV files | |
| `Intake` | `EventStream` behind `HashIndex`, as `index.ts` starts them | extends both |
| `ContainerManager` | the containers of the plugins, the configuration file, Docker | calls interleave at awaits |
| `PluginExecutor` | the dependency order | recursive functions of the call and of the position |
| `PluginManager` | active plugins, configurations, `plugins.json`, the page that changes them | uses `PluginExecutor` |
| `TaskScheduler` | the tables of a recomputation | |
| `Plugins` | a page recomputes a plugin while plugins come and go | extends the last two |
| `ServiceRegistration` | the service's file and its heartbeat | |
| `KVManager` | leader, looks, reconnects, clients, start and stop | extends the last |
| `MetadataUtils` | flatten, reconstruct, parseValue | operators; a tree is a function from paths to nodes |
| `MetaRecords` | the record of one file and those who write it | uses `MetadataUtils` |
| `KV` | connection and record together | extends `KVManager`, `MetaRecords` |

Calculations, as operators without variables, each with an `MC` module that compares them
with a reference definition on all small inputs:

| Module | Models |
|---|---|
| `Dashboard` | the status functions, the routes that put them together, the figures of the monitor page |
| `RedisClient` | the operations of the two clients on keys and records, and the stream consumer |
| `PluginContext` | the metadata tree, the stores and the cache a plugin is given, `GET /meta`, `POST /file/cid` |
| `PerformanceMetrics` | the counters and the routes of `MetricsAPI.ts` |
| `FileHashes` | BitTorrent v2 info hash, midhash, CIDs, magnet links |
| `FileNames` | kind, title, season, episode, year and similarity from file names |

Instances for TLC: `MCScheduler`, `MCPipeline` (with `MCPerformanceMetrics`), `MCEventStream`
(with `MCFileHashes`), `MCContainers` (with `MCDashboard` and `MCPluginContext`), `MCPlugins`
(with `MCFileNames`), `MCKV` (with `MCRedisClient`).

Theorems and their proofs: `SlotGateProofs` (lemmas about the operators of `SlotGate`),
`FileSlotGateProofs`, `ContainerPluginSchedulerProofs`, `IntakeProofs`,
`StreamingPipelineProofs`, `PluginsProofs`, `KVManagerProofs`, `ContainerManagerProofs`.

Definitions called `Mutant...` are not the code's. Each is a plausible mistake in the
definition it precedes (a dropped guard, an off-by-one, a lost wake-up); substituted for it,
it makes the property named in `PROJECT.json` fail. They show that the properties are able
to fail.

### FileSlotGate

`gate` is a record: `holders` (the `Set`), `waiters` (the array) and `granted`, the files
whose `acquire()` is resolved but whose `.then` has not run. `Acquired` and `Released` are
the two methods; `Observe` is the continuation. The callers' discipline is taken from the
scheduler: a file acquires only while it neither holds nor waits (`enqueueTask`), and
releases only after its grant was observed (`onTaskFinished`).

### ContainerPluginScheduler

A task is a triple path, round, plugin, and `pc[t]` says where its promise stands:
`none` → `buffered` (waiting for the gate) → `queued` (in the p-queue) → `waiting` (for
dependencies) → `posting` → `awaiting` (callback) → `resolved`/`rejected` → `leaving` →
`gone`. `leaving` exists because a p-queue counts a job until it notices that the
job's promise is settled, one microtask later, and the idle event depends on that count.

The order of the event loop is explicit. The loop of `dispatchAllPlugins` (`todo`) and the
start of jobs are synchronous; continuations (`Flush`, `Dispatch`, `Settle`, `JobLeaves`)
come before any external event; and the external ones (new submissions, container replies,
callbacks, timers, operator calls) require `EventLoopFree`. This is what makes the race
between a grant and `clear()`, or between the idle event and a staged task, come out as in
the code.

Abstracted: log lines, metrics, payloads, the fetching of metadata before a POST (part of
`posting`), the value of time limits (a time limit may fire at any free moment). The containers
accept, report or stay silent, and may report a status that `handleCallback()` does not know: it
clears the timer and settles nothing, and the job is `stuck` (`SwallowReport`). p-queue 8 is
modelled from its use. Both are marked external
in the map.

### StreamingPipeline

A *job* is one add, change or rename event and its chain of promises: `validationQ` →
`fastQ` → `light` → `backgroundQ` → `hashing` → `storing` → `over`. A path that has a new
event before the last was dealt with has two jobs side by side. Queues start their jobs in
order; other files also use their capacity, so a job may wait for any time. What a job does
between two awaits is one action.

The scheduler appears as its promise: a dispatched path is announced once (the `EveryFileCompletes`
and `AnnouncedOnlyWhenOver` of the scheduler's own runs, where no report has an unknown status), or
dropped by `clear()`, or never taken because no plugin is healthy. `connected` chooses whether a
scheduler is configured. KV is outside: a store may fail (the code only logs it), and the metadata
fetched at `file:complete` may or may not replace the local record.

`undisturbed` is a history variable for the properties: the paths whose last event found
nothing of theirs in flight and whose dispatch found a plugin.

Left out: `start(discoveryStream)` (nothing calls it), the Stremio notification, duplicate
statistics, timings. `pause()`, `resume()` and the statistics are operators of `Dashboard`.

### EventStream, HashIndex, Intake

meta-core is a log of numbered events, the retention that trims it, and one reply per subscription.
`reader` says what `runLoop()` awaits; each step of it is one action from await to await. A flush
is three (`BeginFlush`, `OpenFile`, `EndFlush`), because `writeFile()` empties the file before it
writes, and two may run at once: the timer's and the next tick's or `stop()`'s. A crash leaves file
and log; `Restart` begins at `loadCursor()`, which reads the file, or fails to (`LoadCursorFails`):
the code only warns, and goes on without the cursor. `passed` collects what a connection without a
cursor leaves behind (`Blind` says when there may be one), and `unread` that the present process
could not read the file. Only the kind of a chunk is kept: an event handled at once, a reset (its
handler awaits), one whose handler throws, one that is no JSON, and the gap meta-core announces.

`HashIndex` keeps which hashes a line has in memory and how often it is in each file; a cut
append leaves the file ending in something still read as a row, or in something that makes the
next start fail.

`EventLog` is what such a stream promises: events are handed on in order; the place jumps over
events only where they are illegible or were trimmed (`Gap` needs `e <= trimmed`), goes back to the
saved place at a restart, and is lost only with the saved place or by a read of it that fails
(`Misread`).

`Intake` puts the two in the order of `index.ts`: no event is taken in before the
index is loaded, and a start whose index fails takes nothing in at all.

### ContainerManager

A call (a request, the start-up, the shutdown) is a record of what it awaits; calls interleave
at every await. Docker is a table of container ids with slot and state; each of its calls may
fail. The configuration file may be cut by a crash. What is read from it is not what was written:
`loadConfig()` puts environment variables in the place of `${VAR}`, spells some values anew and
refuses others, and `saveConfig()` writes what is in memory, unchecked. `Loaded` says of each
configuration what becomes of it, another one or a refusal of the whole file; it is a constant,
as the environment of a deployment is. `quiet` is a history variable: the plugins none of whose
calls overlapped or met an error since the start. `loneSave` is the same for saves.

### PluginManager, TaskScheduler, Plugins

Callers are open pages, each with one request at a time, and the start-up, which `index.ts` runs
while requests are already served. `saveState()` is its four steps: read `plugins.json`, merge,
empty, write. A read or a write of the file may fail, and a failed read answers as an empty file
does. `wanted` remembers what was asked for, and `crossed` the plugins that this or two calls that
met may have harmed, in the ways listed where it is set: a plugin changed while a rescan has read
the file; those not loaded, when a save reads a file being written or fails to read it; and all,
when a rescan does or reads before a change is saved, when two saves write at once, or when a write
fails. `ResolveDependencyOrder` is the depth-first search of the code, its marks left in place by a
cycle included. In `TaskScheduler` the container scheduler is the set of its tasks in flight, which
end in any order, fail (reported twice) or are dropped by a reset.

### KVManager, ServiceRegistration, MetaRecords, KV

A look at the leader reads the file, asks that address and fills a cache of five seconds; each
change reported by the watcher is a look and a reconnect, and nothing keeps two apart. Clients are
numbered, with the leader they are of and whether they are connecting, open, closed or cut off by a
failed close. One whose `connect()` failed is given up, but its retries go on: it may open later,
in nobody's hands (`ConnectsLate`). `handed` is the client `index.ts` gave to the processor, the
pipeline, the API and the scheduler at start-up, which they keep through every reconnect. The
client of a leader without Redis URL cannot be closed: `quit()` of the stub rejects. A leader may
publish no WebDAV URL, and the one configured before stays; `watch()` may throw, and no change is
reported in that process. `doubt` (a look overlapped a change, failed, or had no watcher to report
the change) and `tangled` (reconnects overlapped) are history variables the properties except.
`MetaRecords` reads and writes whole records as the routes do; `alone` says that nobody wrote in
between. The nested metadata is a function from paths to nodes (a value, an object or an array),
the root at the empty path, so that `Insert` says at which path a pair changes what, and no
definition recurses over a tree. A value has a type as `parseValue()` gives it one, and `Spelling`
says of every string it takes for a number how JavaScript spells that number ("007", "2.0", "7.50",
more digits than a double has): any function, for the proofs. `PATCH` spreads the record into a new
object (`Spread`), which is not what `PUT` does to a record read as an array. A record of numbered
fields only is read as one, and it hides every other key from a `PUT`; `cids` and `hashId` are
written by rules of their own: `RecordsKept` excepts both.

## 3. Runs

| Run | Instance | Checks |
|---|---|---|
| `file_slot_gate` | 4 files, 2 slots | `CapacityBound`, `NoLostWakeUp`, `OnePlace`; action property `FirstComeFirstServed`; liveness `EveryoneAdmitted`; refinement `ImplementsSemaphore` |
| `scheduler_steady` | 3 paths, two of them copies of one content; a fast plugin and a background plugin that depends on it; 1 slot per phase, 2 jobs per p-queue; POSTs fail, callbacks come early, late, never or with an unknown status | `FilesInFlightCapped`, `SlotCoversTasks`, `CounterExact`, `StagedWillFlush`; refinement `ImplementsSemaphores`; `AnnouncedOnlyWhenOver`; liveness `EveryFileCompletes` |
| `scheduler_operations` | 2 files that compete for one slot per phase; recompute, `cancelFile`, `setGate`, pause/resume, one `clear()`, an unstable plugin | `NoLeakedSlot`, `BackgroundYields`, `AnnouncedOnlyWhenOver` |
| `pipeline` | 3 paths (two supported, one not), 2 hashes, 2 events of any kind, each path deleted at most once, 1 reset, with and without scheduler | `LightOwned`, `DoneMeansOver`, `HashStageClaimed`, `CompletedOnce`, `CountersOrdered`; liveness `EventuallyDone` |
| `event_stream` | 2 events of any kind, 2 faults (connections, writes, reads of the cursor file), 2 crashes or shutdowns, 2 flushes at once, 2 files in the index, 1 algorithm | `NothingSkipped`, `CleanIsSaved`, `IndexSound`; refinement `ImplementsEventLog`; liveness `EventuallyTakenIn`, `AddedIsSaved` |
| `containers` | 2 plugins with 2 and 1 instances, one configured by way of an environment variable, a container of an earlier process; requests that bring a configuration as it is, one that will be read otherwise, and one the parser refuses; 2 requests at once, 1 fault, 2 crashes or shutdowns, two of all these together | `Settled`, `ConfigSaved`; liveness `CallsEnd` |
| `plugins` | 3 plugins, one of them configured; a cycle arises when one of two is activated; 2 pages, 2 requests, 2 tasks of 2 files, 1 restart, 1 reset, 1 read or write of `plugins.json` that fails, three of all these together | `OrderSound`, `StateKept`, `Accounted` |
| `kv` | 2 leaders of either kind, one of which publishes a WebDAV URL; 2 changes, 1 request, 1 fault, 1 removal of the file, 1 signal or crash, three together; 2 writers of a record, or 1 and an event of the manager | `FollowsLeader`, `ClientsAccounted`; `EntryMatchesProcess` (liveness and safety); action property `RecordsKept` |
| `scheduler_background_only` | one background plugin | *violated:* `EveryFileCompletes` |
| `scheduler_drained` | two files | *violated:* `DrainedMeansDone` |
| `scheduler_early_report` | two files | *violated:* `EveryReportCounts` |
| `pipeline_reset` | as `pipeline` | *violated:* `ResetForgets` |

The passing runs of the scheduler and of the pipeline also check the module's `TypeOK`;
`EventStream` and `ContainerManager` state one that no run checks. `CHECK_DEADLOCK` is on for
the gate, which can always move; the others really stop when everything was dealt with and the
bounds on events are used up.

### Why these bounds

* *Gate.* Four files at two slots: both slots taken and two files in line, so a handover
  can be given to the wrong waiter and order is visible.
* *Scheduler.* One slot per phase makes the second content wait; two copies of one content
  share every per-hash map and overlap in one slot; two jobs per p-queue let jobs of one
  file overlap; two plugins are the fewest with both queues and a dependency across them.
  `MaxRounds = 1` submits each path once; the proofs cover any number.
* *Operations.* One `clear()` with one file in the slot and the other in line, and tasks in
  every stage, is enough for a lost slot: the slot passes to a file whose staged tasks are
  gone. The operations may be called any number of times. A third path, a copy submitted
  after the `clear()`, is more than TLC finishes in minutes; copies are in
  `scheduler_steady`, without `clear()`.
* *Pipeline.* Two jobs overlap in every way two jobs of a path or of two copies can; one
  reset separates an older generation from a newer one, and an event after it brings the same
  path back.

* *Event stream.* Two events make an order, a gap and an event after it, and one handled
  during a flush; two exits make a crash in the restart after a crash; a flush of the timer and one
  more overlap in every way. `MaxLoad` bounds the events, faults and exits together: 5 is
  all but one of them. `MaxMixed` bounds the same once the index is
  in use, as every state of the stream with every state of the index is more than is needed: what
  ties them is the order at a start.
* *Containers.* Two instances, so that a spawn or a stop can be cut in two; two requests overlap
  on one plugin or on two. `NameHolds` lets no container's name contain another's. Three
  configurations are the fewest: one that is read as it was written, one that is not, one that is
  refused.
* *Plugins.* Three plugins have a cycle and a plugin that depends on it, and no cycle among the
  active ones at first; a restart between two requests is what loses an entry of the file. One read
  or write that fails, in any of the five places where there is one, is met with or without a
  second call. Pages and files are symmetric, and the run has no liveness property.
* *KV.* Two changes of the leader overlap two reconnects; a third leader adds nothing to the two a
  client can be of, one with and one without a WebDAV URL. The record has a text, a number with a
  fraction of zeros and a zero, and `Spelling` the five numbers that occur. With writes of the
  record the manager has one event, since they meet only in the client the routes hold.

### Fairness

* `FileSlotGate`: a resolved promise runs its continuation, and a holder releases. Asking
  is not fair.
* `ContainerPluginScheduler`: the event loop runs what is ready; every await of a job
  has a time limit (dependencies 30 s, POST `AbortSignal.timeout`, callback its own timer), but
  for one: a callback with a status other than completed, failed or skipped clears the timer and
  settles nothing, and the route lets it in (`api/UnifiedAPIServer.ts:956-994`). The job is then
  `stuck` for good. Nothing is assumed of the containers: a report may never come, or be such a
  one; `EveryFileCompletes` says that every file completes unless some job is stuck
  (`SomeJobStuck`), as such a job keeps its slot and its place in the p-queue.
* `StreamingPipeline`: each job's step, since queues start their jobs in order and requests to KV
  are answered or fail; the announcement of what was dispatched, which is the scheduler's
  `EveryFileCompletes` and as good as that: no job of it is stuck; the rest of the `file:complete`
  handler.

* `Intake`: the reader's loop, its timers, flushes, loads and saves go on, and a process that
  ended is started again; nothing is assumed of the log, of faults or exits. Requests and file
  operations end or fail, and the code has a reconnect behind every end of a connection.
* `ContainerManager`: a call goes on while it has steps (Docker answers or fails, health waits
  have a limit of their own), a shutdown goes through its list and the process exits.
* `KVManager`: only the heartbeat's interval and its file operations.

### What the violations show

1. **Background-only work never runs** (`scheduler_background_only`). The background queue
   is created with `autoStart: false`, and only the idle event of the *fast* queue starts
   it. A file whose only tasks are background tasks is never processed.
2. **`waitForEmpty()` reports drained too early** (`scheduler_drained`). It looks at
   p-queue sizes and at `pendingCallbacks`; a task waiting for a dependency, being posted
   or staged at the gate is in neither.
3. **An early callback is lost** (`scheduler_early_report`). The task is entered into
   `pendingCallbacks` only after the answer to the POST was read. A callback handled before is
   dropped as unknown and the task runs into its time limit.
4. **A reset does not stop a running light phase** (`pipeline_reset`). The file processor
   knows no generation: it completes the light stage in the cleared state manager, and the
   pipeline dispatches plugins for it.

Other statements of the documents disagree with the code and have no run of their own:

* `src/docs/plugin-task-queue-architecture.md:38` and `:448` speak of sequential plugins
  per file; plugins of one file run concurrently, ordered by dependencies only.
* `:485` there says a fast task that depends on a background task "cannot start until dependency
  completes"; it starts after 30 seconds.
* `container-plugins/types.ts:183-186` describes counts of tasks; a task whose callback
  says "failed" is counted twice.
* `clear()` gives back the slots of jobs that are still running, so
  `FilesInFlightCapped` holds only between resets; this is why the slot theorems are
  about `SteadySpec`.
* `src/docs/containerized-plugin-architecture.md:1045` and `:1053` describe requeueing and
  retries that are not implemented; the retry endpoints (`api/UnifiedAPIServer.ts:468-500`)
  mark a file as discovered, and nothing consumes that stage (`RetryFailed`).
* `src/docs/streaming-pipeline-architecture.md` says pause and resume are wired to operator
  controls; nothing calls them, and a paused pipeline would show on no card of the monitor.

Also met, and visible in the preconditions of the pipeline's properties: `file:complete` of a
path's earlier round uses up the `fileGenerations` entry of its next round, whose file then
stays in the hash stage. `EventuallyDone` and `HashStageClaimed` are therefore about paths
whose last event found nothing of them in flight (`undisturbed`). And a path that comes back
after a reset revives its old job, since the check only asks whether the path has an entry of
the current generation; `CountersOrdered` excludes such paths (`ReAdded`).

Exceptions the properties of the newer runs name are what the code does, not licence of the
model; without them each is violated:

* *Scheduler.* A report with an unknown status hangs its job, see above.
* *Events.* A cursor file emptied by a write when the process ends means a start at the end of the
  stream. So does one that cannot be read, although it holds a cursor: what was published in
  between is passed over, and the next save writes a cursor beyond it. A gap is only logged. An
  older flush may land last, until the next.
* *Index.* A save that throws leaves `indexOpsInProgress` set: nothing is saved any more. A cut
  append makes every later start fail, or leaves a hash cut short.
* *Containers.* Two calls for one plugin at once, or an instance that cannot be spawned after
  others were, leave containers in no map until the next start. A request may write a
  configuration with which the next start has no container plugins, or one with a literal `${VAR}`,
  which the next start reads as the variable's value.
* *Plugins.* A save that reads while another writes finds no plugins and drops the configuration
  of those not loaded; so does one whose read fails, as the file then counts as empty. A rescan
  undoes a change made meanwhile; one whose read fails sets every plugin back to its default and
  saves that. A write that fails is not repeated.
* *KV.* Overlapping reconnects lose an open client; one whose `connect()` failed may open later
  and nobody closes it. The client handed on at start-up is closed by the first reconnect, and the
  program goes on with it. Where `watch()` threw, no later change is noticed. The WebDAV URL of the
  leader before stays when the new one publishes none. A look in progress when the leader changes
  fills the cache with the old one again. A client without Redis URL rejects `close()`, which
  ends `reconnect()` with the old client, and `stop()` before the service's file is removed. A
  failed write of that file is repaired by no heartbeat.
* *Records.* `PUT`, `PATCH`, `_add` and `DELETE` on `/meta` that overlap undo each other in every
  field. `DELETE /meta/:hash/:key` deletes nothing, since what is written back is merged. Each
  request spells the numbers of the other keys anew and empties those that are null; `_add` drops
  null, false or zero that it finds and throws on other values that are no strings.

### What the calculations are compared with

These are assumptions named in the `MC` modules, which TLC evaluates in the run the module is
part of. Constants are small (`BlockSize` 2, `SampleSize` 3, lists of 2) so that every boundary
is among the inputs.

| Module | Inputs | Assumptions |
|---|---|---|
| `MCKV` | records of up to 3 fields over 6 paths, in every order | `RoundTrip`, `ClashBreaks`, `PatchOfArray`, `CidsAsKeys` |
| `MCRedisClient` | all databases of 2 records with 2 fields, all scans of two pages, logs of 3 entries | `ScansRepeat`, `BothWaysAgree`, `WritesMayBePartial`, `DeletesAreWhole`, `AnswersWithoutParts`, `WhatFailsWithoutRedis`, `FailedEntriesStay`, `ClaimingGivesAgain`, `RecoveryReplays` |
| `MCPluginContext` | all trees that two calls over 4 nested keys reach, byte strings of up to 5 | `TreesAreTrees`, `WritesAreLocal`, `DeletesDoNothing`, `StoresDiffer`, `AddsCollect`, `CacheReadsBack`, `OverflowIsHarmless`, `CidAnswers`, `NestedKeysAreNotFound` |
| `MCDashboard` | all states of 2 files with a fast and a background task each | `ActiveListIsWhole`, `CountsAreOfTasks`, `WhatTheBarCounts`, `PauseIsShownOnce`, `BeforeThePipeline`, `RetriesAreNotSeen`, `RetryProcessingMoves`, `SamplesAreCut`, `WaitsForEmpty`, `SizesAreRemembered`, `ViewsAreMixed`, `LateAnswersStay`, `ServicesAnswer`, `CacheIsCleared` |
| `MCPerformanceMetrics` | all sequences of up to 3 calls of 13 | `MetricsAddUp`, `PluginTimings`, `OnlyResetClears` |
| `MCFileHashes` | files of up to 9 bytes, cut in every way in up to 3 chunks | `ChunksDoNotMatter`, `PowersOfTwo`, `PieceLengths`, `SampleIsMiddle`, `CidsAreFound`, `LinksRoundTrip` |
| `MCFileNames` | short paths, titles and numbers at each limit, texts of up to 3 letters | `BusyIsNoType`, `ParentIsBelowRoot`, `TitleIsLongEnough`, `IncrementOrders`, `LoneEpisode`, `PatternsGoFirst`, `LcsIsLongest`, `DistanceIsEdits`, `Similarity`, `LanguagesUnknown` |

Where they say something else than a comment of the code:

* `kv/MetadataUtils.ts`: a string that reads as a number becomes one, so "007" comes back as 7,
  "2.0" as 2 and a long one with other digits. A field under another's value makes the record
  unreadable for good.
* `kv/RedisClient.ts`: the message of a failed entry is not "reprocessed" by the loop; it stays
  pending until the recovery, which stops at the first empty page and gives again what was handled.
* `plugin-engine/PluginContext.ts`: `MetadataNodeKVStore.delete()` never deletes, and a write under
  a text is lost.
* `file-id/BtihV2Hasher.ts`: "between 1024 and 2047 pieces" is not so for small files.
  `file-id/FastHash.ts`: a file that shrinks meanwhile is hashed with what the memory held; over
  WebDAV, a server without ranges gives another hash.
* `filename-tool`: the function that "matches the rightmost number" removes the first;
  "Show.07" is read as a fraction; every language code of two letters is unknown; a folder whose
  name begins like the watch folder's counts as below it.
* `metrics/PerformanceMetrics.ts`: nothing calls the recording of files, plugins or duplicates, so
  their figures stay at zero; a failure that is not of metadata counts as one of hashing.
* The monitor: the file of a running fast task is counted three times in the bar's total; a
  retried file is counted nowhere; a listing that fails is remembered as a size of zero; a
  time limit of `wait-empty` that is no number is over at once.

## 4. Proofs

Every theorem is about the whole next-state relation of its module, for every value of the
constants the named assumptions allow: any files, paths, plugins, leaders, requests and
flushes, any capacities and any number of events, faults, crashes and resets.

| Theorem | Statement |
|---|---|
| `GateInvariant`, `GateCapacity`, `GateNoLostWakeUp`, `GateOnePlace` | `Spec => []GateInv` and its parts |
| `GateFirstComeFirstServed` | `Spec => FirstComeFirstServed`, an action property |
| `GateImplementsSemaphore` | `Spec => Semaphore!Spec`, with *inside* the observed holders and *asking* the waiters and the unobserved grants |
| `SchedulerTypes`, `SchedulerNoLeakedSlot` | invariants of `Spec`, `clear()` included |
| `SchedulerBackgroundYields`, `SchedulerAnnouncedOnlyWhenOver`, `SchedulerFirstComeFirstServed` | action properties of `Spec`, `clear()` included |
| `SchedulerSlots`, `SchedulerCounterExact`, `SchedulerSlotCoversTasks`, `SchedulerStagedWillFlush`, `SchedulerFilesInFlightCapped` | invariants of `SteadySpec`, which is `Spec` without `clear()` |
| `SchedulerImplementsSemaphores` | `SteadySpec => Phase(q)!Spec` for both phases: each implements `SlotSemaphore` |
| `IntakeNothingSkipped`, `IntakeCleanIsSaved`, `IntakeIndexSound` | invariants of `IntakeSpec` |
| `IntakeImplementsEventLog` | `IntakeSpec => Log!Spec` |
| `PipelineTypeCorrect`, `PipelineLightOwned`, `PipelineDoneMeansOver`, `PipelineHashStageClaimed`, `PipelineCompletedOnce`, `PipelineCountersOrdered` | invariants of the pipeline's `Spec` |
| `PluginsStateKept`, `PluginsAccounted`, `PluginsOrderSound` | invariants of the `Spec` of `Plugins` |
| `ResolvedInOrder` | for every finite set of plugins, all dependencies and every list of active plugins, what `ResolveDependencyOrder` returns is in order |
| `KVManagerInvariant`, `KVClientsAccounted`, `KVFollowsLeader`, `KVNothingLeft` | invariants of `KVSpec`; the last is the safety half of `EntryMatchesProcess` |
| `KVRecordInvariant`, `KVRecordsKept` | the invariant of the record and its requests, and the action property it gives, of `KVSpec` |
| `KVStaysReadable` | `KVSpec => [](Broken \notin Readings(record))`, where no two of the names used clash |
| `RecordReadable`, `RecordRoundTrips` | for every finite record: some order of its fields breaks the reading if and only if two of them clash; without a clash it is read and written back as it was, but for numbers and null, which come back as `ReadBack` has them |
| `ContainersInvariant`, `ContainersTypeCorrect`, `ContainersSettled`, `ContainersConfigSaved` | invariants of `ContainerManager`'s `Spec` |

### What is assumed

The assumptions are those of the modules and no more; TLC evaluates them on the instances.
`GateAssumption`, `SchedulerAssumption`, `PipelineAssumption`, `EventStreamAssumption`,
`HashIndexAssumption`, `IntakeAssumption`, `TaskSchedulerAssumption`, `PluginManagerAssumption` and
`KVAssumption` say that sets that are counted are finite, that bounds are natural numbers, that
functions have the right type, that capacities are positive and that "none" is none of the values.
`ContainerAssumption` says one thing more about names. Docker finds containers by a part of their
name, `NameHolds` says which slot's name is found in which other's, and a name ends in the
instance's number (`meta-plugin-<plugin>-<n>`, `container-plugins/ContainerManager.ts`). So of two
instances of one plugin only the lower number can be found in the higher one's name (1 in 10),
never the other way round. Without this a start that lists the containers of instance 2 could
remove the one it has just started as instance 1, and `Settled` would fail; names of other plugins
may hold each other in any way, and the history variable `quiet` takes out the plugins it concerns.

`RecordAssumption` says that the record to begin with is finite, that its fields and the keys are
paths of at least one part, and that values are sets of strings; `KVWritesAssumption`, that the
bounds are numbers. `SpellingAssumption` says that numbers are strings before and after, and that
"true", "false" and "null" are none; which strings are numbers and how they are spelled is open, so
the theorems hold whatever `parseFloat` does. `StringAssumption` says of three literals that they
are strings, which is true of every literal in TLA+ and which the provers have to be told.
`KVStaysReadable` has a hypothesis of its own, `~FieldsClash`: among the keys that requests,
plugins and the processor name, the fields there at first and the keys of CIDs none is a proper
prefix of another. Without it a `PUT` of `title/x` beside `title` makes the record unreadable; this
is what the code does (see above).

### Along which argument

No checked invariant is inductive as it stands, but for the gate's four parts together. For
each module a strengthening was found, checked by TLC on the instance of the module's run, and
proved to hold initially, to be kept by every action and to imply the properties.

**The gate.** The cap alone is not inductive: a release hands its slot to a waiter, which
must not already be a holder (else a slot is lost), and waiters must exist only while the
gate is full (else the handover leaves room unused). The four parts of `GateOK` need each
other; `SlotGateProofs` shows once that each operation keeps them, and both the gate's and
the scheduler's proofs cite those lemmas. First come, first served follows step by step: the
line is shortened at its head only (`AcquiredInOrder`, `ReleasedInOrder`, `NoSlotInOrder`). For the
phases of the scheduler it needs of the invariant that each gate is well formed, which `clear()`
keeps: a step moves a gate by one of those operations, and `clear()`, which releases every holder,
by as many releases as there are holders (`ReleasedAllInOrder`). The property for the phases,
`FilesFirstComeFirstServed`, is in no run: the run with three competing files is too large, and with
two, one file in the line has nobody to be passed by.

**The scheduler, `clear()` included.** `ResetInv` is what a reset leaves of the slot accounting.
After `clear()` a job may run for a file that holds no slot, so counters are bounded instead of
exact (`CounterBounded`) and for each phase one of two things holds: it is as `clear()` left it,
with nothing staged and no slot but those of grants still to be observed, or its staged files
are those in the gate's line (`Swept`, `InLine`). A holder has a task to run or a grant to
observe (`HoldersServed`), which gives `NoLeakedSlot`; that the end of a job does not give back
the slot of other tasks needs each task in the one line it belongs to (`LineInv`,
`TasksPlaced`). `FastFirst` (the background queue runs only while no fast task is staged, queued
or running) gives `BackgroundYields`. `EndedTasks` (a task with a final status in `tracked` has
nothing left to run) gives `AnnouncedOnlyWhenOver`.

**The scheduler between resets.** `FilesInFlightCapped` follows from `SlotCoversTasks` (a file
with a running task holds the slot) and the gate's cap. To keep `SlotCoversTasks` when a slot is
released, the counter must be exact (`CounterExact`); to keep the counter exact, a task
must be staged or queued once and only where its plugin and hash say (`LineInv`). To keep the
gate's line and the staging buffers in step, a file has staged tasks exactly while it waits or
has an unobserved grant (`StagedWillFlush`), and a holder has a task to run (`HoldersBusy`).
`SlotInv` is the conjunction. It is false after `clear()`, when running jobs go on without a
slot; this is why `SteadySpec` has none. The refinement follows from it: a gate moves with the
first staged task of a file, which neither holds nor waits, with a flush, and with the end of a
job whose counter says it is the last, whose file holds the slot and whose grant was observed;
`SlotGateProofs` shows once what each of these is for the semaphore, for this theorem and for
`GateImplementsSemaphore`.

**The intake.** `StreamInv` says what the buffer of a connection holds (`BufferSound`: events in
order, after the cursor), that between the cursor and what meta-core sent nothing was dropped
without being dealt with (`NothingLost`), and that the cursor of every flush under way and of
the file is one the reader had (`PlacesSound`, `CursorKept`, `FlushSound`); it holds with any
number of flushes at once. The refinement takes the end of a process to `Restart` of `EventLog`,
the emptying of the cursor file and the write that lands to `Save`, the handling of an event or
of a gap to `Hand` or `Gap`, a failed read of the file to `Misread`, and the rest to stutters; the
place is the file's while no cursor is loaded. That a gap ends where something was trimmed is part
of `BufferSound`. `IndexInv` adds to `IndexSound` that the rows a save still has to append are in no
file yet. Each step of the intake is one of the stream or one of the index, and each half's
invariant ignores the other's variables, but for the count of faults.

**The pipeline.** `PipelineInv` is made of these. `QueuesSound`: each queue holds the jobs whose
stage is that queue, once. `UndisturbedInv`: a path that nothing disturbed has one job, one
claim on its dispatch (a task, an announcement under way, or none after it), the stage the state
manager shows is that job's, and it is not among the done before its end; `DoneMeansOver` and
`HashStageClaimed` are read off it. `LightOwned` is inductive with the queues. `CountInv` counts
the jobs of the present generation stage by stage against the counters, given that no job is of
a generation to come (`GenerationSound`). `OnceInv` counts completions against the jobs that are
settled: where each path had one event, a handler of `file:complete` and the job's own end never
both complete it.

**The plugins.** `StateKept` speaks of the moments when no save is under way; `KeptInv` says what
holds in between, unless two calls crossed: what a load has read still fits what was asked for;
a save under way has read or will write what was asked for of the plugins that are not loaded,
and the last one to come has all of it in hand; no two saves write at a time; and the file
has what was asked for of the plugins not loaded except while it is being written. It does not
depend on the order the search returns, whatever the dependencies are.

**The order of the plugins.** The search is a recursive function of the plugin and of where the
search is. That it is defined at all needs a well-founded order: a call that goes deeper leaves
fewer plugins unmarked (`RoomShrinks`), what a visit returns depends only on such calls
(`VisitsAgree`), so there is one function that satisfies the recursion (`VisitExists`,
`VisitSound`). `VisitDone` says what a visit leaves: the plugins visited are those in the order,
each once and after its active dependencies, and one that stays marked as being visited has a
dependency that is stuck as well, so that the plugins left out are blocked by a cycle. Conversely
`OrderedFree`: the first in the order of a set of which each member needs another would need an
earlier one. `PluginsOrderSound` adds that whatever changes the active plugins computes the order
again (`OrderInv`).

**The task scheduler.** Whether a file is reported depends on the tables of its tasks: `TaskInv`
says that nothing pending or unreported is missing from `fileTasks`, through the change of a
task's id and the second report of a failure. A step of `Plugins` is one of the plugins, one of
the tables, or both at once, and each half's invariant ignores the other's variables.

**The manager of the store.** `LookersSound` and `BootSound` say where each look, reconnect, start
and stop stands and what it has in hand; `AccountedInv` says who has which client while nothing
overlaps; `HandedInv` that the client handed on at start-up is the manager's or has been closed,
which needs that a client being connected is in no other state; `FollowInv` that what was read or
cached since the last change is the present leader's, and `PartingInv` what `stop()` has left to
do. The six and the types are `ConnectionInv`; each of the first two is needed by the others.

**The record.** `RecordsKept` speaks of a request's last step; `RecordInv` says what is in its
hands before: as long as nobody overtook it, the fields it will write fit the record (`Fits`). This
rests on what `reconstructMetadata()` builds: after any number of pairs, in any order, the tree's
values are the record's, read back, and every first part of an inserted path is there (`Built`;
after the conversion of arrays, `ReadSound`). The loop is reasoned about at the least position at
which the claim fails. `RecordReadable` has two halves: of two fields that clash there is an order
that inserts the shorter first, and from then on the longer one finds a value in its way
(`Blocked`); without a clash, no inserted path is above another and no insertion breaks the tree
(`InsertWorks`). `RecordRoundTrips` strengthens `Built` to `Whole`: every inserted path holds its
value and nothing is removed; that the conversion drops nothing is what `Proper` is for.
`KVStaysReadable` needs that the record's fields, and those that a request has in hand, are among
the names used or are keys of CIDs (`FieldsInv`), as nothing else is left by a read, a change and a
flattening.

**The containers.** `ContainersInvariant` is about calls that interleave at every await.
`CallsSound` says for each kind of call at which await it may stand and what it holds there;
`PhaseSound` what the process's phase excludes; `SaveInv` that a lone save has the configuration of
the memory in hand, which gives `ConfigSaved`; `OwnersInv` that the ids a call or a map remembers
belong to its plugin for as long as the container exists, although ids of removed containers
are free for new ones. `QuietInv` is the core of `Settled`: of a plugin whose calls neither
overlapped nor failed, one call at most is about it, and its maps, its timer, its containers and its
configuration are what that call has reached so far, await by await (`WorkAgrees`, `RestAgrees`).

### Only model-checked

* Liveness: `EveryoneAdmitted`, `EveryFileCompletes`, `EventuallyDone`, `EventuallyTakenIn`,
  `AddedIsSaved`, `CallsEnd` and the other half of `EntryMatchesProcess`. Fairness and ENABLED
  are beyond the prover.
* The calculations of `Dashboard`, `RedisClient`, `PluginContext`, `PerformanceMetrics`,
  `FileHashes` and `FileNames`, which TLC compares with their references. `FileHashes` has recursive
  operators and uses `Bitwise`, and no theorem can be stated in a module above those. The others
  go through sequences with folds of the community modules, whose operator parameter the provers do
  not take, or are finite tables, of which a proof would say what the small instances say; no
  theorem about them was attempted.
* `MCKV`'s `CidsAsKeys` and `PatchOfArray`. `RoundTrip` and `ClashBreaks` are instances of
  `RecordRoundTrips` and `RecordReadable`; TLC evaluates them so that the definitions are also run.

The library's induction schemata take an operator as a parameter and cannot be instantiated here.
Where a theorem needs induction over a position or over the room that a search has left, the proof
is about a set of numbers, and takes its least element (`WFMin`) or its closure under the successor
(`LoopInduction`); that suffices for loops and for recursive functions, not for recursive operators.

## 5. Not modelled

`PROJECT.json` gives the reason for each component. Whole components: the folder watchers, the
two queues of `async-utils` and the superseded state managers, which nothing in the server uses;
Jellyfin files and virtual paths, which are formatting; the metadata editor, whose backend is
not in the repository.

Within the modelled ones: code without a caller (`start(discoveryStream)`, the queue of
`WatchedFileProcessor`, `createTasksForFile()` and `cancelFile()` of the task scheduler,
`updateStatus()`, `setGate()` outside the scheduler's own module, the processing methods of
`FileProcessorPiscina` the pipeline does not use); configurations sent to containers, images and
mounts; a `PATCH /meta` of several keys or of values that are no strings; `publish()` and `xadd()`;
the text of regular
expressions, messages, logs and pages.

Seen in the code and covered by no property:

* a dependency that never completes is waited for 30 seconds and its dependent then runs without
  it (`container-plugins/ContainerPluginScheduler.ts:199`);
* Docker's name filter matches parts of names, so that a plugin whose name contains another's
  is taken for it (`container-plugins/ContainerManager.ts:377`; `NameHolds` is a constant of the
  model, and its instance has no such names);
* a health check that answers after its instance was stopped writes its status (`:526`);
* a rescan works with the list of manifests it read before an await
  (`plugin-engine/PluginManager.ts:224`), and a configuration reaches one instance only (`:172`);
* the page of plugins keeps the edited configuration when another plugin is selected
  (`src/packages/meta-sort-ui/src/pages/Plugins.tsx:367`);
* `kv/KVManager.ts:279`: a `waitForReady()` that begins after the start is not told;
* `events/SSEEventClient.ts:283`: the cursor moves past an event whose handler throws (the model
  does so, and counts such an event as one that could not be handled);
* what a copy loses when the record of its hash is deleted with the other file
  (`logic/fileProcessor/FileProcessorPiscina.ts:639`).

## 6. Plan

Done: all state machines of section 2 and the calculations; the theorems of section 4. Every
safety property that a passing run checks is stated by a theorem.

What is worth doing next:

1. Theorems about the piece hashing of `FileHashes`, after its recursive operators are written as
   functions of the position and the bit operations as arithmetic, as was done with the recursion
   of `PluginExecutor` and `MetadataUtils`.
2. The record for the deletion of a file whose content another path has, which is in no property
   yet (`logic/fileProcessor/FileProcessorPiscina.ts:639`).
