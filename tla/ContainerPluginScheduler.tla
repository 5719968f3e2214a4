----------------------- MODULE ContainerPluginScheduler -----------------------
(***************************************************************************)
(* class ContainerPluginScheduler (container-plugins/                      *)
(* ContainerPluginScheduler.ts): one task per (file, plugin), two p-queues *)
(* (fast and background), one FileSlotGate per queue, plugin containers    *)
(* that accept a task over HTTP and report its end by a callback.          *)
(*                                                                         *)
(* The process is one JavaScript event loop.  Synchronous code (the loop   *)
(* of dispatchAllPlugins, a p-queue starting a job) runs before anything   *)
(* else, then every promise continuation (microtask), then the next        *)
(* external event: EventLoopFree is the guard of the external events.      *)
(*                                                                         *)
(* The definitions named Mutant... are not the code's: each is a plausible *)
(* mistake in the definition it precedes, kept to show that a property     *)
(* notices it.                                                             *)
(***************************************************************************)
EXTENDS SlotGate

CONSTANTS
    Paths,          \* files on disk
    Hashes,         \* file hashes, the key of every map of the scheduler
    HashOf,         \* content of each path; duplicates share a hash
    Plugins,
    PluginOrder,    \* rank of each plugin in ContainerManager.getStatus().plugins
    QueueOf,        \* manifest.defaultQueue of each plugin
    DependsOn,      \* manifest.dependencies of each plugin
    Slots,          \* capacity of the gate of each queue
    Concurrency,    \* concurrency of each p-queue
    MaxRounds,      \* bound: times each path is submitted
    MaxClears,      \* bound: calls of clear()
    Operations,     \* which of the optional operations the environment calls
    Unstable,       \* plugins whose health changes
    PostsMayFail,   \* whether a POST to a container may fail
    Reports         \* statuses the containers report

Queues == {"fast", "background"}

Task == Paths \X (1..MaxRounds) \X Plugins

Path(t)   == t[1]
Plugin(t) == t[3]
File(t)   == HashOf[Path(t)]
Queue(t)  == QueueOf[Plugin(t)]
Deps(t)   == DependsOn[Plugin(t)]

\* What a callback may say: its route takes any status, "other" stands for one that
\* PluginCallbackPayload does not name.
Reportable == {"completed", "failed", "skipped", "other"}

ASSUME SchedulerAssumption ==
    /\ IsFiniteSet(Paths) /\ IsFiniteSet(Hashes) /\ IsFiniteSet(Plugins)
    /\ HashOf \in [Paths -> Hashes]
    /\ PluginOrder \in [Plugins -> Nat]
    /\ QueueOf \in [Plugins -> Queues]
    /\ DependsOn \in [Plugins -> SUBSET Plugins]
    /\ Slots \in [Queues -> Nat \ {0}]
    /\ Concurrency \in [Queues -> Nat \ {0}]
    /\ MaxRounds \in Nat /\ MaxClears \in Nat
    /\ Operations \subseteq {"recompute", "cancel", "gate", "pause"}
    /\ Unstable \subseteq Plugins
    /\ PostsMayFail \in BOOLEAN /\ Reports \subseteq Reportable

VARIABLES
    rounds,       \* times each path was submitted
    todo,         \* tasks the running dispatch loop has still to create
    pc,           \* where the promise of each task stands
    status,       \* ContainerTask.status
    tracked,      \* tasks in pendingTasks and fileTasks
    buffer,       \* light/bgBufferedTasks: tasks staged per queue and file
    counter,      \* light/bgTasksPerFile (0: no entry)
    gate,         \* lightFileGate, bgFileGate
    queue,        \* tasks waiting in each p-queue
    paused,       \* isPaused of each p-queue
    awaits,       \* dependencies whose promise is unresolved, per task
    waiters,      \* dependencyWaiters: <<task, plugin>> callbacks
    done,         \* fileCompletedPlugins
    container,    \* what the plugin container did of each task in a job
    records,      \* recordTaskCompletion() calls per task in a job
    healthy,      \* plugins with a healthy instance
    accepting,    \* isAcceptingNewTasks
    due,          \* paths submitted and not yet announced by file:complete
    clears        \* calls of clear() so far

fileVars  == <<tracked, done, waiters, due>>
slotVars  == <<buffer, counter, gate>>
loopVars  == <<rounds, todo>>
worldVars == <<container, healthy, accepting, clears>>
vars == <<loopVars, pc, status, fileVars, slotVars, queue, paused, awaits,
          records, worldVars>>

\* "none": not created; "buffered": waiting for a slot; "queued": in the
\* p-queue; then the stages of executeTask, "stuck" the one it cannot leave;
\* "leaving": the job's promise is settled and the p-queue has not taken note
\* yet; "gone": nothing is left.
InJob == {"waiting", "posting", "awaiting", "stuck", "resolved", "rejected"}
Stages == InJob \cup {"none", "buffered", "queued", "leaving", "gone"}
Terminal == {"completed", "failed", "timeout"}
Statuses == Terminal \cup {"pending", "waiting", "dispatched"}

Init ==
    /\ rounds = [p \in Paths |-> 0]
    /\ todo = <<>>
    /\ pc = [t \in Task |-> "none"]
    /\ status = [t \in Task |-> "pending"]
    /\ tracked = {}
    /\ buffer = [q \in Queues |-> [f \in Hashes |-> <<>>]]
    /\ counter = [q \in Queues |-> [f \in Hashes |-> 0]]
    /\ gate = [q \in Queues |-> EmptyGate]
    /\ queue = [q \in Queues |-> <<>>]
    /\ paused = [q \in Queues |-> q = "background"]
    /\ awaits = [t \in Task |-> {}]
    /\ waiters = {}
    /\ done = [f \in Hashes |-> {}]
    /\ container = [t \in Task |-> "none"]
    /\ records = [t \in Task |-> 0]
    /\ healthy = Plugins
    /\ accepting = TRUE
    /\ due = [p \in Paths |-> FALSE]
    /\ clears = 0
-----------------------------------------------------------------------------
\* p-queue 8 (a library): pending counts a job until its promise was noticed.
Pending(q) == {t \in Task : Queue(t) = q /\ pc[t] \in InJob \cup {"leaving"}}

Startable(q) ==
    queue[q] # <<>> /\ ~paused[q] /\ Cardinality(Pending(q)) < Concurrency[q]

SynchronousCodeRuns == todo # <<>> \/ \E q \in Queues : Startable(q)

GrantsRun == \E q \in Queues : gate[q].granted # {}

\* Tasks whose promise continuation is queued.
Runnable(t) == \/ pc[t] \in {"resolved", "rejected", "leaving"}
               \/ pc[t] = "waiting" /\ awaits[t] = {}

EventLoopFree ==
    /\ ~SynchronousCodeRuns
    /\ ~GrantsRun
    /\ \A t \in Task : ~Runnable(t)
-----------------------------------------------------------------------------
\* dispatchAllPlugins() for a path: one task per enabled plugin that has a
\* healthy instance, in the manager's order.
Submit(p) ==
    /\ rounds[p] < MaxRounds
    /\ EventLoopFree
    /\ rounds' = [rounds EXCEPT ![p] = @ + 1]
    /\ \E list \in [1..Cardinality(healthy) -> healthy] :
          /\ \A i, j \in DOMAIN list :
                i < j => PluginOrder[list[i]] < PluginOrder[list[j]]
          /\ todo' = [i \in DOMAIN list |-> <<p, rounds[p] + 1, list[i]>>]
    /\ UNCHANGED <<pc, status, fileVars, slotVars, queue, paused, awaits,
                   records, worldVars>>

\* TaskScheduler.enqueueContainerTask() for a recompute: one task, whatever the
\* health of its plugin.
Recompute(p, x) ==
    /\ "recompute" \in Operations
    /\ rounds[p] < MaxRounds
    /\ EventLoopFree
    /\ rounds' = [rounds EXCEPT ![p] = @ + 1]
    /\ todo' = <<<<p, rounds[p] + 1, x>>>>
    /\ UNCHANGED <<pc, status, fileVars, slotVars, queue, paused, awaits,
                   records, worldVars>>

\* createTask() and enqueueTask() while the gate is closed: the task is tracked
\* and untracked again.
RejectTask ==
    /\ todo # <<>> /\ \A q \in Queues : ~Startable(q)
    /\ ~accepting
    /\ todo' = Tail(todo)
    /\ pc' = [pc EXCEPT ![Head(todo)] = "gone"]
    /\ UNCHANGED <<rounds, status, fileVars, slotVars, queue, paused, awaits,
                   records, worldVars>>

\* BUG variant: every staged task asks for the slot.
MutantAsksAgain(t, q, f) ==
    \/ /\ Holds(gate[q], f)
       /\ queue' = [queue EXCEPT ![q] = Append(@, t)]
       /\ pc' = [pc EXCEPT ![t] = "queued"]
       /\ UNCHANGED <<buffer, gate>>
    \/ /\ ~Holds(gate[q], f)
       /\ buffer' = [buffer EXCEPT ![q][f] = Append(@, t)]
       /\ gate' = [gate EXCEPT ![q] = Acquired(@, f, Slots[q])]
       /\ pc' = [pc EXCEPT ![t] = "buffered"]
       /\ UNCHANGED queue

\* Where enqueueTask() puts a task: in the p-queue if its file holds a slot,
\* else in the file's buffer, the first of which asks the gate for a slot.
Place(t, q, f) ==
    \/ /\ Holds(gate[q], f)
       /\ queue' = [queue EXCEPT ![q] = Append(@, t)]
       /\ pc' = [pc EXCEPT ![t] = "queued"]
       /\ UNCHANGED <<buffer, gate>>
    \/ /\ ~Holds(gate[q], f)
       /\ buffer' = [buffer EXCEPT ![q][f] = Append(@, t)]
       /\ gate' = IF buffer[q][f] = <<>>
                  THEN [gate EXCEPT ![q] = Acquired(@, f, Slots[q])]
                  ELSE gate
       /\ pc' = [pc EXCEPT ![t] = "buffered"]
       /\ UNCHANGED queue

\* A fast task pauses the background queue.
PauseBackground(q) ==
    paused' = [paused EXCEPT !["background"] = @ \/ q = "fast"]

\* createTask() and enqueueTask() while the gate is open.
EnqueueTask ==
    /\ todo # <<>> /\ \A q \in Queues : ~Startable(q)
    /\ accepting
    /\ LET t == Head(todo)
           q == Queue(t)
           f == File(t)
       IN  /\ tracked' = tracked \cup {t}
           /\ due' = [due EXCEPT ![Path(t)] = TRUE]
           /\ PauseBackground(q)
           /\ counter' = [counter EXCEPT ![q][f] = @ + 1]
           /\ Place(t, q, f)
    /\ todo' = Tail(todo)
    /\ UNCHANGED <<rounds, status, done, waiters, awaits, records, worldVars>>

\* The gate once the continuation of acquire() has run: when clear() emptied the
\* buffer first, the slot is given back.
MutantKeepsSlot(q, f) == Observed(gate[q], f)

FlushedGate(q, f) ==
    IF buffer[q][f] = <<>> /\ counter[q][f] = 0
    THEN Released(Observed(gate[q], f), f)
    ELSE Observed(gate[q], f)

\* The continuation of gate.acquire(): the file's buffer goes to the p-queue.
Flush(q, f) ==
    /\ ~SynchronousCodeRuns
    /\ f \in gate[q].granted
    /\ queue' = [queue EXCEPT ![q] = @ \o buffer[q][f]]
    /\ buffer' = [buffer EXCEPT ![q][f] = <<>>]
    /\ pc' = [t \in Task |-> IF pc[t] = "buffered" /\ Queue(t) = q /\ File(t) = f
                             THEN "queued" ELSE pc[t]]
    /\ gate' = [gate EXCEPT ![q] = FlushedGate(q, f)]
    /\ UNCHANGED <<loopVars, status, fileVars, counter, paused, awaits,
                   records, worldVars>>
-----------------------------------------------------------------------------
\* Every task tracked for the file is in a final status.
MutantAnyTaskOver(f, st) == \E u \in tracked : File(u) = f /\ st[u] \in Terminal

FileOver(f, st) ==
    /\ \E u \in tracked : File(u) = f
    /\ \A u \in tracked : File(u) = f => st[u] \in Terminal

\* checkFileCompletion(): once every tracked task of the hash has ended, they
\* are forgotten with the file's dependency state, and file:complete is emitted
\* for each of their paths.  The status of a forgotten task, which nothing can
\* read any more, goes back to its initial value.
CheckFileCompletion(t, st) ==
    LET f    == File(t)
        mine == {u \in tracked : File(u) = f}
    IN  \/ /\ ~FileOver(f, st)
           /\ status' = [st EXCEPT ![t] = IF t \in tracked THEN @ ELSE "pending"]
           /\ UNCHANGED fileVars
        \/ /\ FileOver(f, st)
           /\ status' = [u \in Task |-> IF u \in mine \cup {t} THEN "pending" ELSE st[u]]
           /\ tracked' = tracked \ mine
           /\ done' = [done EXCEPT ![f] = {}]
           /\ waiters' = {w \in waiters : File(w[1]) # f}
           /\ due' = [p \in Paths |-> due[p] /\ \A u \in mine : Path(u) # p]

MutantAlwaysReleases(t) ==
    /\ counter' = [counter EXCEPT ![Queue(t)][File(t)] = IF @ > 1 THEN @ - 1 ELSE 0]
    /\ gate' = [gate EXCEPT ![Queue(t)] = Released(@, File(t))]

MutantFinishedTwice(t) ==
    /\ counter' = [counter EXCEPT ![Queue(t)][File(t)] = @ - 2]
    /\ gate' = IF counter[Queue(t)][File(t)] <= 2
               THEN [gate EXCEPT ![Queue(t)] = Released(@, File(t))]
               ELSE gate

\* onTaskFinished(): the last outstanding task of a file in a phase gives the
\* slot back.
OnTaskFinished(t) ==
    LET q == Queue(t)
        f == File(t)
    IN  \/ /\ counter[q][f] <= 1
           /\ counter' = [counter EXCEPT ![q][f] = 0]
           /\ gate' = [gate EXCEPT ![q] = Released(@, f)]
        \/ /\ counter[q][f] > 1
           /\ counter' = [counter EXCEPT ![q][f] = @ - 1]
           /\ UNCHANGED gate

\* The end of executeTask() and the "finally" of dispatchToPQueue().  What the
\* container does for the task after this is not followed: a late report finds
\* no pendingCallbacks entry and is dropped, as in DropReport.
EndJob(t, st) ==
    /\ CheckFileCompletion(t, st)
    /\ OnTaskFinished(t)
    /\ pc' = [pc EXCEPT ![t] = "leaving"]
    /\ container' = [container EXCEPT ![t] = "none"]
    /\ UNCHANGED <<loopVars, buffer, queue, paused, awaits, healthy, accepting, clears>>

\* p-queue starts a job: executeTask() runs up to its first await, which
\* registers a waiter per dependency that has not completed for the file.
StartJob(q) ==
    /\ Startable(q)
    /\ LET t == Head(queue[q])
       IN  /\ queue' = [queue EXCEPT ![q] = Tail(@)]
           /\ pc' = [pc EXCEPT ![t] = "waiting"]
           /\ status' = [status EXCEPT ![t] = IF Deps(t) = {} THEN @ ELSE "waiting"]
           /\ awaits' = [awaits EXCEPT ![t] = Deps(t) \ done[File(t)]]
           /\ waiters' = waiters \cup ({t} \X (Deps(t) \ done[File(t)]))
    /\ UNCHANGED <<loopVars, tracked, done, due, slotVars, paused, records, worldVars>>

\* executeTask() after the dependencies, with a healthy instance: the task is
\* dispatched; its metadata is fetched and posted to the container.
Dispatch(t) ==
    /\ ~SynchronousCodeRuns
    /\ pc[t] = "waiting" /\ awaits[t] = {}
    /\ Plugin(t) \in healthy
    /\ pc' = [pc EXCEPT ![t] = "posting"]
    /\ status' = [status EXCEPT ![t] = "dispatched"]
    /\ UNCHANGED <<loopVars, fileVars, slotVars, queue, paused, awaits, records,
                   worldVars>>

\* executeTask() after the dependencies, without one: the task fails, and the
\* plugin is not marked completed for the file.
FailUnhealthy(t) ==
    /\ ~SynchronousCodeRuns
    /\ pc[t] = "waiting" /\ awaits[t] = {}
    /\ Plugin(t) \notin healthy
    /\ EndJob(t, [status EXCEPT ![t] = "failed"])
    /\ UNCHANGED records

\* executeTask() after waitForCallback() resolved.
Settle(t) ==
    /\ ~SynchronousCodeRuns
    /\ pc[t] = "resolved"
    /\ EndJob(t, status)
    /\ UNCHANGED records

MutantSkipsFinally(t) ==
    /\ ~SynchronousCodeRuns
    /\ pc[t] = "rejected"
    /\ CheckFileCompletion(t, [status EXCEPT ![t] = "failed"])
    /\ pc' = [pc EXCEPT ![t] = "leaving"]
    /\ container' = [container EXCEPT ![t] = "none"]
    /\ records' = [records EXCEPT ![t] = @ + 1]
    /\ UNCHANGED <<loopVars, slotVars, queue, paused, awaits, healthy, accepting, clears>>

\* The catch of executeTask(): a refused post, a failed or timed-out callback.
SettleWithError(t) ==
    /\ ~SynchronousCodeRuns
    /\ pc[t] = "rejected"
    /\ EndJob(t, [status EXCEPT ![t] = "failed"])
    /\ records' = [records EXCEPT ![t] = @ + 1]

MutantIgnoresIdle == UNCHANGED paused

\* onFastQueueIdle(): the background queue starts if it has work now.
OnFastQueueIdle ==
    paused' = [paused EXCEPT !["background"] =
                  @ /\ queue["background"] = <<>> /\ Pending("background") = {}]

\* p-queue notices the end of a job; with nothing queued and nothing else
\* running it emits 'idle', which the fast queue has a listener for.
JobLeaves(t) ==
    /\ ~SynchronousCodeRuns /\ ~GrantsRun
    /\ pc[t] = "leaving"
    /\ pc' = [pc EXCEPT ![t] = "gone"]
    /\ \/ /\ Queue(t) = "fast" /\ queue["fast"] = <<>> /\ Pending("fast") = {t}
          /\ OnFastQueueIdle
       \/ /\ \/ Queue(t) # "fast"
             \/ queue["fast"] # <<>>
             \/ Pending("fast") # {t}
          /\ UNCHANGED paused
    /\ records' = [records EXCEPT ![t] = 0]
    /\ UNCHANGED <<loopVars, status, fileVars, slotVars, queue, awaits, worldVars>>
-----------------------------------------------------------------------------
\* The 30 s timer of waitForDependencies(): the promise resolves without the
\* dependency; the waiter stays registered (indexOf never finds it).
DependencyTimeout(t, x) ==
    /\ pc[t] = "waiting" /\ x \in awaits[t]
    /\ EventLoopFree
    /\ awaits' = [awaits EXCEPT ![t] = @ \ {x}]
    /\ UNCHANGED <<loopVars, pc, status, fileVars, slotVars, queue, paused, records,
                   worldVars>>

\* The container receives POST /process (a plugin, outside this repository).
ContainerAccepts(t) ==
    /\ pc[t] = "posting" /\ container[t] = "none"
    /\ EventLoopFree
    /\ container' = [container EXCEPT ![t] = "working"]
    /\ UNCHANGED <<loopVars, pc, status, fileVars, slotVars, queue, paused, awaits,
                   records, healthy, accepting, clears>>

\* Its answer "accepted" arrives: waitForCallback() registers the task.
PostAccepted(t) ==
    /\ pc[t] = "posting" /\ container[t] # "none"
    /\ EventLoopFree
    /\ pc' = [pc EXCEPT ![t] = "awaiting"]
    /\ UNCHANGED <<loopVars, status, fileVars, slotVars, queue, paused, awaits,
                   records, worldVars>>

\* The post is refused, fails or exceeds its 10 s, whether or not the
\* container received it.
PostFails(t) ==
    /\ PostsMayFail
    /\ pc[t] = "posting"
    /\ EventLoopFree
    /\ pc' = [pc EXCEPT ![t] = "rejected"]
    /\ UNCHANGED <<loopVars, status, fileVars, slotVars, queue, paused, awaits,
                   records, worldVars>>

\* handleCallback() for a task in pendingCallbacks: every report of a known
\* status, a failure included, marks the plugin completed for the file and wakes
\* its waiters.
TakeReport(t, r) ==
    LET woken == {w \in waiters : File(w[1]) = File(t) /\ w[2] = Plugin(t)}
    IN  /\ pc[t] = "awaiting" /\ r # "other"
        /\ status' = [status EXCEPT ![t] = IF r = "failed" THEN "failed" ELSE "completed"]
        /\ pc' = [pc EXCEPT ![t] = IF r = "failed" THEN "rejected" ELSE "resolved"]
        /\ records' = [records EXCEPT ![t] = @ + 1]
        /\ done' = [done EXCEPT ![File(t)] = @ \cup {Plugin(t)}]
        /\ awaits' = [u \in Task |-> IF <<u, Plugin(t)>> \in woken
                                     THEN awaits[u] \ {Plugin(t)} ELSE awaits[u]]
        /\ waiters' = waiters \ woken

\* handleCallback() of another status: the timer is cleared and the entry
\* deleted, but the promise is neither resolved nor rejected, so that the job,
\* its place in the p-queue and its file's slot wait for ever.
SwallowReport(t, r) ==
    /\ pc[t] = "awaiting" /\ r = "other"
    /\ pc' = [pc EXCEPT ![t] = "stuck"]
    /\ UNCHANGED <<status, records, done, awaits, waiters>>

\* handleCallback() for a task that is not: "unknown task", nothing changes.
DropReport(t) ==
    /\ pc[t] # "awaiting"
    /\ UNCHANGED <<pc, status, records, done, awaits, waiters>>

\* The container reports the end of a task.
Callback(t, r) ==
    /\ container[t] = "working"
    /\ EventLoopFree
    /\ container' = [container EXCEPT ![t] = "reported"]
    /\ TakeReport(t, r) \/ SwallowReport(t, r) \/ DropReport(t)
    /\ UNCHANGED <<loopVars, tracked, due, slotVars, queue, paused, healthy,
                   accepting, clears>>

\* The timer of waitForCallback().
CallbackTimeout(t) ==
    /\ pc[t] = "awaiting"
    /\ EventLoopFree
    /\ status' = [status EXCEPT ![t] = "timeout"]
    /\ pc' = [pc EXCEPT ![t] = "rejected"]
    /\ UNCHANGED <<loopVars, fileVars, slotVars, queue, paused, awaits, records,
                   worldVars>>

\* ContainerManager's health check changes its mind about a plugin.
HealthChanges(x) ==
    /\ x \in Unstable
    /\ EventLoopFree
    /\ healthy' = IF x \in healthy THEN healthy \ {x} ELSE healthy \cup {x}
    /\ UNCHANGED <<loopVars, pc, status, fileVars, slotVars, queue, paused, awaits,
                   records, container, accepting, clears>>
-----------------------------------------------------------------------------
\* release() of every holder, as clear() calls it on a snapshot of the holders:
\* as many waiters as there were holders get a slot.
ReleasedAll(g) ==
    LET k == IF Cardinality(g.holders) < Len(g.waiters)
             THEN Cardinality(g.holders) ELSE Len(g.waiters)
        promoted == {g.waiters[i] : i \in 1..k}
    IN  [holders |-> promoted,
         waiters |-> SubSeq(g.waiters, k + 1, Len(g.waiters)),
         granted |-> promoted]

\* clear(), from StreamingPipeline.reset(): queued and staged tasks vanish,
\* awaited callbacks are rejected, jobs in flight are left to run on.
Clear ==
    /\ clears < MaxClears
    /\ EventLoopFree
    /\ clears' = clears + 1
    /\ pc' = [t \in Task |-> CASE pc[t] = "awaiting" -> "rejected"
                               [] pc[t] \in {"queued", "buffered"} -> "gone"
                               [] OTHER -> pc[t]]
    /\ queue' = [q \in Queues |-> <<>>]
    /\ tracked' = {} /\ waiters' = {}
    /\ done' = [f \in Hashes |-> {}]
    /\ buffer' = [q \in Queues |-> [f \in Hashes |-> <<>>]]
    /\ counter' = [q \in Queues |-> [f \in Hashes |-> 0]]
    /\ gate' = [q \in Queues |-> ReleasedAll(gate[q])]
    /\ UNCHANGED <<loopVars, status, due, paused, awaits, records, container,
                   healthy, accepting>>

\* cancelFile(): the file's tasks are forgotten; those awaiting a callback are
\* rejected, the others stay where they are.
CancelFile(f) ==
    /\ "cancel" \in Operations
    /\ EventLoopFree
    /\ LET mine == {t \in tracked : File(t) = f}
       IN  /\ mine # {}
           /\ tracked' = tracked \ mine
           /\ pc' = [t \in Task |-> IF t \in mine /\ pc[t] = "awaiting"
                                    THEN "rejected" ELSE pc[t]]
    /\ UNCHANGED <<loopVars, status, done, waiters, due, slotVars, queue, paused,
                   awaits, records, worldVars>>

\* setGate().
SetGate ==
    /\ "gate" \in Operations
    /\ EventLoopFree
    /\ accepting' = ~accepting
    /\ UNCHANGED <<loopVars, pc, status, fileVars, slotVars, queue, paused, awaits,
                   records, container, healthy, clears>>

\* "if fast queue is empty": nothing queued in it and nothing running.
MutantForgetsRunning == queue["fast"] = <<>>

FastQueueEmpty == queue["fast"] = <<>> /\ Pending("fast") = {}

\* pause().
Pause ==
    /\ "pause" \in Operations
    /\ EventLoopFree
    /\ paused' = [q \in Queues |-> TRUE]
    /\ UNCHANGED <<loopVars, pc, status, fileVars, slotVars, queue, awaits, records,
                   worldVars>>

\* resume(): p-queue's start() processes the queue, and the background queue is
\* started too when the fast queue has nothing queued and nothing running.
Resume ==
    /\ "pause" \in Operations
    /\ EventLoopFree
    /\ paused' = [paused EXCEPT !["fast"] = FALSE,
                                !["background"] = @ /\ ~FastQueueEmpty]
    /\ UNCHANGED <<loopVars, pc, status, fileVars, slotVars, queue, awaits, records,
                   worldVars>>
-----------------------------------------------------------------------------
\* Steps of the scheduler and its timers, which the runtime always takes.
TaskStep(t) ==
    \/ Dispatch(t) \/ FailUnhealthy(t) \/ Settle(t) \/ SettleWithError(t)
    \/ JobLeaves(t) \/ CallbackTimeout(t)
    \/ \E x \in Plugins : DependencyTimeout(t, x)

QueueStep(q) == StartJob(q) \/ \E f \in Hashes : Flush(q, f)

\* Steps of the containers and of the network.
OutsideStep(t) ==
    \/ ContainerAccepts(t) \/ PostAccepted(t) \/ PostFails(t)
    \/ \E r \in Reports : Callback(t, r)

Steady ==
    \/ \E p \in Paths : Submit(p) \/ \E x \in Plugins : Recompute(p, x)
    \/ RejectTask \/ EnqueueTask
    \/ \E q \in Queues : QueueStep(q)
    \/ \E t \in Task : TaskStep(t) \/ OutsideStep(t)
    \/ \E x \in Plugins : HealthChanges(x)
    \/ \E f \in Hashes : CancelFile(f)
    \/ SetGate \/ Pause \/ Resume

Next == Steady \/ Clear

Spec == Init /\ [][Next]_vars

\* As long as the pipeline is not reset.
SteadySpec == Init /\ [][Steady]_vars

\* The event loop runs what is ready, timers fire, and a POST is answered or
\* aborted by AbortSignal.timeout.  Nothing makes a container report.
Fairness ==
    /\ WF_vars(RejectTask) /\ WF_vars(EnqueueTask)
    /\ \A q \in Queues : WF_vars(QueueStep(q))
    /\ \A t \in Task : WF_vars(TaskStep(t))
    /\ \A t \in Task : WF_vars(ContainerAccepts(t)) /\ WF_vars(PostAccepted(t) \/ PostFails(t))

FairSpec == Spec /\ Fairness
-----------------------------------------------------------------------------
GateStates ==
    [holders : SUBSET Hashes, waiters : Seq(Hashes), granted : SUBSET Hashes]

TypeOK ==
    /\ rounds \in [Paths -> 0..MaxRounds]
    /\ todo \in Seq(Task)
    /\ pc \in [Task -> Stages]
    /\ status \in [Task -> Statuses]
    /\ tracked \subseteq Task
    /\ buffer \in [Queues -> [Hashes -> Seq(Task)]]
    /\ counter \in [Queues -> [Hashes -> Nat]]
    /\ gate \in [Queues -> GateStates]
    /\ queue \in [Queues -> Seq(Task)]
    /\ paused \in [Queues -> BOOLEAN]
    /\ awaits \in [Task -> SUBSET Plugins]
    /\ waiters \subseteq Task \X Plugins
    /\ done \in [Hashes -> SUBSET Plugins]
    /\ container \in [Task -> {"none", "working", "reported"}]
    /\ records \in [Task -> Nat]
    /\ healthy \subseteq Plugins
    /\ accepting \in BOOLEAN
    /\ due \in [Paths -> BOOLEAN]
    /\ clears \in 0..MaxClears

\* Tasks of a file in a phase that have been enqueued and have not finished.
Outstanding(q, f) ==
    {t \in Task : /\ Queue(t) = q /\ File(t) = f
                  /\ pc[t] \in InJob \cup {"buffered", "queued"}}

\* Files whose bytes some running task of the phase may be reading.
FilesInFlight(q) == {File(t) : t \in {u \in Task : Queue(u) = q /\ pc[u] \in InJob}}

\* "Caps the number of files whose bytes are concurrently being touched in each
\* phase" (ContainerPluginScheduler.ts:89-91).
FilesInFlightCapped ==
    \A q \in Queues : Cardinality(FilesInFlight(q)) <= Slots[q]

\* Why: a task only reaches the p-queue while its file holds the phase's slot,
\* and the slot stays with the file until the task has finished.
SlotCoversTasks ==
    \A t \in Task : pc[t] \in InJob \cup {"queued"} => Holds(gate[Queue(t)], File(t))

\* The per-file counter, incremented at enqueue and decremented in a "finally"
\* several awaits later, is the number of outstanding tasks: a slot is given
\* back neither before the file's last task nor after it.
CounterExact ==
    \A q \in Queues, f \in Hashes : counter[q][f] = Cardinality(Outstanding(q, f))

\* No slot is lost to the bookkeeping: when the event loop is free, a file that
\* holds one still has a task to run or running, whose end releases it (a task
\* that is stuck has no end and keeps the slot, see EveryFileCompletes).
NoLeakedSlot ==
    EventLoopFree => \A q \in Queues : \A f \in gate[q].holders : Outstanding(q, f) # {}

\* No staged task is forgotten, and no slot is asked for without one: a file has
\* staged tasks exactly while it stands in the gate's line or has just been
\* granted the slot and will be flushed.
StagedWillFlush ==
    \A q \in Queues, f \in Hashes :
        buffer[q][f] # <<>> <=> Waits(gate[q], f) \/ f \in gate[q].granted

\* The rest of what makes the slots right between two resets: the gates are in
\* order, ...
GatesOK == \A q \in Queues : GateOK(gate[q], Hashes, Slots[q])

\* ... a holder has a task to run, ...
HoldersBusy == \A q \in Queues : \A f \in gate[q].holders : Outstanding(q, f) # {}

\* ... a task is staged or queued once, where its plugin and file say, ...
StagedTasks ==
    \A q \in Queues, f \in Hashes : \A i \in 1..Len(buffer[q][f]) :
        LET t == buffer[q][f][i]
        IN  /\ Queue(t) = q /\ File(t) = f /\ pc[t] = "buffered"
            /\ \A j \in 1..Len(buffer[q][f]) : buffer[q][f][j] = t => j = i

QueuedTasks ==
    \A q \in Queues : \A i \in 1..Len(queue[q]) :
        LET t == queue[q][i]
        IN  /\ Queue(t) = q /\ pc[t] = "queued"
            /\ \A j \in 1..Len(queue[q]) : queue[q][j] = t => j = i

\* ... and a task is created once, in the round that submits it.
CreatedOnce ==
    /\ \A t \in Task : t[2] > rounds[Path(t)] => pc[t] = "none"
    /\ \A i \in 1..Len(todo) :
          /\ pc[todo[i]] = "none" /\ todo[i][2] <= rounds[Path(todo[i])]
          /\ \A j \in 1..Len(todo) : todo[i] = todo[j] => i = j

\* Where the tasks are listed, whatever happens: clear() empties the lists.
LineInv == StagedTasks /\ QueuedTasks /\ CreatedOnce

\* The slot accounting of the scheduler, inductive as long as no clear() comes:
\* a slot is held exactly from the first task of a file in a phase to the last.
SlotInv ==
    /\ CounterExact /\ SlotCoversTasks /\ StagedWillFlush
    /\ GatesOK /\ HoldersBusy /\ LineInv

\* What a phase promises about files: a file is inside from the flush of its staged
\* tasks to the end of its last outstanding one, and asks from its first staged task on.
Phase(q) == INSTANCE SlotSemaphore
    WITH Files <- Hashes, Capacity <- Slots[q],
         inside <- gate[q].holders \ gate[q].granted,
         asking <- gate[q].granted \cup {f \in Hashes : Waits(gate[q], f)}

\* Between two resets each phase is a semaphore for files, whatever happens to the tasks
\* in between: a file asks with its first staged task, enters with the flush of its buffer
\* while there is room, and leaves once, with the end of its last outstanding task
\* (ContainerPluginScheduler.ts 325-340, 376-393).
ImplementsSemaphores ==
    /\ \A q \in Queues : Phase(q)!Init
    /\ [][\A q \in Queues : [Phase(q)!Next]_(Phase(q)!vars)]_vars

\* "queues FIFO" (FileSlotGate.ts:15) for the files of each phase, resets included: a
\* file that stays in the gate's line is passed only by those that stood before it.
FilesFirstComeFirstServed ==
    [][\A q \in Queues : NobodyOvertakes(gate[q], gate'[q])]_vars

\* "Fast takes priority" (line 311): a background task starts only when no fast
\* task is staged, queued or running.
BackgroundYields ==
    [][\A t \in Task :
          (Queue(t) = "background" /\ pc[t] = "queued" /\ pc'[t] = "waiting")
              => \A u \in Task : Queue(u) = "fast" =>
                     pc[u] \notin InJob \cup {"buffered", "queued"}]_vars

\* "Check if all tasks for a file are complete" (line 612): a path is announced
\* by file:complete only when every task tracked for it has ended.
AnnouncedOnlyWhenOver ==
    [][\A p \in Paths :
          (due[p] /\ ~due'[p]) =>
              \A t \in tracked : Path(t) = p =>
                  pc'[t] \in {"resolved", "rejected", "leaving", "gone"}]_vars

\* Every path given to dispatchAllPlugins is announced, duplicates of one
\* content included (lines 614-616), whatever the containers do or leave undone,
\* as long as none reports a status handleCallback() does not know: the job it
\* leaves behind keeps its file open, a slot and a place in the p-queue, and with
\* them any file that comes after.
SomeJobStuck == \E t \in Task : pc[t] = "stuck"

EveryFileCompletes == \A p \in Paths : due[p] ~> ~due[p] \/ SomeJobStuck
-----------------------------------------------------------------------------
\* getQueueStatus() and waitForEmpty(): "drained" is nothing queued in a
\* p-queue and nothing in pendingCallbacks.
ReportsDrained ==
    /\ \A q \in Queues : queue[q] = <<>>
    /\ \A t \in Task : pc[t] # "awaiting"

\* "Wait for both queues to drain (all tasks completed)"
\* (ContainerPluginScheduler.ts:860): whenever a poll of waitForEmpty() finds
\* the queues drained, no task is staged, queued or running.
DrainedMeansDone ==
    EventLoopFree /\ ReportsDrained =>
        \A q \in Queues, f \in Hashes : Outstanding(q, f) = {}

\* "meta-sort receives callback: Marks file-info task complete"
\* (containerized-plugin-architecture.md:510-511): the report of a container
\* that accepted a task ends that task, whichever of the answer to the POST
\* and the callback arrives first.
EveryReportCounts ==
    [][\A t \in Task :
          (container[t] = "working" /\ container'[t] = "reported")
              => pc'[t] \in {"resolved", "rejected"}]_vars
=============================================================================
