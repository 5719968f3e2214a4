----------------------------- MODULE TaskScheduler -----------------------------
(***************************************************************************)
(* The tables of class TaskScheduler (plugin-engine/TaskScheduler.ts): it  *)
(* hands the tasks of a recomputation to the ContainerPluginScheduler and  *)
(* reports a file when all of them have ended.                             *)
(*                                                                         *)
(* The ContainerPluginScheduler has a module of its own; here it is a set  *)
(* of tasks in flight, the pipeline's among them, that end in any order.   *)
(* A task is known by the id the container scheduler gave it: the id of    *)
(* createTaskForPlugin() is replaced in the same turn of the event loop.   *)
(*                                                                         *)
(* Not modelled: the two p-queues, which no task enters any more; the      *)
(* key-value stores; createTasksForFile() and cancelFile(), which nothing  *)
(* calls; a closed gate, as nothing calls setGate().                       *)
(***************************************************************************)
EXTENDS Naturals, FiniteSets

CONSTANTS
    Hashes,       \* files, by their hash
    MaxTasks,     \* bound: tasks in all
    MaxResets     \* bound: resets of the pipeline

ASSUME TaskSchedulerAssumption == MaxTasks \in Nat /\ MaxResets \in Nat

Tasks == 1..MaxTasks

VARIABLES
    pendingTasks,     \* keys of pendingTasks
    completedTasks,
    fileTasks,        \* tasks of each file; none is a missing entry of the map
    place,            \* of each task in the container scheduler: "new", "queued",
                      \* "running", "rejected" (it has failed, and executeTask() will
                      \* report that once more), "over", or "dropped" by a reset
    hashOf,           \* file of each task
    asked,            \* tasks of recomputations: the others are the pipeline's
    unreported,       \* tasks asked for that ended since their file was reported
    resets

taskVars == <<pendingTasks, completedTasks, fileTasks, place, hashOf, asked, unreported, resets>>

TaskInit ==
    /\ pendingTasks = {} /\ completedTasks = {} /\ asked = {} /\ unreported = {}
    /\ fileTasks = [h \in Hashes |-> {}]
    /\ place = [t \in Tasks |-> "new"]
    /\ hashOf \in [Tasks -> Hashes]
    /\ resets = 0

At(where) == {t \in Tasks : place[t] = where}
InFlight == At("queued") \cup At("running")
Of(h) == {t \in Tasks : hashOf[t] = h}

\* The ids are random and all alike: tasks are numbered in the order they are made.
NextTasks(new) == new \subseteq At("new") /\ \A t \in new, s \in At("new") \ new : t < s

-----------------------------------------------------------------------------
\* A task the pipeline dispatches: this scheduler hears of it when it ends.
DispatchAllPlugins(t) ==
    /\ NextTasks({t})
    /\ place' = [place EXCEPT ![t] = "queued"]
    /\ UNCHANGED <<pendingTasks, completedTasks, fileTasks, hashOf, asked, unreported, resets>>

\* BUG variant: a file keeps the tasks it already has.
MutantRegister(new) ==
    /\ pendingTasks' = pendingTasks \cup new
    /\ fileTasks' = [h \in Hashes |->
           IF fileTasks[h] = {} THEN new \cap Of(h) ELSE fileTasks[h]]

\* The keys under which tasks end up once the container scheduler has named them.
Register(new) ==
    /\ pendingTasks' = pendingTasks \cup new
    /\ fileTasks' = [h \in Hashes |-> fileTasks[h] \cup (new \cap Of(h))]

\* createTasksForPluginOnFiles() and enqueueTasks() run in one turn.
Recompute(new) ==
    /\ NextTasks(new) /\ \A h \in Hashes : Cardinality(new \cap Of(h)) <= 1
    /\ place' = [t \in Tasks |-> IF t \in new THEN "queued" ELSE place[t]]
    /\ asked' = asked \cup new
    /\ Register(new)
    /\ UNCHANGED <<completedTasks, hashOf, unreported, resets>>

Start(t) ==
    /\ t \in At("queued")
    /\ place' = [place EXCEPT ![t] = "running"]
    /\ UNCHANGED <<pendingTasks, completedTasks, fileTasks, hashOf, asked, unreported, resets>>

\* checkFileComplete: a file is reported when every task it has is completed.
Complete(h, completed) == fileTasks[h] # {} /\ fileTasks[h] \subseteq completed

\* onContainerTaskComplete, on task:completed and on task:failed.
OnContainerTaskComplete(t) ==
    LET completed == completedTasks \cup {t}
        h == hashOf[t]
        ended == IF t \in asked /\ t \in pendingTasks THEN unreported \cup {t} ELSE unreported
    IN  /\ pendingTasks' = pendingTasks \ {t}
        /\ IF Complete(h, completed)
           THEN /\ fileTasks' = [fileTasks EXCEPT ![h] = {}]
                /\ completedTasks' = completed \ fileTasks[h]
                /\ unreported' = ended \ fileTasks[h]
           ELSE /\ completedTasks' = completed
                /\ unreported' = ended
                /\ UNCHANGED fileTasks

\* A task ends: completed, skipped, timed out, or failed before it was sent.
EndTask(t) ==
    /\ t \in At("running")
    /\ place' = [place EXCEPT ![t] = "over"]
    /\ OnContainerTaskComplete(t)
    /\ UNCHANGED <<hashOf, asked, resets>>

\* handleCallback with status "failed" reports the failure and rejects the promise ...
FailTask(t) ==
    /\ t \in At("running")
    /\ place' = [place EXCEPT ![t] = "rejected"]
    /\ OnContainerTaskComplete(t)
    /\ UNCHANGED <<hashOf, asked, resets>>

\* ... and executeTask, which awaits it, reports it again.
FailAgain(t) ==
    /\ t \in At("rejected")
    /\ place' = [place EXCEPT ![t] = "over"]
    /\ OnContainerTaskComplete(t)
    /\ UNCHANGED <<hashOf, asked, resets>>

\* A reset of the pipeline clears the container scheduler without a word to this one:
\* what is queued is gone, what is running will end.
Reset ==
    /\ resets < MaxResets
    /\ resets' = resets + 1
    /\ place' = [t \in Tasks |-> IF place[t] = "queued" THEN "dropped" ELSE place[t]]
    /\ UNCHANGED <<pendingTasks, completedTasks, fileTasks, hashOf, asked, unreported>>

\* The process ends: nothing of this is kept.
TaskExit ==
    /\ place' = [t \in Tasks |-> IF place[t] = "new" THEN "new" ELSE "over"]
    /\ pendingTasks' = {} /\ completedTasks' = {} /\ unreported' = {}
    /\ fileTasks' = [h \in Hashes |-> {}]
    /\ UNCHANGED <<hashOf, asked, resets>>

TaskStep ==
    \/ \E t \in Tasks :
           \/ DispatchAllPlugins(t) \/ Start(t)
           \/ EndTask(t) \/ FailTask(t) \/ FailAgain(t)
    \/ Reset

TaskNext == TaskStep \/ TaskExit \/ \E new \in SUBSET Tasks : Recompute(new)

TaskSpec == TaskInit /\ [][TaskNext]_taskVars

-----------------------------------------------------------------------------
TaskTypeOK ==
    /\ pendingTasks \subseteq Tasks /\ completedTasks \subseteq Tasks
    /\ asked \subseteq Tasks /\ unreported \subseteq Tasks
    /\ fileTasks \in [Hashes -> SUBSET Tasks]
    /\ place \in [Tasks -> {"new", "queued", "running", "rejected", "over", "dropped"}]
    /\ hashOf \in [Tasks -> Hashes]
    /\ resets \in 0..MaxResets

\* What the scheduler waits for is what it asked for: its pending tasks are those still
\* in flight, and those a reset dropped.
WaitsForItsOwn == pendingTasks = asked \cap (InFlight \cup At("dropped"))

\* A recomputed file is reported: once none of its tasks is pending, every task of it
\* that ended has been reported, however the tasks of several recomputations and of
\* the pipeline end, and although a failure is reported twice (TaskScheduler.ts
\* 120-137, 330-371, 396-436).
Reported ==
    \A t \in unreported : \E s \in pendingTasks : hashOf[s] = hashOf[t]

Accounted == WaitsForItsOwn /\ Reported
=============================================================================
