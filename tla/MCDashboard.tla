----------------------------- MODULE MCDashboard -----------------------------
(***************************************************************************)
(* What the routes and the monitor show of every state of two files, each  *)
(* with one fast and one background task: the figures against the files    *)
(* and tasks they are said to count.                                       *)
(***************************************************************************)
EXTENDS Integers, Sequences, FiniteSets, FiniteSetsExt, SequencesExt, Functions

D == INSTANCE Dashboard
         WITH MaxItemsPerState <- 2, DoneShown <- 1, PollInterval <- 5, TotalSizeCacheTtl <- 2

-----------------------------------------------------------------------------
(* The states.  A file is not yet known, in a stage without tasks, or in   *)
(* the hash stage with its two tasks, of which the first to run is fast.   *)
(* "accepted" is a dispatched task a container has answered for.           *)

DashFiles == {"f", "g"}
TaskStates == {"pending", "dispatched", "accepted", "completed"}
Situations ==
    {<<"unknown">>, <<"discovered">>, <<"light">>}
        \cup {<<"hash", fast, background>> : fast, background \in TaskStates}
WithTasks(at) == Len(at) = 3

DashTask(f, q, state) ==
    [file |-> f, path |-> f, queue |-> q, plugin |-> q, start |-> {1},
     status |-> IF state = "accepted" THEN "dispatched" ELSE state]
TasksOf(f, at) ==
    IF WithTasks(at) THEN <<DashTask(f, "fast", at[2]), DashTask(f, "background", at[3])>> ELSE <<>>

\* Both gates hold the files whose tasks of the phase are not all over.
Open(at, f, q) ==
    WithTasks(at[f]) /\ at[f][IF q = "fast" THEN 2 ELSE 3] # "completed"
DashGate(at, q) ==
    LET open == SelectSeq(<<"f", "g">>, LAMBDA f : Open(at, f, q))
    IN  [capacity |-> 1, holders |-> D!First(1, open), waiters |-> SubSeq(open, 2, Len(open))]

Containers(at, paused, accepting) ==
    LET tasks == TasksOf("f", at["f"]) \o TasksOf("g", at["g"])
        Accepted(f) ==
            {DashTask(f, q, "accepted") : q \in
                {x \in D!Queues : WithTasks(at[f]) /\ at[f][IF x = "fast" THEN 2 ELSE 3] = "accepted"}}
        Waiting(q) ==
            Cardinality({f \in DashFiles : WithTasks(at[f]) /\ at[f][IF q = "fast" THEN 2 ELSE 3] = "pending"})
    IN  [tasks |-> tasks, callbacks |-> Accepted("f") \cup Accepted("g"),
         queue |-> [q \in D!Queues |-> [size |-> Waiting(q), paused |-> paused]],
         gate |-> [q \in D!Queues |-> DashGate(at, q)],
         current |-> {[file |-> t.file, queue |-> t.queue, plugin |-> t.plugin] :
                         t \in Accepted("f") \cup Accepted("g")},
         left |-> [q \in D!Queues |-> [f \in DashFiles |-> IF Open(at, f, q) THEN 1 ELSE 0]],
         accepting |-> accepting]

Entry(f) == [path |-> f, start |-> {1}, since |-> 1, retries |-> 0]
Stage(at, stage) ==
    [i \in 1..Cardinality({f \in DashFiles : at[f][1] = stage}) |->
        Entry(SelectSeq(<<"f", "g">>, LAMBDA f : at[f][1] = stage)[i])]
States(at) ==
    [discovered |-> Stage(at, "discovered"), light |-> Stage(at, "light"), hash |-> Stage(at, "hash"),
     done |-> <<>>, processed |-> 0, duplicates |-> 0, unique |-> Len(Stage(at, "hash"))]

NoJobs == [pending |-> 0, size |-> 0, paused |-> FALSE]
DashPipeline == [validation |-> [NoJobs EXCEPT !.pending = 1], queue |-> [q \in D!Queues |-> NoJobs], filtered |-> 0]

World(at) ==
    [u |-> States(at), pipeline |-> {DashPipeline}, containers |-> {Containers(at, FALSE, TRUE)},
     tasks |-> {}, pre |-> NoJobs, failed |-> <<>>, totalFailed |-> 0]

Placements == [DashFiles -> Situations]
InState(at, states) ==
    {<<f, i>> \in DashFiles \X {2, 3} : WithTasks(at[f]) /\ at[f][i] \in states}

-----------------------------------------------------------------------------
(* The list of active work names every file of the light and hash stages,  *)
(* a file without a running task once, and nothing that is in neither.     *)
ActiveListIsWhole ==
    \A at \in Placements :
        LET items == D!QueueItems(World(at))
            Times(f) == Cardinality({i \in DOMAIN items : items[i].path = f})
            RunningOf(f) == Cardinality({x \in InState(at, {"dispatched", "accepted"}) : x[1] = f})
        IN  \A f \in DashFiles :
                Times(f) = IF at[f][1] \in {"light", "hash"} THEN Max({1, RunningOf(f)}) ELSE 0
ASSUME ActiveListIsWhole

\* A queue counts each of its tasks once, a file as running or as waiting
\* and never as both, except one the container has not yet answered for,
\* which is in neither count; so the gate can report an empty pipeline
\* while such a task is on its way.
CountsAreOfTasks ==
    \A at \in Placements :
        LET c == Containers(at, FALSE, TRUE)
            status == D!SchedulerStatus(c)
            Of(states, i) == Cardinality({x \in InState(at, states) : x[2] = i})
        IN  /\ status.fast.pending = Of({"pending", "accepted"}, 2)
            /\ status.background.pending = Of({"pending", "accepted"}, 3)
            /\ status.files.fastRunning + status.files.fastWaiting = Of({"pending", "accepted"}, 2)
            /\ D!Drained(c) <=> InState(at, {"pending", "accepted"}) = {}
            /\ \A q \in D!Queues :
                 LET slots == status.cacheSlots[q]
                 IN  /\ slots.inUse <= slots.capacity /\ D!FillPercent(slots) \in 0..100
                     /\ \A i \in DOMAIN slots.holders :
                            /\ slots.holders[i].filePath = {slots.holders[i].fileHash}
                            /\ slots.holders[i].tasksRemaining = 1
ASSUME CountsAreOfTasks

\* What "N total files" over the bar adds up: the files of the hash stage,
\* or the background tasks where there are more, and once more every file
\* with a fast task that waits or runs, and every fast task that runs.  A
\* file in the light or the discovered stage is not in it.
WhatTheBarCounts ==
    \A at \in Placements :
        LET st == D!ProcessingStatus(World(at))
            Of(states, i) == Cardinality({x \in InState(at, states) : x[2] = i})
        IN  /\ D!Progress(st).total =
                   Cardinality({f \in DashFiles : at[f][1] = "hash"})
                   + Of({"pending", "accepted"}, 2) + Of({"accepted"}, 2)
            /\ st.snapshot.awaitingBackground >= 0
            /\ st.computed.fastQueueTotal =
                   2 * Of({"pending"}, 2) + 3 * Of({"accepted"}, 2)
ASSUME WhatTheBarCounts

\* A pause of the pipeline shows as pipelinePaused and never on the cards,
\* which show the schedulers' queues; without a scheduler it shows nowhere
\* else at all.
PauseIsShownOnce ==
    \A at \in {a \in Placements : a["g"] = <<"unknown">>}, containerPaused \in BOOLEAN, started \in BOOLEAN :
        LET w == [World(at) EXCEPT
                     !.pipeline = {D!Paused(DashPipeline, TRUE)},
                     !.containers = IF started THEN {Containers(at, containerPaused, TRUE)} ELSE {}]
            st == D!ProcessingStatus(w)
            cards == D!QueueStats(st, 16, 8)
        IN  /\ st.computed.pipelinePaused
            /\ ~st.computed.fastQueuePaused /\ ~st.computed.preProcessPaused
            /\ D!Badge(cards.fast) = "paused" <=> started /\ containerPaused
            /\ ~D!IsPaused(D!Paused(D!Paused(DashPipeline, TRUE), FALSE))
ASSUME PauseIsShownOnce

\* Before there is a pipeline the first queue is shown with its running and
\* waiting jobs exchanged.
BeforeThePipeline ==
    \A size, pending \in 0..2 :
        LET legacy == [tasks |-> {}, completed |-> {}, classify |-> <<>>,
                       queue |-> [q \in D!Queues |-> [size |-> size, pending |-> pending, paused |-> FALSE]]]
            w == [World([f \in DashFiles |-> <<"unknown">>]) EXCEPT
                     !.pipeline = {}, !.containers = {}, !.tasks = {legacy},
                     !.pre = [size |-> size, pending |-> pending, paused |-> FALSE]]
            computed == D!ProcessingStatus(w).computed
        IN  /\ computed.preProcessRunning = size /\ computed.preProcessPending = pending
            /\ computed.fastQueueRunning = pending
ASSUME BeforeThePipeline

-----------------------------------------------------------------------------
(* Retries.                                                                *)

FileIn(u, f) ==
    Cardinality({list \in {"discovered", "light", "hash"} : f \in D!Paths(u[list])})

\* A retry of a failed file puts it into "discovered", where it is counted
\* by nothing the monitor shows; the list of failures stays as it was, so
\* a second "retry all" sets the same files back again.
RetriesAreNotSeen ==
    \A at \in Placements :
        LET w == [World(at) EXCEPT !.failed = <<"f">>, !.totalFailed = 1]
            retried == D!RetryAll(w, 9)
            after == [w EXCEPT !.u = retried.u]
        IN  /\ retried.queued = 1 /\ "f" \in D!Paths(after.u.discovered)
            /\ after.u = D!RetryFile(w, {"f"}, 9).u
            /\ D!Progress(D!ProcessingStatus(after)) = D!Progress(D!ProcessingStatus(w))
            /\ D!QueueItems(after) = D!QueueItems(w)
            /\ D!FailedFiles(after) = D!FailedFiles(w)
            /\ D!RetryAll(after, 9).u = after.u
            \* and a file that is being processed is then in two stages
            /\ FileIn(after.u, "f") = 1 + (IF at["f"][1] \in {"light", "hash"} THEN 1 ELSE 0)
ASSUME RetriesAreNotSeen

\* retryProcessing() of the state manager does move the file: it leaves
\* every other stage, keeps the time it was discovered and counts.
RetryProcessingMoves ==
    \A at \in Placements :
        LET once == D!RetryProcessing(States(at), "f")
        IN  IF at["f"][1] \in {"light", "hash"}
            THEN /\ once.done /\ FileIn(once.u, "f") = 1
                 /\ D!RetryCount(once.u, "f") = 1
                 /\ D!TotalFileCount(once.u) = D!TotalFileCount(States(at))
                 /\ \A e \in D!FileState(once.u, "f") : e.since = 1
                 /\ ~D!RetryProcessing(once.u, "f").done
            ELSE ~once.done /\ once.u = States(at)
ASSUME RetryProcessingMoves

\* The samples of a snapshot are cut, its totals are not.
SamplesAreCut ==
    \A n, m \in 0..3 :
        LET Listed(k) == [i \in 1..k |-> Entry(ToString(i))]
            u == [States([f \in DashFiles |-> <<"unknown">>]) EXCEPT
                     !.discovered = Listed(n), !.done = Listed(m), !.processed = m + 1]
            shown == D!Snapshot(u)
        IN  /\ Len(shown.discovered) = Min({2, n}) /\ shown.totalDiscovered = n
            /\ IsPrefix(shown.discovered, u.discovered)
            /\ Len(shown.done) = Min({1, m}) /\ shown.totalDone = m + 1
ASSUME SamplesAreCut

-----------------------------------------------------------------------------
(* The waits and the caches.                                               *)

QuietState == Containers([f \in DashFiles |-> <<"unknown">>], FALSE, TRUE)
BusyState == Containers([f \in DashFiles |-> <<"hash", "pending", "pending">>], FALSE, TRUE)

\* wait-empty answers ok exactly when a look before the timeout finds
\* nothing left; a timeout that is no number is over at once, also when
\* there is nothing to wait for.
WaitsForEmpty ==
    \A seen \in TupleOf({QuietState, BusyState}, 3), timeout \in {{0}, {1}, {6}, {99}, {}} :
        LET answer == D!WaitEmpty(World([f \in DashFiles |-> <<"unknown">>]), seen, timeout).status
            looks == IF timeout = {} THEN 0 ELSE (D!The(timeout, 0) + 4) \div 5
        IN  answer = "ok" <=> \E k \in 1..Min({3, looks}) : seen[k] = QuietState
ASSUME WaitsForEmpty

\* The total size is the store's, or what the store said less than a time
\* to live ago; a listing that fails is remembered as a total of nothing.
SizesAreRemembered ==
    \A now \in 0..3, ids \in {{}} \cup {{{}}, {{"a"}}, {{"a", "b"}}}, b \in {{}, {5}, {-1}} :
        LET cache == {[value |-> 3, timestamp |-> 0]}
            kv == {[ids |-> ids, size |-> [id \in {"a", "b"} |-> IF id = "a" THEN {7} ELSE b],
                    memory |-> {}, answers |-> TRUE]}
            sum == CASE ids = {} \/ ids = {{}} -> 0
                     [] ids = {{"a"}} -> 7
                     [] ids = {{"a", "b"}} -> IF b = {5} THEN 12 ELSE 7
            size == D!TotalFileSize(cache, now, kv)
        IN  /\ size.value = IF now < 2 THEN 3 ELSE sum
            /\ D!TotalFileSize(size.cache, now, {}).value = size.value
            /\ D!TotalFileSize({}, now, {}) = [value |-> 0, cache |-> {}]
            /\ D!ShownStats(cache, now, kv).code = IF ids = {} THEN 500 ELSE 200
            /\ D!Health(kv).status = "ok" /\ D!Health({}).status = "degraded"
ASSUME SizesAreRemembered

-----------------------------------------------------------------------------
(* The monitor's polls.                                                    *)

Answers == {[kind |-> "ok", body |-> 1], [kind |-> "refused"], [kind |-> "unreadable"], [kind |-> "thrown"]}
Parts == D!Elements(D!MonitorParts)

\* The parts of a view that a poll leaves old are those refused, all of
\* them when one request is lost, and those after an unreadable answer: a
\* view can show a new status over an old list of files.
ViewsAreMixed ==
    \A answers \in [Parts -> Answers] :
        LET view == D!FetchData([part \in Parts |-> 0], answers)
            New(part) == view[part] = 1
        IN  /\ \A part \in Parts : New(part) => answers[part].kind = "ok"
            /\ (\A part \in Parts : answers[part].kind \in {"ok", "refused"})
                    => \A part \in Parts : New(part) <=> answers[part].kind = "ok"
            /\ (\E part \in Parts : answers[part].kind = "thrown") => \A part \in Parts : ~New(part)
            /\ \A part \in Parts : answers[part].kind = "unreadable" =>
                   \A i, j \in 1..5 : (D!MonitorParts[i] = part /\ i <= j) => ~New(D!MonitorParts[j])
ASSUME ViewsAreMixed

\* A poll is not waited for by the next one: the answers that arrive last
\* stay, whichever was asked first.
LateAnswersStay ==
    \A first, second \in [Parts -> {[kind |-> "ok", body |-> 1], [kind |-> "refused"]}] :
        LET Aged(answers, age) ==
                [part \in Parts |-> IF answers[part].kind = "ok" THEN [kind |-> "ok", body |-> age] ELSE answers[part]]
            newer == D!FetchData([part \in Parts |-> 0], Aged(second, 2))
            older == D!FetchData(newer, Aged(first, 1))
        IN  \A part \in Parts :
                older[part] = IF first[part].kind = "ok" THEN 1 ELSE newer[part]
ASSUME LateAnswersStay

\* Asking the leader for its services fails with a code of its own for each
\* reason; the others are the leader's.
ServicesAnswer ==
    \A manager, leader \in {{}, {1}}, kind \in {"answer", "thrown"}, code \in {200, 404, 500} :
        LET answer == D!Services(manager, leader, [kind |-> kind, code |-> code])
        IN  answer = 200 <=> manager # {} /\ leader # {} /\ kind = "answer" /\ code = 200
ASSUME ServicesAnswer

\* What is reported deleted and what is left are all there was.
CacheIsCleared ==
    \A entries, stuck \in SUBSET {[name |-> "a", directory |-> TRUE], [name |-> "b", directory |-> FALSE]} :
        LET cleared == D!ClearCache(entries, stuck)
        IN  cleared.deletedDirs + cleared.deletedFiles + Cardinality(cleared.left) = Cardinality(entries)
ASSUME CacheIsCleared
=============================================================================
