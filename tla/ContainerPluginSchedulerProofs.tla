-------------------- MODULE ContainerPluginSchedulerProofs --------------------
(***************************************************************************)
(* Theorems about the scheduler, for every set of files and plugins, every *)
(* capacity and every operation of the environment, clear() included.      *)
(*                                                                         *)
(*   TypeOK      the types, with the gates';                               *)
(*   LineInv     every task that waits is in one line, once: its file's    *)
(*               buffer or a p-queue, never both;                          *)
(*   ResetInv    what clear() leaves of SlotInv, and that the background   *)
(*               queue runs only when no fast task is staged, queued or    *)
(*               running;                                                  *)
(*   EndedTasks  a task with a final status has nothing left to run.       *)
(*                                                                         *)
(* Together they are inductive under all of Next.  Between two resets      *)
(* (SteadySpec) the slot accounting SlotInv is inductive too, and with it  *)
(* at most Slots[q] files are in flight in phase q: the last part.         *)
(***************************************************************************)
EXTENDS ContainerPluginScheduler, SlotGateProofs

\* What a task names: its path, plugin, file, phase and round.
LEMMA TaskTypes ==
    \A t \in Task : /\ Path(t) \in Paths /\ Plugin(t) \in Plugins
                    /\ File(t) \in Hashes /\ Queue(t) \in Queues
                    /\ Deps(t) \subseteq Plugins
                    /\ t[2] \in 1..MaxRounds
  BY SchedulerAssumption DEF SchedulerAssumption, Task, Path, Plugin, File, Queue, Deps

\* acquire(), release() and the observation of a grant keep the gate's type.
LEMMA GateTypes ==
    ASSUME NEW g \in GateStates, NEW f \in Hashes, NEW capacity
    PROVE  /\ Acquired(g, f, capacity) \in GateStates
           /\ Released(g, f) \in GateStates
           /\ Observed(g, f) \in GateStates
  <1> USE DEF GateStates
  <1>1. Append(g.waiters, f) \in Seq(Hashes)
    BY AppendProperties
  <1>2. ASSUME g.waiters # <<>>
        PROVE  Head(g.waiters) \in Hashes /\ Tail(g.waiters) \in Seq(Hashes)
    BY <1>2, HeadTailProperties
  <1>3. QED
    BY <1>1, <1>2 DEF Acquired, Released, Observed

\* release() of every holder keeps the gate's type.
LEMMA ReleasedAllType ==
    ASSUME NEW g \in GateStates
    PROVE  ReleasedAll(g) \in GateStates
  <1> USE DEF GateStates
  <1> DEFINE k == IF Cardinality(g.holders) < Len(g.waiters)
                  THEN Cardinality(g.holders) ELSE Len(g.waiters)
  <1>1. IsFiniteSet(g.holders)
    BY SchedulerAssumption, FS_Subset DEF SchedulerAssumption
  <1>2. Cardinality(g.holders) \in Nat
    BY <1>1, FS_CardinalityType
  <1>3. Len(g.waiters) \in Nat /\ \A i \in 1..Len(g.waiters) : g.waiters[i] \in Hashes
    BY LenProperties, ElementOfSeq
  <1>4. k \in Nat /\ k <= Len(g.waiters)
    BY <1>2, <1>3
  <1>5. SubSeq(g.waiters, k + 1, Len(g.waiters)) \in Seq(Hashes)
    BY <1>3, <1>4, SubSeqProperties
  <1>6. {g.waiters[i] : i \in 1..k} \subseteq Hashes
    BY <1>3, <1>4
  <1>7. QED
    BY <1>5, <1>6 DEF ReleasedAll

\* The end of a job keeps the types, whatever final status it gives the task.
LEMMA EndJobType ==
    ASSUME TypeOK, NEW t \in Task, NEW st \in [Task -> Statuses], EndJob(t, st),
           records' \in [Task -> Nat]
    PROVE  TypeOK'
  <1> USE DEF TypeOK
  <1>1. /\ Path(t) \in Paths /\ Plugin(t) \in Plugins
        /\ File(t) \in Hashes /\ Queue(t) \in Queues
    BY TaskTypes
  <1>2. /\ status' \in [Task -> Statuses]
        /\ tracked' \subseteq Task
        /\ done' \in [Hashes -> SUBSET Plugins]
        /\ waiters' \subseteq Task \X Plugins
        /\ due' \in [Paths -> BOOLEAN]
    <2> DEFINE mine == {u \in tracked : File(u) = File(t)}
    <2>1. "pending" \in Statuses
      BY DEF Statuses
    <2>2. CASE ~FileOver(File(t), st)
      <3>1. /\ status' = [st EXCEPT ![t] = IF t \in tracked THEN @ ELSE "pending"]
            /\ UNCHANGED fileVars
        BY <2>2 DEF EndJob, CheckFileCompletion
      <3>2. QED
        BY <2>1, <3>1 DEF fileVars
    <2>3. CASE FileOver(File(t), st)
      <3>1. /\ status' = [u \in Task |-> IF u \in mine \cup {t} THEN "pending" ELSE st[u]]
            /\ tracked' = tracked \ mine
            /\ done' = [done EXCEPT ![File(t)] = {}]
            /\ waiters' = {w \in waiters : File(w[1]) # File(t)}
            /\ due' = [p \in Paths |-> due[p] /\ \A u \in mine : Path(u) # p]
        BY <2>3, Zenon DEF EndJob, CheckFileCompletion
      <3>2. due' \in [Paths -> BOOLEAN]
        BY <3>1, Zenon
      <3>3. QED
        BY <1>1, <2>1, <3>1, <3>2
    <2>4. QED
      BY <2>2, <2>3
  <1>3. counter' \in [Queues -> [Hashes -> Nat]] /\ gate' \in [Queues -> GateStates]
    <2> DEFINE q == Queue(t)
               f == File(t)
    <2>1. counter[q][f] \in Nat /\ Released(gate[q], f) \in GateStates
      BY <1>1, GateTypes
    <2>2. CASE counter[q][f] <= 1
      <3>1. /\ counter' = [counter EXCEPT ![q][f] = 0]
            /\ gate' = [gate EXCEPT ![q] = Released(@, f)]
        BY <2>1, <2>2 DEF EndJob, OnTaskFinished
      <3>2. QED
        BY <1>1, <2>1, <3>1
    <2>3. CASE counter[q][f] > 1
      <3>1. /\ counter' = [counter EXCEPT ![q][f] = @ - 1]
            /\ gate' = gate
        BY <2>1, <2>3 DEF EndJob, OnTaskFinished
      <3>2. QED
        BY <1>1, <2>1, <2>3, <3>1
    <2>4. QED
      BY <2>1, <2>2, <2>3
  <1>4. pc' \in [Task -> Stages] /\ container' \in [Task -> {"none", "working", "reported"}]
    BY DEF EndJob, Stages
  <1>5. QED
    BY <1>2, <1>3, <1>4 DEF EndJob, loopVars

\* Init establishes the types and every action of the scheduler keeps them.
LEMMA TypeInductive ==
    /\ Init => TypeOK
    /\ TypeOK /\ [Next]_vars => TypeOK'
  <1> USE DEF TypeOK
  <1>1. Init => TypeOK
    <2> SUFFICES ASSUME Init
                 PROVE  TypeOK
      OBVIOUS
    <2>1. <<>> \in Seq(Task) /\ <<>> \in Seq(Hashes)
      BY EmptySeq
    <2>2. EmptyGate \in GateStates
      BY <2>1 DEF EmptyGate, GateStates
    <2>3. paused \in [Queues -> BOOLEAN]
      BY Zenon DEF Init
    <2>4. rounds \in [Paths -> 0..MaxRounds] /\ clears \in 0..MaxClears
      BY SchedulerAssumption DEF Init, SchedulerAssumption
    <2>5. pc \in [Task -> Stages] /\ status \in [Task -> Statuses]
      BY DEF Init, Stages, Statuses
    <2>6. buffer \in [Queues -> [Hashes -> Seq(Task)]]
      BY <2>1 DEF Init
    <2>7. counter \in [Queues -> [Hashes -> Nat]]
      BY DEF Init
    <2>8. QED
      BY <2>1, <2>2, <2>3, <2>4, <2>5, <2>6, <2>7 DEF Init
  <1>2. ASSUME TypeOK, [Next]_vars
        PROVE  TypeOK'
    <2> USE <1>2
    <2>1. ASSUME NEW p \in Paths, Submit(p)
          PROVE  TypeOK'
      <3>1. PICK list \in [1..Cardinality(healthy) -> healthy] :
                todo' = [i \in DOMAIN list |-> <<p, rounds[p] + 1, list[i]>>]
        BY <2>1 DEF Submit
      <3>2. rounds' \in [Paths -> 0..MaxRounds] /\ rounds[p] + 1 \in 1..MaxRounds
        BY <2>1, SchedulerAssumption DEF Submit, SchedulerAssumption
      <3>3. Cardinality(healthy) \in Nat
        BY SchedulerAssumption, FS_Subset, FS_CardinalityType DEF SchedulerAssumption
      <3>4. todo' \in Seq(Task)
        BY <3>1, <3>2, <3>3, IsASeq DEF Task
      <3>5. QED
        BY <2>1, <3>2, <3>4 DEF Submit, fileVars, slotVars, worldVars
    <2>2. ASSUME NEW p \in Paths, NEW x \in Plugins, Recompute(p, x)
          PROVE  TypeOK'
      <3>1. rounds' \in [Paths -> 0..MaxRounds] /\ rounds[p] + 1 \in 1..MaxRounds
        BY <2>2, SchedulerAssumption DEF Recompute, SchedulerAssumption
      <3>2. todo' \in Seq(Task)
        BY <2>2, <3>1 DEF Recompute, Task
      <3>3. QED
        BY <2>2, <3>1, <3>2 DEF Recompute, fileVars, slotVars, worldVars
    <2>3. ASSUME RejectTask
          PROVE  TypeOK'
      <3>1. todo' \in Seq(Task) /\ Head(todo) \in Task
        BY <2>3, HeadTailProperties DEF RejectTask
      <3>2. QED
        BY <2>3, <3>1 DEF RejectTask, fileVars, slotVars, worldVars, Stages
    <2>4. ASSUME EnqueueTask
          PROVE  TypeOK'
      <3> DEFINE t == Head(todo)
                 q == Queue(t)
                 f == File(t)
      <3>1. todo' \in Seq(Task) /\ t \in Task
        BY <2>4, HeadTailProperties DEF EnqueueTask
      <3>2. f \in Hashes /\ q \in Queues /\ Path(t) \in Paths
        BY <3>1, TaskTypes
      <3>3. Append(queue[q], t) \in Seq(Task) /\ Append(buffer[q][f], t) \in Seq(Task)
        BY <3>1, <3>2, AppendProperties
      <3>4. Acquired(gate[q], f, Slots[q]) \in GateStates
        BY <3>2, GateTypes
      <3>5. /\ queue' \in [Queues -> Seq(Task)]
            /\ buffer' \in [Queues -> [Hashes -> Seq(Task)]]
            /\ gate' \in [Queues -> GateStates]
            /\ pc' \in [Task -> Stages]
        <4>1. Place(t, q, f)
          BY <2>4 DEF EnqueueTask
        <4>2. CASE Holds(gate[q], f)
          BY <3>1, <3>2, <3>3, <4>1, <4>2 DEF Place, Stages
        <4>3. CASE ~Holds(gate[q], f)
          <5>1. /\ buffer' = [buffer EXCEPT ![q][f] = Append(@, t)]
                /\ gate' \in {gate, [gate EXCEPT ![q] = Acquired(@, f, Slots[q])]}
                /\ pc' = [pc EXCEPT ![t] = "buffered"]
                /\ queue' = queue
            BY <4>1, <4>3 DEF Place
          <5>2. gate' \in [Queues -> GateStates]
            BY <3>2, <3>4, <5>1
          <5>3. QED
            BY <3>1, <3>2, <3>3, <5>1, <5>2 DEF Stages
        <4>4. QED
          BY <4>2, <4>3
      <3>6. /\ tracked' \subseteq Task
            /\ due' \in [Paths -> BOOLEAN]
            /\ counter' \in [Queues -> [Hashes -> Nat]]
        BY <2>4, <3>1, <3>2 DEF EnqueueTask
      <3>7. paused' \in [Queues -> BOOLEAN]
        <4>1. CASE q = "fast"
          <5>1. paused' = [paused EXCEPT !["background"] = TRUE]
            BY <2>4, <4>1 DEF EnqueueTask, PauseBackground
          <5>2. QED
            BY <5>1
        <4>2. CASE q # "fast"
          <5>1. paused' = [paused EXCEPT !["background"] = @]
            BY <2>4, <4>2 DEF EnqueueTask, PauseBackground
          <5>2. QED
            BY <5>1
        <4>3. QED
          BY <4>1, <4>2
      <3>8. QED
        BY <2>4, <3>1, <3>5, <3>6, <3>7 DEF EnqueueTask, worldVars
    <2>5. ASSUME NEW q \in Queues, NEW f \in Hashes, Flush(q, f)
          PROVE  TypeOK'
      <3>1. queue[q] \o buffer[q][f] \in Seq(Task) /\ <<>> \in Seq(Task)
        BY ConcatProperties, EmptySeq
      <3>2. FlushedGate(q, f) \in GateStates
        BY GateTypes DEF FlushedGate
      <3>3. /\ queue' \in [Queues -> Seq(Task)]
            /\ buffer' \in [Queues -> [Hashes -> Seq(Task)]]
            /\ gate' \in [Queues -> GateStates]
        BY <2>5, <3>1, <3>2 DEF Flush
      <3>4. pc' \in [Task -> Stages]
        BY <2>5 DEF Flush, Stages
      <3>5. QED
        BY <2>5, <3>3, <3>4 DEF Flush, loopVars, fileVars, worldVars
    <2>6. ASSUME NEW q \in Queues, StartJob(q)
          PROVE  TypeOK'
      <3> DEFINE t == Head(queue[q])
      <3>1. t \in Task /\ Tail(queue[q]) \in Seq(Task)
        BY <2>6, HeadTailProperties DEF StartJob, Startable
      <3>2. Deps(t) \subseteq Plugins
        BY <3>1, TaskTypes
      <3>3. /\ queue' \in [Queues -> Seq(Task)]
            /\ awaits' \in [Task -> SUBSET Plugins]
            /\ waiters' \subseteq Task \X Plugins
        BY <2>6, <3>1, <3>2 DEF StartJob
      <3>4. pc' \in [Task -> Stages] /\ status' \in [Task -> Statuses]
        BY <2>6, <3>1 DEF StartJob, Stages, InJob, Statuses
      <3>5. QED
        BY <2>6, <3>3, <3>4 DEF StartJob, loopVars, slotVars, worldVars
    <2>7. ASSUME NEW t \in Task, TaskStep(t)
          PROVE  TypeOK'
      <3> USE DEF Stages, InJob, Statuses, Terminal, loopVars, fileVars, slotVars, worldVars
      <3>1. CASE Dispatch(t)
        BY <3>1 DEF Dispatch
      <3>2. CASE FailUnhealthy(t)
        BY <3>2, EndJobType DEF FailUnhealthy
      <3>3. CASE Settle(t)
        BY <3>3, EndJobType DEF Settle
      <3>4. CASE SettleWithError(t)
        <4>1. [status EXCEPT ![t] = "failed"] \in [Task -> Statuses]
          OBVIOUS
        <4>2. records' \in [Task -> Nat]
          BY <3>4 DEF SettleWithError
        <4>3. EndJob(t, [status EXCEPT ![t] = "failed"])
          BY <3>4 DEF SettleWithError
        <4>4. QED
          BY <4>1, <4>2, <4>3, EndJobType
      <3>5. CASE JobLeaves(t)
        <4>1. \/ paused' = paused
              \/ paused' = [paused EXCEPT !["background"] =
                               @ /\ queue["background"] = <<>> /\ Pending("background") = {}]
          BY <3>5, Zenon DEF JobLeaves, OnFastQueueIdle
        <4>2. paused' \in [Queues -> BOOLEAN]
          BY <4>1, Zenon
        <4>3. QED
          BY <3>5, <4>2 DEF JobLeaves
      <3>6. CASE CallbackTimeout(t)
        BY <3>6 DEF CallbackTimeout
      <3>7. CASE \E x \in Plugins : DependencyTimeout(t, x)
        BY <3>7 DEF DependencyTimeout
      <3>8. QED
        BY <2>7, <3>1, <3>2, <3>3, <3>4, <3>5, <3>6, <3>7 DEF TaskStep
    <2>8. ASSUME NEW t \in Task, OutsideStep(t)
          PROVE  TypeOK'
      <3> USE DEF Stages, InJob, Statuses, Terminal, loopVars, fileVars, slotVars, worldVars
      <3>1. CASE ContainerAccepts(t)
        BY <3>1 DEF ContainerAccepts
      <3>2. CASE PostAccepted(t)
        BY <3>2 DEF PostAccepted
      <3>3. CASE PostFails(t)
        BY <3>3 DEF PostFails
      <3>4. ASSUME NEW r \in Reports, Callback(t, r)
            PROVE  TypeOK'
        <4>1. CASE TakeReport(t, r)
          <5> DEFINE woken == {w \in waiters : File(w[1]) = File(t) /\ w[2] = Plugin(t)}
          <5>1. /\ status' = [status EXCEPT ![t] = IF r = "failed" THEN "failed" ELSE "completed"]
                /\ pc' = [pc EXCEPT ![t] = IF r = "failed" THEN "rejected" ELSE "resolved"]
                /\ records' = [records EXCEPT ![t] = @ + 1]
                /\ done' = [done EXCEPT ![File(t)] = @ \cup {Plugin(t)}]
                /\ awaits' = [u \in Task |-> IF <<u, Plugin(t)>> \in woken
                                             THEN awaits[u] \ {Plugin(t)} ELSE awaits[u]]
                /\ waiters' = waiters \ woken
            BY <4>1 DEF TakeReport
          <5>2. done' \in [Hashes -> SUBSET Plugins]
            BY <5>1, TaskTypes
          <5>3. awaits' \in [Task -> SUBSET Plugins]
            BY <5>1
          <5>4. QED
            BY <3>4, <5>1, <5>2, <5>3 DEF Callback
        <4>2. CASE SwallowReport(t, r) \/ DropReport(t)
          BY <3>4, <4>2 DEF Callback, SwallowReport, DropReport
        <4>3. QED
          BY <3>4, <4>1, <4>2 DEF Callback
      <3>5. QED
        BY <2>8, <3>1, <3>2, <3>3, <3>4 DEF OutsideStep
    <2>9. ASSUME NEW x \in Plugins, HealthChanges(x)
          PROVE  TypeOK'
      BY <2>9 DEF HealthChanges, loopVars, fileVars, slotVars
    <2>10. ASSUME NEW f \in Hashes, CancelFile(f)
           PROVE  TypeOK'
      BY <2>10 DEF CancelFile, loopVars, slotVars, worldVars, Stages, InJob
    <2>11. ASSUME SetGate \/ Pause \/ Resume
           PROVE  TypeOK'
      BY <2>11 DEF SetGate, Pause, Resume, loopVars, fileVars, slotVars, worldVars
    <2>12. ASSUME Clear
           PROVE  TypeOK'
      <3>1. gate' \in [Queues -> GateStates]
        BY <2>12, ReleasedAllType DEF Clear
      <3>2. clears' \in 0..MaxClears
        BY <2>12, SchedulerAssumption DEF Clear, SchedulerAssumption
      <3>3. pc' \in [Task -> Stages]
        BY <2>12 DEF Clear, Stages, InJob
      <3>4. QED
        BY <2>12, <3>1, <3>2, <3>3, EmptySeq DEF Clear, loopVars
    <2>13. ASSUME UNCHANGED vars
           PROVE  TypeOK'
      BY <2>13 DEF vars, loopVars, fileVars, slotVars, worldVars
    <2>14. QED
      BY <2>1, <2>2, <2>3, <2>4, <2>5, <2>6, <2>7, <2>8, <2>9, <2>10, <2>11, <2>12,
         <2>13
      DEF Next, Steady, QueueStep
  <1>3. QED
    BY <1>1, <1>2

\* The variables keep their types in every reachable state, resets included.
THEOREM SchedulerTypes == Spec => []TypeOK
  BY TypeInductive, PTL DEF Spec

\* There are finitely many tasks, so the outstanding ones of a file can be counted.
LEMMA TasksFinite ==
    IsFiniteSet(Task) /\ \A q \in Queues, f \in Hashes :
                             /\ IsFiniteSet(Outstanding(q, f))
                             /\ Cardinality(Outstanding(q, f)) \in Nat
  <1>1. IsFiniteSet(1..MaxRounds)
    BY SchedulerAssumption, FS_Interval DEF SchedulerAssumption
  <1> DEFINE pairs == Paths \X ((1..MaxRounds) \X Plugins)
             flat == [x \in pairs |-> <<x[1], x[2][1], x[2][2]>>]
  <1>2. IsFiniteSet(pairs)
    <2>1. IsFiniteSet((1..MaxRounds) \X Plugins)
      BY <1>1, SchedulerAssumption, FS_Product DEF SchedulerAssumption
    <2>2. QED
      BY <2>1, SchedulerAssumption, FS_Product DEF SchedulerAssumption
  <1>3. IsFiniteSet(Task)
    <2>1. flat \in Surjection(pairs, Task)
      <3>1. flat \in [pairs -> Task]
        BY DEF Task
      <3>2. \A t \in Task : \E x \in pairs : flat[x] = t
        <4> SUFFICES ASSUME NEW t \in Task
                     PROVE  \E x \in pairs : flat[x] = t
          OBVIOUS
        <4>1. <<t[1], <<t[2], t[3]>>>> \in pairs
          BY DEF Task
        <4>2. flat[<<t[1], <<t[2], t[3]>>>>] = t
          BY <4>1 DEF Task
        <4>3. QED
          BY <4>1, <4>2
      <3>3. QED
        BY <3>1, <3>2 DEF Surjection
    <2>2. QED
      BY <1>2, <2>1, FS_Surjection
  <1>4. QED
    BY <1>3, FS_Subset, FS_CardinalityType DEF Outstanding

\* A step that leaves a task outstanding or not, for every task, leaves the set of
\* outstanding tasks of each file and phase as it was.
LEMMA OutstandingSame ==
    ASSUME \A t \in Task : pc'[t] \in InJob \cup {"buffered", "queued"}
                             <=> pc[t] \in InJob \cup {"buffered", "queued"}
    PROVE  \A q \in Queues, f \in Hashes : Outstanding(q, f)' = Outstanding(q, f)
  BY DEF Outstanding

\* Two lists without repetitions or common elements, one after the other.
LEMMA ConcatDistinct ==
    ASSUME NEW S, NEW a \in Seq(S), NEW b \in Seq(S),
           \A i, j \in 1..Len(a) : a[i] = a[j] => i = j,
           \A i, j \in 1..Len(b) : b[i] = b[j] => i = j,
           \A i \in 1..Len(a), j \in 1..Len(b) : a[i] # b[j]
    PROVE  /\ \A k \in 1..Len(a \o b) : \/ \E i \in 1..Len(a) : (a \o b)[k] = a[i]
                                        \/ \E i \in 1..Len(b) : (a \o b)[k] = b[i]
           /\ \A k, l \in 1..Len(a \o b) : (a \o b)[k] = (a \o b)[l] => k = l
  <1> DEFINE c == a \o b
             n == Len(a)
             m == Len(b)
  <1>1. /\ n \in Nat /\ m \in Nat
        /\ Len(c) = n + m
        /\ \A k \in 1..(n + m) : c[k] = IF k <= n THEN a[k] ELSE b[k - n]
    <2>1. n \in Nat /\ m \in Nat
      BY LenProperties
    <2>2. Len(c) = n + m /\ \A k \in 1..(n + m) : c[k] = IF k <= n THEN a[k] ELSE b[k - n]
      BY ConcatProperties
    <2>3. QED
      BY <2>1, <2>2
  <1> HIDE DEF c, n, m
  <1>2. ASSUME NEW k \in 1..(n + m)
        PROVE  (k \in 1..n /\ c[k] = a[k]) \/ (k - n \in 1..m /\ c[k] = b[k - n])
    <2>1. CASE k <= n
      BY <1>1, <2>1
    <2>2. CASE ~(k <= n)
      BY <1>1, <2>2
    <2>3. QED
      BY <2>1, <2>2
  <1>3. ASSUME NEW k \in 1..(n + m), NEW l \in 1..(n + m), c[k] = c[l]
        PROVE  k = l
    <2>1. CASE k \in 1..n /\ c[k] = a[k]
      <3>1. l \in 1..n /\ c[l] = a[l]
        BY <1>2, <1>3, <2>1 DEF n, m
      <3>2. QED
        BY <1>3, <2>1, <3>1 DEF n
    <2>2. CASE k - n \in 1..m /\ c[k] = b[k - n]
      <3>1. l - n \in 1..m /\ c[l] = b[l - n]
        BY <1>2, <1>3, <2>2 DEF n, m
      <3>2. k - n = l - n
        BY <1>3, <2>2, <3>1 DEF m
      <3>3. QED
        BY <1>1, <3>2
    <2>3. QED
      BY <1>2, <2>1, <2>2
  <1>4. QED
    BY <1>1, <1>2, <1>3 DEF c, n, m

\* A step that changes no list of tasks and no stage before a job.
LEMMA QuietKeepsLines ==
    ASSUME TypeOK, LineInv, UNCHANGED <<buffer, queue, rounds, todo>>,
           \A t \in Task : pc[t] \in {"none", "buffered", "queued"} => pc'[t] = pc[t]
    PROVE  LineInv'
  <1>1. /\ \A r \in Queues, h \in Hashes : \A i \in 1..Len(buffer[r][h]) :
              buffer[r][h][i] \in Task
        /\ \A r \in Queues : \A i \in 1..Len(queue[r]) : queue[r][i] \in Task
        /\ \A i \in 1..Len(todo) : todo[i] \in Task
    BY ElementOfSeq DEF TypeOK
  <1>2. StagedTasks'
    BY <1>1 DEF LineInv, StagedTasks
  <1>3. QueuedTasks'
    BY <1>1 DEF LineInv, QueuedTasks
  <1>4. CreatedOnce'
    BY <1>1 DEF LineInv, CreatedOnce
  <1>5. QED
    BY <1>2, <1>3, <1>4 DEF LineInv

\* A task enters the p-queue's line or its file's buffer.
LEMMA EnqueueTaskKeepsLines ==
    ASSUME TypeOK, LineInv, EnqueueTask, NEW t \in Task, t = Head(todo)
    PROVE  LineInv'
  <1> DEFINE q == Queue(t)
             f == File(t)
  <1>1. /\ t \in Task /\ q \in Queues /\ f \in Hashes
        /\ t = todo[1] /\ 1 \in 1..Len(todo)
        /\ pc[t] = "none" /\ t[2] <= rounds[Path(t)]
    <2>1. todo \in Seq(Task) /\ todo # <<>>
      BY DEF TypeOK, EnqueueTask
    <2>2. t \in Task /\ t = todo[1] /\ 1 \in 1..Len(todo)
      BY <2>1, HeadTailProperties, EmptySeq
    <2>3. q \in Queues /\ f \in Hashes
      BY <2>2, TaskTypes
    <2>4. QED
      BY <2>2, <2>3 DEF LineInv, CreatedOnce
  <1>2. /\ pc' \in {[pc EXCEPT ![t] = "queued"], [pc EXCEPT ![t] = "buffered"]}
        /\ counter' = [counter EXCEPT ![q][f] = @ + 1]
        /\ todo' = Tail(todo)
        /\ rounds' = rounds
        /\ pc \in [Task -> Stages]
    BY DEF EnqueueTask, Place, TypeOK
  <1>3. /\ buffer \in [Queues -> [Hashes -> Seq(Task)]]
        /\ queue \in [Queues -> Seq(Task)]
        /\ \A r \in Queues, h \in Hashes : \A i \in 1..Len(buffer[r][h]) :
              buffer[r][h][i] \in Task
        /\ \A r \in Queues : \A i \in 1..Len(queue[r]) : queue[r][i] \in Task
    <2>1. /\ buffer \in [Queues -> [Hashes -> Seq(Task)]]
          /\ queue \in [Queues -> Seq(Task)]
      BY DEF TypeOK
    <2>2. \A r \in Queues : queue[r] \in Seq(Task) /\ \A h \in Hashes : buffer[r][h] \in Seq(Task)
      BY <2>1
    <2>3. \A s \in Seq(Task) : \A i \in 1..Len(s) : s[i] \in Task
      BY ElementOfSeq
    <2>4. QED
      BY <2>1, <2>2, <2>3
  <1>4. CreatedOnce'
    <2>1. /\ Len(Tail(todo)) = Len(todo) - 1 /\ Len(todo) \in Nat
          /\ \A i \in 1..Len(Tail(todo)) : Tail(todo)[i] = todo[i + 1]
      <3>1. todo \in Seq(Task) /\ todo # <<>>
        BY DEF TypeOK, EnqueueTask
      <3>2. QED
        BY <3>1, HeadTailProperties, LenProperties
    <2>2. \A u \in Task : u # t => pc'[u] = pc[u]
      BY <1>2
    <2>3. \A i \in 1..Len(todo') : i + 1 \in 1..Len(todo) /\ todo'[i] = todo[i + 1]
      BY <1>2, <2>1
    <2>4. \A i \in 1..Len(todo) : todo[i] \in Task
      BY ElementOfSeq DEF TypeOK
    <2>5. \A i \in 1..Len(todo') : todo'[i] \in Task /\ todo'[i] # t
      BY <1>1, <2>1, <2>3, <2>4 DEF LineInv, CreatedOnce
    <2>6. \A i \in 1..Len(todo') :
              /\ pc'[todo'[i]] = "none" /\ todo'[i][2] <= rounds'[Path(todo'[i])]
              /\ \A j \in 1..Len(todo') : todo'[i] = todo'[j] => i = j
      <3> SUFFICES ASSUME NEW i \in 1..Len(todo')
                   PROVE  /\ pc'[todo'[i]] = "none"
                          /\ todo'[i][2] <= rounds'[Path(todo'[i])]
                          /\ \A j \in 1..Len(todo') : todo'[i] = todo'[j] => i = j
        OBVIOUS
      <3>1. /\ pc[todo[i + 1]] = "none"
            /\ todo[i + 1][2] <= rounds[Path(todo[i + 1])]
            /\ \A j \in 1..Len(todo) : todo[i + 1] = todo[j] => i + 1 = j
        BY <2>3 DEF LineInv, CreatedOnce
      <3>2. \A j \in 1..Len(todo') : todo'[i] = todo'[j] => i = j
        BY <2>3, <3>1
      <3>3. QED
        BY <1>2, <2>2, <2>3, <2>5, <3>1, <3>2
    <2>7. \A u \in Task : u[2] > rounds'[Path(u)] => pc'[u] = "none"
      <3>1. \A u \in Task : u[2] > rounds[Path(u)] => pc[u] = "none"
        BY DEF LineInv, CreatedOnce
      <3>2. ~(t[2] > rounds[Path(t)])
        <4>1. t[2] \in 1..MaxRounds /\ rounds[Path(t)] \in 0..MaxRounds
          BY <1>1, TaskTypes DEF TypeOK
        <4>2. QED
          BY <1>1, <4>1, SchedulerAssumption DEF SchedulerAssumption
      <3>3. QED
        BY <1>2, <2>2, <3>1, <3>2
    <2>8. QED
      BY <2>6, <2>7 DEF CreatedOnce
  <1>5. CASE Holds(gate[q], f)
    <2>1. /\ queue' = [queue EXCEPT ![q] = Append(@, t)]
          /\ pc' = [pc EXCEPT ![t] = "queued"]
          /\ UNCHANGED <<buffer, gate>>
      BY <1>5 DEF EnqueueTask, Place
    <2>2. StagedTasks'
      BY <1>1, <1>2, <1>3, <2>1 DEF LineInv, StagedTasks
    <2>3. QueuedTasks'
      <3>1. /\ Len(queue[q]) \in Nat
            /\ Len(queue'[q]) = Len(queue[q]) + 1
            /\ \A i \in 1..Len(queue[q]) : queue'[q][i] = queue[q][i]
            /\ queue'[q][Len(queue[q]) + 1] = t
        <4>1. queue'[q] = Append(queue[q], t) /\ queue[q] \in Seq(Task)
          BY <1>1, <1>3, <2>1
        <4>2. QED
          BY <1>1, <4>1, AppendProperties, LenProperties
      <3>2. \A r \in Queues : r # q => queue'[r] = queue[r]
        BY <1>3, <2>1
      <3>3. \A r \in Queues : \A i \in 1..Len(queue[r]) :
                /\ Queue(queue[r][i]) = r /\ pc[queue[r][i]] = "queued"
                /\ \A j \in 1..Len(queue[r]) : queue[r][j] = queue[r][i] => j = i
        BY DEF LineInv, QueuedTasks
      <3>4. \A u \in Task : pc[u] = "queued" => pc'[u] = "queued" /\ u # t
        BY <1>1, <1>2, <2>1
      <3>5. \A r \in Queues : \A i \in 1..Len(queue[r]) :
                pc'[queue[r][i]] = "queued" /\ queue[r][i] # t
        BY <1>3, <3>3, <3>4
      <3>6. pc'[t] = "queued" /\ Queue(t) = q
        BY <1>1, <1>2, <2>1
      <3>7. \A i \in 1..Len(queue'[q]) :
                /\ Queue(queue'[q][i]) = q /\ pc'[queue'[q][i]] = "queued"
                /\ \A j \in 1..Len(queue'[q]) : queue'[q][j] = queue'[q][i] => j = i
        <4> SUFFICES ASSUME NEW i \in 1..Len(queue'[q])
                     PROVE  /\ Queue(queue'[q][i]) = q /\ pc'[queue'[q][i]] = "queued"
                            /\ \A j \in 1..Len(queue'[q]) :
                                   queue'[q][j] = queue'[q][i] => j = i
          OBVIOUS
        <4>1. CASE i = Len(queue[q]) + 1
          BY <1>1, <3>1, <3>5, <3>6, <4>1
        <4>2. CASE i \in 1..Len(queue[q])
          <5>1. queue'[q][i] = queue[q][i]
            BY <3>1, <4>2
          <5>2. \A j \in 1..Len(queue'[q]) :
                    j \in 1..Len(queue[q]) \/ j = Len(queue[q]) + 1
            BY <3>1
          <5>3. Queue(queue'[q][i]) = q /\ pc'[queue'[q][i]] = "queued"
            BY <1>1, <3>3, <3>5, <4>2, <5>1
          <5>4. ASSUME NEW j \in 1..Len(queue'[q]), queue'[q][j] = queue'[q][i]
                PROVE  j = i
            <6>1. j \in 1..Len(queue[q])
              BY <1>1, <3>1, <3>5, <4>2, <5>1, <5>2, <5>4
            <6>2. queue[q][j] = queue[q][i]
              BY <3>1, <5>1, <5>4, <6>1
            <6>3. QED
              BY <1>1, <3>3, <4>2, <6>1, <6>2
          <5>5. QED
            BY <5>3, <5>4
        <4>3. QED
          BY <3>1, <4>1, <4>2
      <3>8. QED
        BY <3>2, <3>3, <3>5, <3>7 DEF QueuedTasks
    <2>4. QED
      BY <1>4, <2>2, <2>3 DEF LineInv
  <1>6. CASE ~Holds(gate[q], f)
    <2>1. /\ buffer' = [buffer EXCEPT ![q][f] = Append(@, t)]
          /\ pc' = [pc EXCEPT ![t] = "buffered"]
          /\ queue' = queue
      BY <1>6 DEF EnqueueTask, Place
    <2>2. /\ Len(buffer[q][f]) \in Nat
          /\ buffer'[q][f] # <<>>
          /\ Len(buffer'[q][f]) = Len(buffer[q][f]) + 1
          /\ \A i \in 1..Len(buffer[q][f]) : buffer'[q][f][i] = buffer[q][f][i]
          /\ buffer'[q][f][Len(buffer[q][f]) + 1] = t
      <3>1. buffer'[q][f] = Append(buffer[q][f], t) /\ buffer[q][f] \in Seq(Task)
        BY <1>1, <1>3, <2>1
      <3>2. QED
        BY <1>1, <3>1, AppendProperties, LenProperties
    <2>3. \A r \in Queues, h \in Hashes :
              r # q \/ h # f => buffer'[r][h] = buffer[r][h]
      BY <1>1, <1>3, <2>1
    <2>4. StagedTasks'
      <3>1. \A r \in Queues, h \in Hashes : \A i \in 1..Len(buffer[r][h]) :
                /\ Queue(buffer[r][h][i]) = r /\ File(buffer[r][h][i]) = h
                /\ pc[buffer[r][h][i]] = "buffered"
                /\ \A j \in 1..Len(buffer[r][h]) :
                       buffer[r][h][j] = buffer[r][h][i] => j = i
        BY DEF LineInv, StagedTasks
      <3>2. \A r \in Queues, h \in Hashes : \A i \in 1..Len(buffer[r][h]) :
                pc'[buffer[r][h][i]] = "buffered" /\ buffer[r][h][i] # t
        BY <1>1, <1>2, <1>3, <2>1, <3>1
      <3>3. pc'[t] = "buffered"
        BY <1>1, <1>2, <2>1
      <3>4. \A i \in 1..Len(buffer'[q][f]) :
                /\ Queue(buffer'[q][f][i]) = q /\ File(buffer'[q][f][i]) = f
                /\ pc'[buffer'[q][f][i]] = "buffered"
                /\ \A j \in 1..Len(buffer'[q][f]) :
                       buffer'[q][f][j] = buffer'[q][f][i] => j = i
        <4> SUFFICES ASSUME NEW i \in 1..Len(buffer'[q][f])
                     PROVE  /\ Queue(buffer'[q][f][i]) = q /\ File(buffer'[q][f][i]) = f
                            /\ pc'[buffer'[q][f][i]] = "buffered"
                            /\ \A j \in 1..Len(buffer'[q][f]) :
                                   buffer'[q][f][j] = buffer'[q][f][i] => j = i
          OBVIOUS
        <4>1. \A j \in 1..Len(buffer'[q][f]) :
                  j \in 1..Len(buffer[q][f]) \/ j = Len(buffer[q][f]) + 1
          BY <2>2
        <4>2. CASE i = Len(buffer[q][f]) + 1
          <5>1. buffer'[q][f][i] = t
            BY <2>2, <4>2
          <5>2. QED
            BY <1>1, <2>2, <3>2, <3>3, <4>1, <4>2, <5>1
        <4>3. CASE i \in 1..Len(buffer[q][f])
          <5>1. buffer'[q][f][i] = buffer[q][f][i]
            BY <2>2, <4>3
          <5>2. /\ Queue(buffer'[q][f][i]) = q /\ File(buffer'[q][f][i]) = f
                /\ pc'[buffer'[q][f][i]] = "buffered"
            BY <1>1, <3>1, <3>2, <4>3, <5>1
          <5>3. ASSUME NEW j \in 1..Len(buffer'[q][f]), buffer'[q][f][j] = buffer'[q][f][i]
                PROVE  j = i
            <6>1. j \in 1..Len(buffer[q][f])
              BY <1>1, <2>2, <3>2, <4>1, <4>3, <5>1, <5>3
            <6>2. buffer[q][f][j] = buffer[q][f][i]
              BY <2>2, <5>1, <5>3, <6>1
            <6>3. QED
              BY <1>1, <3>1, <4>3, <6>1, <6>2
          <5>4. QED
            BY <5>2, <5>3
        <4>4. QED
          BY <4>1, <4>2, <4>3
      <3>5. QED
        BY <2>3, <3>1, <3>2, <3>4 DEF StagedTasks
    <2>5. QueuedTasks'
      BY <1>1, <1>2, <1>3, <2>1 DEF LineInv, QueuedTasks
    <2>6. QED
      BY <1>4, <2>4, <2>5 DEF LineInv
  <1>7. QED
    BY <1>5, <1>6

\* The staged tasks of a file move to the end of the p-queue's line.
LEMMA FlushKeepsLines ==
    ASSUME TypeOK, LineInv, NEW q \in Queues, NEW f \in Hashes, Flush(q, f)
    PROVE  LineInv'
  <1> DEFINE staged == buffer[q][f]
  <1>1. /\ f \in gate[q].granted
        /\ queue' = [queue EXCEPT ![q] = @ \o staged]
        /\ buffer' = [buffer EXCEPT ![q][f] = <<>>]
        /\ pc' = [t \in Task |-> IF pc[t] = "buffered" /\ Queue(t) = q /\ File(t) = f
                                 THEN "queued" ELSE pc[t]]
        /\ UNCHANGED <<rounds, todo>>
    BY DEF Flush, loopVars
  <1>2. /\ buffer \in [Queues -> [Hashes -> Seq(Task)]]
        /\ queue \in [Queues -> Seq(Task)]
    BY DEF TypeOK
  <1>3. /\ \A r \in Queues, h \in Hashes : buffer[r][h] \in Seq(Task)
        /\ \A r \in Queues, h \in Hashes : \A i \in 1..Len(buffer[r][h]) :
              buffer[r][h][i] \in Task
        /\ \A r \in Queues : queue[r] \in Seq(Task)
        /\ \A r \in Queues : \A i \in 1..Len(queue[r]) : queue[r][i] \in Task
    <2>1. \A r \in Queues : queue[r] \in Seq(Task) /\ \A h \in Hashes : buffer[r][h] \in Seq(Task)
      BY <1>2
    <2>2. \A s \in Seq(Task) : \A i \in 1..Len(s) : s[i] \in Task
      BY ElementOfSeq
    <2>3. QED
      BY <2>1, <2>2
  <1>4. StagedTasks'
    <2> SUFFICES ASSUME NEW r \in Queues, NEW h \in Hashes, NEW i \in 1..Len(buffer'[r][h])
                 PROVE  LET t == buffer'[r][h][i]
                        IN  /\ Queue(t) = r /\ File(t) = h /\ pc'[t] = "buffered"
                            /\ \A j \in 1..Len(buffer'[r][h]) : buffer'[r][h][j] = t => j = i
      BY DEF StagedTasks
    <2>1. r # q \/ h # f
      <3>1. ASSUME r = q, h = f
            PROVE  FALSE
        <4>1. buffer'[r][h] = <<>>
          BY <1>1, <1>2, <3>1
        <4>2. QED
          BY <4>1, EmptySeq
      <3>2. QED
        BY <3>1
    <2>2. buffer'[r][h] = buffer[r][h]
      BY <1>1, <1>2, <2>1
    <2>3. LET t == buffer[r][h][i]
          IN  /\ t \in Task /\ Queue(t) = r /\ File(t) = h /\ pc[t] = "buffered"
              /\ \A j \in 1..Len(buffer[r][h]) : buffer[r][h][j] = t => j = i
      BY <1>3, <2>2 DEF LineInv, StagedTasks
    <2>4. QED
      BY <1>1, <2>1, <2>2, <2>3
  <1>5. QueuedTasks'
    <2> SUFFICES ASSUME NEW r \in Queues, NEW i \in 1..Len(queue'[r])
                 PROVE  /\ Queue(queue'[r][i]) = r /\ pc'[queue'[r][i]] = "queued"
                        /\ \A j \in 1..Len(queue'[r]) : queue'[r][j] = queue'[r][i] => j = i
      BY DEF QueuedTasks
    <2>1. \A s \in Queues : \A k \in 1..Len(queue[s]) :
              /\ queue[s][k] \in Task
              /\ Queue(queue[s][k]) = s
              /\ pc[queue[s][k]] = "queued" /\ pc'[queue[s][k]] = "queued"
              /\ \A j \in 1..Len(queue[s]) : queue[s][j] = queue[s][k] => j = k
      BY <1>1, <1>3 DEF LineInv, QueuedTasks
    <2>2. CASE r # q
      <3>1. queue'[r] = queue[r]
        BY <1>1, <1>2, <2>2
      <3>2. QED
        BY <2>1, <3>1
    <2>3. CASE r = q
      <3>1. queue'[q] = queue[q] \o staged /\ queue[q] \in Seq(Task) /\ staged \in Seq(Task)
        BY <1>1, <1>2, <1>3
      <3>2. \A k \in 1..Len(staged) :
                /\ Queue(staged[k]) = q
                /\ pc[staged[k]] = "buffered" /\ pc'[staged[k]] = "queued"
                /\ \A j \in 1..Len(staged) : staged[j] = staged[k] => j = k
        BY <1>1, <1>3 DEF LineInv, StagedTasks
      <3>3. \A k \in 1..Len(queue[q]), j \in 1..Len(staged) : queue[q][k] # staged[j]
        BY <2>1, <3>2
      <3>4. /\ \A k \in 1..Len(queue'[q]) :
                   \/ \E j \in 1..Len(queue[q]) : queue'[q][k] = queue[q][j]
                   \/ \E j \in 1..Len(staged) : queue'[q][k] = staged[j]
            /\ \A k, l \in 1..Len(queue'[q]) : queue'[q][k] = queue'[q][l] => k = l
        <4> DEFINE line == queue[q]
        <4>1. /\ line \in Seq(Task) /\ staged \in Seq(Task)
              /\ \A x, j \in 1..Len(line) : line[x] = line[j] => x = j
              /\ \A x, j \in 1..Len(staged) : staged[x] = staged[j] => x = j
              /\ \A x \in 1..Len(line), j \in 1..Len(staged) : line[x] # staged[j]
          BY <2>1, <3>1, <3>2, <3>3
        <4> HIDE DEF line, staged
        <4>2. /\ \A k \in 1..Len(line \o staged) :
                     \/ \E j \in 1..Len(line) : (line \o staged)[k] = line[j]
                     \/ \E j \in 1..Len(staged) : (line \o staged)[k] = staged[j]
              /\ \A k, l \in 1..Len(line \o staged) :
                     (line \o staged)[k] = (line \o staged)[l] => k = l
          BY <4>1, ConcatDistinct
        <4>3. QED
          BY <3>1, <4>2 DEF line
      <3> DEFINE x == queue'[q][i]
      <3>5. Queue(x) = q /\ pc'[x] = "queued"
        <4>1. CASE \E j \in 1..Len(queue[q]) : x = queue[q][j]
          BY <2>1, <4>1
        <4>2. CASE \E j \in 1..Len(staged) : x = staged[j]
          BY <3>2, <4>2
        <4>3. QED
          BY <2>3, <3>4, <4>1, <4>2
      <3>6. \A j \in 1..Len(queue'[q]) : queue'[q][j] = x => j = i
        BY <2>3, <3>4
      <3>7. QED
        BY <2>3, <3>5, <3>6
    <2>4. QED
      BY <2>2, <2>3
  <1>6. CreatedOnce'
    <2>1. \A i \in 1..Len(todo) : todo[i] \in Task
      BY ElementOfSeq DEF TypeOK
    <2>2. \A u \in Task : pc[u] = "none" => pc'[u] = "none"
      BY <1>1
    <2>3. QED
      BY <1>1, <2>1, <2>2 DEF LineInv, CreatedOnce
  <1>7. QED
    BY <1>4, <1>5, <1>6 DEF LineInv

\* The p-queue starts the first task of its line.
LEMMA StartJobKeepsLines ==
    ASSUME TypeOK, LineInv, NEW q \in Queues, StartJob(q),
           NEW t \in Task, t = Head(queue[q])
    PROVE  LineInv'
  <1>1. /\ queue' = [queue EXCEPT ![q] = Tail(@)]
        /\ pc' = [pc EXCEPT ![t] = "waiting"]
        /\ UNCHANGED <<buffer, rounds, todo>>
        /\ pc \in [Task -> Stages]
    BY DEF StartJob, loopVars, slotVars, TypeOK
  <1>2. /\ queue[q] \in Seq(Task) /\ queue[q] # <<>>
        /\ queue \in [Queues -> Seq(Task)]
    BY DEF TypeOK, StartJob, Startable
  <1>3. /\ t = queue[q][1] /\ 1 \in 1..Len(queue[q]) /\ Len(queue[q]) \in Nat
        /\ Len(Tail(queue[q])) = Len(queue[q]) - 1
        /\ \A i \in 1..Len(Tail(queue[q])) : Tail(queue[q])[i] = queue[q][i + 1]
    BY <1>2, HeadTailProperties, EmptySeq, LenProperties
  <1>4. pc[t] = "queued" /\ Queue(t) = q
    BY <1>3 DEF LineInv, QueuedTasks
  <1>5. \A u \in Task : u # t => pc'[u] = pc[u]
    BY <1>1
  <1>6. StagedTasks'
    <2>1. \A r \in Queues, h \in Hashes : \A i \in 1..Len(buffer[r][h]) :
              buffer[r][h][i] \in Task
      BY ElementOfSeq DEF TypeOK
    <2>2. QED
      BY <1>1, <1>4, <1>5, <2>1 DEF LineInv, StagedTasks
  <1>7. QueuedTasks'
    <2>1. \A s \in Queues : \A k \in 1..Len(queue[s]) :
              /\ queue[s][k] \in Task
              /\ Queue(queue[s][k]) = s
              /\ pc[queue[s][k]] = "queued"
              /\ \A j \in 1..Len(queue[s]) : queue[s][j] = queue[s][k] => j = k
      <3>1. \A s \in Queues : \A k \in 1..Len(queue[s]) : queue[s][k] \in Task
        BY <1>2, ElementOfSeq
      <3>2. QED
        BY <3>1 DEF LineInv, QueuedTasks
    <2> SUFFICES ASSUME NEW r \in Queues, NEW i \in 1..Len(queue'[r])
                 PROVE  /\ Queue(queue'[r][i]) = r /\ pc'[queue'[r][i]] = "queued"
                        /\ \A j \in 1..Len(queue'[r]) : queue'[r][j] = queue'[r][i] => j = i
      BY DEF QueuedTasks
    <2>2. CASE r # q
      <3>1. queue'[r] = queue[r]
        BY <1>1, <1>2, <2>2
      <3>2. queue[r][i] # t
        BY <1>4, <2>1, <2>2, <3>1
      <3>3. QED
        BY <1>5, <2>1, <3>1, <3>2
    <2>3. CASE r = q
      <3>1. queue'[r] = Tail(queue[q])
        BY <1>1, <1>2, <2>3
      <3>2. \A j \in 1..Len(queue'[r]) : /\ j + 1 \in 1..Len(queue[q])
                                         /\ queue'[r][j] = queue[q][j + 1]
        BY <1>3, <3>1
      <3>3. queue'[r][i] # t
        <4>1. i + 1 # 1
          BY <1>3, <3>1
        <4>2. QED
          BY <1>3, <2>1, <3>2, <4>1
      <3>4. \A j \in 1..Len(queue'[r]) : queue'[r][j] = queue'[r][i] => j = i
        <4>1. \A j \in 1..Len(queue'[r]) : queue'[r][j] = queue'[r][i] => j + 1 = i + 1
          BY <2>1, <3>2
        <4>2. QED
          BY <4>1
      <3>5. Queue(queue'[r][i]) = r /\ pc'[queue'[r][i]] = "queued"
        <4>1. i + 1 \in 1..Len(queue[q]) /\ queue'[r][i] = queue[q][i + 1]
          BY <3>2
        <4>2. queue'[r][i] \in Task /\ Queue(queue'[r][i]) = q /\ pc[queue'[r][i]] = "queued"
          BY <2>1, <4>1
        <4>3. QED
          BY <1>5, <2>3, <3>3, <4>2
      <3>6. QED
        BY <3>4, <3>5
    <2>4. QED
      BY <2>2, <2>3
  <1>8. CreatedOnce'
    <2>1. \A i \in 1..Len(todo) : todo[i] \in Task
      BY ElementOfSeq DEF TypeOK
    <2>2. QED
      BY <1>1, <1>4, <1>5, <2>1 DEF LineInv, CreatedOnce
  <1>9. QED
    BY <1>6, <1>7, <1>8 DEF LineInv

\* A path is submitted: the loop's tasks are new.
LEMMA SubmitKeepsLines ==
    ASSUME TypeOK, TypeOK', LineInv, NEW p \in Paths,
           Submit(p) \/ \E x \in Plugins : Recompute(p, x)
    PROVE  LineInv'
  <1>1. /\ UNCHANGED <<pc, buffer, queue>>
        /\ rounds' = [rounds EXCEPT ![p] = @ + 1]
        /\ rounds \in [Paths -> 0..MaxRounds]
        /\ MaxRounds \in Nat
    BY SchedulerAssumption DEF Submit, Recompute, slotVars, TypeOK, SchedulerAssumption
  <1>2. StagedTasks' /\ QueuedTasks'
    BY <1>1 DEF LineInv, StagedTasks, QueuedTasks
  <1>3. /\ \A i \in 1..Len(todo') : /\ todo'[i] \in Task
                                    /\ Path(todo'[i]) = p /\ todo'[i][2] = rounds[p] + 1
        /\ \A i, j \in 1..Len(todo') : todo'[i] = todo'[j] => i = j
    <2>1. \A i \in 1..Len(todo') : todo'[i] \in Task
      BY ElementOfSeq DEF TypeOK
    <2>2. CASE Submit(p)
      <3> DEFINE n == Cardinality(healthy)
      <3>1. PICK list \in [1..n -> healthy] :
                /\ \A i, j \in DOMAIN list :
                      i < j => PluginOrder[list[i]] < PluginOrder[list[j]]
                /\ todo' = [i \in DOMAIN list |-> <<p, rounds[p] + 1, list[i]>>]
        BY <2>2 DEF Submit
      <3>2. n \in Nat
        BY SchedulerAssumption, FS_Subset, FS_CardinalityType DEF SchedulerAssumption, TypeOK
      <3> HIDE DEF n
      <3>3. Len(todo') = n /\ \A i \in 1..n : todo'[i] = <<p, rounds[p] + 1, list[i]>>
        BY <3>1, <3>2
      <3>4. \A i, j \in 1..n : list[i] = list[j] => i = j
        <4>1. \A i \in 1..n : PluginOrder[list[i]] \in Nat
          BY <3>1, SchedulerAssumption DEF SchedulerAssumption, TypeOK
        <4>2. \A i, j \in 1..n : i < j => list[i] # list[j]
          BY <3>1, <4>1
        <4>3. QED
          BY <3>2, <4>2
      <3>5. QED
        BY <2>1, <3>3, <3>4 DEF Path
    <2>3. ASSUME NEW x \in Plugins, Recompute(p, x)
          PROVE  /\ \A i \in 1..Len(todo') : Path(todo'[i]) = p /\ todo'[i][2] = rounds[p] + 1
                 /\ \A i, j \in 1..Len(todo') : todo'[i] = todo'[j] => i = j
      <3>1. todo' = <<<<p, rounds[p] + 1, x>>>>
        BY <2>3 DEF Recompute
      <3>2. \A i \in 1..Len(todo') : i = 1 /\ todo'[i] = <<p, rounds[p] + 1, x>>
        BY <3>1
      <3>3. QED
        BY <3>2 DEF Path
    <2>4. QED
      BY <2>1, <2>2, <2>3
  <1>4. CreatedOnce'
    <2>1. /\ rounds'[p] = rounds[p] + 1 /\ rounds[p] \in Nat
          /\ \A x \in Paths : x # p => rounds'[x] = rounds[x]
      BY <1>1
    <2>2. \A u \in Task : u[2] > rounds[Path(u)] => pc[u] = "none"
      BY DEF LineInv, CreatedOnce
    <2>3. \A u \in Task : u[2] > rounds'[Path(u)] => pc'[u] = "none"
      <3> SUFFICES ASSUME NEW u \in Task, u[2] > rounds'[Path(u)]
                   PROVE  pc'[u] = "none"
        OBVIOUS
      <3>1. u[2] \in Nat /\ Path(u) \in Paths
        BY TaskTypes
      <3>2. u[2] > rounds[Path(u)]
        BY <2>1, <3>1
      <3>3. QED
        BY <1>1, <2>2, <3>2
    <2>4. \A i \in 1..Len(todo') : pc'[todo'[i]] = "none" /\ todo'[i][2] <= rounds'[Path(todo'[i])]
      <3> SUFFICES ASSUME NEW i \in 1..Len(todo')
                   PROVE  pc'[todo'[i]] = "none" /\ todo'[i][2] <= rounds'[Path(todo'[i])]
        OBVIOUS
      <3>1. todo'[i] \in Task /\ Path(todo'[i]) = p /\ todo'[i][2] = rounds[p] + 1
        BY <1>3
      <3>2. pc[todo'[i]] = "none"
        BY <2>1, <2>2, <3>1
      <3>3. QED
        BY <1>1, <2>1, <3>1, <3>2
    <2>5. QED
      BY <1>3, <2>3, <2>4 DEF CreatedOnce
  <1>5. QED
    BY <1>2, <1>4 DEF LineInv

\* A task of a closed scheduler is dropped.
LEMMA RejectTaskKeepsLines ==
    ASSUME TypeOK, LineInv, RejectTask, NEW t \in Task, t = Head(todo)
    PROVE  LineInv'
  <1>1. /\ UNCHANGED <<rounds, buffer, queue>>
        /\ todo' = Tail(todo)
        /\ pc' = [pc EXCEPT ![t] = "gone"]
        /\ pc \in [Task -> Stages]
    BY DEF RejectTask, slotVars, TypeOK
  <1>2. /\ t = todo[1] /\ 1 \in 1..Len(todo)
        /\ Len(Tail(todo)) = Len(todo) - 1 /\ Len(todo) \in Nat
        /\ \A i \in 1..Len(Tail(todo)) : Tail(todo)[i] = todo[i + 1]
    <2>1. todo \in Seq(Task) /\ todo # <<>>
      BY DEF TypeOK, RejectTask
    <2>2. QED
      BY <2>1, HeadTailProperties, LenProperties, EmptySeq
  <1>3. pc[t] = "none" /\ \A u \in Task : u # t => pc'[u] = pc[u]
    BY <1>1, <1>2 DEF LineInv, CreatedOnce
  <1>4. StagedTasks' /\ QueuedTasks'
    <2>1. /\ \A r \in Queues, h \in Hashes : \A i \in 1..Len(buffer[r][h]) :
                buffer[r][h][i] \in Task
          /\ \A r \in Queues : \A i \in 1..Len(queue[r]) : queue[r][i] \in Task
      BY ElementOfSeq DEF TypeOK
    <2>2. \A u \in Task : pc[u] \in {"buffered", "queued"} => pc'[u] = pc[u]
      BY <1>3
    <2>3. StagedTasks'
      BY <1>1, <2>1, <2>2 DEF LineInv, StagedTasks
    <2>4. QueuedTasks'
      BY <1>1, <2>1, <2>2 DEF LineInv, QueuedTasks
    <2>5. QED
      BY <2>3, <2>4
  <1>5. CreatedOnce'
    <2>1. \A i \in 1..Len(todo') : i + 1 \in 1..Len(todo) /\ todo'[i] = todo[i + 1]
      BY <1>1, <1>2
    <2>2. \A i \in 1..Len(todo) : todo[i] \in Task
      BY ElementOfSeq DEF TypeOK
    <2>3. \A i \in 1..Len(todo) :
              /\ pc[todo[i]] = "none" /\ todo[i][2] <= rounds[Path(todo[i])]
              /\ \A j \in 1..Len(todo) : todo[i] = todo[j] => i = j
      BY DEF LineInv, CreatedOnce
    <2>4. \A i \in 1..Len(todo') : todo'[i] \in Task /\ todo'[i] # t
      <3> SUFFICES ASSUME NEW i \in 1..Len(todo')
                   PROVE  todo'[i] \in Task /\ todo'[i] # t
        OBVIOUS
      <3>1. i + 1 # 1
        BY <1>1, <1>2
      <3>2. QED
        BY <1>2, <2>1, <2>2, <2>3, <3>1
    <2>5. \A i \in 1..Len(todo') :
              pc'[todo'[i]] = "none" /\ todo'[i][2] <= rounds'[Path(todo'[i])]
      BY <1>1, <1>3, <2>1, <2>3, <2>4
    <2>6. \A i, j \in 1..Len(todo') : todo'[i] = todo'[j] => i = j
      <3>1. \A i, j \in 1..Len(todo') : todo'[i] = todo'[j] => i + 1 = j + 1
        BY <2>1, <2>3
      <3>2. QED
        BY <3>1
    <2>7. \A u \in Task : u[2] > rounds'[Path(u)] => pc'[u] = "none"
      <3>1. \A u \in Task : u[2] > rounds[Path(u)] => pc[u] = "none"
        BY DEF LineInv, CreatedOnce
      <3>2. ~(t[2] > rounds[Path(t)])
        <4>1. t[2] \in 1..MaxRounds /\ rounds[Path(t)] \in 0..MaxRounds
          BY TaskTypes DEF TypeOK
        <4>2. t[2] <= rounds[Path(t)]
          BY <1>2, <2>3
        <4>3. QED
          BY <4>1, <4>2, SchedulerAssumption DEF SchedulerAssumption
      <3>3. QED
        BY <1>1, <1>3, <3>1, <3>2
    <2>8. QED
      BY <2>5, <2>6, <2>7 DEF CreatedOnce
  <1>6. QED
    BY <1>4, <1>5 DEF LineInv

\* LineInv holds at the start and every step preserves it, clear() included.
LEMMA LineInvInductive ==
    /\ Init => LineInv
    /\ TypeOK /\ TypeOK' /\ LineInv /\ [Next]_vars => LineInv'
  <1>1. ASSUME Init
        PROVE  LineInv
    <2>1. Len(<<>>) = 0 /\ \A i \in 1..0 : FALSE
      BY EmptySeq
    <2>2. /\ \A q \in Queues : queue[q] = <<>>
          /\ \A q \in Queues, f \in Hashes : buffer[q][f] = <<>>
          /\ todo = <<>>
      BY <1>1 DEF Init
    <2>3. StagedTasks /\ QueuedTasks
      BY <2>1, <2>2 DEF StagedTasks, QueuedTasks
    <2>4. CreatedOnce
      BY <1>1, <2>1, <2>2 DEF Init, CreatedOnce
    <2>5. QED
      BY <2>3, <2>4 DEF LineInv
  <1>2. ASSUME TypeOK, TypeOK', LineInv, [Next]_vars
        PROVE  LineInv'
    <2> USE <1>2
    <2>1. ASSUME NEW p \in Paths, Submit(p) \/ \E x \in Plugins : Recompute(p, x)
          PROVE  LineInv'
      BY <2>1, SubmitKeepsLines
    <2>2. ASSUME RejectTask \/ EnqueueTask
          PROVE  LineInv'
      <3>1. Head(todo) \in Task
        BY <2>2, HeadTailProperties DEF RejectTask, EnqueueTask, TypeOK
      <3>2. PICK t \in Task : t = Head(todo)
        BY <3>1
      <3>3. QED
        BY <2>2, <3>2, RejectTaskKeepsLines, EnqueueTaskKeepsLines
    <2>3. ASSUME NEW q \in Queues, StartJob(q)
          PROVE  LineInv'
      <3>1. Head(queue[q]) \in Task
        BY <2>3, HeadTailProperties DEF StartJob, Startable, TypeOK
      <3>2. PICK t \in Task : t = Head(queue[q])
        BY <3>1
      <3>3. QED
        BY <2>3, <3>2, StartJobKeepsLines
    <2>4. ASSUME NEW q \in Queues, NEW f \in Hashes, Flush(q, f)
          PROVE  LineInv'
      BY <2>4, FlushKeepsLines
    <2>5. ASSUME NEW t \in Task, TaskStep(t) \/ OutsideStep(t)
          PROVE  LineInv'
      <3>1. UNCHANGED <<buffer, queue, rounds, todo>>
        BY <2>5
        DEF TaskStep, Dispatch, FailUnhealthy, Settle, SettleWithError, EndJob, JobLeaves,
            CallbackTimeout, DependencyTimeout, OutsideStep, ContainerAccepts, PostAccepted,
            PostFails, Callback, loopVars, slotVars
      <3>2. \/ pc' = pc
            \/ /\ pc[t] \notin {"none", "buffered", "queued"}
               /\ \E x \in Stages : pc' = [pc EXCEPT ![t] = x]
        BY <2>5
        DEF TaskStep, Dispatch, FailUnhealthy, Settle, SettleWithError, EndJob, JobLeaves,
            CallbackTimeout, DependencyTimeout, OutsideStep, ContainerAccepts, PostAccepted,
            PostFails, Callback, TakeReport, SwallowReport, DropReport, Stages, InJob
      <3>3. \A u \in Task : pc[u] \in {"none", "buffered", "queued"} => pc'[u] = pc[u]
        BY <3>2 DEF TypeOK
      <3>4. QED
        BY <3>1, <3>3, QuietKeepsLines
    <2>6. ASSUME NEW f \in Hashes, CancelFile(f)
          PROVE  LineInv'
      BY <2>6, QuietKeepsLines DEF CancelFile, loopVars, slotVars
    <2>7. ASSUME \/ \E x \in Plugins : HealthChanges(x)
                 \/ SetGate \/ Pause \/ Resume \/ UNCHANGED vars
          PROVE  LineInv'
      <3>1. UNCHANGED <<buffer, queue, rounds, todo, pc>>
        BY <2>7 DEF HealthChanges, SetGate, Pause, Resume, vars, loopVars, slotVars
      <3>2. QED
        BY <3>1, QuietKeepsLines
    <2>8. ASSUME Clear
          PROVE  LineInv'
      <3>1. Len(<<>>) = 0 /\ \A i \in 1..0 : FALSE
        BY EmptySeq
      <3>2. /\ \A q \in Queues : queue'[q] = <<>>
            /\ \A q \in Queues, f \in Hashes : buffer'[q][f] = <<>>
            /\ todo' = <<>> /\ rounds' = rounds
        BY <2>8 DEF Clear, EventLoopFree, SynchronousCodeRuns, loopVars
      <3>3. StagedTasks' /\ QueuedTasks'
        BY <3>1, <3>2 DEF StagedTasks, QueuedTasks
      <3>4. \A u \in Task : pc[u] = "none" => pc'[u] = "none"
        BY <2>8 DEF Clear
      <3>5. CreatedOnce'
        BY <3>1, <3>2, <3>4 DEF LineInv, CreatedOnce
      <3>6. QED
        BY <3>3, <3>5 DEF LineInv
    <2>9. QED
      BY <2>1, <2>2, <2>3, <2>4, <2>5, <2>6, <2>7, <2>8 DEF Next, Steady, QueueStep
  <1>3. QED
    BY <1>1, <1>2
-----------------------------------------------------------------------------
\* What clear() leaves of SlotInv.  It frees every slot and zeroes every counter while
\* jobs run on, so that a job started before it gives back a slot taken after it: the
\* slots no longer cover the tasks, but no slot is lost.  The gates are sound, ...
GatesSound == \A q \in Queues : GateSound(gate[q], Hashes, Slots[q])

\* ... a counter is never above the outstanding tasks, ...
CounterBounded ==
    \A q \in Queues, f \in Hashes : counter[q][f] <= Cardinality(Outstanding(q, f))

\* ... a holder has a task to run or a grant to observe, ...
HoldersServed ==
    \A q \in Queues : \A f \in gate[q].holders :
        f \in gate[q].granted \/ Outstanding(q, f) # {}

\* ... a phase is as clear() leaves it until its last grant is observed, since nothing
\* is enqueued before, and otherwise has its staged files in the gate's line, ...
Swept(q) ==
    /\ todo = <<>>
    /\ \A f \in Hashes : buffer[q][f] = <<>> /\ counter[q][f] = 0
    /\ gate[q].holders \subseteq gate[q].granted

InLine(q) ==
    \A f \in Hashes : buffer[q][f] # <<>> <=> Waits(gate[q], f) \/ f \in gate[q].granted

SweptOrInLine == \A q \in Queues : Swept(q) \/ InLine(q)

\* ... a staged task is in its file's buffer and a queued one in the p-queue, ...
TasksPlaced ==
    \A t \in Task :
        /\ pc[t] = "buffered" => \E i \in 1..Len(buffer[Queue(t)][File(t)]) :
                                     buffer[Queue(t)][File(t)][i] = t
        /\ pc[t] = "queued" => \E i \in 1..Len(queue[Queue(t)]) : queue[Queue(t)][i] = t

\* ... and the background queue runs only when there is no fast task.
FastFirst ==
    ~paused["background"] =>
        \A t \in Task : Queue(t) = "fast" => pc[t] \notin InJob \cup {"buffered", "queued"}

SlotsSound ==
    GatesSound /\ CounterBounded /\ HoldersServed /\ SweptOrInLine /\ TasksPlaced

ResetInv == SlotsSound /\ FastFirst

\* A task whose status is final has nothing left to run but the end of its job.
EndedTasks ==
    \A t \in Task :
        status[t] \in Terminal => pc[t] \in {"resolved", "rejected", "leaving", "gone"}

\* release() of every holder, each slot to the next in line, keeps the gate sound and
\* leaves every slot granted (ContainerPluginScheduler.ts:944-950).
LEMMA ReleasedAllSound ==
    ASSUME NEW capacity \in Nat \ {0}, NEW g, GateSound(g, Hashes, capacity)
    PROVE  /\ GateSound(ReleasedAll(g), Hashes, capacity)
           /\ ReleasedAll(g).holders = ReleasedAll(g).granted
  <1> DEFINE n == Cardinality(g.holders)
             m == Len(g.waiters)
             k == IF n < m THEN n ELSE m
             promoted == {g.waiters[i] : i \in 1..k}
             left == SubSeq(g.waiters, k + 1, m)
             h == ReleasedAll(g)
  <1>1. /\ h.holders = promoted /\ h.granted = promoted /\ h.waiters = left
        /\ h = [holders |-> promoted, waiters |-> left, granted |-> promoted]
    BY DEF ReleasedAll
  <1>2. n \in Nat /\ n <= capacity /\ m \in Nat
    BY FS_CardinalityType, LenProperties DEF GateSound, GateTypeOK, WithinCapacity
  <1>3. k \in Nat /\ k <= n /\ k <= m
    BY <1>2
  <1>4. /\ \A i \in 1..m : g.waiters[i] \in Hashes
        /\ \A i, j \in 1..m : g.waiters[i] = g.waiters[j] => i = j
    BY ElementOfSeq DEF GateSound, GateTypeOK
  <1>5. ASSUME g.waiters # <<>>
        PROVE  n = capacity
    BY <1>5 DEF GateSound, WaitersOnlyWhenFull
  <1>6. g.waiters \in Seq(Hashes)
    BY DEF GateSound, GateTypeOK
  <1> HIDE DEF n, m, k, promoted, left, h
  <1>7. IsFiniteSet(promoted) /\ Cardinality(promoted) = k
    <2> DEFINE nth == [i \in 1..k |-> g.waiters[i]]
    <2>1. nth \in Bijection(1..k, promoted)
      <3>1. nth \in [1..k -> promoted] /\ \A x \in promoted : \E i \in 1..k : nth[i] = x
        BY DEF promoted
      <3>2. \A i, j \in 1..k : nth[i] = nth[j] => i = j
        BY <1>2, <1>3, <1>4
      <3> HIDE DEF nth
      <3>3. QED
        BY <3>1, <3>2 DEF Bijection, Injection, Surjection, IsInjective
    <2>2. IsFiniteSet(1..k) /\ Cardinality(1..k) = k
      BY <1>3, FS_Interval
    <2>3. QED
      BY <2>1, <2>2, FS_Bijection DEF ExistsBijection
  <1>8. /\ left \in Seq(Hashes)
        /\ Len(left) = m - k
        /\ \A i \in 1..(m - k) : left[i] = g.waiters[k + i]
    <2>1. \A i \in (k + 1)..m : g.waiters[i] \in Hashes
      BY <1>2, <1>3, <1>4
    <2>2. /\ left \in Seq(Hashes)
          /\ Len(left) = IF k + 1 <= m THEN m - (k + 1) + 1 ELSE 0
          /\ \A i \in 1..(m - (k + 1) + 1) : left[i] = g.waiters[(k + 1) + i - 1]
      BY <1>2, <1>3, <2>1, SubSeqProperties DEF left
    <2>3. QED
      BY <1>2, <1>3, <2>2
  <1>9. GateTypeOK(h, Hashes)
    BY <1>1, <1>2, <1>3, <1>4, <1>8 DEF GateTypeOK, promoted
  <1>10. WithinCapacity(h, capacity)
    BY <1>1, <1>2, <1>3, <1>7 DEF WithinCapacity
  <1>11. WaitersOnlyWhenFull(h, capacity)
    <2>1. ASSUME left # <<>>
          PROVE  k = capacity
      <3>1. k < m
        <4>1. Len(left) # 0
          BY <1>8, <2>1, EmptySeq
        <4>2. m # k
          BY <1>3, <1>8, <4>1
        <4>3. QED
          BY <1>2, <1>3, <4>2
      <3>2. k = n /\ g.waiters # <<>>
        BY <1>2, <1>3, <1>6, <3>1, EmptySeq DEF k, m
      <3>3. QED
        BY <1>5, <3>2
    <2>2. QED
      BY <1>1, <1>7, <2>1 DEF WaitersOnlyWhenFull
  <1>12. \A i \in 1..Len(h.waiters) : h.waiters[i] \notin h.holders \cup h.granted
    <2> SUFFICES ASSUME NEW i \in 1..(m - k), left[i] \in promoted
                 PROVE  FALSE
      BY <1>1, <1>8
    <2>1. PICK j \in 1..k : left[i] = g.waiters[j]
      BY DEF promoted
    <2>2. k + i \in 1..m /\ j \in 1..m /\ g.waiters[k + i] = g.waiters[j]
      BY <1>2, <1>3, <1>8, <2>1
    <2>3. k + i = j
      BY <1>4, <2>2
    <2>4. QED
      BY <1>2, <1>3, <2>3
  <1>13. \A i, j \in 1..Len(h.waiters) : h.waiters[i] = h.waiters[j] => i = j
    <2> SUFFICES ASSUME NEW i \in 1..(m - k), NEW j \in 1..(m - k), left[i] = left[j]
                 PROVE  i = j
      BY <1>1, <1>8
    <2>1. k + i \in 1..m /\ k + j \in 1..m /\ g.waiters[k + i] = g.waiters[k + j]
      BY <1>2, <1>3, <1>8
    <2>2. k + i = k + j
      BY <1>4, <2>1
    <2>3. QED
      BY <1>3, <2>2
  <1>14. QED
    BY <1>1, <1>9, <1>10, <1>11, <1>12, <1>13 DEF GateSound, h

\* Once every grant of a phase is observed, its staged files are in the gate's line,
\* and no file that holds a slot is staged.
LEMMA ObservedInLine ==
    ASSUME TypeOK, SlotsSound, NEW q \in Queues, gate[q].granted = {}
    PROVE  /\ InLine(q)
           /\ \A f \in gate[q].holders : buffer[q][f] = <<>>
  <1>1. /\ GateSound(gate[q], Hashes, Slots[q])
        /\ Slots[q] \in Nat \ {0}
    BY SchedulerAssumption DEF SlotsSound, GatesSound, SchedulerAssumption
  <1>2. InLine(q)
    <2>1. CASE Swept(q)
      <3>1. gate[q].holders = {}
        BY <2>1 DEF Swept
      <3>2. Cardinality(gate[q].holders) = 0
        BY <3>1, FS_EmptySet
      <3>3. gate[q].waiters = <<>>
        BY <1>1, <3>2 DEF GateSound, WaitersOnlyWhenFull
      <3>4. ~\E i \in 1..Len(gate[q].waiters) : TRUE
        BY <3>3, EmptySeq
      <3>5. QED
        BY <2>1, <3>4 DEF Swept, InLine, Waits
    <2>2. QED
      BY <2>1 DEF SlotsSound, SweptOrInLine
  <1>3. \A f \in gate[q].holders : f \in Hashes /\ ~Waits(gate[q], f)
    BY <1>1 DEF GateSound, GateTypeOK, Waits
  <1>4. QED
    BY <1>2, <1>3 DEF InLine

\* Once every grant is observed, an empty fast queue without a running job means that
\* no fast task is staged either: one would wait behind a holder with nothing to run.
LEMMA FastIdle ==
    ASSUME TypeOK, SlotsSound, gate["fast"].granted = {}, queue["fast"] = <<>>,
           \A t \in Task : Queue(t) = "fast" => pc[t] \notin InJob
    PROVE  \A t \in Task :
               Queue(t) = "fast" => pc[t] \notin InJob \cup {"buffered", "queued"}
  <1>1. "fast" \in Queues /\ Len(<<>>) = 0 /\ ~\E i \in 1..0 : TRUE
    BY EmptySeq DEF Queues
  <1>2. \A t \in Task : Queue(t) = "fast" => pc[t] # "queued"
    BY <1>1 DEF SlotsSound, TasksPlaced
  <1>3. \A t \in Task : Queue(t) = "fast" /\ pc[t] = "buffered"
            => File(t) \in Hashes /\ buffer["fast"][File(t)] # <<>>
    BY <1>1, TaskTypes DEF SlotsSound, TasksPlaced
  <1>4. ASSUME NEW t \in Task, Queue(t) = "fast", pc[t] = "buffered"
        PROVE  FALSE
    <2> DEFINE g == gate["fast"]
    <2>1. GateSound(g, Hashes, Slots["fast"]) /\ Slots["fast"] \in Nat \ {0}
      BY <1>1, SchedulerAssumption DEF SlotsSound, GatesSound, SchedulerAssumption
    <2>2. Waits(g, File(t))
      BY <1>1, <1>3, <1>4, ObservedInLine DEF InLine
    <2>3. g.waiters # <<>>
      BY <1>1, <2>2 DEF Waits
    <2>4. Cardinality(g.holders) # 0
      BY <2>1, <2>3 DEF GateSound, WaitersOnlyWhenFull
    <2>5. g.holders # {}
      BY <2>4, FS_EmptySet
    <2>6. PICK f \in g.holders : TRUE
      BY <2>5
    <2>7. f \in Hashes /\ Outstanding("fast", f) # {}
      BY <1>1, <2>1 DEF SlotsSound, HoldersServed, GateSound, GateTypeOK
    <2>8. PICK u \in Outstanding("fast", f) : TRUE
      BY <2>7
    <2>9. u \in Task /\ Queue(u) = "fast" /\ File(u) = f /\ pc[u] = "buffered"
      BY <1>2, <2>8 DEF Outstanding
    <2>10. buffer["fast"][f] # <<>>
      BY <1>3, <2>9
    <2>11. QED
      BY <1>1, <2>6, <2>10, ObservedInLine
  <1>5. QED
    BY <1>2, <1>4

\* A step that changes no list and no slot, and no task's being outstanding.
LEMMA QuietKeepsSound ==
    ASSUME TypeOK, SlotsSound, UNCHANGED <<buffer, counter, gate, queue, todo>>,
           \A t \in Task : pc'[t] \in InJob \cup {"buffered", "queued"}
                             <=> pc[t] \in InJob \cup {"buffered", "queued"},
           \A t \in Task : pc'[t] \in {"buffered", "queued"} => pc'[t] = pc[t]
    PROVE  SlotsSound'
  <1>1. \A q \in Queues, f \in Hashes : Outstanding(q, f)' = Outstanding(q, f)
    BY OutstandingSame
  <1>2. \A q \in Queues : gate[q].holders \subseteq Hashes
    BY DEF TypeOK, GateStates
  <1>3. GatesSound' /\ CounterBounded' /\ HoldersServed'
    BY <1>1, <1>2 DEF SlotsSound, GatesSound, CounterBounded, HoldersServed
  <1>4. SweptOrInLine'
    BY DEF SlotsSound, SweptOrInLine, Swept, InLine
  <1>5. TasksPlaced'
    BY DEF SlotsSound, TasksPlaced
  <1>6. QED
    BY <1>3, <1>4, <1>5 DEF SlotsSound

\* A path is submitted, or a task of a closed scheduler is dropped: the dispatch loop
\* runs only when no phase is as clear() left it.
LEMMA LoopKeepsSound ==
    ASSUME TypeOK, SlotsSound, UNCHANGED <<buffer, counter, gate, queue>>,
           todo # <<>> \/ \A q \in Queues : gate[q].granted = {},
           \A t \in Task : pc'[t] = pc[t] \/ (pc[t] = "none" /\ pc'[t] = "gone")
    PROVE  SlotsSound'
  <1>1. /\ \A t \in Task : pc'[t] \in InJob \cup {"buffered", "queued"}
                             <=> pc[t] \in InJob \cup {"buffered", "queued"}
        /\ \A t \in Task : pc'[t] \in {"buffered", "queued"} => pc'[t] = pc[t]
    BY DEF InJob
  <1>2. \A q \in Queues, f \in Hashes : Outstanding(q, f)' = Outstanding(q, f)
    BY <1>1, OutstandingSame
  <1>3. \A q \in Queues : gate[q].holders \subseteq Hashes
    BY DEF TypeOK, GateStates
  <1>4. GatesSound' /\ CounterBounded' /\ HoldersServed'
    BY <1>2, <1>3 DEF SlotsSound, GatesSound, CounterBounded, HoldersServed
  <1>5. SweptOrInLine'
    <2>1. \A q \in Queues : InLine(q)
      BY ObservedInLine DEF SlotsSound, SweptOrInLine, Swept
    <2>2. QED
      BY <2>1 DEF SweptOrInLine, InLine
  <1>6. TasksPlaced'
    BY <1>1 DEF SlotsSound, TasksPlaced
  <1>7. QED
    BY <1>4, <1>5, <1>6 DEF SlotsSound

\* A task enters.  Nothing is enqueued in a phase that clear() has just swept, so that
\* the file asks for a slot exactly if it is not in the gate's line.
LEMMA EnqueueTaskKeepsSound ==
    ASSUME TypeOK, LineInv, SlotsSound, EnqueueTask, NEW t \in Task, t = Head(todo)
    PROVE  SlotsSound'
  <1> DEFINE q == Queue(t)
             f == File(t)
  <1>1. /\ q \in Queues /\ f \in Hashes
        /\ pc[t] = "none" /\ todo # <<>>
    <2>1. todo \in Seq(Task) /\ todo # <<>>
      BY DEF TypeOK, EnqueueTask
    <2>2. t = todo[1] /\ 1 \in 1..Len(todo)
      BY <2>1, HeadTailProperties, EmptySeq
    <2>3. QED
      BY <2>1, <2>2, TaskTypes DEF LineInv, CreatedOnce
  <1>2. /\ counter' = [counter EXCEPT ![q][f] = @ + 1]
        /\ counter \in [Queues -> [Hashes -> Nat]]
        /\ buffer \in [Queues -> [Hashes -> Seq(Task)]]
        /\ queue \in [Queues -> Seq(Task)]
        /\ gate \in [Queues -> GateStates]
        /\ pc \in [Task -> Stages]
        /\ Place(t, q, f)
    BY DEF EnqueueTask, TypeOK
  <1>3. \A r \in Queues : InLine(r)
    BY <1>1 DEF SlotsSound, SweptOrInLine, Swept
  <1>4. /\ pc'[t] \in {"queued", "buffered"}
        /\ \A u \in Task : u # t => pc'[u] = pc[u]
    BY <1>2 DEF Place
  <1>5. /\ Outstanding(q, f)' = Outstanding(q, f) \cup {t}
        /\ t \notin Outstanding(q, f)
        /\ \A r \in Queues, h \in Hashes :
              r # q \/ h # f => Outstanding(r, h)' = Outstanding(r, h)
    <2>1. t \notin Outstanding(q, f)
      BY <1>1 DEF Outstanding, InJob
    <2>2. Outstanding(q, f)' = Outstanding(q, f) \cup {t}
      BY <1>1, <1>4 DEF Outstanding
    <2>3. ASSUME NEW r \in Queues, NEW h \in Hashes, r # q \/ h # f
          PROVE  Outstanding(r, h)' = Outstanding(r, h)
      BY <1>1, <1>4, <2>3 DEF Outstanding
    <2>4. QED
      BY <2>1, <2>2, <2>3
  <1>6. CounterBounded'
    <2>1. \A r \in Queues, h \in Hashes :
              /\ counter[r][h] <= Cardinality(Outstanding(r, h))
              /\ IsFiniteSet(Outstanding(r, h))
              /\ Cardinality(Outstanding(r, h)) \in Nat
      BY TasksFinite DEF SlotsSound, CounterBounded
    <2>2. Cardinality(Outstanding(q, f) \cup {t}) = Cardinality(Outstanding(q, f)) + 1
      BY <1>1, <1>5, <2>1, FS_AddElement
    <2>3. counter'[q][f] = counter[q][f] + 1 /\ counter[q][f] \in Nat
      BY <1>1, <1>2
    <2>4. counter'[q][f] <= Cardinality(Outstanding(q, f)')
      <3>1. /\ counter[q][f] <= Cardinality(Outstanding(q, f))
            /\ Cardinality(Outstanding(q, f)) \in Nat
        BY <1>1, <2>1
      <3>2. Cardinality(Outstanding(q, f)') = Cardinality(Outstanding(q, f)) + 1
        BY <1>5, <2>2
      <3>3. QED
        BY <2>3, <3>1, <3>2
    <2>5. ASSUME NEW r \in Queues, NEW h \in Hashes, r # q \/ h # f
          PROVE  counter'[r][h] <= Cardinality(Outstanding(r, h)')
      <3>1. counter'[r][h] = counter[r][h]
        BY <1>1, <1>2, <2>5
      <3>2. QED
        BY <1>5, <2>1, <2>5, <3>1
    <2>6. QED
      BY <2>4, <2>5 DEF CounterBounded
  <1>7. CASE Holds(gate[q], f)
    <2>1. /\ queue' = [queue EXCEPT ![q] = Append(@, t)]
          /\ pc' = [pc EXCEPT ![t] = "queued"]
          /\ UNCHANGED <<buffer, gate>>
      BY <1>2, <1>7 DEF Place
    <2>2. GatesSound' /\ SweptOrInLine'
      BY <1>3, <2>1 DEF SlotsSound, GatesSound, SweptOrInLine, InLine
    <2>3. HoldersServed'
      <3>1. \A r \in Queues : gate[r].holders \subseteq Hashes
        BY <1>2 DEF GateStates
      <3>2. \A r \in Queues, h \in Hashes :
                Outstanding(r, h) # {} => Outstanding(r, h)' # {}
        BY <1>5
      <3>3. QED
        BY <2>1, <3>1, <3>2 DEF SlotsSound, HoldersServed
    <2>4. TasksPlaced'
      <3>1. /\ Len(queue'[q]) = Len(queue[q]) + 1 /\ Len(queue[q]) \in Nat
            /\ \A i \in 1..Len(queue[q]) : queue'[q][i] = queue[q][i]
            /\ queue'[q][Len(queue[q]) + 1] = t
        <4>1. queue'[q] = Append(queue[q], t) /\ queue[q] \in Seq(Task)
          BY <1>1, <1>2, <2>1
        <4>2. QED
          BY <4>1, AppendProperties, LenProperties
      <3>2. \A r \in Queues : r # q => queue'[r] = queue[r]
        BY <1>2, <2>1
      <3>3. ASSUME NEW u \in Task, pc'[u] = "queued"
            PROVE  \E i \in 1..Len(queue'[Queue(u)]) : queue'[Queue(u)][i] = u
        <4>1. CASE u = t
          <5>1. Len(queue[q]) + 1 \in 1..Len(queue'[q])
            BY <3>1
          <5>2. QED
            BY <3>1, <4>1, <5>1
        <4>2. CASE u # t
          <5>1. Queue(u) \in Queues
            BY TaskTypes
          <5>2. PICK i \in 1..Len(queue[Queue(u)]) : queue[Queue(u)][i] = u
            BY <1>4, <3>3, <4>2 DEF SlotsSound, TasksPlaced
          <5>3. i \in 1..Len(queue'[Queue(u)]) /\ queue'[Queue(u)][i] = u
            BY <3>1, <3>2, <5>1, <5>2
          <5>4. QED
            BY <5>3
        <4>3. QED
          BY <4>1, <4>2
      <3>4. \A u \in Task : pc'[u] = "buffered" => pc[u] = "buffered"
        BY <1>2, <2>1
      <3>5. QED
        BY <2>1, <3>3, <3>4 DEF SlotsSound, TasksPlaced
    <2>5. QED
      BY <1>6, <2>2, <2>3, <2>4 DEF SlotsSound
  <1>8. CASE ~Holds(gate[q], f)
    <2>1. /\ buffer' = [buffer EXCEPT ![q][f] = Append(@, t)]
          /\ gate' = IF buffer[q][f] = <<>>
                     THEN [gate EXCEPT ![q] = Acquired(@, f, Slots[q])] ELSE gate
          /\ pc' = [pc EXCEPT ![t] = "buffered"]
          /\ queue' = queue
      BY <1>2, <1>8 DEF Place
    <2>2. /\ Len(buffer[q][f]) \in Nat
          /\ buffer'[q][f] # <<>>
          /\ Len(buffer'[q][f]) = Len(buffer[q][f]) + 1
          /\ \A i \in 1..Len(buffer[q][f]) : buffer'[q][f][i] = buffer[q][f][i]
          /\ buffer'[q][f][Len(buffer[q][f]) + 1] = t
      <3>1. buffer'[q][f] = Append(buffer[q][f], t) /\ buffer[q][f] \in Seq(Task)
        BY <1>1, <1>2, <2>1
      <3>2. QED
        BY <3>1, AppendProperties, LenProperties
    <2>3. \A r \in Queues, h \in Hashes :
              r # q \/ h # f => buffer'[r][h] = buffer[r][h]
      BY <1>1, <1>2, <2>1
    <2>4. \A r \in Queues : r # q => gate'[r] = gate[r]
      BY <1>2, <2>1
    <2>5. /\ GateSound(gate'[q], Hashes, Slots[q])
          /\ gate'[q].holders \subseteq gate[q].holders \cup {f}
          /\ gate[q].granted \subseteq gate'[q].granted
          /\ \A x \in Hashes : Waits(gate'[q], x) \/ x \in gate'[q].granted
                        <=> Waits(gate[q], x) \/ x \in gate[q].granted \/ x = f
      <3> DEFINE g == gate[q]
                 capacity == Slots[q]
                 h == Acquired(g, f, capacity)
      <3>1. GateSound(g, Hashes, capacity) /\ ~Holds(g, f) /\ capacity \in Nat \ {0}
        BY <1>1, <1>8, SchedulerAssumption DEF SlotsSound, GatesSound, SchedulerAssumption
      <3>2. \A x \in Hashes : buffer[q][x] # <<>> <=> Waits(g, x) \/ x \in g.granted
        BY <1>1, <1>3 DEF InLine
      <3>3. CASE buffer[q][f] = <<>>
        <4>1. ~Waits(g, f) /\ f \notin g.granted
          BY <1>1, <3>2, <3>3
        <4>2. gate'[q] = h
          BY <1>1, <1>2, <2>1, <3>3
        <4>3. GateSound(h, Hashes, capacity)
          BY <1>1, <3>1, <4>1, AcquiredSound
        <4>4. GateTypeOK(g, Hashes) /\ h = Acquired(g, f, capacity)
          BY <3>1 DEF GateSound
        <4>5. g.granted \subseteq h.granted
          BY <4>4 DEF Acquired, GateTypeOK
        <4> HIDE DEF g, capacity, h
        <4>6. /\ capacity \in Nat \ {0} /\ f \in Hashes
              /\ GateTypeOK(g, Hashes) /\ h = Acquired(g, f, capacity)
          BY <1>1, <3>1, <4>4
        <4>7. h.holders \subseteq g.holders \cup {f}
          BY <4>6, AcquiredMoves
        <4>8. ASSUME NEW x
              PROVE  Waits(h, x) \/ x \in h.granted
                         <=> Waits(g, x) \/ x \in g.granted \/ x = f
          BY <4>6, AcquiredMoves
        <4>9. QED
          BY <4>2, <4>3, <4>5, <4>7, <4>8 DEF g, capacity, h
      <3>4. CASE buffer[q][f] # <<>>
        <4>1. Waits(gate[q], f) \/ f \in gate[q].granted
          BY <1>1, <3>2, <3>4
        <4>2. gate' = gate
          BY <2>1, <3>4
        <4>3. QED
          BY <3>1, <4>1, <4>2
      <3>5. QED
        BY <3>3, <3>4
    <2>6. GatesSound'
      BY <2>4, <2>5 DEF SlotsSound, GatesSound
    <2>7. HoldersServed'
      <3> SUFFICES ASSUME NEW r \in Queues, NEW x \in gate'[r].holders
                   PROVE  x \in gate'[r].granted \/ Outstanding(r, x)' # {}
        BY DEF HoldersServed
      <3>1. CASE r = q /\ x = f
        BY <1>5, <3>1
      <3>2. CASE ~(r = q /\ x = f)
        <4>1. x \in gate[r].holders /\ gate[r].granted \subseteq gate'[r].granted
          BY <2>4, <2>5, <3>2
        <4>2. x \in Hashes
          BY <1>2, <4>1 DEF GateStates
        <4>3. x \in gate[r].granted \/ Outstanding(r, x) # {}
          BY <4>1 DEF SlotsSound, HoldersServed
        <4>4. QED
          BY <1>5, <3>2, <4>1, <4>2, <4>3
      <3>3. QED
        BY <3>1, <3>2
    <2>8. SweptOrInLine'
      <3> SUFFICES ASSUME NEW r \in Queues, NEW h \in Hashes
                   PROVE  buffer'[r][h] # <<>>
                              <=> Waits(gate'[r], h) \/ h \in gate'[r].granted
        BY DEF SweptOrInLine, InLine
      <3>1. buffer[r][h] # <<>> <=> Waits(gate[r], h) \/ h \in gate[r].granted
        BY <1>3 DEF InLine
      <3>2. CASE r # q
        BY <2>3, <2>4, <3>1, <3>2
      <3>3. CASE r = q /\ h # f
        BY <2>3, <2>5, <3>1, <3>3
      <3>4. CASE r = q /\ h = f
        BY <2>2, <2>5, <3>4
      <3>5. QED
        BY <3>2, <3>3, <3>4
    <2>9. TasksPlaced'
      <3>1. ASSUME NEW u \in Task, pc'[u] = "buffered"
            PROVE  \E i \in 1..Len(buffer'[Queue(u)][File(u)]) :
                       buffer'[Queue(u)][File(u)][i] = u
        <4>1. CASE u = t
          <5>1. Len(buffer[q][f]) + 1 \in 1..Len(buffer'[q][f])
            BY <2>2
          <5>2. QED
            BY <2>2, <4>1, <5>1
        <4>2. CASE u # t
          <5>1. Queue(u) \in Queues /\ File(u) \in Hashes
            BY TaskTypes
          <5>2. PICK i \in 1..Len(buffer[Queue(u)][File(u)]) :
                    buffer[Queue(u)][File(u)][i] = u
            BY <1>4, <3>1, <4>2 DEF SlotsSound, TasksPlaced
          <5>3. /\ i \in 1..Len(buffer'[Queue(u)][File(u)])
                /\ buffer'[Queue(u)][File(u)][i] = u
            BY <2>2, <2>3, <5>1, <5>2
          <5>4. QED
            BY <5>3
        <4>3. QED
          BY <4>1, <4>2
      <3>2. \A u \in Task : pc'[u] = "queued" => pc[u] = "queued"
        BY <1>2, <2>1
      <3>3. QED
        BY <2>1, <3>1, <3>2 DEF SlotsSound, TasksPlaced
    <2>10. QED
      BY <1>6, <2>6, <2>7, <2>8, <2>9 DEF SlotsSound
  <1>9. QED
    BY <1>7, <1>8

\* A grant is observed.  After clear() there is nothing to flush and the slot is given
\* back; otherwise the file's staged tasks follow it into the p-queue.
LEMMA FlushKeepsSound ==
    ASSUME TypeOK, LineInv, SlotsSound, NEW q \in Queues, NEW f \in Hashes, Flush(q, f)
    PROVE  SlotsSound'
  <1> DEFINE staged == buffer[q][f]
             g == gate[q]
             seen == Observed(g, f)
  <1>1. /\ f \in g.granted
        /\ queue' = [queue EXCEPT ![q] = @ \o staged]
        /\ buffer' = [buffer EXCEPT ![q][f] = <<>>]
        /\ pc' = [t \in Task |-> IF pc[t] = "buffered" /\ Queue(t) = q /\ File(t) = f
                                 THEN "queued" ELSE pc[t]]
        /\ gate' = [gate EXCEPT ![q] = FlushedGate(q, f)]
        /\ UNCHANGED <<counter, rounds, todo>>
    BY DEF Flush, loopVars
  <1>2. /\ buffer \in [Queues -> [Hashes -> Seq(Task)]]
        /\ queue \in [Queues -> Seq(Task)]
        /\ gate \in [Queues -> GateStates]
        /\ counter \in [Queues -> [Hashes -> Nat]]
    BY DEF TypeOK
  <1>3. /\ GateSound(g, Hashes, Slots[q])
        /\ Slots[q] \in Nat \ {0}
        /\ g \in GateStates
    BY <1>2, SchedulerAssumption DEF SlotsSound, GatesSound, SchedulerAssumption
  <1>4. /\ gate'[q] = FlushedGate(q, f)
        /\ \A r \in Queues : r # q => gate'[r] = gate[r]
    BY <1>1, <1>2
  <1>5. /\ seen.holders = g.holders /\ seen.waiters = g.waiters
        /\ seen.granted = g.granted \ {f}
        /\ GateSound(seen, Hashes, Slots[q])
        /\ seen \in GateStates
    BY <1>3, ObservedSound, GateTypes DEF Observed, GateStates
  <1>6. \A r \in Queues, h \in Hashes : Outstanding(r, h)' = Outstanding(r, h)
    BY <1>1, OutstandingSame DEF InJob
  <1>7. CounterBounded'
    BY <1>1, <1>6 DEF SlotsSound, CounterBounded
  <1>8. GatesSound'
    <2>1. GateSound(FlushedGate(q, f), Hashes, Slots[q])
      BY <1>3, <1>5, ReleasedSound DEF FlushedGate
    <2>2. QED
      BY <1>4, <2>1 DEF SlotsSound, GatesSound
  <1>9. \A r \in Queues : r # q =>
            /\ Swept(r) => Swept(r)'
            /\ InLine(r) => InLine(r)'
            /\ \A x \in gate'[r].holders :
                   x \in gate'[r].granted \/ Outstanding(r, x)' # {}
    <2> SUFFICES ASSUME NEW r \in Queues, r # q
                 PROVE  /\ Swept(r) => Swept(r)'
                        /\ InLine(r) => InLine(r)'
                        /\ \A x \in gate'[r].holders :
                               x \in gate'[r].granted \/ Outstanding(r, x)' # {}
      OBVIOUS
    <2>1. /\ gate'[r] = gate[r] /\ counter' = counter /\ todo' = todo
          /\ \A h \in Hashes : buffer'[r][h] = buffer[r][h]
      BY <1>1, <1>2, <1>4
    <2>2. gate[r].holders \subseteq Hashes
      BY <1>2 DEF GateStates
    <2>3. QED
      BY <1>6, <2>1, <2>2 DEF Swept, InLine, SlotsSound, HoldersServed
  <1>10. /\ Swept(q)' \/ InLine(q)'
        /\ \A x \in gate'[q].holders : x \in gate'[q].granted \/ Outstanding(q, x)' # {}
    <2>1. CASE Swept(q)
      <3>1. gate'[q] = Released(seen, f)
        BY <1>4, <2>1 DEF FlushedGate, Swept
      <3>2. g.holders \subseteq g.granted
        BY <2>1 DEF Swept
      <3>3. Released(seen, f).holders \subseteq Released(seen, f).granted
        <4>1. CASE ~Holds(seen, f)
          BY <1>5, <3>2, <4>1 DEF Released, Holds
        <4>2. CASE Holds(seen, f) /\ seen.waiters = <<>>
          <5>1. /\ Released(seen, f).holders = seen.holders \ {f}
                /\ Released(seen, f).granted = seen.granted
            BY <1>5, <4>2 DEF Released, GateStates
          <5>2. QED
            BY <1>5, <3>2, <5>1
        <4>3. CASE Holds(seen, f) /\ seen.waiters # <<>>
          <5>1. /\ Released(seen, f).holders = (seen.holders \ {f}) \cup {Head(seen.waiters)}
                /\ Released(seen, f).granted = seen.granted \cup {Head(seen.waiters)}
            BY <4>3 DEF Released
          <5>2. QED
            BY <1>5, <3>2, <5>1
        <4>4. QED
          BY <4>1, <4>2, <4>3
      <3>4. \A h \in Hashes : buffer'[q][h] = <<>>
        BY <1>1, <1>2, <2>1 DEF Swept
      <3>5. Swept(q)'
        BY <1>1, <2>1, <3>1, <3>3, <3>4 DEF Swept
      <3>6. QED
        BY <3>1, <3>3, <3>5
    <2>2. CASE ~Swept(q)
      <3>1. \A h \in Hashes : buffer[q][h] # <<>> <=> Waits(g, h) \/ h \in g.granted
        BY <2>2 DEF SlotsSound, SweptOrInLine, InLine
      <3>2. staged # <<>>
        BY <1>1, <3>1
      <3>3. gate'[q] = seen
        BY <1>4, <3>2 DEF FlushedGate
      <3>4. ~Waits(g, f)
        BY <1>1, <1>3 DEF GateSound, Waits
      <3>5. ASSUME NEW h \in Hashes
            PROVE  buffer'[q][h] # <<>> <=> Waits(gate'[q], h) \/ h \in gate'[q].granted
        <4>1. Waits(gate'[q], h) <=> Waits(g, h)
          BY <1>5, <3>3 DEF Waits
        <4>2. CASE h = f
          BY <1>1, <1>2, <1>5, <3>3, <3>4, <4>1, <4>2
        <4>3. CASE h # f
          BY <1>1, <1>2, <1>5, <3>1, <3>3, <4>1, <4>3
        <4>4. QED
          BY <4>2, <4>3
      <3>6. Outstanding(q, f) # {}
        <4>1. staged \in Seq(Task)
          BY <1>2
        <4>2. 1 \in 1..Len(staged) /\ staged[1] \in Task
          BY <3>2, <4>1, EmptySeq, ElementOfSeq
        <4>3. QED
          BY <4>2 DEF LineInv, StagedTasks, Outstanding
      <3>7. ASSUME NEW x \in gate'[q].holders
            PROVE  x \in gate'[q].granted \/ Outstanding(q, x)' # {}
        <4>1. x \in g.holders /\ x \in Hashes
          BY <1>3, <1>5, <3>3, <3>7 DEF GateStates
        <4>2. x \in g.granted \/ Outstanding(q, x) # {}
          BY <4>1 DEF SlotsSound, HoldersServed
        <4>3. QED
          BY <1>5, <1>6, <3>3, <3>6, <4>1, <4>2
      <3>8. QED
        BY <3>5, <3>7 DEF InLine
    <2>3. QED
      BY <2>1, <2>2
  <1>11. HoldersServed' /\ SweptOrInLine'
    BY <1>9, <1>10 DEF SlotsSound, HoldersServed, SweptOrInLine
  <1>12. TasksPlaced'
    <2>1. queue[q] \in Seq(Task) /\ staged \in Seq(Task) /\ queue'[q] = queue[q] \o staged
      BY <1>1, <1>2
    <2>2. ASSUME NEW u \in Task, pc'[u] = "queued"
          PROVE  \E i \in 1..Len(queue'[Queue(u)]) : queue'[Queue(u)][i] = u
      <3>1. CASE Queue(u) # q
        <4>1. pc[u] = "queued" /\ queue'[Queue(u)] = queue[Queue(u)]
          BY <1>1, <1>2, <2>2, <3>1, TaskTypes
        <4>2. QED
          BY <4>1 DEF SlotsSound, TasksPlaced
      <3>2. CASE Queue(u) = q
        <4>1. \/ \E i \in 1..Len(queue[q]) : queue[q][i] = u
              \/ \E i \in 1..Len(staged) : staged[i] = u
          BY <1>1, <2>2, <3>2 DEF SlotsSound, TasksPlaced
        <4>2. \E i \in 1..Len(queue[q] \o staged) : (queue[q] \o staged)[i] = u
          <5> DEFINE line == queue[q]
          <5>1. line \in Seq(Task) /\ staged \in Seq(Task)
            BY <2>1
          <5>2. (\E i \in 1..Len(line) : line[i] = u) \/ \E i \in 1..Len(staged) : staged[i] = u
            BY <4>1
          <5> HIDE DEF line, staged
          <5>3. /\ Len(line) \in Nat /\ Len(staged) \in Nat
                /\ Len(line \o staged) = Len(line) + Len(staged)
                /\ \A i \in 1..(Len(line) + Len(staged)) :
                       (line \o staged)[i] = IF i <= Len(line) THEN line[i]
                                             ELSE staged[i - Len(line)]
            BY <5>1, ConcatProperties, LenProperties
          <5>4. ASSUME NEW i \in 1..Len(line), line[i] = u
                PROVE  i \in 1..Len(line \o staged) /\ (line \o staged)[i] = u
            BY <5>3, <5>4
          <5>5. ASSUME NEW i \in 1..Len(staged), staged[i] = u
                PROVE  /\ Len(line) + i \in 1..Len(line \o staged)
                       /\ (line \o staged)[Len(line) + i] = u
            BY <5>3, <5>5
          <5>6. QED
            BY <5>2, <5>4, <5>5 DEF line
        <4>3. QED
          BY <2>1, <3>2, <4>2
      <3>3. QED
        BY <3>1, <3>2
    <2>3. ASSUME NEW u \in Task, pc'[u] = "buffered"
          PROVE  \E i \in 1..Len(buffer'[Queue(u)][File(u)]) :
                     buffer'[Queue(u)][File(u)][i] = u
      <3>1. pc[u] = "buffered" /\ ~(Queue(u) = q /\ File(u) = f)
        BY <1>1, <2>3
      <3>2. buffer'[Queue(u)][File(u)] = buffer[Queue(u)][File(u)]
        BY <1>1, <1>2, <3>1, TaskTypes
      <3>3. QED
        BY <3>1, <3>2 DEF SlotsSound, TasksPlaced
    <2>4. QED
      BY <2>2, <2>3 DEF TasksPlaced
  <1>13. QED
    BY <1>7, <1>8, <1>11, <1>12 DEF SlotsSound

\* The p-queue starts the first task of its line; every other one stays in it.
LEMMA StartJobKeepsSound ==
    ASSUME TypeOK, LineInv, SlotsSound, NEW q \in Queues, StartJob(q),
           NEW t \in Task, t = Head(queue[q])
    PROVE  SlotsSound'
  <1>1. /\ queue' = [queue EXCEPT ![q] = Tail(@)]
        /\ pc' = [pc EXCEPT ![t] = "waiting"]
        /\ UNCHANGED <<buffer, counter, gate, todo>>
        /\ pc \in [Task -> Stages]
        /\ queue \in [Queues -> Seq(Task)]
        /\ queue[q] \in Seq(Task) /\ queue[q] # <<>>
    BY DEF StartJob, Startable, loopVars, slotVars, TypeOK
  <1>2. /\ t = queue[q][1] /\ 1 \in 1..Len(queue[q]) /\ Len(queue[q]) \in Nat
        /\ Len(Tail(queue[q])) = Len(queue[q]) - 1
        /\ \A i \in 1..Len(Tail(queue[q])) : Tail(queue[q])[i] = queue[q][i + 1]
    BY <1>1, HeadTailProperties, EmptySeq, LenProperties
  <1>3. pc[t] = "queued" /\ Queue(t) = q
    BY <1>2 DEF LineInv, QueuedTasks
  <1>4. \A r \in Queues, h \in Hashes : Outstanding(r, h)' = Outstanding(r, h)
    BY <1>1, <1>3, OutstandingSame DEF InJob
  <1>5. \A r \in Queues : gate[r].holders \subseteq Hashes
    BY DEF TypeOK, GateStates
  <1>6. GatesSound' /\ CounterBounded' /\ HoldersServed'
    BY <1>1, <1>4, <1>5 DEF SlotsSound, GatesSound, CounterBounded, HoldersServed
  <1>7. SweptOrInLine'
    BY <1>1 DEF SlotsSound, SweptOrInLine, Swept, InLine
  <1>8. TasksPlaced'
    <2>1. \A u \in Task : pc'[u] = "buffered" => pc[u] = "buffered"
      BY <1>1
    <2>2. ASSUME NEW u \in Task, pc'[u] = "queued"
          PROVE  \E i \in 1..Len(queue'[Queue(u)]) : queue'[Queue(u)][i] = u
      <3>1. pc[u] = "queued" /\ u # t /\ Queue(u) \in Queues
        BY <1>1, <2>2, TaskTypes
      <3>2. PICK i \in 1..Len(queue[Queue(u)]) : queue[Queue(u)][i] = u
        BY <3>1 DEF SlotsSound, TasksPlaced
      <3>3. CASE Queue(u) # q
        <4>1. queue'[Queue(u)] = queue[Queue(u)]
          BY <1>1, <3>1, <3>3
        <4>2. QED
          BY <3>2, <4>1
      <3>4. CASE Queue(u) = q
        <4>1. queue'[q] = Tail(queue[q]) /\ i # 1 /\ i \in 1..Len(queue[q])
          BY <1>1, <1>2, <3>1, <3>2, <3>4
        <4>2. i - 1 \in 1..Len(Tail(queue[q])) /\ Tail(queue[q])[i - 1] = queue[q][i]
          BY <1>2, <4>1
        <4>3. QED
          BY <3>2, <3>4, <4>1, <4>2
      <3>5. QED
        BY <3>3, <3>4
    <2>3. QED
      BY <1>1, <2>1, <2>2 DEF SlotsSound, TasksPlaced
  <1>9. QED
    BY <1>6, <1>7, <1>8 DEF SlotsSound

\* A job ends.  When the counter is 1 or below the file's slot goes to the next in line,
\* which is granted it; above 1, another task of the file is outstanding.
LEMMA EndJobKeepsSound ==
    ASSUME TypeOK, SlotsSound, NEW t \in Task, NEW st, EndJob(t, st), pc[t] \in InJob
    PROVE  SlotsSound'
  <1> DEFINE q == Queue(t)
             f == File(t)
             g == gate[q]
             left == Outstanding(q, f) \ {t}
  <1>1. /\ q \in Queues /\ f \in Hashes
        /\ t \in Outstanding(q, f)
        /\ pc' = [pc EXCEPT ![t] = "leaving"]
        /\ UNCHANGED <<buffer, queue, rounds, todo>>
        /\ pc \in [Task -> Stages]
        /\ counter \in [Queues -> [Hashes -> Nat]]
        /\ gate \in [Queues -> GateStates]
    BY TaskTypes DEF Outstanding, EndJob, loopVars, TypeOK
  <1>2. /\ Outstanding(q, f)' = left
        /\ \A r \in Queues, h \in Hashes :
              r # q \/ h # f => Outstanding(r, h)' = Outstanding(r, h)
    BY <1>1 DEF Outstanding, InJob
  <1>3. /\ counter[q][f] \in Nat
        /\ counter[q][f] <= Cardinality(left) + 1
        /\ IsFiniteSet(left) /\ Cardinality(left) \in Nat
    <2>1. /\ counter[q][f] <= Cardinality(Outstanding(q, f))
          /\ IsFiniteSet(Outstanding(q, f))
          /\ Cardinality(Outstanding(q, f)) \in Nat
      BY <1>1, TasksFinite DEF SlotsSound, CounterBounded
    <2>2. IsFiniteSet(left) /\ Cardinality(left) = Cardinality(Outstanding(q, f)) - 1
      BY <1>1, <2>1, FS_RemoveElement
    <2>3. Cardinality(left) \in Nat
      BY <2>2, FS_CardinalityType
    <2>4. counter[q][f] \in Nat
      BY <1>1
    <2>5. QED
      BY <2>1, <2>2, <2>3, <2>4
  <1>4. GateSound(g, Hashes, Slots[q]) /\ Slots[q] \in Nat \ {0} /\ g \in GateStates
    BY <1>1, SchedulerAssumption DEF SlotsSound, GatesSound, SchedulerAssumption
  <1>5. /\ counter'[q][f] <= Cardinality(left)
        /\ \A r \in Queues, h \in Hashes :
              r # q \/ h # f => counter'[r][h] = counter[r][h]
        /\ \A r \in Queues : r # q => gate'[r] = gate[r]
        /\ \/ counter'[q][f] = 0 /\ gate'[q] = Released(g, f)
           \/ counter[q][f] > 1 /\ gate' = gate /\ left # {}
    <2>1. CASE counter[q][f] <= 1
      <3>1. /\ counter' = [counter EXCEPT ![q][f] = 0]
            /\ gate' = [gate EXCEPT ![q] = Released(@, f)]
        BY <1>3, <2>1 DEF EndJob, OnTaskFinished
      <3>2. counter'[q][f] = 0 /\ gate'[q] = Released(g, f)
        BY <1>1, <3>1
      <3>3. QED
        BY <1>1, <1>3, <3>1, <3>2
    <2>2. CASE counter[q][f] > 1
      <3>1. /\ counter' = [counter EXCEPT ![q][f] = @ - 1]
            /\ gate' = gate
        BY <1>3, <2>2 DEF EndJob, OnTaskFinished
      <3>2. counter'[q][f] = counter[q][f] - 1
        BY <1>1, <3>1
      <3>3. Cardinality(left) # 0
        BY <1>3, <2>2
      <3>4. left # {}
        BY <3>3, FS_EmptySet
      <3>5. counter'[q][f] <= Cardinality(left)
        BY <1>3, <3>2
      <3>6. QED
        BY <1>1, <2>2, <3>1, <3>4, <3>5
    <2>3. QED
      BY <1>3, <2>1, <2>2
  <1>6. CounterBounded'
    BY <1>2, <1>5 DEF SlotsSound, CounterBounded
  <1>7. GatesSound'
    <2>1. GateSound(Released(g, f), Hashes, Slots[q])
      BY <1>1, <1>4, ReleasedSound
    <2>2. QED
      BY <1>5, <2>1 DEF SlotsSound, GatesSound
  <1>8. /\ \A x \in gate'[q].holders :
              \/ x \in gate'[q].granted
              \/ x \in g.holders /\ (x # f \/ left # {})
        /\ g.granted \subseteq gate'[q].granted
        /\ \A x \in Hashes : Waits(gate'[q], x) \/ x \in gate'[q].granted
                                 <=> Waits(g, x) \/ x \in g.granted
        /\ g.holders \subseteq g.granted => gate'[q].holders \subseteq gate'[q].granted
    <2>1. CASE gate'[q] = g /\ left # {}
      BY <2>1
    <2>2. CASE ~Holds(g, f) /\ gate'[q] = Released(g, f)
      <3>1. gate'[q] = g /\ f \notin g.holders
        BY <2>2 DEF Released, Holds
      <3>2. QED
        BY <3>1
    <2>3. CASE Holds(g, f) /\ gate'[q] = Released(g, f)
      <3> DEFINE h == gate'[q]
                 capacity == Slots[q]
      <3>1. /\ capacity \in Nat \ {0} /\ f \in Hashes
            /\ GateTypeOK(g, Hashes) /\ Holds(g, f) /\ h = Released(g, f)
        BY <1>1, <1>4, <2>3 DEF GateSound
      <3> HIDE DEF h, g, capacity
      <3>2. /\ \A x \in h.holders : x \in g.holders \ {f}
                                      \/ (Waits(g, x) /\ x \in h.granted)
            /\ g.granted \subseteq h.granted
        BY <3>1, ReleasedMoves
      <3>3. ASSUME NEW x
            PROVE  Waits(h, x) \/ x \in h.granted <=> Waits(g, x) \/ x \in g.granted
        BY <3>1, ReleasedMoves
      <3>4. QED
        BY <3>2, <3>3 DEF h
    <2>4. QED
      BY <1>5, <2>1, <2>2, <2>3
  <1>9. HoldersServed'
    <2> SUFFICES ASSUME NEW r \in Queues, NEW x \in gate'[r].holders
                 PROVE  x \in gate'[r].granted \/ Outstanding(r, x)' # {}
      BY DEF HoldersServed
    <2>1. CASE r # q
      <3>1. gate'[r] = gate[r] /\ x \in Hashes
        BY <1>1, <1>5, <2>1 DEF GateStates
      <3>2. QED
        BY <1>2, <2>1, <3>1 DEF SlotsSound, HoldersServed
    <2>2. CASE r = q /\ x \in g.holders /\ (x # f \/ left # {})
      <3>1. x \in Hashes
        BY <1>4, <2>2 DEF GateStates
      <3>2. x \in g.granted \/ Outstanding(q, x) # {}
        BY <1>1, <2>2 DEF SlotsSound, HoldersServed
      <3>3. CASE x = f
        BY <1>2, <2>2, <3>3
      <3>4. CASE x # f
        BY <1>1, <1>2, <1>8, <2>2, <3>1, <3>2, <3>4
      <3>5. QED
        BY <3>3, <3>4
    <2>3. QED
      BY <1>8, <2>1, <2>2
  <1>10. SweptOrInLine'
    <2> SUFFICES ASSUME NEW r \in Queues
                 PROVE  Swept(r)' \/ InLine(r)'
      BY DEF SweptOrInLine
    <2>1. CASE r # q
      <3>1. /\ gate'[r] = gate[r] /\ buffer' = buffer /\ todo' = todo
            /\ \A h \in Hashes : counter'[r][h] = counter[r][h]
        BY <1>1, <1>5, <2>1
      <3>2. QED
        BY <3>1 DEF SlotsSound, SweptOrInLine, Swept, InLine
    <2>2. CASE r = q /\ Swept(q)
      <3>1. counter[q][f] = 0
        BY <1>1, <2>2 DEF Swept
      <3>2. \A h \in Hashes : counter'[q][h] = 0
        BY <1>1, <1>5, <2>2, <3>1 DEF Swept
      <3>3. QED
        BY <1>1, <1>8, <2>2, <3>2 DEF Swept
    <2>3. CASE r = q /\ InLine(q)
      BY <1>1, <1>8, <2>3 DEF InLine
    <2>4. QED
      BY <2>1, <2>2, <2>3 DEF SlotsSound, SweptOrInLine
  <1>11. TasksPlaced'
    <2>1. \A u \in Task : pc'[u] \in {"buffered", "queued"} => pc'[u] = pc[u]
      BY <1>1
    <2>2. QED
      BY <1>1, <2>1 DEF SlotsSound, TasksPlaced
  <1>12. QED
    BY <1>6, <1>7, <1>9, <1>10, <1>11 DEF SlotsSound

\* clear(): the lists are empty, the counters zero and every slot granted anew.
LEMMA ClearKeepsSound ==
    ASSUME TypeOK, SlotsSound, Clear
    PROVE  SlotsSound'
  <1>1. /\ \A q \in Queues : queue'[q] = <<>>
        /\ \A q \in Queues, f \in Hashes : buffer'[q][f] = <<>> /\ counter'[q][f] = 0
        /\ \A q \in Queues : gate'[q] = ReleasedAll(gate[q])
        /\ todo' = <<>>
        /\ \A t \in Task : pc'[t] \notin {"buffered", "queued"}
    BY DEF Clear, EventLoopFree, SynchronousCodeRuns, loopVars
  <1>2. \A q \in Queues : /\ GateSound(gate'[q], Hashes, Slots[q])
                          /\ gate'[q].holders = gate'[q].granted
    <2> SUFFICES ASSUME NEW q \in Queues
                 PROVE  /\ GateSound(gate'[q], Hashes, Slots[q])
                        /\ gate'[q].holders = gate'[q].granted
      OBVIOUS
    <2>1. GateSound(gate[q], Hashes, Slots[q]) /\ Slots[q] \in Nat \ {0}
      BY SchedulerAssumption DEF SlotsSound, GatesSound, SchedulerAssumption
    <2>2. QED
      BY <1>1, <2>1, ReleasedAllSound
  <1>3. GatesSound' /\ HoldersServed'
    BY <1>2 DEF GatesSound, HoldersServed
  <1>4. SweptOrInLine'
    BY <1>1, <1>2 DEF SweptOrInLine, Swept
  <1>5. CounterBounded'
    <2>1. \A q \in Queues, f \in Hashes : IsFiniteSet(Outstanding(q, f)')
      <3>1. \A q \in Queues, f \in Hashes : Outstanding(q, f)' \subseteq Task
        BY DEF Outstanding
      <3>2. QED
        BY <3>1, TasksFinite, FS_Subset
    <2>2. \A q \in Queues, f \in Hashes : Cardinality(Outstanding(q, f)') \in Nat
      BY <2>1, FS_CardinalityType
    <2>3. QED
      BY <1>1, <2>2 DEF CounterBounded
  <1>6. TasksPlaced'
    BY <1>1 DEF TasksPlaced
  <1>7. QED
    BY <1>3, <1>4, <1>5, <1>6 DEF SlotsSound

\* A step that makes no task outstanding and does not start the background queue.
LEMMA FastFirstStays ==
    ASSUME FastFirst, paused["background"] => paused'["background"],
           \A t \in Task : pc'[t] \in InJob \cup {"buffered", "queued"}
                             => pc[t] \in InJob \cup {"buffered", "queued"}
    PROVE  FastFirst'
  BY DEF FastFirst

\* The end of a job and resume() start the background queue only when the fast queue
\* has nothing queued, running or staged (ContainerPluginScheduler.ts:398-404, 1002-1009).
LEMMA BackgroundStarts ==
    ASSUME TypeOK, SlotsSound, FastFirst, ~GrantsRun,
           (\E t \in Task : JobLeaves(t)) \/ Resume
    PROVE  FastFirst'
  <1>1. "fast" \in Queues /\ "background" \in Queues /\ gate["fast"].granted = {}
    BY DEF GrantsRun, Queues
  <1>2. \A u \in Task : pc'[u] \in InJob \cup {"buffered", "queued"}
                          => pc[u] \in InJob \cup {"buffered", "queued"}
    BY DEF JobLeaves, Resume, TypeOK, InJob
  <1>3. CASE paused["background"] => paused'["background"]
    BY <1>2, <1>3, FastFirstStays
  <1>4. CASE paused["background"] /\ ~paused'["background"]
    <2>1. queue["fast"] = <<>> /\ \A u \in Pending("fast") : pc[u] = "leaving"
      <3>1. ASSUME NEW t \in Task, JobLeaves(t)
            PROVE  queue["fast"] = <<>> /\ \A u \in Pending("fast") : pc[u] = "leaving"
        <4>1. paused' # paused
          BY <1>4
        <4>2. queue["fast"] = <<>> /\ Pending("fast") = {t} /\ pc[t] = "leaving"
          BY <3>1, <4>1 DEF JobLeaves
        <4>3. QED
          BY <4>2
      <3>2. ASSUME Resume
            PROVE  queue["fast"] = <<>> /\ Pending("fast") = {}
        <4>1. paused' = [paused EXCEPT !["fast"] = FALSE,
                                       !["background"] = @ /\ ~FastQueueEmpty]
          BY <3>2 DEF Resume
        <4>2. paused'["background"] = (paused["background"] /\ ~FastQueueEmpty)
          BY <1>1, <4>1, Zenon DEF TypeOK
        <4>3. FastQueueEmpty
          BY <1>4, <4>2
        <4>4. QED
          BY <4>3 DEF FastQueueEmpty
      <3>3. QED
        BY <3>1, <3>2
    <2>2. \A u \in Task : Queue(u) = "fast" => pc[u] \notin InJob
      BY <2>1 DEF Pending, InJob
    <2>3. \A u \in Task : Queue(u) = "fast" => pc[u] \notin InJob \cup {"buffered", "queued"}
      BY <1>1, <2>1, <2>2, FastIdle
    <2>4. QED
      BY <1>2, <2>3 DEF FastFirst
  <1>5. QED
    BY <1>3, <1>4

\* ResetInv holds at the start and every step preserves it, clear() included.
LEMMA ResetInvInductive ==
    /\ Init => ResetInv
    /\ TypeOK /\ LineInv /\ ResetInv /\ [Next]_vars => ResetInv'
  <1>1. ASSUME Init
        PROVE  ResetInv
    <2> USE <1>1
    <2>1. \A q \in Queues, f \in Hashes : Outstanding(q, f) = {}
      BY DEF Init, Outstanding, InJob
    <2>2. CounterBounded
      <3>1. Cardinality({}) = 0
        BY FS_EmptySet
      <3>2. \A q \in Queues, f \in Hashes : counter[q][f] = 0
        BY DEF Init
      <3>3. QED
        BY <2>1, <3>1, <3>2 DEF CounterBounded
    <2>3. GatesSound
      <3>1. \A q \in Queues : Slots[q] \in Nat \ {0}
        BY SchedulerAssumption DEF SchedulerAssumption
      <3>2. QED
        BY <3>1, EmptyGateOK, GateOKSound DEF Init, GatesSound
    <2>4. HoldersServed
      BY DEF Init, HoldersServed, EmptyGate
    <2>5. SweptOrInLine
      BY DEF Init, SweptOrInLine, Swept, EmptyGate
    <2>6. TasksPlaced /\ FastFirst
      BY DEF Init, TasksPlaced, FastFirst, InJob
    <2>7. QED
      BY <2>2, <2>3, <2>4, <2>5, <2>6 DEF ResetInv, SlotsSound
  <1>2. ASSUME TypeOK, LineInv, ResetInv, [Next]_vars
        PROVE  ResetInv'
    <2> USE <1>2
    <2>1. SlotsSound /\ FastFirst /\ pc \in [Task -> Stages]
      BY DEF ResetInv, TypeOK
    <2>2. ASSUME NEW p \in Paths, Submit(p) \/ \E x \in Plugins : Recompute(p, x)
          PROVE  ResetInv'
      <3>1. /\ UNCHANGED <<buffer, counter, gate, queue, pc, paused>>
            /\ \A q \in Queues : gate[q].granted = {}
        BY <2>2 DEF Submit, Recompute, slotVars, EventLoopFree, GrantsRun
      <3>2. SlotsSound'
        BY <2>1, <3>1, LoopKeepsSound
      <3>3. FastFirst'
        BY <2>1, <3>1, FastFirstStays
      <3>4. QED
        BY <3>2, <3>3 DEF ResetInv
    <2>3. ASSUME RejectTask \/ EnqueueTask
          PROVE  ResetInv'
      <3>1. /\ Head(todo) \in Task /\ todo # <<>>
            /\ Head(todo) = todo[1] /\ 1 \in 1..Len(todo)
        BY <2>3, HeadTailProperties, EmptySeq DEF RejectTask, EnqueueTask, TypeOK
      <3>2. PICK t \in Task : t = Head(todo)
        BY <3>1
      <3>3. pc[t] = "none"
        BY <3>1, <3>2 DEF LineInv, CreatedOnce
      <3>4. CASE RejectTask
        <4>1. /\ UNCHANGED <<buffer, counter, gate, queue, paused>>
              /\ \A u \in Task : pc'[u] = pc[u] \/ (pc[u] = "none" /\ pc'[u] = "gone")
          BY <2>1, <3>2, <3>3, <3>4 DEF RejectTask, slotVars
        <4>2. SlotsSound'
          BY <2>1, <3>1, <4>1, LoopKeepsSound
        <4>3. FastFirst'
          BY <2>1, <4>1, FastFirstStays DEF InJob
        <4>4. QED
          BY <4>2, <4>3 DEF ResetInv
      <3>5. CASE EnqueueTask
        <4>1. SlotsSound'
          BY <2>1, <3>2, <3>5, EnqueueTaskKeepsSound
        <4>2. /\ paused' = [paused EXCEPT !["background"] = @ \/ Queue(t) = "fast"]
              /\ \A u \in Task : u # t => pc'[u] = pc[u]
          BY <2>1, <3>2, <3>5 DEF EnqueueTask, PauseBackground, Place
        <4>3. paused'["background"] = (paused["background"] \/ Queue(t) = "fast")
          BY <4>2, Zenon DEF TypeOK, Queues
        <4>4. FastFirst'
          BY <2>1, <4>2, <4>3 DEF FastFirst
        <4>5. QED
          BY <4>1, <4>4 DEF ResetInv
      <3>6. QED
        BY <2>3, <3>4, <3>5
    <2>4. ASSUME NEW q \in Queues, StartJob(q)
          PROVE  ResetInv'
      <3>1. /\ Head(queue[q]) \in Task
            /\ Head(queue[q]) = queue[q][1] /\ 1 \in 1..Len(queue[q])
        BY <2>4, HeadTailProperties, EmptySeq DEF StartJob, Startable, TypeOK
      <3>2. PICK t \in Task : t = Head(queue[q])
        BY <3>1
      <3>3. pc[t] = "queued" /\ pc' = [pc EXCEPT ![t] = "waiting"] /\ paused' = paused
        BY <2>4, <3>1, <3>2 DEF StartJob, LineInv, QueuedTasks
      <3>4. FastFirst'
        BY <2>1, <3>3, FastFirstStays
      <3>5. QED
        BY <2>1, <2>4, <3>2, <3>4, StartJobKeepsSound DEF ResetInv
    <2>5. ASSUME NEW q \in Queues, NEW f \in Hashes, Flush(q, f)
          PROVE  ResetInv'
      <3>1. FastFirst'
        BY <2>1, <2>5, FastFirstStays DEF Flush
      <3>2. QED
        BY <2>1, <2>5, <3>1, FlushKeepsSound DEF ResetInv
    <2>6. ASSUME NEW t \in Task, FailUnhealthy(t) \/ Settle(t) \/ SettleWithError(t)
          PROVE  ResetInv'
      <3>1. pc[t] \in InJob
        BY <2>6 DEF FailUnhealthy, Settle, SettleWithError, InJob
      <3>2. EndJob(t, status) \/ EndJob(t, [status EXCEPT ![t] = "failed"])
        BY <2>6 DEF FailUnhealthy, Settle, SettleWithError
      <3>3. pc' = [pc EXCEPT ![t] = "leaving"] /\ paused' = paused
        BY <3>2 DEF EndJob
      <3>4. FastFirst'
        BY <2>1, <3>3, FastFirstStays DEF InJob
      <3>5. QED
        BY <2>1, <3>1, <3>2, <3>4, EndJobKeepsSound DEF ResetInv
    <2>7. ASSUME NEW t \in Task,
                 \/ Dispatch(t) \/ CallbackTimeout(t)
                 \/ \E x \in Plugins : DependencyTimeout(t, x)
                 \/ OutsideStep(t)
          PROVE  ResetInv'
      <3>1. UNCHANGED <<buffer, counter, gate, queue, todo, paused>>
        BY <2>7
        DEF Dispatch, CallbackTimeout, DependencyTimeout, OutsideStep,
            ContainerAccepts, PostAccepted, PostFails, Callback, loopVars, slotVars
      <3>2. pc' = pc \/ (pc[t] \in InJob /\ \E x \in InJob : pc' = [pc EXCEPT ![t] = x])
        BY <2>7
        DEF Dispatch, CallbackTimeout, DependencyTimeout, OutsideStep,
            ContainerAccepts, PostAccepted, PostFails, Callback, TakeReport, SwallowReport,
            DropReport, InJob
      <3>3. \A u \in Task : \/ pc'[u] = pc[u]
                            \/ pc[u] \in InJob /\ pc'[u] \in InJob
        BY <2>1, <3>2
      <3>4. QED
        BY <2>1, <3>1, <3>3, QuietKeepsSound, FastFirstStays DEF ResetInv, InJob
    <2>8. ASSUME NEW t \in Task, JobLeaves(t)
          PROVE  ResetInv'
      <3>1. /\ UNCHANGED <<buffer, counter, gate, queue, todo>>
            /\ pc[t] = "leaving" /\ pc' = [pc EXCEPT ![t] = "gone"]
        BY <2>8 DEF JobLeaves, loopVars, slotVars
      <3>2. SlotsSound'
        BY <2>1, <3>1, QuietKeepsSound DEF InJob
      <3>3. FastFirst'
        BY <2>1, <2>8, BackgroundStarts DEF JobLeaves
      <3>4. QED
        BY <3>2, <3>3 DEF ResetInv
    <2>9. ASSUME NEW f \in Hashes, CancelFile(f)
          PROVE  ResetInv'
      <3>1. /\ UNCHANGED <<buffer, counter, gate, queue, todo, paused>>
            /\ \A u \in Task : pc'[u] = pc[u] \/ (pc[u] = "awaiting" /\ pc'[u] = "rejected")
        BY <2>9 DEF CancelFile, loopVars, slotVars
      <3>2. QED
        BY <2>1, <3>1, QuietKeepsSound, FastFirstStays DEF ResetInv, InJob
    <2>10. ASSUME (\E x \in Plugins : HealthChanges(x)) \/ SetGate \/ Pause \/ UNCHANGED vars
          PROVE  ResetInv'
      <3>1. UNCHANGED <<buffer, counter, gate, queue, todo, pc>>
        BY <2>10 DEF HealthChanges, SetGate, Pause, vars, loopVars, slotVars
      <3>2. paused' = paused \/ paused' = [q \in Queues |-> TRUE]
        BY <2>10 DEF HealthChanges, SetGate, Pause, vars
      <3>3. paused["background"] => paused'["background"]
        BY <3>2 DEF Queues
      <3>4. QED
        BY <2>1, <3>1, <3>3, QuietKeepsSound, FastFirstStays DEF ResetInv
    <2>11. ASSUME Resume
           PROVE  ResetInv'
      <3>1. UNCHANGED <<buffer, counter, gate, queue, todo, pc>>
        BY <2>11 DEF Resume, loopVars, slotVars
      <3>2. FastFirst'
        BY <2>1, <2>11, BackgroundStarts DEF Resume, EventLoopFree
      <3>3. QED
        BY <2>1, <3>1, <3>2, QuietKeepsSound DEF ResetInv
    <2>12. ASSUME Clear
           PROVE  ResetInv'
      <3>1. paused' = paused
        BY <2>12 DEF Clear
      <3>2. \A u \in Task : pc'[u] \in InJob \cup {"buffered", "queued"}
                              => pc[u] \in InJob \cup {"buffered", "queued"}
        BY <2>12 DEF Clear, InJob
      <3>3. QED
        BY <2>1, <2>12, <3>1, <3>2, ClearKeepsSound, FastFirstStays DEF ResetInv
    <2>13. QED
      BY <2>2, <2>3, <2>4, <2>5, <2>6, <2>7, <2>8, <2>9, <2>10, <2>11, <2>12
      DEF Next, Steady, QueueStep, TaskStep
  <1>3. QED
    BY <1>1, <1>2

\* A task gets a final status only from its report, its timeout or the end of its job,
\* and a later one never takes it back to work.
LEMMA EndedTasksInductive ==
    /\ Init => EndedTasks
    /\ TypeOK /\ LineInv /\ EndedTasks /\ [Next]_vars => EndedTasks'
  <1>1. Init => EndedTasks
    BY DEF Init, EndedTasks, Terminal
  <1>2. ASSUME TypeOK, LineInv, EndedTasks, [Next]_vars
        PROVE  EndedTasks'
    <2> USE <1>2
    <2>1. pc \in [Task -> Stages] /\ status \in [Task -> Statuses]
      BY DEF TypeOK
    <2>2. ASSUME status' = status,
                 \A u \in Task : \/ pc'[u] = pc[u]
                                 \/ pc[u] \notin {"resolved", "rejected", "leaving", "gone"}
                                 \/ pc'[u] \in {"resolved", "rejected", "leaving", "gone"}
          PROVE  EndedTasks'
      BY <2>2 DEF EndedTasks
    <2>3. ASSUME RejectTask \/ EnqueueTask
          PROVE  EndedTasks'
      <3>1. /\ Head(todo) \in Task
            /\ Head(todo) = todo[1] /\ 1 \in 1..Len(todo)
        BY <2>3, HeadTailProperties, EmptySeq DEF RejectTask, EnqueueTask, TypeOK
      <3>2. PICK t \in Task : t = Head(todo)
        BY <3>1
      <3>3. pc[t] = "none" /\ status' = status /\ \A u \in Task : u # t => pc'[u] = pc[u]
        BY <2>1, <2>3, <3>1, <3>2 DEF LineInv, CreatedOnce, RejectTask, EnqueueTask, Place
      <3>4. QED
        BY <2>2, <3>3
    <2>4. ASSUME NEW q \in Queues, StartJob(q)
          PROVE  EndedTasks'
      <3>1. /\ Head(queue[q]) \in Task
            /\ Head(queue[q]) = queue[q][1] /\ 1 \in 1..Len(queue[q])
        BY <2>4, HeadTailProperties, EmptySeq DEF StartJob, Startable, TypeOK
      <3>2. PICK t \in Task : t = Head(queue[q])
        BY <3>1
      <3>3. /\ pc[t] = "queued" /\ pc' = [pc EXCEPT ![t] = "waiting"]
            /\ status' = [status EXCEPT ![t] = IF Deps(t) = {} THEN @ ELSE "waiting"]
        BY <2>4, <3>1, <3>2 DEF StartJob, LineInv, QueuedTasks
      <3>4. status[t] \notin Terminal
        BY <3>3 DEF EndedTasks
      <3>5. QED
        BY <2>1, <3>3, <3>4 DEF EndedTasks, Terminal
    <2>5. ASSUME NEW t \in Task, FailUnhealthy(t) \/ Settle(t) \/ SettleWithError(t)
          PROVE  EndedTasks'
      <3>1. PICK st \in [Task -> Statuses] :
                EndJob(t, st) /\ \A u \in Task : u # t => st[u] = status[u]
        <4>1. [status EXCEPT ![t] = "failed"] \in [Task -> Statuses]
          BY <2>1 DEF Statuses, Terminal
        <4>2. EndJob(t, status) \/ EndJob(t, [status EXCEPT ![t] = "failed"])
          BY <2>5 DEF FailUnhealthy, Settle, SettleWithError
        <4>3. QED
          BY <2>1, <4>1, <4>2
      <3>2. pc' = [pc EXCEPT ![t] = "leaving"]
        BY <3>1 DEF EndJob
      <3>3. \A u \in Task : u # t => status'[u] \in {status[u], "pending"}
        BY <3>1 DEF EndJob, CheckFileCompletion
      <3>4. QED
        BY <2>1, <3>2, <3>3 DEF EndedTasks, Terminal
    <2>6. ASSUME NEW t \in Task, Dispatch(t)
          PROVE  EndedTasks'
      BY <2>1, <2>6 DEF Dispatch, EndedTasks, Terminal
    <2>7. ASSUME NEW t \in Task, CallbackTimeout(t)
          PROVE  EndedTasks'
      BY <2>1, <2>7 DEF CallbackTimeout, EndedTasks
    <2>8. ASSUME NEW t \in Task, NEW r \in Reports, Callback(t, r)
          PROVE  EndedTasks'
      <3>1. CASE TakeReport(t, r)
        BY <2>1, <3>1 DEF TakeReport, EndedTasks
      <3>2. CASE SwallowReport(t, r) \/ DropReport(t)
        <4>1. status[t] \in Terminal => pc[t] # "awaiting"
          BY <2>1 DEF EndedTasks
        <4>2. QED
          BY <2>1, <3>2, <4>1 DEF SwallowReport, DropReport, EndedTasks
      <3>3. QED
        BY <2>8, <3>1, <3>2 DEF Callback
    <2>9. ASSUME NEW t \in Task,
                 \/ JobLeaves(t) \/ ContainerAccepts(t) \/ PostAccepted(t) \/ PostFails(t)
                 \/ \E x \in Plugins : DependencyTimeout(t, x)
          PROVE  EndedTasks'
      <3>1. status' = status
        BY <2>9 DEF JobLeaves, ContainerAccepts, PostAccepted, PostFails, DependencyTimeout
      <3>2. \A u \in Task : \/ pc'[u] = pc[u]
                            \/ pc[u] = "posting"
                            \/ pc'[u] = "gone"
        BY <2>1, <2>9 DEF JobLeaves, ContainerAccepts, PostAccepted, PostFails,
                          DependencyTimeout
      <3>3. QED
        BY <2>2, <3>1, <3>2
    <2>10. ASSUME NEW q \in Queues, NEW f \in Hashes, Flush(q, f)
          PROVE  EndedTasks'
      BY <2>2, <2>10 DEF Flush
    <2>11. ASSUME (\E f \in Hashes : CancelFile(f)) \/ Clear
           PROVE  EndedTasks'
      BY <2>2, <2>11 DEF CancelFile, Clear
    <2>12. ASSUME \/ \E p \in Paths : Submit(p) \/ \E x \in Plugins : Recompute(p, x)
                  \/ \E x \in Plugins : HealthChanges(x)
                  \/ SetGate \/ Pause \/ Resume \/ UNCHANGED vars
           PROVE  EndedTasks'
      <3>1. pc' = pc /\ status' = status
        BY <2>12 DEF Submit, Recompute, HealthChanges, SetGate, Pause, Resume, vars
      <3>2. QED
        BY <2>2, <3>1
    <2>13. QED
      BY <2>3, <2>4, <2>5, <2>6, <2>7, <2>8, <2>9, <2>10, <2>11, <2>12
      DEF Next, Steady, QueueStep, TaskStep, OutsideStep
  <1>3. QED
    BY <1>1, <1>2

\* The invariants of every reachable state, resets included.
LEMMA SchedulerInvariant == Spec => [](TypeOK /\ LineInv /\ ResetInv /\ EndedTasks)
  BY TypeInductive, LineInvInductive, ResetInvInductive, EndedTasksInductive, PTL DEF Spec

\* No slot is lost, not even by clear(), which frees the slots of running jobs: when the
\* event loop is free, a file that holds a slot still has a task whose end releases it.
THEOREM SchedulerNoLeakedSlot == Spec => []NoLeakedSlot
  <1>1. TypeOK /\ LineInv /\ ResetInv /\ EndedTasks => NoLeakedSlot
    BY DEF ResetInv, SlotsSound, HoldersServed, NoLeakedSlot, EventLoopFree, GrantsRun
  <1>2. QED
    BY <1>1, SchedulerInvariant, PTL

\* release() of every holder serves the line from its head.
LEMMA ReleasedAllInOrder ==
    ASSUME NEW capacity \in Nat \ {0}, NEW g, GateSound(g, Hashes, capacity)
    PROVE  NobodyOvertakes(g, ReleasedAll(g))
  <1> DEFINE n == Cardinality(g.holders)
             m == Len(g.waiters)
             k == IF n < m THEN n ELSE m
             left == SubSeq(g.waiters, k + 1, m)
             h == ReleasedAll(g)
  <1> SUFFICES ASSUME NEW j \in 1..m, NEW x \in h.holders \ g.holders,
                      Waits(h, g.waiters[j])
               PROVE  \E i \in 1..m : i < j /\ g.waiters[i] = x
    BY DEF NobodyOvertakes
  <1>1. h.holders = {g.waiters[i] : i \in 1..k} /\ h.waiters = left
    BY DEF ReleasedAll
  <1>2. n \in Nat /\ m \in Nat /\ g.waiters \in Seq(Hashes)
    BY FS_CardinalityType, LenProperties DEF GateSound, GateTypeOK, WithinCapacity
  <1>3. k \in Nat /\ k <= m
    BY <1>2
  <1>4. \A i, l \in 1..m : g.waiters[i] = g.waiters[l] => i = l
    BY DEF GateSound
  <1> HIDE DEF k, left, h
  <1>5. \A i \in (k + 1)..m : g.waiters[i] \in Hashes
    BY <1>2, <1>3, ElementOfSeq
  <1>6. /\ Len(left) = m - k
        /\ \A i \in 1..(m - k) : left[i] = g.waiters[k + i]
    <2>1. /\ Len(left) = IF k + 1 <= m THEN m - (k + 1) + 1 ELSE 0
          /\ \A i \in 1..(m - (k + 1) + 1) : left[i] = g.waiters[(k + 1) + i - 1]
      BY <1>2, <1>3, <1>5, SubSeqProperties DEF left
    <2>2. QED
      BY <1>2, <1>3, <2>1
  <1>7. PICK l \in 1..Len(left) : left[l] = g.waiters[j]
    BY <1>1 DEF Waits
  <1>8. k + l \in 1..m /\ g.waiters[k + l] = g.waiters[j]
    <2>1. l \in 1..(m - k) /\ left[l] = g.waiters[j]
      BY <1>6, <1>7
    <2>2. g.waiters[k + l] = g.waiters[j]
      BY <1>6, <2>1
    <2>3. k + l \in 1..m
      BY <1>2, <1>3, <2>1
    <2>4. QED
      BY <2>2, <2>3
  <1>9. j = k + l
    BY <1>4, <1>8
  <1>10. PICK i \in 1..k : x = g.waiters[i]
    BY <1>1
  <1>11. i \in 1..m /\ i < j
    BY <1>2, <1>3, <1>6, <1>9, <1>10
  <1>12. QED
    BY <1>10, <1>11

\* First come, first served, for every file of each phase: a slot passes to the first in
\* line when a job ends, when a grant finds nothing staged, and when clear() frees them all.
THEOREM SchedulerFirstComeFirstServed == Spec => FilesFirstComeFirstServed
  <1>1. ASSUME TypeOK, ResetInv, [Next]_vars, NEW q \in Queues
        PROVE  NobodyOvertakes(gate[q], gate'[q])
    <2>1. /\ gate \in [Queues -> GateStates]
          /\ GateSound(gate[q], Hashes, Slots[q]) /\ Slots[q] \in Nat \ {0}
      BY <1>1, SchedulerAssumption
      DEF TypeOK, ResetInv, SlotsSound, GatesSound, SchedulerAssumption
    <2>2. ASSUME UNCHANGED gate
          PROVE  NobodyOvertakes(gate[q], gate'[q])
      BY <2>2, NoSlotInOrder
    <2>3. ASSUME EnqueueTask
          PROVE  NobodyOvertakes(gate[q], gate'[q])
      <3>1. Head(todo) \in Task
        BY <1>1, <2>3, HeadTailProperties DEF EnqueueTask, TypeOK
      <3>2. PICK t \in Task : t = Head(todo)
        BY <3>1
      <3>3. /\ Queue(t) \in Queues /\ File(t) \in Hashes
            /\ \/ UNCHANGED gate
               \/ gate' = [gate EXCEPT ![Queue(t)] =
                              Acquired(@, File(t), Slots[Queue(t)])]
        BY <2>3, <3>2, TaskTypes DEF EnqueueTask, Place
      <3>4. CASE Queue(t) = q /\ ~UNCHANGED gate
        <4>1. gate'[q] = Acquired(gate[q], File(t), Slots[q])
          BY <2>1, <3>3, <3>4
        <4>2. QED
          BY <2>1, <3>3, <4>1, AcquiredInOrder
      <3>5. CASE Queue(t) # q /\ ~UNCHANGED gate
        <4>1. gate'[q] = gate[q]
          BY <2>1, <3>3, <3>5
        <4>2. QED
          BY <4>1, NoSlotInOrder
      <3>6. QED
        BY <2>2, <3>4, <3>5
    <2>4. ASSUME NEW r \in Queues, NEW f \in Hashes, Flush(r, f)
          PROVE  NobodyOvertakes(gate[q], gate'[q])
      <3>1. gate' = [gate EXCEPT ![r] = FlushedGate(r, f)]
        BY <2>4 DEF Flush
      <3>2. CASE r # q
        <4>1. gate'[q] = gate[q]
          BY <2>1, <3>1, <3>2
        <4>2. QED
          BY <4>1, NoSlotInOrder
      <3>3. CASE r = q
        <4> DEFINE o == Observed(gate[q], f)
        <4>1. gate'[q] = Released(o, f) \/ gate'[q] = o
          BY <2>1, <3>1, <3>3 DEF FlushedGate
        <4>2. GateTypeOK(o, Hashes) /\ o.holders = gate[q].holders /\ o.waiters = gate[q].waiters
          BY <2>1 DEF GateSound, GateTypeOK, Observed
        <4> HIDE DEF o
        <4>3. NobodyOvertakes(o, Released(o, f)) /\ NobodyOvertakes(o, o)
          BY <4>2, ReleasedInOrder, NoSlotInOrder
        <4>4. \A h : NobodyOvertakes(o, h) <=> NobodyOvertakes(gate[q], h)
          BY <4>2 DEF NobodyOvertakes
        <4>5. QED
          BY <4>1, <4>3, <4>4
      <3>4. QED
        BY <3>2, <3>3
    <2>5. ASSUME NEW t \in Task, FailUnhealthy(t) \/ Settle(t) \/ SettleWithError(t)
          PROVE  NobodyOvertakes(gate[q], gate'[q])
      <3>1. /\ Queue(t) \in Queues /\ File(t) \in Hashes
            /\ \/ UNCHANGED gate
               \/ gate' = [gate EXCEPT ![Queue(t)] = Released(@, File(t))]
        BY <2>5, TaskTypes DEF FailUnhealthy, Settle, SettleWithError, EndJob, OnTaskFinished
      <3>2. gate'[q] = gate[q] \/ gate'[q] = Released(gate[q], File(t))
        BY <2>1, <3>1
      <3>3. GateTypeOK(gate[q], Hashes)
        BY <2>1 DEF GateSound
      <3>4. QED
        BY <3>2, <3>3, NoSlotInOrder, ReleasedInOrder
    <2>6. ASSUME Clear
          PROVE  NobodyOvertakes(gate[q], gate'[q])
      BY <2>1, <2>6, ReleasedAllInOrder DEF Clear
    <2>7. ASSUME \/ \E p \in Paths : Submit(p) \/ \E x \in Plugins : Recompute(p, x)
                 \/ RejectTask
                 \/ \E r \in Queues : StartJob(r)
                 \/ \E f \in Hashes : CancelFile(f)
                 \/ \E x \in Plugins : HealthChanges(x)
                 \/ SetGate \/ Pause \/ Resume \/ UNCHANGED vars
          PROVE  UNCHANGED gate
      BY <2>7 DEF Submit, Recompute, RejectTask, StartJob, CancelFile, HealthChanges, SetGate,
                  Pause, Resume, vars, slotVars
    <2>8. ASSUME NEW t \in Task,
                 \/ Dispatch(t) \/ JobLeaves(t) \/ CallbackTimeout(t)
                 \/ \E x \in Plugins : DependencyTimeout(t, x)
                 \/ OutsideStep(t)
          PROVE  UNCHANGED gate
      BY <2>8 DEF Dispatch, JobLeaves, CallbackTimeout, DependencyTimeout, OutsideStep,
                  ContainerAccepts, PostAccepted, PostFails, Callback, slotVars
    <2>9. QED
      BY <1>1, <2>2, <2>3, <2>4, <2>5, <2>6, <2>7, <2>8 DEF Next, Steady, QueueStep, TaskStep
  <1>2. TypeOK /\ ResetInv /\ [Next]_vars
           => [\A q \in Queues : NobodyOvertakes(gate[q], gate'[q])]_vars
    BY <1>1
  <1>3. QED
    BY <1>2, SchedulerInvariant, PTL DEF Spec, FilesFirstComeFirstServed

\* "Fast takes priority": a background task starts only when no fast task is staged,
\* queued or running, whatever pauses, resumes, cancels and clears came before.
THEOREM SchedulerBackgroundYields == Spec => BackgroundYields
  <1>1. ASSUME TypeOK, LineInv, ResetInv, [Next]_vars
        PROVE  [\A t \in Task :
                   (Queue(t) = "background" /\ pc[t] = "queued" /\ pc'[t] = "waiting")
                       => \A u \in Task : Queue(u) = "fast" =>
                              pc[u] \notin InJob \cup {"buffered", "queued"}]_vars
    <2> USE <1>1
    <2> SUFFICES ASSUME NEW t \in Task,
                        Queue(t) = "background", pc[t] = "queued", pc'[t] = "waiting",
                        NEW u \in Task, Queue(u) = "fast"
                 PROVE  pc[u] \notin InJob \cup {"buffered", "queued"}
      OBVIOUS
    <2>1. pc \in [Task -> Stages]
      BY DEF TypeOK
    <2>2. PICK q \in Queues : StartJob(q)
      <3>1. ASSUME NEW x \in Task, TaskStep(x) \/ OutsideStep(x)
            PROVE  FALSE
        <4>1. \/ pc' = pc
              \/ \E s \in Stages \ {"waiting"} : pc' = [pc EXCEPT ![x] = s]
          BY <3>1
          DEF TaskStep, Dispatch, FailUnhealthy, Settle, SettleWithError, EndJob, JobLeaves,
              CallbackTimeout, DependencyTimeout, OutsideStep, ContainerAccepts,
              PostAccepted, PostFails, Callback, TakeReport, SwallowReport, DropReport, Stages, InJob
        <4>2. QED
          BY <2>1, <4>1
      <3>2. ASSUME RejectTask \/ EnqueueTask
            PROVE  FALSE
        BY <2>1, <3>2 DEF RejectTask, EnqueueTask, Place
      <3>3. ASSUME \/ \E p \in Paths : Submit(p) \/ \E x \in Plugins : Recompute(p, x)
                   \/ \E x \in Plugins : HealthChanges(x)
                   \/ SetGate \/ Pause \/ Resume \/ UNCHANGED vars
            PROVE  FALSE
        BY <3>3 DEF Submit, Recompute, HealthChanges, SetGate, Pause, Resume, vars
      <3>4. ASSUME \/ \E q \in Queues, f \in Hashes : Flush(q, f)
                   \/ \E f \in Hashes : CancelFile(f)
                   \/ Clear
            PROVE  FALSE
        BY <3>4 DEF Flush, CancelFile, Clear
      <3>5. QED
        BY <3>1, <3>2, <3>3, <3>4 DEF Next, Steady, QueueStep
    <2>3. /\ Head(queue[q]) \in Task
          /\ Head(queue[q]) = queue[q][1] /\ 1 \in 1..Len(queue[q])
      BY <2>2, HeadTailProperties, EmptySeq DEF StartJob, Startable, TypeOK
    <2>4. t = Head(queue[q])
      BY <2>1, <2>2, <2>3 DEF StartJob
    <2>5. q = "background"
      BY <2>3, <2>4 DEF LineInv, QueuedTasks
    <2>6. ~paused["background"]
      BY <2>2, <2>5 DEF StartJob, Startable
    <2>7. QED
      BY <2>6 DEF ResetInv, FastFirst
  <1>2. QED
    BY <1>1, SchedulerInvariant, PTL DEF Spec, BackgroundYields

\* file:complete is emitted for a path only when every task tracked for it has ended.
THEOREM SchedulerAnnouncedOnlyWhenOver == Spec => AnnouncedOnlyWhenOver
  <1>1. ASSUME TypeOK, EndedTasks, [Next]_vars
        PROVE  [\A p \in Paths :
                   (due[p] /\ ~due'[p]) =>
                       \A t \in tracked : Path(t) = p =>
                           pc'[t] \in {"resolved", "rejected", "leaving", "gone"}]_vars
    <2> USE <1>1
    <2> SUFFICES ASSUME NEW p \in Paths, due[p], ~due'[p], NEW u \in tracked, Path(u) = p
                 PROVE  pc'[u] \in {"resolved", "rejected", "leaving", "gone"}
      OBVIOUS
    <2>1. /\ pc \in [Task -> Stages] /\ due \in [Paths -> BOOLEAN]
          /\ u \in Task /\ due' # due
      BY DEF TypeOK
    <2>2. PICK t \in Task : FailUnhealthy(t) \/ Settle(t) \/ SettleWithError(t)
      <3>1. ~EnqueueTask
        <4>1. ASSUME EnqueueTask
              PROVE  FALSE
          <5>1. due' = [due EXCEPT ![Path(Head(todo))] = TRUE]
            BY <4>1 DEF EnqueueTask
          <5>2. due'[p]
            BY <2>1, <5>1
          <5>3. QED
            BY <5>2
        <4>2. QED
          BY <4>1
      <3>2. QED
        BY <2>1, <3>1
        DEF Next, Steady, QueueStep, TaskStep, OutsideStep, Submit, Recompute, RejectTask,
            StartJob, Flush, Dispatch, JobLeaves, CallbackTimeout, DependencyTimeout,
            ContainerAccepts, PostAccepted, PostFails, Callback, HealthChanges, CancelFile,
            SetGate, Pause, Resume, Clear, vars, fileVars
    <2>3. PICK st : EndJob(t, st) /\ (st = status \/ st = [status EXCEPT ![t] = "failed"])
      BY <2>2 DEF FailUnhealthy, Settle, SettleWithError
    <2> DEFINE f == File(t)
               mine == {v \in tracked : File(v) = f}
    <2>4. /\ FileOver(f, st)
          /\ due' = [x \in Paths |-> due[x] /\ \A v \in mine : Path(v) # x]
          /\ pc' = [pc EXCEPT ![t] = "leaving"]
      BY <2>1, <2>3, Zenon DEF EndJob, CheckFileCompletion, fileVars
    <2>5. PICK v \in mine : Path(v) = p
      BY <2>4, Zenon
    <2>6. File(u) = f
      BY <2>5 DEF File
    <2>7. st[u] \in Terminal
      BY <2>4, <2>6 DEF FileOver
    <2>8. CASE u = t
      BY <2>1, <2>4, <2>8
    <2>9. CASE u # t
      <3>1. \E S : status \in [Task -> S]
        BY DEF TypeOK
      <3>2. status[u] \in Terminal
        BY <2>1, <2>3, <2>7, <2>9, <3>1
      <3>3. QED
        BY <2>1, <2>4, <2>9, <3>2 DEF EndedTasks
    <2>10. QED
      BY <2>8, <2>9
  <1>2. QED
    BY <1>1, SchedulerInvariant, PTL DEF Spec, AnnouncedOnlyWhenOver

-----------------------------------------------------------------------------
(* The slot accounting between two resets. *)

\* What the gate has granted or lined up is staged, so a slot is never granted to
\* a file without an outstanding task in the buffer.
LEMMA GrantedIsStaged ==
    ASSUME TypeOK, SlotInv, NEW q \in Queues, NEW f \in Hashes,
           Waits(gate[q], f) \/ f \in gate[q].granted
    PROVE  /\ buffer[q][f] # <<>>
           /\ \E u \in Outstanding(q, f) : pc[u] = "buffered"
  <1>1. buffer[q][f] # <<>>
    BY DEF SlotInv, StagedWillFlush
  <1>2. buffer[q][f] \in Seq(Task)
    BY DEF TypeOK
  <1>3. 1 \in 1..Len(buffer[q][f]) /\ buffer[q][f][1] \in Task
    BY <1>1, <1>2, EmptySeq, ElementOfSeq
  <1>4. QED
    BY <1>1, <1>3 DEF SlotInv, LineInv, StagedTasks, Outstanding

\* A step that moves no task between the stages the slots depend on.
LEMMA QuietStep ==
    ASSUME TypeOK, SlotInv, LineInv', UNCHANGED <<buffer, counter, gate, queue, rounds, todo>>,
           \A t \in Task :
               \/ pc'[t] = pc[t]
               \/ pc[t] \in InJob /\ pc'[t] \in InJob
               \/ pc[t] = "leaving" /\ pc'[t] = "gone"
    PROVE  SlotInv'
  <1> USE DEF InJob
  <1>1. \A q \in Queues, f \in Hashes : Outstanding(q, f)' = Outstanding(q, f)
    BY OutstandingSame
  <1>2. CounterExact' /\ HoldersBusy'
    <2>1. \A q \in Queues : gate[q].holders \subseteq Hashes
      BY DEF TypeOK, GateStates
    <2>2. QED
      BY <1>1, <2>1 DEF SlotInv, CounterExact, HoldersBusy
  <1>3. SlotCoversTasks'
    BY DEF SlotInv, SlotCoversTasks
  <1>4. StagedWillFlush' /\ GatesOK'
    BY DEF SlotInv, StagedWillFlush, GatesOK
  <1>5. QED
    BY <1>2, <1>3, <1>4 DEF SlotInv

\* The end of a job: the last outstanding task of a file in a phase gives the slot
\* back, any other one leaves it where it is (ContainerPluginScheduler.ts:376-393).
LEMMA EndJobKeepsSlots ==
    ASSUME TypeOK, TypeOK', SlotInv, LineInv', NEW t \in Task, NEW st, EndJob(t, st),
           pc[t] \in InJob
    PROVE  SlotInv'
  <1> DEFINE q == Queue(t)
             f == File(t)
             left == Outstanding(q, f) \ {t}
  <1>1. /\ q \in Queues /\ f \in Hashes
        /\ t \in Outstanding(q, f)
        /\ pc' = [pc EXCEPT ![t] = "leaving"]
        /\ UNCHANGED <<buffer, queue, rounds, todo>>
        /\ pc \in [Task -> Stages]
    BY TaskTypes DEF Outstanding, EndJob, loopVars, TypeOK
  <1>2. /\ Outstanding(q, f)' = left
        /\ \A r \in Queues, h \in Hashes :
              r # q \/ h # f => Outstanding(r, h)' = Outstanding(r, h)
    BY <1>1 DEF Outstanding, InJob
  <1>3. /\ counter[q][f] = Cardinality(Outstanding(q, f))
        /\ counter[q][f] \in Nat
        /\ Cardinality(left) = counter[q][f] - 1
        /\ IsFiniteSet(left)
        /\ Cardinality(left) \in Nat
    <2>1. /\ counter[q][f] = Cardinality(Outstanding(q, f))
          /\ IsFiniteSet(Outstanding(q, f))
      BY <1>1, TasksFinite DEF SlotInv, CounterExact
    <2>2. IsFiniteSet(left) /\ Cardinality(left) = Cardinality(Outstanding(q, f)) - 1
      BY <1>1, <2>1, FS_RemoveElement
    <2>3. counter[q][f] \in Nat
      BY <1>1 DEF TypeOK
    <2>4. QED
      BY <2>1, <2>2, <2>3, FS_CardinalityType
  <1>4. Holds(gate[q], f) /\ GateOK(gate[q], Hashes, Slots[q]) /\ Slots[q] \in Nat \ {0}
    BY <1>1, SchedulerAssumption DEF SlotInv, SlotCoversTasks, GatesOK, SchedulerAssumption
  <1>5. /\ counter \in [Queues -> [Hashes -> Nat]]
        /\ gate \in [Queues -> GateStates]
        /\ \A r \in Queues : gate[r].holders \subseteq Hashes
    BY DEF TypeOK, GateStates
  <1>6. CounterExact' /\ SlotCoversTasks' /\ StagedWillFlush' /\ GatesOK' /\ HoldersBusy'
    <2>1. CASE counter[q][f] <= 1
      <3>1. /\ counter' = [counter EXCEPT ![q][f] = 0]
            /\ gate' = [gate EXCEPT ![q] = Released(@, f)]
        BY <1>3, <2>1 DEF EndJob, OnTaskFinished
      <3>2. left = {}
        BY <1>3, <2>1, FS_EmptySet
      <3>3. f \notin gate[q].granted
        <4>1. ASSUME f \in gate[q].granted
              PROVE  FALSE
          <5>1. PICK u \in Outstanding(q, f) : pc[u] = "buffered"
            BY <1>1, <4>1, GrantedIsStaged
          <5>2. QED
            BY <3>2, <5>1 DEF InJob
        <4>2. QED
          BY <4>1
      <3>4. /\ gate[q].holders \ {f} \subseteq gate'[q].holders
            /\ \A x \in gate'[q].holders : x \in gate[q].holders \ {f} \/ Waits(gate[q], x)
            /\ \A x : Waits(gate'[q], x) \/ x \in gate'[q].granted
                          <=> Waits(gate[q], x) \/ x \in gate[q].granted
        <4> DEFINE g == gate[q]
                   h == Released(g, f)
        <4>1. gate'[q] = h
          BY <1>1, <1>5, <3>1
        <4>2. GateOK(g, Hashes, Slots[q]) /\ Holds(g, f) /\ Slots[q] \in Nat \ {0}
          BY <1>4
        <4>3. GateTypeOK(g, Hashes) /\ h = Released(g, f)
          BY <4>2 DEF GateOK
        <4> HIDE DEF g, h
        <4>4. /\ g.holders \ {f} \subseteq h.holders
              /\ \A x \in h.holders : x \in g.holders \ {f} \/ Waits(g, x)
          BY <1>1, <4>2, <4>3, ReleasedMoves
        <4>5. ASSUME NEW x
              PROVE  Waits(h, x) \/ x \in h.granted <=> Waits(g, x) \/ x \in g.granted
          BY <1>1, <4>2, <4>3, ReleasedMoves
        <4>6. QED
          BY <4>1, <4>4, <4>5 DEF g
      <3>5. \A r \in Queues : r # q => gate'[r] = gate[r]
        BY <1>5, <3>1
      <3>6. CounterExact'
        <4>1. Cardinality({}) = 0
          BY FS_EmptySet
        <4>2. counter'[q][f] = Cardinality(Outstanding(q, f)')
          BY <1>1, <1>2, <1>5, <3>1, <3>2, <4>1
        <4>3. \A r \in Queues, h \in Hashes :
                  r # q \/ h # f => counter'[r][h] = counter[r][h]
          BY <1>1, <1>5, <3>1
        <4>4. \A r \in Queues, h \in Hashes : counter[r][h] = Cardinality(Outstanding(r, h))
          BY DEF SlotInv, CounterExact
        <4>5. QED
          BY <1>2, <4>2, <4>3, <4>4 DEF CounterExact
      <3>7. SlotCoversTasks'
        <4> SUFFICES ASSUME NEW u \in Task, pc'[u] \in InJob \cup {"queued"}
                     PROVE  Holds(gate'[Queue(u)], File(u))
          BY DEF SlotCoversTasks
        <4>1. u # t /\ pc[u] \in InJob \cup {"queued"}
          BY <1>1 DEF InJob
        <4>2. Holds(gate[Queue(u)], File(u)) /\ Queue(u) \in Queues
          BY <4>1, TaskTypes DEF SlotInv, SlotCoversTasks
        <4>3. CASE Queue(u) = q
          <5>1. File(u) # f
            BY <3>2, <4>1, <4>3 DEF Outstanding
          <5>2. QED
            BY <3>4, <4>2, <4>3, <5>1 DEF Holds
        <4>4. CASE Queue(u) # q
          BY <3>5, <4>2, <4>4
        <4>5. QED
          BY <4>3, <4>4
      <3>8. StagedWillFlush'
        BY <1>1, <3>4, <3>5 DEF SlotInv, StagedWillFlush
      <3>9. GatesOK'
        <4>1. GateOK(Released(gate[q], f), Hashes, Slots[q])
          BY <1>1, <1>4, <3>3, ReleasedOK
        <4>2. gate'[q] = Released(gate[q], f)
          BY <1>1, <1>5, <3>1
        <4>3. QED
          BY <3>5, <4>1, <4>2 DEF SlotInv, GatesOK
      <3>10. HoldersBusy'
        <4> SUFFICES ASSUME NEW r \in Queues, NEW x \in gate'[r].holders
                     PROVE  Outstanding(r, x)' # {}
          BY DEF HoldersBusy
        <4>1. CASE r # q
          <5>1. x \in gate[r].holders /\ x \in Hashes
            BY <1>5, <3>5, <4>1
          <5>2. QED
            BY <1>2, <4>1, <5>1 DEF SlotInv, HoldersBusy
        <4>2. CASE r = q
          <5>1. CASE x \in gate[q].holders \ {f}
            <6>1. x \in Hashes /\ x # f
              BY <1>1, <1>5, <5>1
            <6>2. Outstanding(q, x) # {}
              BY <1>1, <5>1 DEF SlotInv, HoldersBusy
            <6>3. QED
              BY <1>1, <1>2, <4>2, <6>1, <6>2
          <5>2. CASE Waits(gate[q], x)
            <6>1. x \notin gate[q].holders /\ x \in Hashes /\ x # f
              BY <1>4, <1>1, <5>2 DEF Waits, GateOK, GateTypeOK, InOnePlace, Holds
            <6>2. Outstanding(q, x) # {}
              BY <1>1, <5>2, <6>1, GrantedIsStaged
            <6>3. QED
              BY <1>1, <1>2, <4>2, <6>1, <6>2
          <5>3. QED
            BY <3>4, <4>2, <5>1, <5>2
        <4>3. QED
          BY <4>1, <4>2
      <3>11. QED
        BY <3>6, <3>7, <3>8, <3>9, <3>10
    <2>2. CASE counter[q][f] > 1
      <3>1. /\ counter' = [counter EXCEPT ![q][f] = @ - 1]
            /\ gate' = gate
        BY <1>3, <2>2 DEF EndJob, OnTaskFinished
      <3>2. left # {}
        BY <1>3, <2>2, FS_EmptySet
      <3>3. CounterExact'
        <4>1. counter'[q][f] = Cardinality(Outstanding(q, f)')
          BY <1>1, <1>2, <1>3, <1>5, <3>1
        <4>2. \A r \in Queues, h \in Hashes :
                  r # q \/ h # f => counter'[r][h] = counter[r][h]
          BY <1>1, <1>5, <3>1
        <4>3. \A r \in Queues, h \in Hashes : counter[r][h] = Cardinality(Outstanding(r, h))
          BY DEF SlotInv, CounterExact
        <4>4. QED
          BY <1>2, <4>1, <4>2, <4>3 DEF CounterExact
      <3>4. SlotCoversTasks'
        BY <1>1, <3>1 DEF SlotInv, SlotCoversTasks, InJob
      <3>5. StagedWillFlush' /\ GatesOK'
        BY <1>1, <3>1 DEF SlotInv, StagedWillFlush, GatesOK
      <3>6. HoldersBusy'
        BY <1>2, <1>5, <3>1, <3>2 DEF SlotInv, HoldersBusy
      <3>7. QED
        BY <3>3, <3>4, <3>5, <3>6
    <2>3. QED
      BY <1>3, <2>1, <2>2
  <1>7. QED
    BY <1>6 DEF SlotInv

\* A task enters: it is queued if its file holds the slot, staged otherwise, and
\* the first staged task of a file asks for the slot.
LEMMA EnqueueTaskKeepsSlots ==
    ASSUME TypeOK, TypeOK', SlotInv, LineInv', EnqueueTask, NEW t \in Task, t = Head(todo)
    PROVE  SlotInv'
  <1> DEFINE q == Queue(t)
             f == File(t)
  <1>1. /\ t \in Task /\ q \in Queues /\ f \in Hashes
        /\ t = todo[1] /\ 1 \in 1..Len(todo)
        /\ pc[t] = "none" /\ t[2] <= rounds[Path(t)]
    <2>1. todo \in Seq(Task) /\ todo # <<>>
      BY DEF TypeOK, EnqueueTask
    <2>2. t \in Task /\ t = todo[1] /\ 1 \in 1..Len(todo)
      BY <2>1, HeadTailProperties, EmptySeq
    <2>3. q \in Queues /\ f \in Hashes
      BY <2>2, TaskTypes
    <2>4. QED
      BY <2>2, <2>3 DEF SlotInv, LineInv, CreatedOnce
  <1>2. /\ pc' \in {[pc EXCEPT ![t] = "queued"], [pc EXCEPT ![t] = "buffered"]}
        /\ counter' = [counter EXCEPT ![q][f] = @ + 1]
        /\ todo' = Tail(todo)
        /\ rounds' = rounds
        /\ pc \in [Task -> Stages]
    BY DEF EnqueueTask, Place, TypeOK
  <1>3. /\ counter \in [Queues -> [Hashes -> Nat]]
        /\ buffer \in [Queues -> [Hashes -> Seq(Task)]]
        /\ queue \in [Queues -> Seq(Task)]
        /\ gate \in [Queues -> GateStates]
        /\ \A r \in Queues : gate[r].holders \subseteq Hashes
        /\ \A r \in Queues, h \in Hashes : \A i \in 1..Len(buffer[r][h]) :
              buffer[r][h][i] \in Task
        /\ \A r \in Queues : \A i \in 1..Len(queue[r]) : queue[r][i] \in Task
    <2>1. /\ counter \in [Queues -> [Hashes -> Nat]]
          /\ buffer \in [Queues -> [Hashes -> Seq(Task)]]
          /\ queue \in [Queues -> Seq(Task)]
          /\ gate \in [Queues -> GateStates]
      BY DEF TypeOK
    <2>2. \A r \in Queues : gate[r].holders \subseteq Hashes
      BY <2>1 DEF GateStates
    <2>3. \A r \in Queues : queue[r] \in Seq(Task) /\ \A h \in Hashes : buffer[r][h] \in Seq(Task)
      BY <2>1
    <2>4. \A s \in Seq(Task) : \A i \in 1..Len(s) : s[i] \in Task
      BY ElementOfSeq
    <2>5. QED
      BY <2>1, <2>2, <2>3, <2>4
  <1>4. /\ Outstanding(q, f)' = Outstanding(q, f) \cup {t}
        /\ t \notin Outstanding(q, f)
        /\ \A r \in Queues, h \in Hashes :
              r # q \/ h # f => Outstanding(r, h)' = Outstanding(r, h)
        /\ \A r \in Queues, h \in Hashes :
              Outstanding(r, h) # {} => Outstanding(r, h)' # {}
    <2>1. /\ pc'[t] \in {"queued", "buffered"}
          /\ \A u \in Task : u # t => pc'[u] = pc[u]
      BY <1>1, <1>2
    <2>2. t \notin Outstanding(q, f)
      BY <1>1 DEF Outstanding, InJob
    <2>3. Outstanding(q, f)' = Outstanding(q, f) \cup {t}
      BY <1>1, <2>1 DEF Outstanding
    <2>4. ASSUME NEW r \in Queues, NEW h \in Hashes, r # q \/ h # f
          PROVE  Outstanding(r, h)' = Outstanding(r, h)
      BY <1>1, <2>1, <2>4 DEF Outstanding
    <2>5. QED
      BY <2>2, <2>3, <2>4
  <1>5. CounterExact'
    <2>1. \A r \in Queues, h \in Hashes :
              /\ counter[r][h] = Cardinality(Outstanding(r, h))
              /\ IsFiniteSet(Outstanding(r, h))
      BY TasksFinite DEF SlotInv, CounterExact
    <2>2. Cardinality(Outstanding(q, f) \cup {t}) = Cardinality(Outstanding(q, f)) + 1
      BY <1>1, <1>4, <2>1, FS_AddElement
    <2>3. counter'[q][f] = Cardinality(Outstanding(q, f)')
      BY <1>1, <1>2, <1>3, <1>4, <2>1, <2>2
    <2>4. \A r \in Queues, h \in Hashes :
              r # q \/ h # f => counter'[r][h] = counter[r][h]
      BY <1>1, <1>2, <1>3
    <2>5. ASSUME NEW r \in Queues, NEW h \in Hashes
          PROVE  counter'[r][h] = Cardinality(Outstanding(r, h)')
      <3>1. CASE r = q /\ h = f
        BY <2>3, <3>1
      <3>2. CASE r # q \/ h # f
        <4>1. Outstanding(r, h)' = Outstanding(r, h)
          BY <1>4, <3>2
        <4>2. QED
          BY <2>1, <2>4, <3>2, <4>1
      <3>3. QED
        BY <3>1, <3>2
    <2>6. QED
      BY <2>5 DEF CounterExact
  <1>6. CASE Holds(gate[q], f)
    <2>1. /\ queue' = [queue EXCEPT ![q] = Append(@, t)]
          /\ pc' = [pc EXCEPT ![t] = "queued"]
          /\ UNCHANGED <<buffer, gate>>
      BY <1>6 DEF EnqueueTask, Place
    <2>2. SlotCoversTasks'
      BY <1>1, <1>2, <1>6, <2>1 DEF SlotInv, SlotCoversTasks
    <2>3. StagedWillFlush' /\ GatesOK'
      BY <2>1 DEF SlotInv, StagedWillFlush, GatesOK
    <2>4. HoldersBusy'
      BY <1>3, <1>4, <2>1 DEF SlotInv, HoldersBusy
    <2>5. QED
      BY <1>5, <2>2, <2>3, <2>4 DEF SlotInv
  <1>7. CASE ~Holds(gate[q], f)
    <2>1. /\ buffer' = [buffer EXCEPT ![q][f] = Append(@, t)]
          /\ gate' = IF buffer[q][f] = <<>>
                     THEN [gate EXCEPT ![q] = Acquired(@, f, Slots[q])] ELSE gate
          /\ pc' = [pc EXCEPT ![t] = "buffered"]
          /\ queue' = queue
      BY <1>7 DEF EnqueueTask, Place
    <2>2. /\ Len(buffer[q][f]) \in Nat
          /\ buffer'[q][f] # <<>>
          /\ Len(buffer'[q][f]) = Len(buffer[q][f]) + 1
          /\ \A i \in 1..Len(buffer[q][f]) : buffer'[q][f][i] = buffer[q][f][i]
          /\ buffer'[q][f][Len(buffer[q][f]) + 1] = t
      <3>1. buffer'[q][f] = Append(buffer[q][f], t) /\ buffer[q][f] \in Seq(Task)
        BY <1>1, <1>3, <2>1
      <3>2. QED
        BY <1>1, <3>1, AppendProperties, LenProperties
    <2>3. \A r \in Queues, h \in Hashes :
              r # q \/ h # f => buffer'[r][h] = buffer[r][h]
      BY <1>1, <1>3, <2>1
    <2>4. /\ gate[q].holders \subseteq gate'[q].holders
          /\ gate'[q].holders \subseteq gate[q].holders \cup {f}
          /\ \A x : Waits(gate'[q], x) \/ x \in gate'[q].granted
                        <=> Waits(gate[q], x) \/ x \in gate[q].granted \/ x = f
          /\ GateOK(gate'[q], Hashes, Slots[q])
      <3> DEFINE g == gate[q]
                 capacity == Slots[q]
                 h == Acquired(g, f, capacity)
      <3>1. GateOK(g, Hashes, capacity) /\ ~Holds(g, f) /\ capacity \in Nat \ {0}
        BY <1>1, <1>7, SchedulerAssumption DEF SlotInv, GatesOK, SchedulerAssumption
      <3>2. \A x : x \in Hashes => (buffer[q][x] # <<>> <=> Waits(g, x) \/ x \in g.granted)
        BY <1>1 DEF SlotInv, StagedWillFlush
      <3>3. CASE buffer[q][f] = <<>>
        <4>1. ~Waits(g, f)
          BY <1>1, <3>2, <3>3
        <4>2. gate'[q] = h
          BY <1>1, <1>3, <2>1, <3>3
        <4>3. GateOK(h, Hashes, capacity)
          BY <1>1, <3>1, <4>1, AcquiredOK
        <4>4. GateTypeOK(g, Hashes) /\ h = Acquired(g, f, capacity)
          BY <3>1 DEF GateOK
        <4> HIDE DEF g, capacity, h
        <4>5. /\ g.holders \subseteq h.holders /\ h.holders \subseteq g.holders \cup {f}
              /\ \A x : Waits(h, x) \/ x \in h.granted
                            <=> Waits(g, x) \/ x \in g.granted \/ x = f
          <5>1. /\ capacity \in Nat \ {0} /\ f \in Hashes
                /\ GateTypeOK(g, Hashes) /\ h = Acquired(g, f, capacity)
            BY <1>1, <3>1, <4>4
          <5>2. g.holders \subseteq h.holders /\ h.holders \subseteq g.holders \cup {f}
            BY <5>1, AcquiredMoves
          <5>3. ASSUME NEW x
                PROVE  Waits(h, x) \/ x \in h.granted
                           <=> Waits(g, x) \/ x \in g.granted \/ x = f
            BY <5>1, AcquiredMoves
          <5>4. QED
            BY <5>2, <5>3
        <4>6. QED
          BY <4>2, <4>3, <4>5 DEF g, capacity, h
      <3>4. CASE buffer[q][f] # <<>>
        <4>1. Waits(gate[q], f) \/ f \in gate[q].granted
          BY <1>1, <3>2, <3>4
        <4>2. gate' = gate
          BY <2>1, <3>4
        <4>3. QED
          BY <3>1, <4>1, <4>2
      <3>5. QED
        BY <3>3, <3>4
    <2>5. \A r \in Queues : r # q => gate'[r] = gate[r]
      BY <1>3, <2>1
    <2>6. SlotCoversTasks'
      <3> SUFFICES ASSUME NEW u \in Task, pc'[u] \in InJob \cup {"queued"}
                   PROVE  Holds(gate'[Queue(u)], File(u))
        BY DEF SlotCoversTasks
      <3>1. pc[u] = pc'[u]
        BY <1>1, <1>2, <2>1 DEF InJob
      <3>2. Holds(gate[Queue(u)], File(u)) /\ Queue(u) \in Queues
        BY <3>1, TaskTypes DEF SlotInv, SlotCoversTasks
      <3>3. QED
        BY <2>4, <2>5, <3>2 DEF Holds
    <2>7. StagedWillFlush'
      <3> SUFFICES ASSUME NEW r \in Queues, NEW h \in Hashes
                   PROVE  buffer'[r][h] # <<>>
                              <=> Waits(gate'[r], h) \/ h \in gate'[r].granted
        BY DEF StagedWillFlush
      <3>1. buffer[r][h] # <<>> <=> Waits(gate[r], h) \/ h \in gate[r].granted
        BY DEF SlotInv, StagedWillFlush
      <3>2. CASE r # q
        BY <2>3, <2>5, <3>1, <3>2
      <3>3. CASE r = q /\ h # f
        BY <2>3, <2>4, <3>1, <3>3
      <3>4. CASE r = q /\ h = f
        BY <2>2, <2>4, <3>4
      <3>5. QED
        BY <3>2, <3>3, <3>4
    <2>8. GatesOK'
      BY <2>4, <2>5 DEF SlotInv, GatesOK
    <2>9. HoldersBusy'
      <3> SUFFICES ASSUME NEW r \in Queues, NEW x \in gate'[r].holders
                   PROVE  Outstanding(r, x)' # {}
        BY DEF HoldersBusy
      <3>1. CASE r = q /\ x = f
        <4>1. Outstanding(q, f)' # {}
          BY <1>4
        <4>2. QED
          BY <3>1, <4>1
      <3>2. CASE ~(r = q /\ x = f)
        <4>1. x \in gate[r].holders /\ x \in Hashes
          BY <1>3, <2>4, <2>5, <3>2
        <4>2. QED
          BY <1>4, <4>1 DEF SlotInv, HoldersBusy
      <3>3. QED
        BY <3>1, <3>2
    <2>10. QED
      BY <1>5, <2>6, <2>7, <2>8, <2>9 DEF SlotInv
  <1>8. QED
    BY <1>6, <1>7
\* The staged tasks of a file that was granted the slot move to the p-queue.
LEMMA FlushKeepsSlots ==
    ASSUME TypeOK, TypeOK', SlotInv, LineInv', NEW q \in Queues, NEW f \in Hashes, Flush(q, f)
    PROVE  SlotInv'
  <1> DEFINE staged == buffer[q][f]
  <1>1. /\ f \in gate[q].granted
        /\ queue' = [queue EXCEPT ![q] = @ \o staged]
        /\ buffer' = [buffer EXCEPT ![q][f] = <<>>]
        /\ pc' = [t \in Task |-> IF pc[t] = "buffered" /\ Queue(t) = q /\ File(t) = f
                                 THEN "queued" ELSE pc[t]]
        /\ UNCHANGED <<counter, rounds, todo>>
    BY DEF Flush, loopVars
  <1>2. /\ buffer \in [Queues -> [Hashes -> Seq(Task)]]
        /\ queue \in [Queues -> Seq(Task)]
        /\ gate \in [Queues -> GateStates]
    BY DEF TypeOK
  <1>3. /\ \A r \in Queues, h \in Hashes : buffer[r][h] \in Seq(Task)
        /\ \A r \in Queues, h \in Hashes : \A i \in 1..Len(buffer[r][h]) :
              buffer[r][h][i] \in Task
        /\ \A r \in Queues : queue[r] \in Seq(Task)
        /\ \A r \in Queues : \A i \in 1..Len(queue[r]) : queue[r][i] \in Task
    <2>1. \A r \in Queues : queue[r] \in Seq(Task) /\ \A h \in Hashes : buffer[r][h] \in Seq(Task)
      BY <1>2
    <2>2. \A s \in Seq(Task) : \A i \in 1..Len(s) : s[i] \in Task
      BY ElementOfSeq
    <2>3. QED
      BY <2>1, <2>2
  <1>4. /\ GateOK(gate[q], Hashes, Slots[q])
        /\ Slots[q] \in Nat \ {0}
        /\ staged # <<>>
    BY <1>1, GrantedIsStaged, SchedulerAssumption DEF SlotInv, GatesOK, SchedulerAssumption
  <1>5. /\ gate'[q] = Observed(gate[q], f)
        /\ \A r \in Queues : r # q => gate'[r] = gate[r]
        /\ \A r \in Queues : gate'[r].holders = gate[r].holders
    <2>1. gate' = [gate EXCEPT ![q] = Observed(gate[q], f)]
      BY <1>4 DEF Flush, FlushedGate
    <2>2. Observed(gate[q], f).holders = gate[q].holders
      BY <1>2 DEF Observed, GateStates
    <2>3. QED
      BY <1>2, <2>1, <2>2
  <1>6. \A r \in Queues, h \in Hashes : Outstanding(r, h)' = Outstanding(r, h)
    BY <1>1, OutstandingSame DEF InJob
  <1>7. CounterExact'
    BY <1>1, <1>6 DEF SlotInv, CounterExact
  <1>8. HoldersBusy'
    <2>1. \A r \in Queues : gate[r].holders \subseteq Hashes
      BY <1>2 DEF GateStates
    <2>2. QED
      BY <1>5, <1>6, <2>1 DEF SlotInv, HoldersBusy
  <1>9. SlotCoversTasks'
    <2> SUFFICES ASSUME NEW u \in Task, pc'[u] \in InJob \cup {"queued"}
                 PROVE  Holds(gate'[Queue(u)], File(u))
      BY DEF SlotCoversTasks
    <2>1. CASE pc[u] = "buffered" /\ Queue(u) = q /\ File(u) = f
      <3>1. f \in gate[q].holders
        BY <1>1, <1>4 DEF GateOK, InOnePlace
      <3>2. QED
        BY <1>5, <2>1, <3>1 DEF Holds
    <2>2. CASE ~(pc[u] = "buffered" /\ Queue(u) = q /\ File(u) = f)
      <3>1. Holds(gate[Queue(u)], File(u)) /\ Queue(u) \in Queues
        BY <1>1, <2>2, TaskTypes DEF SlotInv, SlotCoversTasks
      <3>2. QED
        BY <1>5, <3>1 DEF Holds
    <2>3. QED
      BY <2>1, <2>2
  <1>10. StagedWillFlush'
    <2> SUFFICES ASSUME NEW r \in Queues, NEW h \in Hashes
                 PROVE  buffer'[r][h] # <<>> <=> Waits(gate'[r], h) \/ h \in gate'[r].granted
      BY DEF StagedWillFlush
    <2>1. buffer[r][h] # <<>> <=> Waits(gate[r], h) \/ h \in gate[r].granted
      BY DEF SlotInv, StagedWillFlush
    <2>2. /\ gate'[q].granted = gate[q].granted \ {f}
          /\ gate'[q].waiters = gate[q].waiters
      BY <1>2, <1>5 DEF Observed, GateStates
    <2>3. CASE r = q /\ h = f
      <3>1. ~Waits(gate[q], f)
        BY <1>1, <1>4 DEF GateOK, InOnePlace, Waits
      <3>2. ~Waits(gate'[q], f) /\ f \notin gate'[q].granted
        BY <2>2, <3>1 DEF Waits
      <3>3. buffer'[q][f] = <<>>
        BY <1>1, <1>2
      <3>4. QED
        BY <2>3, <3>2, <3>3
    <2>4. CASE r = q /\ h # f
      <3>1. buffer'[r][h] = buffer[r][h]
        BY <1>1, <1>2, <2>4
      <3>2. Waits(gate'[q], h) <=> Waits(gate[q], h)
        BY <2>2 DEF Waits
      <3>3. QED
        BY <2>1, <2>2, <2>4, <3>1, <3>2
    <2>5. CASE r # q
      <3>1. buffer'[r][h] = buffer[r][h]
        BY <1>1, <1>2, <2>5
      <3>2. QED
        BY <1>5, <2>1, <2>5, <3>1
    <2>6. QED
      BY <2>3, <2>4, <2>5
  <1>11. GatesOK'
    <2>1. GateOK(Observed(gate[q], f), Hashes, Slots[q])
      BY <1>4, ObservedOK
    <2>2. QED
      BY <1>5, <2>1 DEF SlotInv, GatesOK
  <1>12. QED
    BY <1>7, <1>8, <1>9, <1>10, <1>11 DEF SlotInv

\* The p-queue starts the first task of its line.
LEMMA StartJobKeepsSlots ==
    ASSUME TypeOK, TypeOK', SlotInv, LineInv', NEW q \in Queues, StartJob(q),
           NEW t \in Task, t = Head(queue[q])
    PROVE  SlotInv'
  <1>1. /\ queue' = [queue EXCEPT ![q] = Tail(@)]
        /\ pc' = [pc EXCEPT ![t] = "waiting"]
        /\ UNCHANGED <<buffer, counter, gate, rounds, todo>>
        /\ pc \in [Task -> Stages]
    BY DEF StartJob, loopVars, slotVars, TypeOK
  <1>2. /\ queue[q] \in Seq(Task) /\ queue[q] # <<>>
        /\ queue \in [Queues -> Seq(Task)]
    BY DEF TypeOK, StartJob, Startable
  <1>3. /\ t = queue[q][1] /\ 1 \in 1..Len(queue[q]) /\ Len(queue[q]) \in Nat
        /\ Len(Tail(queue[q])) = Len(queue[q]) - 1
        /\ \A i \in 1..Len(Tail(queue[q])) : Tail(queue[q])[i] = queue[q][i + 1]
    BY <1>2, HeadTailProperties, EmptySeq, LenProperties
  <1>4. pc[t] = "queued" /\ Queue(t) = q
    BY <1>3 DEF SlotInv, LineInv, QueuedTasks
  <1>5. \A r \in Queues, h \in Hashes : Outstanding(r, h)' = Outstanding(r, h)
    BY <1>1, <1>4, OutstandingSame DEF InJob
  <1>6. CounterExact' /\ HoldersBusy'
    <2>1. \A r \in Queues : gate[r].holders \subseteq Hashes
      BY DEF TypeOK, GateStates
    <2>2. QED
      BY <1>1, <1>5, <2>1 DEF SlotInv, CounterExact, HoldersBusy
  <1>7. SlotCoversTasks'
    BY <1>1, <1>4 DEF SlotInv, SlotCoversTasks, InJob
  <1>8. StagedWillFlush' /\ GatesOK'
    BY <1>1 DEF SlotInv, StagedWillFlush, GatesOK
  <1>9. QED
    BY <1>6, <1>7, <1>8 DEF SlotInv

\* A path is submitted: the loop's tasks are new.
LEMMA SubmitKeepsSlots ==
    ASSUME TypeOK, TypeOK', SlotInv, LineInv', NEW p \in Paths,
           Submit(p) \/ \E x \in Plugins : Recompute(p, x)
    PROVE  SlotInv'
  <1>1. /\ UNCHANGED <<pc, buffer, counter, gate, queue>>
        /\ rounds' = [rounds EXCEPT ![p] = @ + 1]
        /\ rounds \in [Paths -> 0..MaxRounds]
        /\ MaxRounds \in Nat
    BY SchedulerAssumption DEF Submit, Recompute, slotVars, TypeOK, SchedulerAssumption
  <1>2. \A r \in Queues, h \in Hashes : Outstanding(r, h)' = Outstanding(r, h)
    BY <1>1 DEF Outstanding
  <1>3. CounterExact' /\ HoldersBusy'
    <2>1. \A r \in Queues : gate[r].holders \subseteq Hashes
      BY DEF TypeOK, GateStates
    <2>2. QED
      BY <1>1, <1>2, <2>1 DEF SlotInv, CounterExact, HoldersBusy
  <1>4. SlotCoversTasks' /\ StagedWillFlush' /\ GatesOK'
    BY <1>1 DEF SlotInv, SlotCoversTasks, StagedWillFlush, GatesOK
  <1>5. QED
    BY <1>3, <1>4 DEF SlotInv

\* A task of a closed scheduler is dropped.
LEMMA RejectTaskKeepsSlots ==
    ASSUME TypeOK, TypeOK', SlotInv, LineInv', RejectTask, NEW t \in Task, t = Head(todo)
    PROVE  SlotInv'
  <1>1. /\ UNCHANGED <<rounds, buffer, counter, gate, queue>>
        /\ todo' = Tail(todo)
        /\ pc' = [pc EXCEPT ![t] = "gone"]
        /\ pc \in [Task -> Stages]
    BY DEF RejectTask, slotVars, TypeOK
  <1>2. /\ t = todo[1] /\ 1 \in 1..Len(todo)
        /\ Len(Tail(todo)) = Len(todo) - 1 /\ Len(todo) \in Nat
        /\ \A i \in 1..Len(Tail(todo)) : Tail(todo)[i] = todo[i + 1]
    <2>1. todo \in Seq(Task) /\ todo # <<>>
      BY DEF TypeOK, RejectTask
    <2>2. QED
      BY <2>1, HeadTailProperties, LenProperties, EmptySeq
  <1>3. pc[t] = "none" /\ \A u \in Task : u # t => pc'[u] = pc[u]
    BY <1>1, <1>2 DEF SlotInv, LineInv, CreatedOnce
  <1>4. \A r \in Queues, h \in Hashes : Outstanding(r, h)' = Outstanding(r, h)
    BY <1>1, <1>3, OutstandingSame DEF InJob
  <1>5. CounterExact' /\ HoldersBusy'
    <2>1. \A r \in Queues : gate[r].holders \subseteq Hashes
      BY DEF TypeOK, GateStates
    <2>2. QED
      BY <1>1, <1>4, <2>1 DEF SlotInv, CounterExact, HoldersBusy
  <1>6. SlotCoversTasks' /\ StagedWillFlush' /\ GatesOK'
    BY <1>1, <1>3 DEF SlotInv, SlotCoversTasks, StagedWillFlush, GatesOK, InJob
  <1>7. QED
    BY <1>5, <1>6 DEF SlotInv

\* SlotInv holds at the start and every step but clear() preserves it: what the
\* lists of tasks need is LineInvInductive.
LEMMA SlotInvInductive ==
    /\ Init => SlotInv
    /\ TypeOK /\ TypeOK' /\ SlotInv /\ LineInv' /\ [Steady]_vars => SlotInv'
  <1>1. ASSUME Init
        PROVE  SlotInv
    <2> USE <1>1
    <2>1. \A q \in Queues, f \in Hashes : Outstanding(q, f) = {}
      BY DEF Init, Outstanding, InJob
    <2>2. CounterExact
      BY <2>1, FS_EmptySet DEF Init, CounterExact
    <2>3. GatesOK
      <3>1. \A q \in Queues : Slots[q] \in Nat \ {0}
        BY SchedulerAssumption DEF SchedulerAssumption
      <3>2. QED
        BY <3>1, EmptyGateOK DEF Init, GatesOK
    <2>4. SlotCoversTasks
      BY DEF Init, SlotCoversTasks, InJob
    <2>5. Len(<<>>) = 0 /\ \A i \in 1..0 : FALSE
      BY EmptySeq
    <2>6. /\ \A q \in Queues : gate[q] = EmptyGate /\ queue[q] = <<>>
          /\ \A q \in Queues, f \in Hashes : buffer[q][f] = <<>>
          /\ todo = <<>>
          /\ EmptyGate.holders = {} /\ EmptyGate.granted = {} /\ EmptyGate.waiters = <<>>
      BY DEF Init, EmptyGate
    <2>7. StagedWillFlush /\ HoldersBusy
      BY <2>5, <2>6 DEF StagedWillFlush, HoldersBusy, Waits
    <2>8. QED
      BY <2>2, <2>3, <2>4, <2>7, LineInvInductive DEF SlotInv
  <1>2. ASSUME TypeOK, TypeOK', SlotInv, LineInv', [Steady]_vars
        PROVE  SlotInv'
    <2> USE <1>2
    <2>1. ASSUME NEW p \in Paths, Submit(p) \/ \E x \in Plugins : Recompute(p, x)
          PROVE  SlotInv'
      BY <2>1, SubmitKeepsSlots
    <2>2. ASSUME RejectTask \/ EnqueueTask
          PROVE  SlotInv'
      <3>1. Head(todo) \in Task
        BY <2>2, HeadTailProperties DEF RejectTask, EnqueueTask, TypeOK
      <3>2. PICK t \in Task : t = Head(todo)
        BY <3>1
      <3>3. QED
        BY <2>2, <3>2, RejectTaskKeepsSlots, EnqueueTaskKeepsSlots
    <2>3. ASSUME NEW q \in Queues, StartJob(q)
          PROVE  SlotInv'
      <3>1. Head(queue[q]) \in Task
        BY <2>3, HeadTailProperties DEF StartJob, Startable, TypeOK
      <3>2. PICK t \in Task : t = Head(queue[q])
        BY <3>1
      <3>3. QED
        BY <2>3, <3>2, StartJobKeepsSlots
    <2>4. ASSUME NEW q \in Queues, NEW f \in Hashes, Flush(q, f)
          PROVE  SlotInv'
      BY <2>4, FlushKeepsSlots
    <2>5. ASSUME NEW t \in Task, FailUnhealthy(t) \/ Settle(t) \/ SettleWithError(t)
          PROVE  SlotInv'
      <3>1. pc[t] \in InJob
        BY <2>5 DEF FailUnhealthy, Settle, SettleWithError, InJob
      <3>2. EndJob(t, status) \/ EndJob(t, [status EXCEPT ![t] = "failed"])
        BY <2>5 DEF FailUnhealthy, Settle, SettleWithError
      <3>3. QED
        BY <3>1, <3>2, EndJobKeepsSlots
    <2>6. ASSUME NEW t \in Task,
                 \/ Dispatch(t) \/ JobLeaves(t) \/ CallbackTimeout(t)
                 \/ \E x \in Plugins : DependencyTimeout(t, x)
                 \/ OutsideStep(t)
          PROVE  SlotInv'
      <3>1. UNCHANGED <<buffer, counter, gate, queue, rounds, todo>>
        BY <2>6
        DEF Dispatch, JobLeaves, CallbackTimeout, DependencyTimeout, OutsideStep,
            ContainerAccepts, PostAccepted, PostFails, Callback, loopVars, slotVars
      <3>2. \/ pc' = pc
            \/ pc[t] \in InJob /\ \E x \in InJob : pc' = [pc EXCEPT ![t] = x]
            \/ pc[t] = "leaving" /\ pc' = [pc EXCEPT ![t] = "gone"]
        BY <2>6
        DEF Dispatch, JobLeaves, CallbackTimeout, DependencyTimeout, OutsideStep,
            ContainerAccepts, PostAccepted, PostFails, Callback, TakeReport, SwallowReport,
            DropReport, InJob
      <3>3. \A u \in Task :
                \/ pc'[u] = pc[u]
                \/ pc[u] \in InJob /\ pc'[u] \in InJob
                \/ pc[u] = "leaving" /\ pc'[u] = "gone"
        BY <3>2 DEF TypeOK
      <3>4. QED
        BY <3>1, <3>3, QuietStep
    <2>7. ASSUME NEW f \in Hashes, CancelFile(f)
          PROVE  SlotInv'
      <3>1. UNCHANGED <<buffer, counter, gate, queue, rounds, todo>>
        BY <2>7 DEF CancelFile, loopVars, slotVars
      <3>2. \A u \in Task : pc'[u] = pc[u] \/ (pc[u] = "awaiting" /\ pc'[u] = "rejected")
        BY <2>7 DEF CancelFile
      <3>3. \A u \in Task :
                \/ pc'[u] = pc[u]
                \/ pc[u] \in InJob /\ pc'[u] \in InJob
                \/ pc[u] = "leaving" /\ pc'[u] = "gone"
        BY <3>2 DEF InJob
      <3>4. QED
        BY <3>1, <3>3, QuietStep
    <2>8. ASSUME \/ \E x \in Plugins : HealthChanges(x)
                 \/ SetGate \/ Pause \/ Resume \/ UNCHANGED vars
          PROVE  SlotInv'
      <3>1. UNCHANGED <<buffer, counter, gate, queue, rounds, todo, pc>>
        BY <2>8 DEF HealthChanges, SetGate, Pause, Resume, vars, loopVars, slotVars
      <3>2. QED
        BY <3>1, QuietStep
    <2>9. QED
      BY <2>1, <2>2, <2>3, <2>4, <2>5, <2>6, <2>7, <2>8 DEF Steady, QueueStep, TaskStep
  <1>3. QED
    BY <1>1, <1>2

\* Between two resets the slot accounting is right, whatever the files, plugins,
\* capacities and operations of the environment.
THEOREM SchedulerSlots == SteadySpec => [](TypeOK /\ SlotInv)
  <1>1. [Steady]_vars => [Next]_vars
    BY DEF Next
  <1>2. Init => TypeOK /\ SlotInv
    BY TypeInductive, SlotInvInductive
  <1>3. TypeOK /\ SlotInv /\ [Steady]_vars => (TypeOK /\ SlotInv)'
    BY <1>1, TypeInductive, LineInvInductive, SlotInvInductive DEF SlotInv
  <1>4. QED
    BY <1>2, <1>3, PTL DEF SteadySpec

\* The per-file counter is the number of outstanding tasks in every state.
THEOREM SchedulerCounterExact == SteadySpec => []CounterExact
  <1>1. TypeOK /\ SlotInv => CounterExact
    BY DEF SlotInv
  <1>2. QED
    BY <1>1, SchedulerSlots, PTL

\* A task is queued or running only while its file holds the phase's slot.
THEOREM SchedulerSlotCoversTasks == SteadySpec => []SlotCoversTasks
  <1>1. TypeOK /\ SlotInv => SlotCoversTasks
    BY DEF SlotInv
  <1>2. QED
    BY <1>1, SchedulerSlots, PTL

\* A file has staged tasks exactly while it stands in the gate's line or has just been
\* granted the slot: no staged task is forgotten.
THEOREM SchedulerStagedWillFlush == SteadySpec => []StagedWillFlush
  <1>1. TypeOK /\ SlotInv => StagedWillFlush
    BY DEF SlotInv
  <1>2. QED
    BY <1>1, SchedulerSlots, PTL

\* The purpose of the gates (ContainerPluginScheduler.ts:89-91): in each phase at
\* most Slots[q] files have their bytes read at a time.
THEOREM SchedulerFilesInFlightCapped == SteadySpec => []FilesInFlightCapped
  <1>1. ASSUME TypeOK, SlotInv
        PROVE  FilesInFlightCapped
    <2> SUFFICES ASSUME NEW q \in Queues
                 PROVE  Cardinality(FilesInFlight(q)) <= Slots[q]
      BY DEF FilesInFlightCapped
    <2>1. FilesInFlight(q) \subseteq gate[q].holders
      BY <1>1 DEF FilesInFlight, SlotInv, SlotCoversTasks, Holds
    <2>2. IsFiniteSet(gate[q].holders) /\ Cardinality(gate[q].holders) <= Slots[q]
      BY <1>1 DEF SlotInv, GatesOK, GateOK, WithinCapacity
    <2>3. /\ IsFiniteSet(FilesInFlight(q))
          /\ Cardinality(FilesInFlight(q)) <= Cardinality(gate[q].holders)
      BY <2>1, <2>2, FS_Subset
    <2>4. /\ Cardinality(gate[q].holders) \in Nat
          /\ Cardinality(FilesInFlight(q)) \in Nat
          /\ Slots[q] \in Nat
      BY <2>2, <2>3, FS_CardinalityType, SchedulerAssumption DEF SchedulerAssumption
    <2>5. QED
      BY <2>2, <2>3, <2>4
  <1>2. TypeOK /\ SlotInv => FilesInFlightCapped
    BY <1>1
  <1>3. QED
    BY <1>2, SchedulerSlots, PTL


-----------------------------------------------------------------------------
(* Between two resets each phase keeps the promise of the semaphore. *)

\* The end of a job gives back the slot of a file, whose grant was observed, or leaves the
\* gates alone.
LEMMA EndJobReleases ==
    ASSUME TypeOK, SlotInv, NEW t \in Task, NEW st, EndJob(t, st), pc[t] \in InJob
    PROVE  \/ UNCHANGED gate
           \/ /\ gate' = [gate EXCEPT ![Queue(t)] = Released(@, File(t))]
              /\ Holds(gate[Queue(t)], File(t)) /\ File(t) \notin gate[Queue(t)].granted
  <1> DEFINE q == Queue(t)
             f == File(t)
             left == Outstanding(q, f) \ {t}
  <1>1. q \in Queues /\ f \in Hashes /\ t \in Outstanding(q, f)
    BY TaskTypes DEF Outstanding
  <1>2. /\ counter[q][f] = Cardinality(Outstanding(q, f)) /\ Holds(gate[q], f)
        /\ IsFiniteSet(Outstanding(q, f)) /\ counter[q][f] \in Nat
    BY <1>1, TasksFinite DEF SlotInv, CounterExact, SlotCoversTasks, TypeOK
  <1>3. IsFiniteSet(left) /\ Cardinality(left) = counter[q][f] - 1 /\ Cardinality(left) \in Nat
    BY <1>1, <1>2, FS_RemoveElement, FS_CardinalityType
  <1>4. CASE counter[q][f] <= 1
    <2>1. gate' = [gate EXCEPT ![q] = Released(@, f)]
      BY <1>2, <1>4 DEF EndJob, OnTaskFinished
    <2>2. left = {}
      BY <1>2, <1>3, <1>4, FS_EmptySet
    <2>3. ASSUME f \in gate[q].granted
          PROVE  FALSE
      <3>1. PICK u \in Outstanding(q, f) : pc[u] = "buffered"
        BY <1>1, <2>3, GrantedIsStaged
      <3>2. QED
        BY <2>2, <3>1 DEF InJob
    <2>4. QED
      BY <1>2, <2>1, <2>3
  <1>5. CASE ~(counter[q][f] <= 1)
    BY <1>5 DEF EndJob, OnTaskFinished
  <1>6. QED
    BY <1>4, <1>5

\* The first staged task of a file asks for the slot; any other leaves the gates alone.
LEMMA EnqueueTaskAsks ==
    ASSUME TypeOK, SlotInv, EnqueueTask, NEW t \in Task, t = Head(todo)
    PROVE  \/ UNCHANGED gate
           \/ /\ gate' = [gate EXCEPT ![Queue(t)] = Acquired(@, File(t), Slots[Queue(t)])]
              /\ ~Holds(gate[Queue(t)], File(t)) /\ ~Waits(gate[Queue(t)], File(t))
  <1>1. Queue(t) \in Queues /\ File(t) \in Hashes
    BY TaskTypes
  <1>2. Place(t, Queue(t), File(t))
    BY DEF EnqueueTask
  <1>3. CASE ~Holds(gate[Queue(t)], File(t)) /\ buffer[Queue(t)][File(t)] = <<>>
    BY <1>1, <1>2, <1>3 DEF Place, SlotInv, StagedWillFlush
  <1>4. CASE Holds(gate[Queue(t)], File(t)) \/ buffer[Queue(t)][File(t)] # <<>>
    BY <1>2, <1>4 DEF Place
  <1>5. QED
    BY <1>3, <1>4

\* A flush lets the file in.
LEMMA FlushEnters ==
    ASSUME TypeOK, SlotInv, NEW q \in Queues, NEW f \in Hashes, Flush(q, f)
    PROVE  gate' = [gate EXCEPT ![q] = Observed(@, f)] /\ f \in gate[q].granted
  <1>1. f \in gate[q].granted /\ buffer[q][f] # <<>>
    BY GrantedIsStaged DEF Flush
  <1>2. gate' = [gate EXCEPT ![q] = Observed(gate[q], f)]
    BY <1>1 DEF Flush, FlushedGate
  <1>3. QED
    BY <1>1, <1>2

\* What moves a gate.
LEMMA GateMoves ==
    ASSUME TypeOK, SlotInv, [Steady]_vars, NEW q \in Queues
    PROVE  \/ UNCHANGED gate[q]
           \/ \E f \in Hashes :
                 \/ /\ gate'[q] = Acquired(gate[q], f, Slots[q])
                    /\ ~Holds(gate[q], f) /\ ~Waits(gate[q], f)
                 \/ gate'[q] = Observed(gate[q], f) /\ f \in gate[q].granted
                 \/ /\ gate'[q] = Released(gate[q], f)
                    /\ Holds(gate[q], f) /\ f \notin gate[q].granted
  <1> DEFINE Moved == \/ UNCHANGED gate[q]
                      \/ \E f \in Hashes :
                            \/ /\ gate'[q] = Acquired(gate[q], f, Slots[q])
                               /\ ~Holds(gate[q], f) /\ ~Waits(gate[q], f)
                            \/ gate'[q] = Observed(gate[q], f) /\ f \in gate[q].granted
                            \/ /\ gate'[q] = Released(gate[q], f)
                               /\ Holds(gate[q], f) /\ f \notin gate[q].granted
  <1>1. gate \in [Queues -> GateStates]
    BY DEF TypeOK
  <1>2. ASSUME EnqueueTask PROVE Moved
    <2>1. Head(todo) \in Task
      BY <1>2, HeadTailProperties DEF EnqueueTask, TypeOK
    <2>2. PICK t \in Task : t = Head(todo)
      BY <2>1
    <2>3. \/ UNCHANGED gate
          \/ /\ gate' = [gate EXCEPT ![Queue(t)] = Acquired(@, File(t), Slots[Queue(t)])]
             /\ ~Holds(gate[Queue(t)], File(t)) /\ ~Waits(gate[Queue(t)], File(t))
      BY <1>2, <2>2, EnqueueTaskAsks
    <2>4. QED
      BY <1>1, <2>3, TaskTypes
  <1>3. ASSUME NEW r \in Queues, NEW f \in Hashes, Flush(r, f) PROVE Moved
    <2>1. gate' = [gate EXCEPT ![r] = Observed(@, f)] /\ f \in gate[r].granted
      BY <1>3, FlushEnters
    <2>2. QED
      BY <1>1, <2>1
  <1>4. ASSUME NEW t \in Task, FailUnhealthy(t) \/ Settle(t) \/ SettleWithError(t) PROVE Moved
    <2>1. pc[t] \in InJob
      BY <1>4 DEF FailUnhealthy, Settle, SettleWithError, InJob
    <2>2. EndJob(t, status) \/ EndJob(t, [status EXCEPT ![t] = "failed"])
      BY <1>4 DEF FailUnhealthy, Settle, SettleWithError
    <2>3. \/ UNCHANGED gate
          \/ /\ gate' = [gate EXCEPT ![Queue(t)] = Released(@, File(t))]
             /\ Holds(gate[Queue(t)], File(t)) /\ File(t) \notin gate[Queue(t)].granted
      BY <2>1, <2>2, EndJobReleases
    <2>4. QED
      BY <1>1, <2>3, TaskTypes
  <1>5. ASSUME \/ \E p \in Paths : Submit(p) \/ \E x \in Plugins : Recompute(p, x)
               \/ RejectTask
               \/ \E r \in Queues : StartJob(r)
               \/ \E f \in Hashes : CancelFile(f)
               \/ \E x \in Plugins : HealthChanges(x)
               \/ SetGate \/ Pause \/ Resume \/ UNCHANGED vars
        PROVE  UNCHANGED gate
    BY <1>5 DEF Submit, Recompute, RejectTask, StartJob, CancelFile, HealthChanges, SetGate,
                Pause, Resume, vars, slotVars
  <1>6. ASSUME NEW t \in Task,
               \/ Dispatch(t) \/ JobLeaves(t) \/ CallbackTimeout(t)
               \/ \E x \in Plugins : DependencyTimeout(t, x)
               \/ OutsideStep(t)
        PROVE  UNCHANGED gate
    BY <1>6 DEF Dispatch, JobLeaves, CallbackTimeout, DependencyTimeout, OutsideStep,
                ContainerAccepts, PostAccepted, PostFails, Callback, slotVars
  <1>7. QED
    BY <1>2, <1>3, <1>4, <1>5, <1>6 DEF Steady, QueueStep, TaskStep

\* What moves a gate is a step of its phase's semaphore.
LEMMA PhaseSteps ==
    ASSUME TypeOK, SlotInv, [Steady]_vars, NEW q \in Queues
    PROVE  [Phase(q)!Next]_(Phase(q)!vars)
  <1> DEFINE g == gate[q]
             h == gate'[q]
  <1>1. GateOK(g, Hashes, Slots[q]) /\ Slots[q] \in Nat \ {0}
    BY SchedulerAssumption DEF SlotInv, GatesOK
  <1> HIDE DEF g, h
  <1>2. ASSUME NEW f \in Hashes, h = Acquired(g, f, Slots[q]), ~Holds(g, f), ~Waits(g, f)
        PROVE  Phase(q)!Ask(f)
    <2>1. /\ f \notin AskingAt(g, Hashes) \cup InsideOf(g)
          /\ AskingAt(h, Hashes) = AskingAt(g, Hashes) \cup {f}
          /\ InsideOf(h) = InsideOf(g)
      BY <1>1, <1>2, AcquiredAsks
    <2>2. QED
      BY <2>1 DEF Phase!Ask, AskingAt, InsideOf, g, h
  <1>3. ASSUME NEW f \in Hashes, h = Observed(g, f), f \in g.granted
        PROVE  Phase(q)!Enter(f)
    <2>1. /\ f \in AskingAt(g, Hashes) /\ Cardinality(InsideOf(g)) < Slots[q]
          /\ AskingAt(h, Hashes) = AskingAt(g, Hashes) \ {f}
          /\ InsideOf(h) = InsideOf(g) \cup {f}
      BY <1>1, <1>3, ObservedEnters
    <2>2. \A S : Phase(q)!Cardinality(S) = Cardinality(S)
      BY DEF Phase!Cardinality, Cardinality
    <2>3. QED
      BY <2>1, <2>2 DEF Phase!Enter, AskingAt, InsideOf, g, h
  <1>4. ASSUME NEW f \in Hashes, h = Released(g, f), Holds(g, f), f \notin g.granted
        PROVE  Phase(q)!Leave(f)
    <2>1. /\ f \in InsideOf(g)
          /\ AskingAt(h, Hashes) = AskingAt(g, Hashes)
          /\ InsideOf(h) = InsideOf(g) \ {f}
      BY <1>1, <1>4, ReleasedLeaves
    <2>2. QED
      BY <2>1 DEF Phase!Leave, AskingAt, InsideOf, g, h
  <1>5. CASE UNCHANGED gate[q]
    BY <1>5 DEF Phase!vars, Waits
  <1>6. QED
    BY <1>2, <1>3, <1>4, <1>5, GateMoves DEF Phase!Next, g, h

\* In each phase the scheduler is a semaphore for files, whatever tasks, dependencies,
\* reports, failures and cancellations there are between: a file asks with its first
\* staged task, is let in by the flush of its buffer while there is room, and leaves with
\* the end of its last outstanding task (ContainerPluginScheduler.ts 325-393).
THEOREM SchedulerImplementsSemaphores ==
    SteadySpec => ImplementsSemaphores /\ \A q \in Queues : Phase(q)!Spec
  <1>1. ASSUME Init PROVE \A q \in Queues : Phase(q)!Init
    BY <1>1, EmptySeq DEF Init, Phase!Init, EmptyGate, Waits
  <1>2. TypeOK /\ SlotInv /\ [Steady]_vars
           => [\A q \in Queues : [Phase(q)!Next]_(Phase(q)!vars)]_vars
    BY PhaseSteps
  <1>3. SteadySpec => ImplementsSemaphores
    BY <1>1, <1>2, SchedulerSlots, PTL DEF SteadySpec, ImplementsSemaphores
  <1>4. ASSUME NEW q \in Queues PROVE SteadySpec => Phase(q)!Spec
    <2>1. Init => Phase(q)!Init
      BY <1>1
    <2>2. TypeOK /\ SlotInv /\ [Steady]_vars => [Phase(q)!Next]_(Phase(q)!vars)
      BY PhaseSteps
    <2>3. QED
      BY <2>1, <2>2, SchedulerSlots, PTL DEF SteadySpec, Phase!Spec
  <1>5. QED
    BY <1>3, <1>4
=============================================================================
