------------------------ MODULE StreamingPipelineProofs ------------------------
(***************************************************************************)
(* Theorems about the pipeline of a file, for every set of paths, contents *)
(* and plugins, any number of events and of resets.                        *)
(*                                                                         *)
(*   TypeInv        each of the three queues holds the jobs that wait at   *)
(*                  its stage, once each;                                  *)
(*   UndisturbedInv what is known of a path while nothing has disturbed    *)
(*                  it: one job, one claim on its dispatch, the stage the  *)
(*                  monitor shows, no entry among the done before the end; *)
(*   CountInv       the counters of a generation against the jobs that     *)
(*                  have passed each stage;                                *)
(*   OnceInv        where each path has had one event in a generation, the *)
(*                  completions counted against the jobs that are settled. *)
(*                                                                         *)
(* PipelineInv is all of them; it is inductive, and the six invariants the *)
(* runs check follow from it.                                              *)
(***************************************************************************)
EXTENDS StreamingPipeline, SequenceTheorems, FiniteSetTheorems, TLAPS

NoJobTwice(q) == \A i, k \in DOMAIN q : q[i] = q[k] => i = k

\* The jobs of js that stand at a stage.
At(js, stage) == {j \in DOMAIN js : js[j].at = stage}

\* The queue q holds each job of js that stands at the stage, once.
Queued(q, js, stage) ==
    /\ q \in Seq(Nat) /\ NoJobTwice(q)
    /\ ToSet(q) = At(js, stage)

QueuesSound ==
    /\ Queued(validationQ, jobs, "validationQ")
    /\ Queued(fastQ, jobs, "fastQ")
    /\ Queued(backgroundQ, jobs, "backgroundQ")

TypeInv == TypeOK /\ QueuesSound

\* What a step does to the jobs: one moves to a stage ...
Moved(j, stage) ==
    /\ j \in Ids /\ stage \in Stages
    /\ jobs' \in Seq(Job) /\ DOMAIN jobs' = Ids
    /\ \A i \in Ids :
          /\ jobs'[i].path = jobs[i].path /\ jobs'[i].hash = jobs[i].hash
          /\ jobs'[i].gen = jobs[i].gen
          /\ jobs'[i].at = IF i = j THEN stage ELSE jobs[i].at

\* ... or a new one begins, as number n.
Began(p, n) ==
    /\ n = Len(jobs) + 1 /\ n \notin Ids
    /\ jobs' \in Seq(Job) /\ DOMAIN jobs' = Ids \cup {n}
    /\ \A i \in Ids : jobs'[i] = jobs[i]
    /\ jobs'[n].path = p /\ jobs'[n].gen = generation /\ jobs'[n].at = "validationQ"

-----------------------------------------------------------------------------
(* Jobs and queues. *)

\* The first of a queue leaves it.
LEMMA HeadLeaves ==
    ASSUME NEW q \in Seq(Nat), NoJobTwice(q), q # <<>>
    PROVE  /\ Head(q) \in ToSet(q)
           /\ Tail(q) \in Seq(Nat) /\ NoJobTwice(Tail(q))
           /\ ToSet(Tail(q)) = ToSet(q) \ {Head(q)}
  <1>1. /\ Tail(q) \in Seq(Nat) /\ Head(q) = q[1]
        /\ Len(q) \in Nat \ {0} /\ Len(Tail(q)) = Len(q) - 1
        /\ DOMAIN q = 1..Len(q) /\ DOMAIN Tail(q) = 1..(Len(q) - 1)
        /\ \A i \in 1..(Len(q) - 1) : Tail(q)[i] = q[i + 1]
    BY HeadTailProperties, LenProperties, EmptySeq
  <1>2. NoJobTwice(Tail(q))
    <2> SUFFICES ASSUME NEW i \in 1..(Len(q) - 1), NEW k \in 1..(Len(q) - 1),
                        q[i + 1] = q[k + 1]
                 PROVE  i = k
      BY <1>1 DEF NoJobTwice
    <2>1. i + 1 \in DOMAIN q /\ k + 1 \in DOMAIN q
      BY <1>1
    <2>2. i + 1 = k + 1
      BY <2>1 DEF NoJobTwice
    <2>3. QED
      BY <1>1, <2>2
  <1>3. ASSUME NEW x \in ToSet(Tail(q))
        PROVE  x \in ToSet(q) \ {Head(q)}
    <2>1. PICK i \in 1..(Len(q) - 1) : x = q[i + 1]
      BY <1>1 DEF ToSet
    <2>2. i + 1 \in DOMAIN q /\ 1 \in DOMAIN q /\ i + 1 # 1
      BY <1>1
    <2>3. q[i + 1] # q[1]
      BY <2>2 DEF NoJobTwice
    <2>4. QED
      BY <1>1, <2>1, <2>2, <2>3 DEF ToSet
  <1>4. ASSUME NEW x \in ToSet(q), x # Head(q)
        PROVE  x \in ToSet(Tail(q))
    <2>1. PICK k \in 1..Len(q) : x = q[k] /\ k # 1
      BY <1>1, <1>4 DEF ToSet
    <2>2. k - 1 \in 1..(Len(q) - 1) /\ Tail(q)[k - 1] = q[(k - 1) + 1] /\ (k - 1) + 1 = k
      BY <1>1, <2>1
    <2>3. QED
      BY <1>1, <2>1, <2>2 DEF ToSet
  <1>5. Head(q) \in ToSet(q)
    BY <1>1 DEF ToSet
  <1>6. QED
    BY <1>1, <1>2, <1>3, <1>4, <1>5

\* A job joins a queue it is not in.
LEMMA LastJoins ==
    ASSUME NEW q \in Seq(Nat), NoJobTwice(q), NEW x \in Nat, x \notin ToSet(q)
    PROVE  /\ Append(q, x) \in Seq(Nat) /\ NoJobTwice(Append(q, x))
           /\ ToSet(Append(q, x)) = ToSet(q) \cup {x}
  <1> DEFINE r == Append(q, x)
             m == Len(q) + 1
  <1>1. /\ r \in Seq(Nat) /\ Len(q) \in Nat
        /\ DOMAIN q = 1..Len(q) /\ DOMAIN r = DOMAIN q \cup {m} /\ m \notin DOMAIN q
        /\ \A i \in DOMAIN q : r[i] = q[i]
        /\ r[m] = x
    BY AppendProperties, LenProperties
  <1> HIDE DEF r, m
  <1>2. \A i \in DOMAIN q : q[i] # x
    BY DEF ToSet
  <1>3. NoJobTwice(r)
    BY <1>1, <1>2 DEF NoJobTwice
  <1>4. ToSet(r) = ToSet(q) \cup {x}
    BY <1>1 DEF ToSet
  <1>5. QED
    BY <1>1, <1>3, <1>4 DEF r

\* The queues follow the jobs: the queue of a stage stays sound when a job moves.
LEMMA QueueFollows ==
    ASSUME NEW stage, NEW q, Queued(q, jobs, stage), jobs \in Seq(Job),
           NEW j, NEW s, Moved(j, s), NEW r,
           \/ r = q /\ jobs[j].at # stage /\ s # stage
           \/ r = Tail(q) /\ q # <<>> /\ j = Head(q) /\ s # stage
           \/ r = Append(q, j) /\ jobs[j].at # stage /\ s = stage
    PROVE  Queued(r, jobs', stage)
  <1>1. j \in Nat /\ q \in Seq(Nat) /\ NoJobTwice(q) /\ ToSet(q) = At(jobs, stage)
    BY LenProperties DEF Moved, Queued, Ids
  <1>2. CASE r = q /\ jobs[j].at # stage /\ s # stage
    <2>1. At(jobs', stage) = At(jobs, stage)
      BY <1>2 DEF At, Moved, Ids
    <2>2. QED
      BY <1>2, <2>1 DEF Queued
  <1>3. CASE r = Tail(q) /\ q # <<>> /\ j = Head(q) /\ s # stage
    <2>1. At(jobs', stage) = At(jobs, stage) \ {j}
      BY <1>3 DEF At, Moved, Ids
    <2>2. QED
      BY <1>1, <1>3, <2>1, HeadLeaves DEF Queued
  <1>4. CASE r = Append(q, j) /\ jobs[j].at # stage /\ s = stage
    <2>1. At(jobs', stage) = At(jobs, stage) \cup {j} /\ j \notin At(jobs, stage)
      BY <1>4 DEF At, Moved, Ids
    <2>2. QED
      BY <1>1, <1>4, <2>1, LastJoins DEF Queued
  <1>5. QED
    BY <1>2, <1>3, <1>4

\* The head of a queue is a job at its stage.
LEMMA HeadWaits ==
    ASSUME NEW stage, NEW q, NEW js, Queued(q, js, stage), q # <<>>
    PROVE  Head(q) \in DOMAIN js /\ js[Head(q)].at = stage
  BY HeadLeaves DEF Queued, At

\* A sound queue is what TypeOK asks of it.
LEMMA QueuedWaits ==
    ASSUME NEW stage, NEW q, NEW js, Queued(q, js, stage)
    PROVE  /\ \A i \in DOMAIN q : q[i] \in DOMAIN js /\ js[q[i]].at = stage
           /\ \A j \in DOMAIN js : js[j].at = stage => \E i \in DOMAIN q : q[i] = j
  BY DEF Queued, At, ToSet

\* The assignment of a stage is a move.
LEMMA MoveIsMoved ==
    ASSUME jobs \in Seq(Job), NEW j \in Ids, NEW stage \in Stages,
           \/ MoveTo(j, stage)
           \/ \E h \in HashOrNone : jobs' = [jobs EXCEPT ![j].at = stage, ![j].seen = h]
    PROVE  Moved(j, stage)
  <1>1. jobs \in [1..Len(jobs) -> Job] /\ Len(jobs) \in Nat /\ Ids = 1..Len(jobs)
    BY LenProperties DEF Ids
  <1>2. \A i \in Ids : /\ jobs[i].path \in Paths /\ jobs[i].hash \in Hashes
                       /\ jobs[i].gen \in 0..MaxResets /\ jobs[i].seen \in HashOrNone
                       /\ jobs[i].at \in Stages
    BY <1>1 DEF Job
  <1>3. PICK h \in HashOrNone : jobs' = [jobs EXCEPT ![j].at = stage, ![j].seen = h]
    <2>1. CASE MoveTo(j, stage)
      <3>1. jobs' = [jobs EXCEPT ![j].at = stage, ![j].seen = jobs[j].seen]
        BY <1>1, <1>2, <2>1 DEF MoveTo, Job
      <3>2. QED
        BY <1>2, <3>1
    <2>2. QED
      BY <2>1
  <1>4. /\ DOMAIN jobs' = Ids
        /\ \A i \in Ids : /\ jobs'[i] \in Job
                          /\ jobs'[i].path = jobs[i].path /\ jobs'[i].hash = jobs[i].hash
                          /\ jobs'[i].gen = jobs[i].gen
                          /\ jobs'[i].at = IF i = j THEN stage ELSE jobs[i].at
    <2>1. DOMAIN jobs' = Ids /\ \A i \in Ids \ {j} : jobs'[i] = jobs[i]
      BY <1>1, <1>3
    <2>2. jobs'[j] = [jobs[j] EXCEPT !.at = stage, !.seen = h]
      BY <1>1, <1>3
    <2>3. jobs'[j] = [path |-> jobs[j].path, hash |-> jobs[j].hash, gen |-> jobs[j].gen,
                      seen |-> h, at |-> stage]
      <3>1. jobs[j] \in Job
        BY <1>1
      <3>2. jobs[j] = [path |-> jobs[j].path, hash |-> jobs[j].hash, gen |-> jobs[j].gen,
                       seen |-> jobs[j].seen, at |-> jobs[j].at]
        BY <3>1 DEF Job
      <3>3. QED
        BY <2>2, <3>2
    <2>4. jobs'[j] \in Job
      BY <1>2, <2>3 DEF Job
    <2>5. \A i \in Ids : jobs[i] \in Job
      BY <1>1
    <2>6. QED
      BY <2>1, <2>3, <2>4, <2>5
  <1>5. jobs' \in Seq(Job)
    <2>1. jobs' \in [1..Len(jobs) -> Job]
      BY <1>1, <1>3, <1>4
    <2>2. QED
      BY <1>1, <2>1, SeqDef
  <1>6. QED
    BY <1>4, <1>5 DEF Moved


\* An event begins a job.
LEMMA EnterBegins ==
    ASSUME jobs \in Seq(Job), generation \in 0..MaxResets,
           NEW p \in Paths, NEW h \in Hashes, Enter(p, h)
    PROVE  \E n \in Nat : Began(p, n) /\ validationQ' = Append(validationQ, n)
  <1> DEFINE n == Len(jobs) + 1
             new == [path |-> p, hash |-> h, gen |-> generation, seen |-> NoHash,
                     at |-> "validationQ"]
  <1>1. new \in Job
    BY DEF Job, HashOrNone, Stages
  <1>2. jobs' = Append(jobs, new) /\ validationQ' = Append(validationQ, n)
    BY DEF Enter
  <1>3. new.path = p /\ new.gen = generation /\ new.at = "validationQ"
    OBVIOUS
  <1> HIDE DEF new
  <1>4. /\ jobs' \in Seq(Job) /\ n \in Nat /\ n \notin Ids
        /\ DOMAIN jobs' = Ids \cup {n}
        /\ \A i \in Ids : jobs'[i] = jobs[i]
        /\ jobs'[n] = new
    BY <1>1, <1>2, AppendProperties, LenProperties DEF Ids
  <1>5. QED
    BY <1>2, <1>3, <1>4 DEF Began

\* The queues stay sound when a job begins: it stands in the validation queue.
LEMMA BeganKeepsQueues ==
    ASSUME QueuesSound, NEW p, NEW n \in Nat, Began(p, n),
           validationQ' = Append(validationQ, n), UNCHANGED <<fastQ, backgroundQ>>
    PROVE  QueuesSound'
  <1>1. /\ At(jobs', "validationQ") = At(jobs, "validationQ") \cup {n}
        /\ At(jobs', "fastQ") = At(jobs, "fastQ")
        /\ At(jobs', "backgroundQ") = At(jobs, "backgroundQ")
        /\ n \notin At(jobs, "validationQ")
    BY DEF Began, At, Ids
  <1>2. /\ validationQ \in Seq(Nat) /\ NoJobTwice(validationQ)
        /\ ToSet(validationQ) = At(jobs, "validationQ") /\ n \notin ToSet(validationQ)
    BY <1>1 DEF QueuesSound, Queued
  <1>3. /\ Append(validationQ, n) \in Seq(Nat) /\ NoJobTwice(Append(validationQ, n))
        /\ ToSet(Append(validationQ, n)) = ToSet(validationQ) \cup {n}
    BY <1>2, LastJoins
  <1>4. Queued(validationQ', jobs', "validationQ")
    BY <1>1, <1>2, <1>3 DEF Queued
  <1>5. QED
    BY <1>1, <1>4 DEF QueuesSound, Queued

\* Sound queues are what TypeOK asks of them.
LEMMA QueuesWait ==
    ASSUME QueuesSound'
    PROVE  /\ Waiting(validationQ, "validationQ")' /\ Waiting(fastQ, "fastQ")'
           /\ Waiting(backgroundQ, "backgroundQ")'
  BY QueuedWaits DEF QueuesSound, Waiting, Ids

\* The job that each kind of step moves, and where to.
LEMMA StepMoves ==
    ASSUME TypeInv, NEW j \in Ids
    PROVE  /\ Validate(j) =>
                  /\ jobs[j].at = "validationQ"
                  /\ \/ Moved(j, "over") /\ fastQ' = fastQ
                     \/ Moved(j, "fastQ") /\ fastQ' = Append(fastQ, j)
           /\ StartLight(j) =>
                  /\ jobs[j].at = "fastQ"
                  /\ \/ Moved(j, "over") /\ ~Current(JobPath(j))
                     \/ Moved(j, "light") /\ Current(JobPath(j))
           /\ EndLight(j) => jobs[j].at = "light" /\ Moved(j, "backgroundQ")
           /\ FailLight(j) => jobs[j].at = "light" /\ Moved(j, "over")
           /\ StartHash(j) =>
                  /\ jobs[j].at = "backgroundQ"
                  /\ \/ Moved(j, "over") /\ (~Current(JobPath(j)) \/ db[JobPath(j)] = NoHash)
                     \/ Moved(j, "hashing") /\ Current(JobPath(j)) /\ db[JobPath(j)] # NoHash
           /\ HashRead(j) => jobs[j].at = "hashing" /\ Moved(j, "storing")
           /\ EndHash(j) => jobs[j].at = "storing" /\ Moved(j, "over")
  <1>1. jobs \in Seq(Job) /\ JobPath(j) \in Paths
    <2>1. jobs \in Seq(Job) /\ Ids = 1..Len(jobs)
      BY LenProperties DEF TypeInv, TypeOK, Ids
    <2>2. jobs[j] \in Job
      BY <2>1, ElementOfSeq
    <2>3. QED
      BY <2>1, <2>2 DEF Job, JobPath
  <1>2. \A s \in Stages : MoveTo(j, s) => Moved(j, s)
    BY <1>1, MoveIsMoved
  <1>3. ASSUME Validate(j)
        PROVE  /\ jobs[j].at = "validationQ"
               /\ \/ Moved(j, "over") /\ fastQ' = fastQ
                  \/ Moved(j, "fastQ") /\ fastQ' = Append(fastQ, j)
    <2>1. jobs[j].at = "validationQ"
      BY <1>3, HeadWaits DEF Validate, TypeInv, QueuesSound
    <2>2. QED
      BY <1>2, <1>3, <2>1 DEF Validate, Stages
  <1>4. ASSUME StartLight(j)
        PROVE  /\ jobs[j].at = "fastQ"
               /\ \/ Moved(j, "over") /\ ~Current(JobPath(j))
                  \/ Moved(j, "light") /\ Current(JobPath(j))
    <2>1. jobs[j].at = "fastQ"
      BY <1>4, HeadWaits DEF StartLight, TypeInv, QueuesSound
    <2>2. QED
      BY <1>2, <1>4, <2>1 DEF StartLight, Stages
  <1>5. ASSUME StartHash(j)
        PROVE  /\ jobs[j].at = "backgroundQ"
               /\ \/ Moved(j, "over") /\ (~Current(JobPath(j)) \/ db[JobPath(j)] = NoHash)
                  \/ Moved(j, "hashing") /\ Current(JobPath(j)) /\ db[JobPath(j)] # NoHash
    <2>1. jobs[j].at = "backgroundQ"
      BY <1>5, HeadWaits DEF StartHash, TypeInv, QueuesSound
    <2>2. db[JobPath(j)] \in HashOrNone
      BY <1>1 DEF TypeInv, TypeOK
    <2>3. "hashing" \in Stages /\ "over" \in Stages
      BY DEF Stages
    <2>4. \/ MoveTo(j, "over") /\ (~Current(JobPath(j)) \/ db[JobPath(j)] = NoHash)
          \/ /\ jobs' = [jobs EXCEPT ![j].at = "hashing", ![j].seen = db[JobPath(j)]]
             /\ Current(JobPath(j)) /\ db[JobPath(j)] # NoHash
      BY <1>5 DEF StartHash
    <2>5. QED
      BY <1>1, <1>2, <2>1, <2>2, <2>3, <2>4, MoveIsMoved
  <1>6. ASSUME HashRead(j)
        PROVE  jobs[j].at = "hashing" /\ Moved(j, "storing")
    BY <1>1, <1>6, MoveIsMoved DEF HashRead, HashOrNone, Stages
  <1>7. QED
    BY <1>2, <1>3, <1>4, <1>5, <1>6 DEF EndLight, FailLight, EndHash, Stages


-----------------------------------------------------------------------------
(* Types. *)

\* The queues stay sound whichever step a job takes.
LEMMA JobStepKeepsQueues ==
    ASSUME TypeInv, NEW j \in Ids, JobStep(j)
    PROVE  QueuesSound'
  <1>1. jobs \in Seq(Job)
    BY DEF TypeInv, TypeOK
  <1>2. /\ Queued(validationQ, jobs, "validationQ") /\ Queued(fastQ, jobs, "fastQ")
        /\ Queued(backgroundQ, jobs, "backgroundQ")
    BY DEF TypeInv, QueuesSound
  <1>3. CASE Validate(j)
    <2>1. /\ validationQ # <<>> /\ j = Head(validationQ)
          /\ validationQ' = Tail(validationQ) /\ backgroundQ' = backgroundQ
      BY <1>3 DEF Validate
    <2>2. PICK s \in {"over", "fastQ"} :
              /\ jobs[j].at = "validationQ" /\ Moved(j, s)
              /\ fastQ' = IF s = "over" THEN fastQ ELSE Append(fastQ, j)
      BY <1>3, StepMoves
    <2>3. Queued(validationQ', jobs', "validationQ")
      BY <1>1, <1>2, <2>1, <2>2, QueueFollows
    <2>4. Queued(fastQ', jobs', "fastQ")
      BY <1>1, <1>2, <2>1, <2>2, QueueFollows
    <2>5. Queued(backgroundQ', jobs', "backgroundQ")
      BY <1>1, <1>2, <2>1, <2>2, QueueFollows
    <2>6. QED
      BY <2>3, <2>4, <2>5 DEF QueuesSound
  <1>4. CASE StartLight(j)
    <2>1. /\ fastQ # <<>> /\ j = Head(fastQ) /\ fastQ' = Tail(fastQ)
          /\ UNCHANGED <<validationQ, backgroundQ>>
      BY <1>4 DEF StartLight
    <2>2. PICK s \in {"over", "light"} : jobs[j].at = "fastQ" /\ Moved(j, s)
      BY <1>4, StepMoves
    <2>3. Queued(validationQ', jobs', "validationQ")
      BY <1>1, <1>2, <2>1, <2>2, QueueFollows
    <2>4. Queued(fastQ', jobs', "fastQ")
      BY <1>1, <1>2, <2>1, <2>2, QueueFollows
    <2>5. Queued(backgroundQ', jobs', "backgroundQ")
      BY <1>1, <1>2, <2>1, <2>2, QueueFollows
    <2>6. QED
      BY <2>3, <2>4, <2>5 DEF QueuesSound
  <1>5. CASE StartHash(j)
    <2>1. /\ backgroundQ # <<>> /\ j = Head(backgroundQ) /\ backgroundQ' = Tail(backgroundQ)
          /\ UNCHANGED <<validationQ, fastQ>>
      BY <1>5 DEF StartHash
    <2>2. PICK s \in {"over", "hashing"} : jobs[j].at = "backgroundQ" /\ Moved(j, s)
      BY <1>5, StepMoves
    <2>3. Queued(validationQ', jobs', "validationQ")
      BY <1>1, <1>2, <2>1, <2>2, QueueFollows
    <2>4. Queued(fastQ', jobs', "fastQ")
      BY <1>1, <1>2, <2>1, <2>2, QueueFollows
    <2>5. Queued(backgroundQ', jobs', "backgroundQ")
      BY <1>1, <1>2, <2>1, <2>2, QueueFollows
    <2>6. QED
      BY <2>3, <2>4, <2>5 DEF QueuesSound
  <1>6. CASE EndLight(j)
    <2>1. backgroundQ' = Append(backgroundQ, j) /\ UNCHANGED <<validationQ, fastQ>>
      BY <1>6 DEF EndLight
    <2>2. PICK s \in {"backgroundQ"} : jobs[j].at \in {"light"} /\ Moved(j, s)
      BY <1>6, StepMoves
    <2>3. Queued(validationQ', jobs', "validationQ")
      BY <1>1, <1>2, <2>1, <2>2, QueueFollows
    <2>4. Queued(fastQ', jobs', "fastQ")
      BY <1>1, <1>2, <2>1, <2>2, QueueFollows
    <2>5. Queued(backgroundQ', jobs', "backgroundQ")
      BY <1>1, <1>2, <2>1, <2>2, QueueFollows
    <2>6. QED
      BY <2>3, <2>4, <2>5 DEF QueuesSound
  <1>7. CASE FailLight(j) \/ HashRead(j) \/ EndHash(j)
    <2>1. UNCHANGED <<validationQ, fastQ, backgroundQ>>
      BY <1>7 DEF FailLight, HashRead, EndHash, queueVars
    <2>2. PICK s \in {"over", "storing"} :
              jobs[j].at \in {"light", "hashing", "storing"} /\ Moved(j, s)
      BY <1>7, StepMoves
    <2>3. Queued(validationQ', jobs', "validationQ")
      BY <1>1, <1>2, <2>1, <2>2, QueueFollows
    <2>4. Queued(fastQ', jobs', "fastQ")
      BY <1>1, <1>2, <2>1, <2>2, QueueFollows
    <2>5. Queued(backgroundQ', jobs', "backgroundQ")
      BY <1>1, <1>2, <2>1, <2>2, QueueFollows
    <2>6. QED
      BY <2>3, <2>4, <2>5 DEF QueuesSound
  <1>8. QED
    BY <1>3, <1>4, <1>5, <1>6, <1>7 DEF JobStep

\* The queues stay sound in every step of the pipeline.
LEMMA QueuesSoundStep ==
    ASSUME TypeInv, [Next]_vars
    PROVE  jobs' \in Seq(Job) /\ QueuesSound'
  <1>1. jobs \in Seq(Job) /\ QueuesSound /\ generation \in 0..MaxResets
    BY DEF TypeInv, TypeOK
  <1>2. CASE UNCHANGED <<jobs, queueVars>>
    BY <1>1, <1>2 DEF QueuesSound, Queued, queueVars
  <1>3. ASSUME NEW p \in Paths, NEW h \in Hashes, Enter(p, h)
        PROVE  jobs' \in Seq(Job) /\ QueuesSound'
    <2>1. PICK n \in Nat : Began(p, n) /\ validationQ' = Append(validationQ, n)
      BY <1>1, <1>3, EnterBegins
    <2>2. UNCHANGED <<fastQ, backgroundQ>>
      BY <1>3 DEF Enter
    <2>3. QED
      BY <1>1, <2>1, <2>2, BeganKeepsQueues DEF Began
  <1>4. CASE Reset
    <2> DEFINE J(j) == IF jobs[j].at \in {"validationQ", "fastQ", "backgroundQ"}
                       THEN [jobs[j] EXCEPT !.at = "over"] ELSE jobs[j]
    <2>1. jobs \in [1..Len(jobs) -> Job] /\ Len(jobs) \in Nat /\ Ids = 1..Len(jobs)
      BY <1>1, LenProperties DEF Ids
    <2>2. \A j \in Ids : J(j) \in Job /\ J(j).at \notin {"validationQ", "fastQ", "backgroundQ"}
      BY <2>1 DEF Job, Stages
    <2>3. jobs' = [j \in Ids |-> J(j)]
      BY <1>4 DEF Reset
    <2> HIDE DEF J
    <2>4. jobs' \in [1..Len(jobs) -> Job]
      BY <2>1, <2>2, <2>3
    <2>5. jobs' \in Seq(Job)
      BY <2>1, <2>4, SeqDef
    <2>6. validationQ' = <<>> /\ fastQ' = <<>> /\ backgroundQ' = <<>>
      BY <1>4 DEF Reset, ClearQueues
    <2>7. /\ At(jobs', "validationQ") = {} /\ At(jobs', "fastQ") = {}
          /\ At(jobs', "backgroundQ") = {}
      BY <2>2, <2>3 DEF At
    <2>8. <<>> \in Seq(Nat) /\ ToSet(<<>>) = {} /\ NoJobTwice(<<>>)
      BY EmptySeq DEF ToSet, NoJobTwice
    <2>9. QED
      BY <2>5, <2>6, <2>7, <2>8 DEF QueuesSound, Queued
  <1>5. ASSUME NEW j \in Ids, JobStep(j)
        PROVE  jobs' \in Seq(Job) /\ QueuesSound'
    <2>1. \E s : Moved(j, s)
      BY <1>5, StepMoves DEF JobStep
    <2>2. QED
      BY <1>5, <2>1, JobStepKeepsQueues DEF Moved
  <1>6. ASSUME NEW p \in Paths, FileDeleted(p) \/ RetryFailed(p)
        PROVE  UNCHANGED <<jobs, queueVars>>
    BY <1>6 DEF FileDeleted, RetryFailed
  <1>7. ASSUME NEW h \in Hashes, NEW p \in Paths, FileComplete(h) \/ Finish(p, h)
        PROVE  UNCHANGED <<jobs, queueVars>>
    BY <1>7 DEF FileComplete, Finish
  <1>8. CASE \E h \in Hashes : FileComplete(h)
    BY <1>2, <1>8 DEF FileComplete
  <1>9. QED
    BY <1>2, <1>3, <1>4, <1>5, <1>6, <1>7, <1>8
    DEF Next, Event, FileAdded, FileChanged, FileRenamed, vars

\* Init establishes the types and every step keeps them.
LEMMA TypeInductive ==
    /\ Init => TypeInv
    /\ TypeInv /\ [Next]_vars => TypeInv'
  <1>1. ASSUME Init
        PROVE  TypeInv
    <2> USE <1>1
    <2>1. <<>> \in Seq(Nat) /\ <<>> \in Seq(Job) /\ ToSet(<<>>) = {} /\ NoJobTwice(<<>>)
      BY EmptySeq DEF ToSet, NoJobTwice
    <2>2. \A s \in Stages : At(<<>>, s) = {}
      BY DEF At
    <2>3. QueuesSound
      BY <2>1, <2>2 DEF Init, QueuesSound, Queued, Stages
    <2>4. /\ Waiting(validationQ, "validationQ") /\ Waiting(fastQ, "fastQ")
          /\ Waiting(backgroundQ, "backgroundQ")
      BY DEF Init, Waiting, Ids
    <2>5. /\ generation \in 0..MaxResets /\ gens \in [Paths -> 0..NoEntry]
          /\ jobs \in Seq(Job) /\ connected \in BOOLEAN
          /\ total \in Nat /\ tasks \subseteq Hashes \X Paths
      BY <2>1, PipelineAssumption DEF Init, PipelineAssumption, NoEntry
    <2>6. /\ hashing \in [Paths -> HashOrNone] /\ db \in [Paths -> HashOrNone]
          /\ done \subseteq [path : Paths, hash : HashOrNone, error : BOOLEAN]
      BY DEF Init, HashOrNone
    <2>7. /\ discovered \subseteq Paths /\ light \subseteq Paths /\ failed \subseteq Paths
          /\ deleted \subseteq Paths /\ undisturbed \subseteq Paths
          /\ finishing \in [Paths -> [Hashes -> Nat]]
          /\ counts \in [{"validated", "filtered", "fast", "background"} -> Nat]
      BY DEF Init
    <2>8. QED
      BY <2>3, <2>4, <2>5, <2>6, <2>7 DEF TypeInv, TypeOK
  <1>2. ASSUME TypeInv, [Next]_vars
        PROVE  TypeInv'
    <2> USE <1>2
    <2>1. /\ jobs' \in Seq(Job) /\ QueuesSound'
          /\ Waiting(validationQ, "validationQ")' /\ Waiting(fastQ, "fastQ")'
          /\ Waiting(backgroundQ, "backgroundQ")'
      BY QueuesSoundStep, QueuesWait
    <2>2. \A j \in Ids : /\ jobs[j] \in Job
                         /\ JobPath(j) \in Paths /\ jobs[j].hash \in Hashes
                         /\ jobs[j].seen \in HashOrNone
      <3>1. jobs \in Seq(Job) /\ Ids = 1..Len(jobs)
        BY LenProperties DEF TypeInv, TypeOK, Ids
      <3>2. \A j \in Ids : jobs[j] \in Job
        BY <3>1, ElementOfSeq
      <3>3. QED
        BY <3>2 DEF Job, JobPath
    <2>3. /\ discovered' \subseteq Paths /\ light' \subseteq Paths
          /\ hashing' \in [Paths -> HashOrNone]
          /\ done' \subseteq [path : Paths, hash : HashOrNone, error : BOOLEAN]
          /\ total' \in Nat
      <3>1. /\ discovered \subseteq Paths /\ light \subseteq Paths
            /\ hashing \in [Paths -> HashOrNone]
            /\ done \subseteq [path : Paths, hash : HashOrNone, error : BOOLEAN]
            /\ total \in Nat /\ db \in [Paths -> HashOrNone] /\ failed \subseteq Paths
            /\ NoHash \in HashOrNone /\ Hashes \subseteq HashOrNone
        BY DEF TypeInv, TypeOK, HashOrNone
      <3>2. CASE UNCHANGED stateVars
        BY <3>1, <3>2 DEF stateVars
      <3>3. \A p \in Paths, h \in HashOrNone, e \in BOOLEAN :
               CompleteHashProcessing(p, h, e) =>
                  /\ discovered' = discovered /\ light' = light
                  /\ hashing' \in [Paths -> HashOrNone] /\ total' \in Nat
                  /\ done' \subseteq [path : Paths, hash : HashOrNone, error : BOOLEAN]
        BY <3>1 DEF CompleteHashProcessing, DoneEntry
      <3>4. ASSUME NEW p \in Paths, RemoveFile(p), total' \in {total, total + 1}
            PROVE  /\ discovered' \subseteq Paths /\ light' \subseteq Paths
                   /\ hashing' \in [Paths -> HashOrNone] /\ total' \in Nat
                   /\ done' \subseteq [path : Paths, hash : HashOrNone, error : BOOLEAN]
        BY <3>1, <3>4 DEF RemoveFile
      <3>5. CASE \E p \in Paths, h \in Hashes : FileAdded(p, h)
        BY <3>1, <3>5 DEF FileAdded, Enter
      <3>6. CASE \E p \in Paths, h \in Hashes : FileChanged(p, h)
        BY <3>4, <3>6 DEF FileChanged, Enter
      <3>7. CASE \E old, p \in Paths, h \in Hashes : FileRenamed(old, p, h)
        BY <3>4, <3>7 DEF FileRenamed, Forget, Enter
      <3>8. CASE \E p \in Paths : FileDeleted(p)
        BY <3>4, <3>8 DEF FileDeleted, Forget
      <3>9. CASE Reset
        BY <3>1, <3>9 DEF Reset
      <3>10. ASSUME NEW j \in Ids, JobStep(j)
            PROVE  /\ discovered' \subseteq Paths /\ light' \subseteq Paths
                   /\ hashing' \in [Paths -> HashOrNone] /\ total' \in Nat
                   /\ done' \subseteq [path : Paths, hash : HashOrNone, error : BOOLEAN]
        <4>1. JobPath(j) \in Paths /\ jobs[j].hash \in Hashes
          BY <2>2
        <4>2. CASE Validate(j)
          BY <3>4, <4>1, <4>2 DEF Validate
        <4>3. CASE StartLight(j)
          BY <3>1, <3>2, <4>1, <4>3 DEF StartLight, StartLightProcessing
        <4>4. CASE EndLight(j)
          BY <3>1, <4>1, <4>4 DEF EndLight, CompleteLightProcessing
        <4>5. CASE FailLight(j)
          <5>1. \/ RemoveFile(JobPath(j)) /\ total' = total + 1
                \/ /\ light' = light \ {JobPath(j)} /\ discovered' = discovered
                   /\ hashing' = [hashing EXCEPT ![JobPath(j)] = NoHash]
                   /\ done' = done \cup {DoneEntry(JobPath(j), NoHash, TRUE)}
                   /\ total' = total + 1
            BY <4>5 DEF FailLight
          <5>2. DoneEntry(JobPath(j), NoHash, TRUE)
                    \in [path : Paths, hash : HashOrNone, error : BOOLEAN]
            BY <3>1, <4>1 DEF DoneEntry
          <5>3. CASE RemoveFile(JobPath(j)) /\ total' = total + 1
            BY <3>4, <4>1, <5>3
          <5>4. CASE ~(RemoveFile(JobPath(j)) /\ total' = total + 1)
            <6>1. /\ light' = light \ {JobPath(j)} /\ discovered' = discovered
                  /\ hashing' = [hashing EXCEPT ![JobPath(j)] = NoHash]
                  /\ done' = done \cup {DoneEntry(JobPath(j), NoHash, TRUE)}
                  /\ total' = total + 1
              BY <5>1, <5>4
            <6>2. hashing' \in [Paths -> HashOrNone]
              BY <3>1, <6>1
            <6>3. done' \subseteq [path : Paths, hash : HashOrNone, error : BOOLEAN]
              BY <3>1, <5>2, <6>1
            <6>4. discovered' \subseteq Paths /\ light' \subseteq Paths
              BY <3>1, <6>1
            <6>5. total' \in Nat
              BY <3>1, <6>1
            <6>6. QED
              BY <6>2, <6>3, <6>4, <6>5
          <5>5. QED
            BY <5>3, <5>4
        <4>6. CASE StartHash(j)
          BY <3>1, <3>2, <3>3, <4>1, <4>6 DEF StartHash
        <4>7. CASE HashRead(j)
          BY <3>2, <4>7 DEF HashRead
        <4>8. CASE EndHash(j)
          <5>1. db[JobPath(j)] \in HashOrNone
            BY <3>1, <4>1
          <5>2. \/ UNCHANGED stateVars
                \/ CompleteHashProcessing(JobPath(j), db[JobPath(j)], FALSE)
            BY <4>8 DEF EndHash, HashPhaseOver, CompleteNow
          <5>3. CASE UNCHANGED stateVars
            BY <3>2, <5>3
          <5>4. CASE CompleteHashProcessing(JobPath(j), db[JobPath(j)], FALSE)
            BY <3>1, <3>3, <4>1, <5>1, <5>4
          <5>5. QED
            BY <5>2, <5>3, <5>4
        <4>9. QED
          BY <3>10, <4>2, <4>3, <4>4, <4>5, <4>6, <4>7, <4>8 DEF JobStep
      <3>11. CASE \E h \in Hashes : FileComplete(h)
        BY <3>2, <3>11 DEF FileComplete
      <3>12. CASE \E h \in Hashes, p \in Paths : Finish(p, h)
        BY <3>1, <3>3, <3>12 DEF Finish
      <3>13. CASE \E p \in Paths : RetryFailed(p)
        BY <3>1, <3>13 DEF RetryFailed
      <3>14. QED
        BY <3>2, <3>5, <3>6, <3>7, <3>8, <3>9, <3>10, <3>11, <3>12, <3>13
        DEF Next, Event, vars
    <2>4. /\ connected' \in BOOLEAN
          /\ generation' \in 0..MaxResets /\ gens' \in [Paths -> 0..NoEntry]
          /\ counts' \in [{"validated", "filtered", "fast", "background"} -> Nat]
      <3>1. /\ connected \in BOOLEAN /\ generation \in 0..MaxResets
            /\ MaxResets \in Nat /\ NoEntry = MaxResets + 1
            /\ gens \in [Paths -> 0..NoEntry]
            /\ counts \in [{"validated", "filtered", "fast", "background"} -> Nat]
        BY PipelineAssumption DEF PipelineAssumption, TypeInv, TypeOK, NoEntry
      <3>2. CASE UNCHANGED <<connected, resetVars, counts>>
        BY <3>1, <3>2 DEF resetVars
      <3>3. \A c \in {"validated", "filtered", "fast", "background"} : Count(c) =>
               counts' \in [{"validated", "filtered", "fast", "background"} -> Nat]
        BY <3>1 DEF Count
      <3>4. ASSUME NEW p \in Paths, NEW h \in Hashes, Enter(p, h)
            PROVE  /\ connected' \in BOOLEAN
                   /\ generation' \in 0..MaxResets /\ gens' \in [Paths -> 0..NoEntry]
                   /\ counts' \in [{"validated", "filtered", "fast", "background"} -> Nat]
        BY <3>1, <3>4 DEF Enter, MarkGeneration, pluginVars
      <3>5. CASE \E p \in Paths : FileDeleted(p) \/ RetryFailed(p)
        BY <3>2, <3>5 DEF FileDeleted, RetryFailed, pluginVars
      <3>6. CASE Reset
        BY <3>1, <3>6 DEF Reset
      <3>7. ASSUME NEW j \in Ids, JobStep(j)
            PROVE  /\ connected' \in BOOLEAN
                   /\ generation' \in 0..MaxResets /\ gens' \in [Paths -> 0..NoEntry]
                   /\ counts' \in [{"validated", "filtered", "fast", "background"} -> Nat]
        <4>1. JobPath(j) \in Paths
          BY <2>2
        <4>2. CASE Validate(j)
          BY <3>1, <3>3, <4>2 DEF Validate, resetVars, pluginVars
        <4>3. CASE StartLight(j) \/ FailLight(j) \/ HashRead(j)
          BY <3>2, <4>3 DEF StartLight, FailLight, HashRead, pluginVars
        <4>4. CASE EndLight(j)
          <5>1. Count("fast") \/ UNCHANGED counts
            BY <4>4 DEF EndLight, CountFast
          <5>2. counts' \in [{"validated", "filtered", "fast", "background"} -> Nat]
            BY <3>1, <3>3, <5>1
          <5>3. UNCHANGED <<generation, gens, connected>>
            BY <4>4 DEF EndLight, resetVars
          <5>4. QED
            BY <3>1, <5>2, <5>3
        <4>5. CASE StartHash(j)
          <5>1. /\ UNCHANGED <<generation, counts, connected>>
                /\ gens' = gens \/ gens' = [gens EXCEPT ![JobPath(j)] = NoEntry]
            BY <4>5 DEF StartHash, pluginVars
          <5>2. gens' \in [Paths -> 0..NoEntry]
            BY <3>1, <4>1, <5>1
          <5>3. QED
            BY <3>1, <5>1, <5>2
        <4>6. CASE EndHash(j)
          <5>1. /\ UNCHANGED <<generation, connected>>
                /\ Count("background") \/ UNCHANGED counts
                /\ gens' = gens \/ gens' = [gens EXCEPT ![JobPath(j)] = NoEntry]
            BY <4>6 DEF EndHash, HashPhaseOver, CompleteNow, pluginVars
          <5>2. counts' \in [{"validated", "filtered", "fast", "background"} -> Nat]
            BY <3>1, <3>3, <5>1
          <5>3. gens' \in [Paths -> 0..NoEntry]
            BY <3>1, <4>1, <5>1
          <5>4. QED
            BY <3>1, <5>1, <5>2, <5>3
        <4>7. QED
          BY <3>7, <4>2, <4>3, <4>4, <4>5, <4>6 DEF JobStep
      <3>8. CASE \E h \in Hashes : FileComplete(h)
        BY <3>1, <3>8 DEF FileComplete, ConsumeEntries
      <3>9. CASE \E h \in Hashes, p \in Paths : Finish(p, h)
        BY <3>2, <3>9 DEF Finish
      <3>10. CASE UNCHANGED vars
        BY <3>2, <3>10 DEF vars, pluginVars
      <3>11. QED
        BY <3>4, <3>5, <3>6, <3>7, <3>8, <3>9, <3>10
        DEF Next, Event, FileAdded, FileChanged, FileRenamed
    <2>5. /\ db' \in [Paths -> HashOrNone]
          /\ failed' \subseteq Paths
          /\ tasks' \subseteq Hashes \X Paths
          /\ finishing' \in [Paths -> [Hashes -> Nat]]
          /\ deleted' \subseteq Paths /\ undisturbed' \subseteq Paths
      <3>1. /\ db \in [Paths -> HashOrNone] /\ failed \subseteq Paths
            /\ tasks \subseteq Hashes \X Paths
            /\ finishing \in [Paths -> [Hashes -> Nat]]
            /\ deleted \subseteq Paths /\ undisturbed \subseteq Paths
            /\ NoHash \in HashOrNone /\ Hashes \subseteq HashOrNone
        BY DEF TypeInv, TypeOK, HashOrNone
      <3>2. CASE UNCHANGED <<db, failed, pluginVars, boundVars>>
        BY <3>1, <3>2 DEF pluginVars, boundVars
      <3>3. ASSUME NEW p \in Paths, NEW h \in Hashes,
                   FileAdded(p, h) \/ FileChanged(p, h)
            PROVE  /\ db' = db /\ failed' = failed /\ UNCHANGED pluginVars
                   /\ deleted' = deleted /\ undisturbed' \subseteq Paths
        BY <3>1, <3>3 DEF FileAdded, FileChanged, Enter, NoteEvent
      <3>4. ASSUME NEW old \in Paths, NEW p \in Paths, NEW h \in Hashes,
                   FileRenamed(old, p, h)
            PROVE  /\ db' \in [Paths -> HashOrNone] /\ failed' = failed
                   /\ UNCHANGED pluginVars
                   /\ deleted' \subseteq Paths /\ undisturbed' \subseteq Paths
        BY <3>1, <3>4 DEF FileRenamed, Forget, Enter
      <3>5. CASE \E p \in Paths : FileDeleted(p)
        BY <3>1, <3>5 DEF FileDeleted, Forget, pluginVars
      <3>6. CASE Reset
        BY <3>1, <3>6 DEF Reset
      <3>7. ASSUME NEW j \in Ids, JobStep(j)
            PROVE  /\ db' \in [Paths -> HashOrNone] /\ failed' \subseteq Paths
                   /\ tasks' \subseteq Hashes \X Paths
                   /\ finishing' \in [Paths -> [Hashes -> Nat]]
                   /\ deleted' \subseteq Paths /\ undisturbed' \subseteq Paths
        <4>1. /\ JobPath(j) \in Paths /\ jobs[j].hash \in Hashes
              /\ jobs[j].seen \in HashOrNone
          BY <2>2
        <4>2. CASE Validate(j) \/ StartLight(j) \/ EndHash(j)
          BY <3>1, <4>2 DEF Validate, StartLight, EndHash, pluginVars, boundVars
        <4>3. CASE EndLight(j)
          BY <3>1, <4>1, <4>3 DEF EndLight, DispatchPlugins
        <4>4. CASE FailLight(j) \/ StartHash(j)
          BY <3>1, <4>1, <4>4 DEF FailLight, StartHash, pluginVars, boundVars
        <4>5. CASE HashRead(j)
          BY <3>1, <4>1, <4>5 DEF HashRead, pluginVars, boundVars
        <4>6. QED
          BY <3>7, <4>2, <4>3, <4>4, <4>5 DEF JobStep
      <3>8. CASE \E h \in Hashes : FileComplete(h)
        BY <3>1, <3>8 DEF FileComplete, boundVars
      <3>9. ASSUME NEW h \in Hashes, NEW p \in Paths, Finish(p, h)
            PROVE  /\ db' \in [Paths -> HashOrNone] /\ failed' = failed
                   /\ tasks' = tasks /\ finishing' \in [Paths -> [Hashes -> Nat]]
                   /\ UNCHANGED boundVars
        BY <3>1, <3>9 DEF Finish
      <3>10. CASE \E p \in Paths : RetryFailed(p)
        BY <3>2, <3>10 DEF RetryFailed
      <3>11. CASE UNCHANGED vars
        BY <3>2, <3>11 DEF vars
      <3>12. QED
        BY <3>1, <3>3, <3>4, <3>5, <3>6, <3>7, <3>8, <3>9, <3>10, <3>11
        DEF Next, Event, pluginVars, boundVars
    <2>6. QED
      BY <2>1, <2>3, <2>4, <2>5 DEF TypeInv, TypeOK
  <1>3. QED
    BY <1>1, <1>2


-----------------------------------------------------------------------------
(* The inductive invariants. *)

EarlyStages == {"validationQ", "fastQ", "light"}
LateStages == {"backgroundQ", "hashing", "storing"}

\* The plugins of p are dispatched, or their file:complete is being handled.
Dispatched(p) == \E h \in Hashes : <<h, p>> \in tasks \/ finishing[p][h] > 0

\* One announcement at most is due or being handled for p.
OneClaim(p) ==
    \A h, k \in Hashes :
        /\ <<h, p>> \in tasks /\ <<k, p>> \in tasks => h = k
        /\ <<h, p>> \in tasks => finishing[p][k] = 0
        /\ finishing[p][h] > 0 => finishing[p][h] = 1
        /\ finishing[p][h] > 0 /\ finishing[p][k] > 0 => h = k

\* One job of p at most is on its way.
OneJob(p) ==
    \A i, j \in Ids :
        (JobPath(i) = p /\ JobPath(j) = p /\ jobs[i].at # "over" /\ jobs[j].at # "over")
            => i = j

\* Of a path whose last event found nothing in flight:  until the light phase ends the
\* path is of this generation and nothing is dispatched; then the entry in
\* fileGenerations and the hash in the state manager are there for file:complete.
StageSound(p) ==
    /\ \A j \in Ids : (JobPath(j) = p /\ jobs[j].at \in EarlyStages)
                          => Current(p) /\ ~Dispatched(p)
    /\ \A j \in Ids : (JobPath(j) = p /\ jobs[j].at \in LateStages)
                          => (connected /\ Current(p) => \E h \in Hashes : <<h, p>> \in tasks)
    /\ \A h \in Hashes : <<h, p>> \in tasks /\ Current(p) => hashing[p] = h

\* In the hash stage it is claimed.
Claimed(p) ==
    hashing[p] # NoHash => \/ Current(p) /\ InFlight(p)
                           \/ \E h \in Hashes : finishing[p][h] > 0

\* Once it is done no plugin task and no handler is left; a job is left only in its
\* hash phase, when the plugins were faster, or at its very start.
DoneSound(p) ==
    \A d \in done : (d.path = p /\ ~d.error) =>
        /\ ~Dispatched(p)
        /\ \A j \in Ids : JobPath(j) = p =>
               \/ jobs[j].at \in {"validationQ", "over"}
               \/ connected /\ jobs[j].at \in LateStages

PathInv(p) == OneJob(p) /\ OneClaim(p) /\ StageSound(p) /\ Claimed(p) /\ DoneSound(p)

\* Without plugins nothing is dispatched.
NoPlugins == ~connected => tasks = {} /\ \A p \in Paths, h \in Hashes : finishing[p][h] = 0

UndisturbedInv == NoPlugins /\ \A p \in undisturbed : PathInv(p)

\* The file of a job cannot be completed (again): no way leads there.
Closed(j) ==
    LET p == JobPath(j)
    IN  /\ jobs[j].at \notin EarlyStages
        /\ \A h \in Hashes : finishing[p][h] = 0
        /\ Current(p) => jobs[j].at = "over" /\ \A h \in Hashes : <<h, p>> \notin tasks

OneEventEach == \A i, j \in Ids : JobPath(i) = JobPath(j) => i = j

\* When each path had one event: what is dispatched or handled belongs to a job past its
\* light phase, one handler has taken the entry in fileGenerations, and the count is
\* that of the closed files at most.
OnceInv ==
    OneEventEach =>
        /\ \A p \in Paths : Dispatched(p) =>
               \E j \in Ids : JobPath(j) = p /\ jobs[j].at \notin EarlyStages
        /\ \A p \in Paths, h \in Hashes : finishing[p][h] > 0 =>
               /\ ~Current(p) /\ finishing[p][h] = 1
               /\ \A k \in Hashes : finishing[p][k] > 0 => k = h
        /\ total <= Cardinality({j \in Ids : Closed(j)})

\* Jobs are of no later generation; those in the validation queue are of this one, and
\* so is the event that lets a path through.
GenerationSound ==
    /\ \A j \in Ids : jobs[j].gen <= generation
    /\ \A j \in Ids : jobs[j].at = "validationQ" => jobs[j].gen = generation
    /\ \A p \in Paths : Current(p) => \E j \in ThisGeneration : JobPath(j) = p

\* A job is counted once it has left the validation queue, and as validated while its
\* light phase is ahead.
CountInv ==
    /\ counts.validated + counts.filtered
           <= Cardinality({j \in ThisGeneration : jobs[j].at # "validationQ"})
    /\ (\A p \in Paths : ~ReAdded(p)) =>
           counts.fast + Cardinality({j \in ThisGeneration : jobs[j].at \in {"fastQ", "light"}})
               <= counts.validated


-----------------------------------------------------------------------------
(* The light stage. *)

\* The types of what a job names.
LEMMA JobTypes ==
    ASSUME TypeInv, NEW j \in Ids
    PROVE  /\ JobPath(j) \in Paths /\ jobs[j].hash \in Hashes /\ jobs[j].at \in Stages
           /\ jobs[j].gen \in 0..MaxResets /\ j \in Nat
  <1>1. jobs \in Seq(Job) /\ Ids = 1..Len(jobs) /\ Len(jobs) \in Nat
    BY LenProperties DEF TypeInv, TypeOK, Ids
  <1>2. jobs[j] \in Job
    BY <1>1, ElementOfSeq
  <1>3. QED
    BY <1>1, <1>2 DEF Job, JobPath

\* A path comes to the light stage with its job and leaves it with it.
LEMMA LightOwnedStep ==
    ASSUME TypeInv, LightOwned, [Next]_vars
    PROVE  LightOwned'
  <1>1. ASSUME light' \subseteq light, NEW p \in Paths, NEW n \in Nat, Began(p, n)
        PROVE  LightOwned'
    BY <1>1 DEF LightOwned, Began, JobPath, Ids
  <1>2. ASSUME NEW p \in Paths, NEW h \in Hashes, Enter(p, h)
        PROVE  \E n \in Nat : Began(p, n)
    BY <1>2, EnterBegins DEF TypeInv, TypeOK
  <1>3. CASE \E p \in Paths, h \in Hashes : FileAdded(p, h)
    BY <1>1, <1>2, <1>3 DEF FileAdded
  <1>4. CASE \E p \in Paths, h \in Hashes : FileChanged(p, h)
    BY <1>1, <1>2, <1>4 DEF FileChanged, RemoveFile
  <1>5. CASE \E old, p \in Paths, h \in Hashes : FileRenamed(old, p, h)
    BY <1>1, <1>2, <1>5 DEF FileRenamed, Forget, RemoveFile
  <1>6. CASE jobs' = jobs /\ light' \subseteq light
    BY <1>6 DEF LightOwned, JobPath, Ids
  <1>7. CASE Reset
    BY <1>7 DEF Reset, LightOwned
  <1>8. ASSUME NEW j \in Ids, JobStep(j)
        PROVE  LightOwned'
    <2>1. ASSUME NEW s, Moved(j, s), light' \subseteq light,
                 jobs[j].at # "light" \/ JobPath(j) \notin light'
          PROVE  LightOwned'
      BY <2>1 DEF LightOwned, Moved, JobPath, Ids
    <2>2. CASE Validate(j)
      BY <2>1, <2>2, StepMoves DEF Validate, RemoveFile
    <2>3. CASE StartLight(j)
      <3>1. CASE Current(JobPath(j))
        <4>1. light' = light \cup {JobPath(j)}
          BY <2>3, <3>1 DEF StartLight, StartLightProcessing
        <4>2. Moved(j, "light")
          BY <2>3, <3>1, StepMoves
        <4>3. QED
          BY <4>1, <4>2, StepMoves, <2>3 DEF LightOwned, Moved, JobPath, Ids
      <3>2. CASE ~Current(JobPath(j))
        <4>1. light' = light
          BY <2>3, <3>2 DEF StartLight, stateVars
        <4>2. QED
          BY <2>1, <2>3, <4>1, StepMoves
      <3>3. QED
        BY <3>1, <3>2
    <2>4. CASE EndLight(j)
      <3>1. light' = light \ {JobPath(j)}
        BY <2>4 DEF EndLight, CompleteLightProcessing
      <3>2. QED
        BY <2>1, <2>4, <3>1, StepMoves
    <2>5. CASE FailLight(j)
      <3>1. light' = light \ {JobPath(j)}
        BY <2>5 DEF FailLight, RemoveFile
      <3>2. QED
        BY <2>1, <2>5, <3>1, StepMoves
    <2>6. CASE StartHash(j) \/ HashRead(j) \/ EndHash(j)
      <3>1. light' = light
        BY <2>6 DEF StartHash, HashRead, EndHash, HashPhaseOver, CompleteNow,
                    CompleteHashProcessing, stateVars
      <3>2. jobs[j].at # "light" /\ \E s : Moved(j, s)
        BY <2>6, StepMoves
      <3>3. QED
        BY <2>1, <3>1, <3>2
    <2>7. QED
      BY <1>8, <2>2, <2>3, <2>4, <2>5, <2>6 DEF JobStep
  <1>9. CASE \/ \E p \in Paths : FileDeleted(p) \/ RetryFailed(p)
             \/ \E h \in Hashes : FileComplete(h) \/ \E p \in Paths : Finish(p, h)
             \/ UNCHANGED vars
    <2>1. jobs' = jobs /\ light' \subseteq light
      BY <1>9 DEF FileDeleted, Forget, RemoveFile, RetryFailed, FileComplete, Finish,
                  CompleteHashProcessing, stateVars, vars
    <2>2. QED
      BY <1>6, <2>1
  <1>10. QED
    BY <1>3, <1>4, <1>5, <1>7, <1>8, <1>9 DEF Next, Event

-----------------------------------------------------------------------------
(* One path whose last event found nothing of it in flight. *)

JobsUntouched(p) ==
    /\ Ids \subseteq DOMAIN jobs'
    /\ \A j \in DOMAIN jobs' : jobs'[j].path = p => j \in Ids
    /\ \A j \in Ids : /\ jobs'[j].path = jobs[j].path
                      /\ jobs[j].path = p => jobs'[j].at = jobs[j].at

\* The step is none of p's.
Untouched(p) ==
    /\ JobsUntouched(p)
    /\ UNCHANGED <<generation, connected>>
    /\ gens'[p] = gens[p] /\ hashing'[p] = hashing[p] /\ finishing'[p] = finishing[p]
    /\ \A h \in Hashes : <<h, p>> \in tasks' <=> <<h, p>> \in tasks
    /\ \A d \in done' : d.path = p => d \in done

\* A step on one path leaves the jobs of the others alone.
LEMMA OthersUntouched ==
    ASSUME NEW p \in Paths
    PROVE  /\ jobs' = jobs => JobsUntouched(p)
           /\ \A j, s : Moved(j, s) /\ JobPath(j) # p => JobsUntouched(p)
           /\ \A q, n : Began(q, n) /\ q # p => JobsUntouched(p)
  BY DEF JobsUntouched, Moved, Began, JobPath, Ids

\* A step that leaves the jobs and the tables of a path alone keeps what is known of it.
LEMMA UntouchedKeeps ==
    ASSUME NEW p \in Paths, PathInv(p), Untouched(p)
    PROVE  PathInv(p)'
  <1> USE DEF Untouched, JobsUntouched, PathInv, JobPath, Ids, Current
  <1>1. OneJob(p)' /\ OneClaim(p)'
    BY DEF OneJob, OneClaim
  <1>2. Dispatched(p)' <=> Dispatched(p)
    BY DEF Dispatched
  <1>3. StageSound(p)'
    BY <1>2 DEF StageSound
  <1>4. InFlight(p) => InFlight(p)'
    BY DEF InFlight
  <1>5. Claimed(p)'
    BY <1>4 DEF Claimed
  <1>6. DoneSound(p)'
    BY <1>2 DEF DoneSound
  <1>7. QED
    BY <1>1, <1>3, <1>5, <1>6

\* An event that finds nothing of its path in flight starts it afresh.
LEMMA EventStartsAfresh ==
    ASSUME NEW p \in Paths, NEW n \in Nat, ~InFlight(p), Began(p, n),
           finishing \in [Paths -> [Hashes -> Nat]],
           gens'[p] = generation, UNCHANGED <<generation, connected, tasks, finishing>>
    PROVE  PathInv(p)'
  <1> USE DEF PathInv, JobPath, Ids, Current, Began
  <1>1. /\ \A j \in DOMAIN jobs' : jobs'[j].path = p => jobs'[j].at = "over" \/ j = n
        /\ ~Dispatched(p)' /\ \A h \in Hashes : <<h, p>> \notin tasks'
        /\ \A h \in Hashes : finishing'[p][h] = 0
    <2>1. \A j \in DOMAIN jobs' : jobs'[j].path = p => jobs'[j].at = "over" \/ j = n
      BY DEF InFlight
    <2>2. \A h \in Hashes : <<h, p>> \notin tasks /\ ~(finishing[p][h] > 0)
      BY DEF InFlight
    <2>3. ASSUME NEW h \in Hashes
          PROVE  finishing[p][h] = 0
      <3>1. finishing[p][h] \in Nat /\ ~(finishing[p][h] > 0)
        BY <2>2
      <3>2. \A x \in Nat : ~(x > 0) => x = 0
        OBVIOUS
      <3>3. QED
        BY <3>1, <3>2, Zenon
    <2>4. tasks' = tasks /\ finishing' = finishing
      OBVIOUS
    <2>5. QED
      BY <2>1, <2>2, <2>3, <2>4 DEF Dispatched
  <1>2. OneJob(p)' /\ OneClaim(p)'
    BY <1>1 DEF OneJob, OneClaim
  <1>3. StageSound(p)'
    BY <1>1 DEF StageSound, LateStages
  <1>4. InFlight(p)'
    BY DEF InFlight
  <1>5. Claimed(p)'
    BY <1>4 DEF Claimed
  <1>6. DoneSound(p)'
    BY <1>1 DEF DoneSound
  <1>7. QED
    BY <1>2, <1>3, <1>5, <1>6


\* While its one job moves on, nothing of the path is counted twice.
LEMMA OneJobMoves ==
    ASSUME NEW p \in Paths, NEW j \in Ids, JobPath(j) = p, NEW s,
           OneJob(p), Moved(j, s), jobs[j].at # "over"
    PROVE  /\ OneJob(p)'
           /\ jobs'[j].path = p /\ jobs'[j].at = s
           /\ \A i \in Ids : i # j /\ JobPath(i) = p
                  => jobs[i].at = "over" /\ jobs'[i].at = "over" /\ jobs'[i].path = p
           /\ \A i \in DOMAIN jobs' : i # j /\ jobs'[i].path = p
                  => i \in Ids /\ jobs'[i].at = "over" /\ jobs[i].at = "over"
                               /\ jobs[i].path = p
  BY DEF OneJob, Moved, JobPath, Ids

\* What is dispatched does not change in a step that leaves tasks and handlers alone.
LEMMA ClaimsSame ==
    ASSUME NEW p \in Paths, UNCHANGED <<tasks, finishing>>
    PROVE  (Dispatched(p)' <=> Dispatched(p)) /\ (OneClaim(p)' <=> OneClaim(p))
  BY DEF Dispatched, OneClaim

\* Validation: the file is filtered out, or waits for the light phase.
LEMMA ValidateKeeps ==
    ASSUME TypeInv, NEW p \in Paths, PathInv(p), NEW j \in Ids, JobPath(j) = p,
           Validate(j)
    PROVE  PathInv(p)'
  <1>1. PICK s \in {"over", "fastQ"} : jobs[j].at = "validationQ" /\ Moved(j, s)
    BY StepMoves
  <1>2. OneJob(p)' /\ jobs'[j].path = p /\ jobs'[j].at = s
        /\ \A i \in DOMAIN jobs' : i # j /\ jobs'[i].path = p
               => i \in Ids /\ jobs'[i].at = "over" /\ jobs[i].at = "over"
    BY <1>1, OneJobMoves DEF PathInv
  <1>3. /\ UNCHANGED <<tasks, finishing, gens, generation, connected>>
        /\ hashing' = [hashing EXCEPT ![p] = NoHash]
        /\ done' = {d \in done : d.path # p}
    BY DEF Validate, RemoveFile, pluginVars, resetVars
  <1>4. hashing'[p] = NoHash
    BY <1>3 DEF TypeInv, TypeOK
  <1>5. Current(p) /\ ~Dispatched(p)
    BY <1>1 DEF PathInv, StageSound, EarlyStages
  <1>6. OneClaim(p)' /\ ~Dispatched(p)' /\ gens'[p] = generation' /\ jobs'[j].path = p
    BY <1>2, <1>3, <1>5, ClaimsSame DEF PathInv, Current
  <1>7. StageSound(p)'
    BY <1>1, <1>2, <1>6 DEF StageSound, Dispatched, JobPath, Ids, Current, EarlyStages, LateStages
  <1>8. Claimed(p)' /\ DoneSound(p)'
    BY <1>3, <1>4 DEF Claimed, DoneSound
  <1>9. QED
    BY <1>2, <1>6, <1>7, <1>8 DEF PathInv

\* The light phase begins, ...
LEMMA StartLightKeeps ==
    ASSUME TypeInv, NEW p \in Paths, PathInv(p), NEW j \in Ids, JobPath(j) = p,
           StartLight(j)
    PROVE  PathInv(p)'
  <1>1. jobs[j].at = "fastQ"
    BY StepMoves
  <1>2. Current(p) /\ ~Dispatched(p)
    BY <1>1 DEF PathInv, StageSound, EarlyStages
  <1>3. Moved(j, "light")
    BY <1>2, StepMoves
  <1>4. OneJob(p)' /\ jobs'[j].path = p /\ jobs'[j].at = "light"
        /\ \A i \in DOMAIN jobs' : i # j /\ jobs'[i].path = p
               => i \in Ids /\ jobs'[i].at = "over" /\ jobs[i].at = "over"
    BY <1>1, <1>3, OneJobMoves DEF PathInv
  <1>5. UNCHANGED <<tasks, finishing, gens, generation, connected, hashing, done>>
    BY <1>2 DEF StartLight, StartLightProcessing, pluginVars, resetVars
  <1>6. OneClaim(p)' /\ ~Dispatched(p)' /\ gens'[p] = generation'
    BY <1>2, <1>5, ClaimsSame DEF PathInv, Current
  <1>7. \A d \in done : d.path = p => d.error
    BY <1>1 DEF PathInv, DoneSound, LateStages
  <1>8. j \in DOMAIN jobs' /\ jobs'[j].at # "over"
    BY <1>3, <1>4 DEF Moved
  <1>9. StageSound(p)'
    BY <1>4, <1>6 DEF StageSound, Dispatched, JobPath, Ids, Current, EarlyStages, LateStages
  <1>10. Claimed(p)' /\ DoneSound(p)'
    BY <1>4, <1>5, <1>6, <1>7, <1>8 DEF Claimed, DoneSound, InFlight, JobPath, Ids, Current
  <1>11. QED
    BY <1>4, <1>6, <1>9, <1>10 DEF PathInv

\* The end of the light phase dispatches the plugins of a path that has none.
LEMMA EndLightKeeps ==
    ASSUME TypeInv, NoPlugins, NEW p \in Paths, PathInv(p), NEW j \in Ids, JobPath(j) = p,
           EndLight(j), p \in undisturbed'
    PROVE  PathInv(p)'
  <1> PICK h \in Hashes : h = jobs[j].hash
    BY JobTypes
  <1>1. jobs[j].at = "light" /\ Moved(j, "backgroundQ")
    BY StepMoves
  <1>2. Current(p) /\ ~Dispatched(p)
    BY <1>1 DEF PathInv, StageSound, EarlyStages
  <1>3. OneJob(p)' /\ jobs'[j].path = p /\ jobs'[j].at = "backgroundQ"
        /\ \A i \in DOMAIN jobs' : i # j /\ jobs'[i].path = p
               => i \in Ids /\ jobs'[i].at = "over" /\ jobs[i].at = "over"
    BY <1>1, OneJobMoves DEF PathInv
  <1>4. /\ UNCHANGED <<finishing, gens, generation, connected, done>>
        /\ hashing' = [hashing EXCEPT ![p] = h]
        /\ IF connected THEN tasks' = tasks \cup {<<h, p>>} ELSE tasks' = tasks
    BY DEF EndLight, CompleteLightProcessing, DispatchPlugins, resetVars
  <1>5. hashing'[p] = h /\ gens'[p] = generation'
    BY <1>2, <1>4 DEF TypeInv, TypeOK, Current
  <1>6. \A k \in Hashes : <<k, p>> \notin tasks /\ ~(finishing[p][k] > 0)
    BY <1>2 DEF Dispatched
  <1>7. \A k \in Hashes : finishing[p][k] = 0
    <2>1. ASSUME NEW k \in Hashes
          PROVE  finishing[p][k] = 0
      <3>1. finishing[p][k] \in Nat /\ ~(finishing[p][k] > 0)
        BY <1>6 DEF TypeInv, TypeOK
      <3>2. \A x \in Nat : ~(x > 0) => x = 0
        OBVIOUS
      <3>3. QED
        BY <3>1, <3>2, Zenon
    <2>2. QED
      BY <2>1
  <1>8. \A d \in done : d.path = p => d.error
    BY <1>1 DEF PathInv, DoneSound, LateStages
  <1>9. \A k \in Hashes : <<k, p>> \in tasks' <=> (connected /\ k = h)
    BY <1>4, <1>6
  <1>10. j \in DOMAIN jobs' /\ jobs'[j].at # "over"
    BY <1>1, <1>3 DEF Moved
  <1>11. OneClaim(p)'
    BY <1>4, <1>7, <1>9 DEF OneClaim
  <1>12. StageSound(p)'
    BY <1>3, <1>4, <1>5, <1>9 DEF StageSound, JobPath, Ids, Current, EarlyStages, LateStages
  <1>13. Claimed(p)' /\ DoneSound(p)'
    BY <1>3, <1>4, <1>5, <1>8, <1>10 DEF Claimed, DoneSound, InFlight, JobPath, Ids, Current
  <1>14. QED
    BY <1>3, <1>11, <1>12, <1>13 DEF PathInv

\* The light phase fails: the path is in error, and nothing of it is dispatched.
LEMMA FailLightKeeps ==
    ASSUME TypeInv, NEW p \in Paths, PathInv(p), NEW j \in Ids, JobPath(j) = p,
           FailLight(j)
    PROVE  PathInv(p)'
  <1>1. jobs[j].at = "light" /\ Moved(j, "over")
    BY StepMoves
  <1>2. Current(p) /\ ~Dispatched(p)
    BY <1>1 DEF PathInv, StageSound, EarlyStages
  <1>3. OneJob(p)' /\ jobs'[j].path = p /\ jobs'[j].at = "over"
        /\ \A i \in DOMAIN jobs' : i # j /\ jobs'[i].path = p
               => i \in Ids /\ jobs'[i].at = "over" /\ jobs[i].at = "over"
    BY <1>1, OneJobMoves DEF PathInv
  <1>4. /\ UNCHANGED <<tasks, finishing, gens, generation, connected>>
        /\ hashing' = [hashing EXCEPT ![p] = NoHash]
        /\ done' = {d \in done : d.path # p}
    BY <1>2 DEF FailLight, RemoveFile, pluginVars, resetVars
  <1>5. hashing'[p] = NoHash
    BY <1>4 DEF TypeInv, TypeOK
  <1>6. OneClaim(p)' /\ ~Dispatched(p)'
    BY <1>2, <1>4, ClaimsSame DEF PathInv
  <1>7. StageSound(p)'
    BY <1>3, <1>6 DEF StageSound, Dispatched, JobPath, Ids, EarlyStages, LateStages
  <1>8. Claimed(p)' /\ DoneSound(p)'
    BY <1>4, <1>5 DEF Claimed, DoneSound
  <1>9. QED
    BY <1>3, <1>6, <1>7, <1>8 DEF PathInv


\* The hash phase begins, or finds that the file is gone or of another generation.
LEMMA StartHashKeeps ==
    ASSUME TypeInv, NEW p \in Paths, PathInv(p), NEW j \in Ids, JobPath(j) = p,
           StartHash(j)
    PROVE  PathInv(p)'
  <1>1. PICK s \in {"over", "hashing"} :
            /\ jobs[j].at = "backgroundQ" /\ Moved(j, s)
            /\ s = "over" => ~Current(p) \/ db[p] = NoHash
            /\ s = "hashing" => Current(p) /\ db[p] # NoHash
    BY StepMoves
  <1>2. OneJob(p)' /\ jobs'[j].path = p /\ jobs'[j].at = s
        /\ \A i \in DOMAIN jobs' : i # j /\ jobs'[i].path = p
               => i \in Ids /\ jobs'[i].at = "over" /\ jobs[i].at = "over"
    BY <1>1, OneJobMoves DEF PathInv
  <1>3. UNCHANGED <<tasks, finishing, generation, connected>>
    BY DEF StartHash, pluginVars
  <1>4. OneClaim(p)' /\ (Dispatched(p)' <=> Dispatched(p))
    BY <1>3, ClaimsSame DEF PathInv
  <1>5. \A d \in done : d.path = p /\ ~d.error => connected /\ ~Dispatched(p)
    BY <1>1 DEF PathInv, DoneSound
  <1>6. CASE Current(p) /\ db[p] = NoHash
    <2>1. /\ gens' = [gens EXCEPT ![p] = NoEntry]
          /\ hashing' = [hashing EXCEPT ![p] = NoHash]
          /\ done' = done \cup {DoneEntry(p, NoHash, TRUE)}
      BY <1>6 DEF StartHash, CompleteHashProcessing
    <2>2. hashing'[p] = NoHash /\ gens'[p] # generation'
      BY <1>3, <2>1, PipelineAssumption DEF TypeInv, TypeOK, NoEntry, PipelineAssumption
    <2>3. s = "over"
      BY <1>1, <1>6
    <2>4. StageSound(p)'
      BY <1>2, <2>2, <2>3 DEF StageSound, JobPath, Ids, Current, EarlyStages, LateStages
    <2>5. Claimed(p)'
      BY <2>2 DEF Claimed
    <2>6. \A d \in done' : d.path = p /\ ~d.error => d \in done
      BY <2>1 DEF DoneEntry
    <2>7. DoneSound(p)'
      BY <1>2, <1>4, <1>5, <2>3, <2>6 DEF DoneSound, JobPath, Ids
    <2>8. QED
      BY <1>2, <1>4, <2>4, <2>5, <2>7 DEF PathInv
  <1>7. CASE ~(Current(p) /\ db[p] = NoHash)
    <2>1. UNCHANGED <<gens, hashing, done>>
      BY <1>7 DEF StartHash, stateVars
    <2>2. StageSound(p)'
      BY <1>1, <1>2, <1>3, <1>4, <2>1
      DEF PathInv, StageSound, JobPath, Ids, Current, EarlyStages, LateStages
    <2>3. InFlight(p)' \/ ~Current(p)
      BY <1>1, <1>2, <1>7 DEF InFlight, Moved, JobPath, Ids
    <2>4. Claimed(p)'
      BY <1>3, <2>1, <2>3 DEF PathInv, Claimed, Current
    <2>5. DoneSound(p)'
      BY <1>1, <1>2, <1>3, <1>4, <1>5, <2>1 DEF DoneSound, JobPath, Ids, LateStages
    <2>6. QED
      BY <1>2, <1>4, <2>2, <2>4, <2>5 DEF PathInv
  <1>8. QED
    BY <1>6, <1>7

\* The hash phase has read the record.
LEMMA HashReadKeeps ==
    ASSUME TypeInv, NEW p \in Paths, PathInv(p), NEW j \in Ids, JobPath(j) = p,
           HashRead(j)
    PROVE  PathInv(p)'
  <1>1. jobs[j].at = "hashing" /\ Moved(j, "storing")
    BY StepMoves
  <1>2. OneJob(p)' /\ jobs'[j].path = p /\ jobs'[j].at = "storing"
        /\ \A i \in DOMAIN jobs' : i # j /\ jobs'[i].path = p
               => i \in Ids /\ jobs'[i].at = "over" /\ jobs[i].at = "over"
    BY <1>1, OneJobMoves DEF PathInv
  <1>3. UNCHANGED <<tasks, finishing, gens, generation, connected, hashing, done>>
    BY DEF HashRead, pluginVars, resetVars, stateVars
  <1>4. OneClaim(p)' /\ (Dispatched(p)' <=> Dispatched(p))
    BY <1>3, ClaimsSame DEF PathInv
  <1>5. StageSound(p)'
    BY <1>1, <1>2, <1>3, <1>4
    DEF PathInv, StageSound, JobPath, Ids, Current, EarlyStages, LateStages
  <1>6. InFlight(p)'
    BY <1>1, <1>2 DEF InFlight, Moved, JobPath, Ids
  <1>7. Claimed(p)'
    BY <1>3, <1>6 DEF PathInv, Claimed, Current
  <1>8. DoneSound(p)'
    BY <1>1, <1>2, <1>3, <1>4 DEF PathInv, DoneSound, JobPath, Ids, LateStages
  <1>9. QED
    BY <1>2, <1>4, <1>5, <1>7, <1>8 DEF PathInv

\* The end of the hash phase leaves the file to file:complete, or completes it when there
\* are no plugins.
LEMMA EndHashKeeps ==
    ASSUME TypeInv, NoPlugins, NEW p \in Paths, PathInv(p), NEW j \in Ids, JobPath(j) = p,
           EndHash(j)
    PROVE  PathInv(p)'
  <1>1. jobs[j].at = "storing" /\ Moved(j, "over")
    BY StepMoves
  <1>2. OneJob(p)' /\ jobs'[j].path = p /\ jobs'[j].at = "over"
        /\ \A i \in DOMAIN jobs' : i # j /\ jobs'[i].path = p
               => i \in Ids /\ jobs'[i].at = "over" /\ jobs[i].at = "over"
    BY <1>1, OneJobMoves DEF PathInv
  <1>3. UNCHANGED <<tasks, finishing, generation, connected>>
    BY DEF EndHash, pluginVars
  <1>4. OneClaim(p)' /\ (Dispatched(p)' <=> Dispatched(p))
    BY <1>3, ClaimsSame DEF PathInv
  <1>5. \A i \in DOMAIN jobs' : jobs'[i].path = p => jobs'[i].at = "over"
    BY <1>2
  <1>6. CASE Current(p) /\ ~connected
    <2>1. CompleteNow(p)
      BY <1>6 DEF EndHash, HashPhaseOver
    <2>2. hashing'[p] = NoHash /\ gens'[p] # generation'
      BY <1>3, <2>1, PipelineAssumption
      DEF CompleteNow, CompleteHashProcessing, TypeInv, TypeOK, NoEntry, PipelineAssumption
    <2>3. StageSound(p)'
      BY <1>5, <2>2 DEF StageSound, JobPath, Ids, Current, EarlyStages, LateStages
    <2>4. ~Dispatched(p)
      <3>1. tasks = {} /\ \A h \in Hashes : finishing[p][h] = 0
        BY <1>6 DEF NoPlugins
      <3>2. ~(0 > 0)
        OBVIOUS
      <3>3. QED
        BY <3>1, <3>2 DEF Dispatched
    <2>5. Claimed(p)' /\ DoneSound(p)'
      BY <1>4, <1>5, <2>2, <2>4 DEF Claimed, DoneSound, JobPath, Ids
    <2>6. QED
      BY <1>2, <1>4, <2>3, <2>5 DEF PathInv
  <1>7. CASE ~(Current(p) /\ ~connected)
    <2>1. UNCHANGED <<gens, hashing, done>>
      BY <1>7 DEF EndHash, HashPhaseOver, stateVars
    <2>2. StageSound(p)'
      BY <1>3, <1>5, <2>1
      DEF PathInv, StageSound, JobPath, Ids, Current, EarlyStages, LateStages
    <2>3. Current(p) => \E h \in Hashes : <<h, p>> \in tasks
      BY <1>1, <1>7 DEF PathInv, StageSound, LateStages
    <2>4. Claimed(p)'
      BY <1>3, <2>1, <2>3 DEF PathInv, Claimed, Current, InFlight
    <2>5. DoneSound(p)'
      BY <1>4, <1>5, <2>1 DEF PathInv, DoneSound, JobPath, Ids
    <2>6. QED
      BY <1>2, <1>4, <2>2, <2>4, <2>5 DEF PathInv
  <1>8. QED
    BY <1>6, <1>7

\* file:complete takes the entry of each path it accepts, and no other loses its claim.
LEMMA FileCompleteKeeps ==
    ASSUME TypeInv, NEW p \in Paths, PathInv(p), NEW h \in Hashes, FileComplete(h)
    PROVE  PathInv(p)'
  <1>1. /\ UNCHANGED <<jobs, generation, connected, hashing, done>>
        /\ tasks' = {t \in tasks : t[1] # h}
        /\ gens' = [q \in Paths |-> IF q \in Accepted(h) THEN NoEntry ELSE gens[q]]
        /\ finishing' = [q \in Paths |-> IF q \in Accepted(h)
                                         THEN [finishing[q] EXCEPT ![h] = @ + 1]
                                         ELSE finishing[q]]
    BY DEF FileComplete, ConsumeEntries, stateVars
  <1>2. \A k \in Hashes : <<k, p>> \in tasks' <=> <<k, p>> \in tasks /\ k # h
    BY <1>1
  <1>3. OneJob(p)'
    BY <1>1 DEF PathInv, OneJob, JobPath, Ids
  <1>4. CASE p \in Accepted(h)
    <2>1. <<h, p>> \in tasks /\ Current(p) /\ hashing[p] = h
      BY <1>4 DEF Accepted
    <2>2. finishing[p] \in [Hashes -> Nat] /\ \A k \in Hashes : finishing[p][k] = 0
      BY <2>1 DEF PathInv, OneClaim, TypeInv, TypeOK
    <2>3. \A k \in Hashes : finishing'[p][k] = IF k = h THEN 1 ELSE 0
      BY <1>1, <1>4, <2>2
    <2>4. \A k \in Hashes : <<k, p>> \notin tasks'
      BY <1>2, <2>1 DEF PathInv, OneClaim
    <2>5. gens'[p] # generation'
      BY <1>1, <1>4, PipelineAssumption DEF TypeInv, TypeOK, NoEntry, PipelineAssumption
    <2>6. \A j \in Ids : JobPath(j) = p => jobs[j].at \notin EarlyStages
      BY <2>1 DEF PathInv, StageSound, Dispatched
    <2>7. OneClaim(p)'
      BY <2>3, <2>4 DEF OneClaim
    <2>8. StageSound(p)'
      BY <1>1, <2>4, <2>5, <2>6 DEF StageSound, JobPath, Ids, Current
    <2>9. Claimed(p)'
      BY <2>3 DEF Claimed
    <2>10. DoneSound(p)'
      BY <1>1, <2>1 DEF PathInv, DoneSound, Dispatched
    <2>11. QED
      BY <1>3, <2>7, <2>8, <2>9, <2>10 DEF PathInv
  <1>5. CASE p \notin Accepted(h)
    <2>1. gens'[p] = gens[p] /\ finishing'[p] = finishing[p]
      BY <1>1, <1>5
    <2>2. <<h, p>> \in tasks => ~Current(p)
      BY <1>5 DEF Accepted, PathInv, StageSound
    <2>3. Dispatched(p)' => Dispatched(p)
      BY <1>2, <2>1 DEF Dispatched
    <2>4. OneClaim(p)'
      BY <1>2, <2>1 DEF PathInv, OneClaim
    <2>5. StageSound(p)'
      BY <1>1, <1>2, <2>1, <2>2, <2>3 DEF PathInv, StageSound, JobPath, Ids, Current
    <2>6. Claimed(p)'
      BY <1>1, <1>2, <2>1, <2>2 DEF PathInv, Claimed, InFlight, Current, JobPath, Ids
    <2>7. DoneSound(p)'
      BY <1>1, <2>3 DEF PathInv, DoneSound, JobPath, Ids
    <2>8. QED
      BY <1>3, <2>4, <2>5, <2>6, <2>7 DEF PathInv
  <1>6. QED
    BY <1>4, <1>5

\* The handler of file:complete completes the file; nothing else is left to do so.
LEMMA FinishKeeps ==
    ASSUME TypeInv, NoPlugins, NEW p \in Paths, PathInv(p), NEW h \in Hashes, Finish(p, h)
    PROVE  PathInv(p)'
  <1>1. /\ UNCHANGED <<jobs, generation, gens, connected, tasks>>
        /\ finishing[p][h] > 0
        /\ finishing' = [finishing EXCEPT ![p][h] = @ - 1]
        /\ hashing' = [hashing EXCEPT ![p] = NoHash]
    BY DEF Finish, CompleteHashProcessing, resetVars
  <1>2. finishing[p] \in [Hashes -> Nat] /\ hashing'[p] = NoHash
    BY <1>1 DEF TypeInv, TypeOK
  <1>3. connected /\ finishing[p][h] = 1
    <2>1. finishing[p][h] # 0
      BY <1>1
    <2>2. connected
      BY <2>1 DEF NoPlugins
    <2>3. finishing[p][h] = 1
      BY <1>1, Zenon DEF PathInv, OneClaim
    <2>4. QED
      BY <2>2, <2>3
  <1>4. \A k \in Hashes : <<k, p>> \notin tasks /\ (k # h => ~(finishing[p][k] > 0))
    <2>1. ASSUME NEW k \in Hashes
          PROVE  <<k, p>> \notin tasks
      <3>1. <<k, p>> \in tasks => finishing[p][h] = 0
        BY DEF PathInv, OneClaim
      <3>2. QED
        BY <1>3, <3>1
    <2>2. ASSUME NEW k \in Hashes, finishing[p][k] > 0
          PROVE  k = h
      BY <1>1, <2>2, Zenon DEF PathInv, OneClaim
    <2>3. QED
      BY <2>1, <2>2
  <1>5. \A k \in Hashes : finishing'[p][k] = 0
    <2>1. ASSUME NEW k \in Hashes, k # h
          PROVE  finishing[p][k] = 0
      <3>1. finishing[p][k] \in Nat /\ ~(finishing[p][k] > 0)
        BY <1>2, <1>4, <2>1
      <3>2. \A x \in Nat : ~(x > 0) => x = 0
        OBVIOUS
      <3>3. QED
        BY <3>1, <3>2, Zenon
    <2>2. finishing'[p] = [finishing[p] EXCEPT ![h] = @ - 1]
      BY <1>1 DEF TypeInv, TypeOK
    <2>3. finishing'[p][h] = 1 - 1
      BY <1>2, <1>3, <2>2
    <2>4. QED
      BY <1>2, <2>1, <2>2, <2>3
  <1>6. ~Dispatched(p)'
    <2>1. ~(0 > 0)
      OBVIOUS
    <2>2. QED
      BY <1>1, <1>4, <1>5, <2>1 DEF Dispatched
  <1>7. \A j \in Ids : JobPath(j) = p => jobs[j].at \in LateStages \cup {"over"}
    BY <1>1, JobTypes DEF PathInv, StageSound, Dispatched, Stages, EarlyStages, LateStages
  <1>8. OneJob(p)' /\ OneClaim(p)'
    BY <1>1, <1>4, <1>5 DEF PathInv, OneJob, OneClaim, JobPath, Ids
  <1>9. StageSound(p)'
    BY <1>1, <1>4, <1>7 DEF PathInv, StageSound, JobPath, Ids, Current, EarlyStages, LateStages
  <1>10. Claimed(p)' /\ DoneSound(p)'
    BY <1>1, <1>2, <1>3, <1>6, <1>7 DEF Claimed, DoneSound, JobPath, Ids
  <1>11. QED
    BY <1>8, <1>9, <1>10 DEF PathInv


\* Without a scheduler there is nothing to dispatch, to announce or to handle.
LEMMA NoPluginsStep ==
    ASSUME TypeInv, NoPlugins, [Next]_vars
    PROVE  NoPlugins'
  <1>1. connected' = connected
    BY DEF Next, Event, FileAdded, FileChanged, FileRenamed, Enter, FileDeleted, Reset,
           JobStep, Validate, StartLight, EndLight, FailLight, StartHash, HashRead, EndHash,
           FileComplete, Finish, RetryFailed, pluginVars, vars
  <1>2. SUFFICES ASSUME ~connected
                 PROVE  tasks' = {} /\ \A p \in Paths, h \in Hashes : finishing'[p][h] = 0
    BY <1>1 DEF NoPlugins
  <1>3. tasks = {} /\ \A p \in Paths, h \in Hashes : finishing[p][h] = 0
    BY <1>2 DEF NoPlugins
  <1>4. (\A h \in Hashes : ~FileComplete(h)) /\ ~\E p \in Paths, h \in Hashes : Finish(p, h)
    <2>1. ~(0 > 0)
      OBVIOUS
    <2>2. QED
      BY <1>3, <2>1 DEF FileComplete, Finish
  <1>5. tasks' \subseteq tasks /\ finishing' = finishing
    BY <1>2, <1>4
    DEF Next, Event, FileAdded, FileChanged, FileRenamed, Enter, FileDeleted, Reset,
        JobStep, Validate, StartLight, EndLight, DispatchPlugins, FailLight, StartHash,
        HashRead, EndHash, RetryFailed, pluginVars, vars
  <1>6. QED
    BY <1>3, <1>5

\* An event leaves the other paths alone, and starts its own afresh if it may.
LEMMA EventKeeps ==
    ASSUME TypeInv, NEW p \in Paths, p \in undisturbed', p \in undisturbed => PathInv(p),
           NEW q \in Paths, NEW h \in Hashes,
           FileAdded(q, h) \/ FileChanged(q, h) \/ \E old \in Paths : FileRenamed(old, q, h)
    PROVE  PathInv(p)'
  <1>1. Enter(q, h)
    BY DEF FileAdded, FileChanged, FileRenamed
  <1>2. PICK n \in Nat : Began(q, n)
    BY <1>1, EnterBegins DEF TypeInv, TypeOK
  <1>3. /\ UNCHANGED <<tasks, finishing, generation, connected>>
        /\ gens' = [gens EXCEPT ![q] = generation]
    BY <1>1 DEF Enter, MarkGeneration, pluginVars
  <1>4. gens \in [Paths -> 0..NoEntry] /\ finishing \in [Paths -> [Hashes -> Nat]]
        /\ hashing \in [Paths -> HashOrNone]
    BY DEF TypeInv, TypeOK
  <1>5. CASE p = q
    <2>1. ~InFlight(q)
      <3>1. CASE FileAdded(q, h) \/ FileChanged(q, h)
        BY <1>5, <3>1 DEF FileAdded, FileChanged, NoteEvent
      <3>2. CASE \E old \in Paths : FileRenamed(old, q, h)
        BY <1>5, <3>2 DEF FileRenamed
      <3>3. QED
        BY <3>1, <3>2
    <2>2. gens'[p] = generation
      BY <1>3, <1>4, <1>5
    <2>3. QED
      BY <1>2, <1>3, <1>4, <1>5, <2>1, <2>2, EventStartsAfresh
  <1>6. CASE p # q
    <2>1. p \in undisturbed
      <3>1. CASE FileAdded(q, h) \/ FileChanged(q, h)
        BY <1>6, <3>1 DEF FileAdded, FileChanged, NoteEvent
      <3>2. CASE \E old \in Paths : FileRenamed(old, q, h)
        BY <1>6, <3>2 DEF FileRenamed
      <3>3. QED
        BY <3>1, <3>2
    <2>2. JobsUntouched(p) /\ gens'[p] = gens[p]
      BY <1>2, <1>3, <1>4, <1>6, OthersUntouched
    <2>3. hashing'[p] = hashing[p] /\ \A d \in done' : d.path = p => d \in done
      <3>1. CASE FileAdded(q, h)
        BY <3>1 DEF FileAdded
      <3>2. CASE FileChanged(q, h)
        BY <1>4, <1>6, <3>2 DEF FileChanged, RemoveFile
      <3>3. ASSUME NEW old \in Paths, FileRenamed(old, q, h)
            PROVE  hashing'[p] = hashing[p] /\ \A d \in done' : d.path = p => d \in done
        <4>1. p # old
          BY <1>6, <3>3 DEF FileRenamed
        <4>2. QED
          BY <1>4, <3>3, <4>1 DEF FileRenamed, Forget, RemoveFile
      <3>4. QED
        BY <3>1, <3>2, <3>3
    <2>4. Untouched(p)
      BY <1>3, <2>2, <2>3 DEF Untouched
    <2>5. QED
      BY <2>1, <2>4, UntouchedKeeps
  <1>7. QED
    BY <1>5, <1>6

\* A job's step leaves the other paths alone.
LEMMA JobStepKeeps ==
    ASSUME TypeInv, NoPlugins, NEW p \in Paths, p \in undisturbed', PathInv(p),
           NEW j \in Ids, JobStep(j)
    PROVE  PathInv(p)'
  <1>1. CASE JobPath(j) = p
    BY <1>1, ValidateKeeps, StartLightKeeps, EndLightKeeps, FailLightKeeps, StartHashKeeps,
       HashReadKeeps, EndHashKeeps DEF JobStep
  <1>2. CASE JobPath(j) # p
    <2> DEFINE q == JobPath(j)
    <2>1. JobsUntouched(p) /\ q \in Paths /\ q # p
      <3>1. \E s : Moved(j, s)
        BY StepMoves DEF JobStep
      <3>2. QED
        BY <1>2, <3>1, OthersUntouched, JobTypes
    <2>2. /\ UNCHANGED <<finishing, generation, connected>>
          /\ \A h \in Hashes : <<h, p>> \in tasks' <=> <<h, p>> \in tasks
      BY <2>1 DEF JobStep, Validate, StartLight, EndLight, DispatchPlugins, FailLight,
                  StartHash, HashRead, EndHash, pluginVars, resetVars
    <2>3. gens' = gens \/ gens' = [gens EXCEPT ![q] = NoEntry]
      BY DEF JobStep, Validate, StartLight, EndLight, FailLight, StartHash, HashRead,
             EndHash, HashPhaseOver, CompleteNow, resetVars
    <2>4. hashing' = hashing \/ \E h : hashing' = [hashing EXCEPT ![q] = h]
      BY DEF JobStep, Validate, RemoveFile, StartLight, StartLightProcessing, EndLight,
             CompleteLightProcessing, FailLight, StartHash, CompleteHashProcessing,
             HashRead, EndHash, HashPhaseOver, CompleteNow, stateVars
    <2>5. \A d \in done' : d \in done \/ d.path = q
      BY DEF JobStep, Validate, RemoveFile, StartLight, StartLightProcessing, EndLight,
             CompleteLightProcessing, FailLight, StartHash, CompleteHashProcessing,
             HashRead, EndHash, HashPhaseOver, CompleteNow, DoneEntry, stateVars
    <2>6. gens'[p] = gens[p] /\ hashing'[p] = hashing[p]
      BY <2>1, <2>3, <2>4 DEF TypeInv, TypeOK
    <2>7. Untouched(p)
      BY <2>1, <2>2, <2>5, <2>6 DEF Untouched
    <2>8. QED
      BY <2>7, UntouchedKeeps
  <1>3. QED
    BY <1>1, <1>2

\* What is known of undisturbed paths is kept by every step.
LEMMA UndisturbedStep ==
    ASSUME TypeInv, UndisturbedInv, [Next]_vars
    PROVE  UndisturbedInv'
  <1>1. NoPlugins'
    BY NoPluginsStep DEF UndisturbedInv
  <1>2. SUFFICES ASSUME NEW p \in Paths, p \in undisturbed'
                 PROVE  PathInv(p)'
    <2>1. undisturbed' \subseteq Paths
      BY TypeInductive DEF TypeInv, TypeOK
    <2>2. QED
      BY <1>1, <2>1 DEF UndisturbedInv
  <1>3. NoPlugins /\ (p \in undisturbed => PathInv(p))
    BY DEF UndisturbedInv
  <1>4. CASE \E q \in Paths, h \in Hashes :
                \/ FileAdded(q, h) \/ FileChanged(q, h)
                \/ \E old \in Paths : FileRenamed(old, q, h)
    BY <1>2, <1>3, <1>4, EventKeeps
  <1>5. ASSUME NEW q \in Paths, FileDeleted(q)
        PROVE  PathInv(p)'
    <2>1. p \in undisturbed /\ p # q
      BY <1>2, <1>5 DEF FileDeleted
    <2>2. hashing'[p] = hashing[p] /\ \A d \in done' : d \in done
      BY <1>5, <2>1 DEF FileDeleted, Forget, RemoveFile, TypeInv, TypeOK
    <2>3. UNCHANGED <<jobs, gens, generation, connected, tasks, finishing>>
      BY <1>5 DEF FileDeleted, resetVars, pluginVars
    <2>4. Untouched(p)
      BY <2>2, <2>3, OthersUntouched DEF Untouched
    <2>5. QED
      BY <1>3, <2>1, <2>4, UntouchedKeeps
  <1>6. CASE Reset
    BY <1>2, <1>6 DEF Reset
  <1>7. ASSUME NEW j \in Ids, JobStep(j)
        PROVE  PathInv(p)'
    <2>1. p \in undisturbed
      BY <1>2, <1>7 DEF JobStep, Validate, StartLight, EndLight, DispatchPlugins, FailLight,
                        StartHash, HashRead, EndHash, boundVars
    <2>2. QED
      BY <1>2, <1>3, <1>7, <2>1, JobStepKeeps
  <1>8. ASSUME NEW h \in Hashes, FileComplete(h)
        PROVE  PathInv(p)'
    <2>1. p \in undisturbed
      BY <1>2, <1>8 DEF FileComplete, boundVars
    <2>2. QED
      BY <1>3, <1>8, <2>1, FileCompleteKeeps
  <1>9. ASSUME NEW q \in Paths, NEW h \in Hashes, Finish(q, h)
        PROVE  PathInv(p)'
    <2>1. p \in undisturbed
      BY <1>2, <1>9 DEF Finish, boundVars
    <2>2. CASE p = q
      BY <1>3, <1>9, <2>1, <2>2, FinishKeeps
    <2>3. CASE p # q
      <3>1. /\ UNCHANGED <<jobs, gens, generation, connected, tasks>>
            /\ finishing' = [finishing EXCEPT ![q][h] = @ - 1]
            /\ hashing' = [hashing EXCEPT ![q] = NoHash]
            /\ done' = done \cup {DoneEntry(q, h, FALSE)}
        BY <1>9 DEF Finish, CompleteHashProcessing, resetVars
      <3>2. /\ finishing'[p] = finishing[p] /\ hashing'[p] = hashing[p]
            /\ \A d \in done' : d \in done \/ d.path = q
        BY <2>3, <3>1 DEF TypeInv, TypeOK, DoneEntry
      <3>3. Untouched(p)
        BY <2>3, <3>1, <3>2, OthersUntouched DEF Untouched
      <3>4. QED
        BY <1>3, <2>1, <3>3, UntouchedKeeps
    <2>4. QED
      BY <2>2, <2>3
  <1>10. CASE (\E q \in Paths : RetryFailed(q)) \/ UNCHANGED vars
    <2>1. UNCHANGED <<jobs, gens, generation, connected, tasks, finishing, hashing, done,
                      undisturbed>>
      BY <1>10 DEF RetryFailed, resetVars, pluginVars, boundVars, stateVars, vars
    <2>2. Untouched(p)
      BY <2>1, OthersUntouched DEF Untouched
    <2>3. QED
      BY <1>2, <1>3, <2>1, <2>2, UntouchedKeeps
  <1>11. QED
    BY <1>4, <1>5, <1>6, <1>7, <1>8, <1>9, <1>10 DEF Next, Event


-----------------------------------------------------------------------------
(* The counters. *)

\* There are no more jobs in any set of jobs than were ever made.
LEMMA JobsFinite ==
    ASSUME jobs \in Seq(Job), NEW S \in SUBSET Ids
    PROVE  /\ IsFiniteSet(S) /\ Cardinality(S) \in Nat /\ Cardinality(S) <= Len(jobs)
  <1>1. Len(jobs) \in Nat /\ Ids = 1..Len(jobs)
    BY LenProperties DEF Ids
  <1>2. IsFiniteSet(1..Len(jobs)) /\ Cardinality(1..Len(jobs)) = Len(jobs)
    BY <1>1, FS_Interval
  <1>3. QED
    BY <1>1, <1>2, FS_Subset, FS_CardinalityType

\* A set with one more element is larger.
LEMMA OneMore ==
    ASSUME NEW S, NEW T, IsFiniteSet(T), S \subseteq T, NEW x \in T, x \notin S
    PROVE  Cardinality(S) + 1 <= Cardinality(T)
  <1>1. IsFiniteSet(S) /\ IsFiniteSet(S \cup {x})
    BY FS_Subset, FS_AddElement
  <1>2. Cardinality(S \cup {x}) = Cardinality(S) + 1
    BY <1>1, FS_AddElement
  <1>3. Cardinality(S \cup {x}) <= Cardinality(T)
    BY FS_Subset
  <1>4. QED
    BY <1>2, <1>3

\* The generation of a job is that of its event, whatever the job does.
LEMMA GenerationStep ==
    ASSUME TypeInv, GenerationSound, [Next]_vars
    PROVE  GenerationSound'
  <1> USE DEF GenerationSound, ThisGeneration, JobPath, Ids, Current
  <1>1. /\ generation \in 0..MaxResets /\ MaxResets \in Nat /\ gens \in [Paths -> 0..NoEntry]
        /\ NoEntry \notin 0..MaxResets
    BY PipelineAssumption DEF TypeInv, TypeOK, PipelineAssumption, NoEntry
  <1>2. ASSUME NEW q \in Paths, NEW h \in Hashes, Enter(q, h)
        PROVE  GenerationSound'
    <2>1. PICK n \in Nat : Began(q, n)
      BY <1>2, EnterBegins DEF TypeInv, TypeOK
    <2>2. generation' = generation /\ gens' = [gens EXCEPT ![q] = generation]
      BY <1>2 DEF Enter, MarkGeneration
    <2>3. \A p \in Paths : gens'[p] = IF p = q THEN generation ELSE gens[p]
      BY <1>1, <2>2
    <2>4. QED
      BY <1>1, <2>1, <2>2, <2>3 DEF Began
  <1>3. ASSUME NEW j \in Ids, JobStep(j)
        PROVE  GenerationSound'
    <2>1. PICK s \in Stages \ {"validationQ"} : Moved(j, s)
      BY <1>3, StepMoves DEF JobStep, Stages
    <2>2. /\ generation' = generation
          /\ gens' = gens \/ gens' = [gens EXCEPT ![JobPath(j)] = NoEntry]
      BY <1>3 DEF JobStep, Validate, StartLight, EndLight, FailLight, StartHash, HashRead,
                  EndHash, HashPhaseOver, CompleteNow, resetVars
    <2>3. \A p \in Paths : gens'[p] = generation => gens[p] = generation
      BY <1>1, <2>2
    <2>4. QED
      BY <2>1, <2>2, <2>3 DEF Moved
  <1>4. CASE Reset
    <2>1. /\ generation' = generation + 1 /\ generation' \in 0..MaxResets
          /\ \A p \in Paths : gens'[p] = NoEntry
      BY <1>1, <1>4 DEF Reset
    <2>2. /\ DOMAIN jobs' = Ids
          /\ \A j \in Ids : jobs'[j].at # "validationQ"
      BY <1>4 DEF Reset
    <2>3. \A j \in Ids : jobs'[j].gen = jobs[j].gen
      <3>1. \A j \in Ids : jobs[j] \in Job
        BY LenProperties, ElementOfSeq DEF TypeInv, TypeOK
      <3>2. QED
        BY <1>4, <3>1 DEF Reset, Job
    <2>4. \A j \in Ids : jobs'[j].gen <= generation'
      <3>1. \A j \in Ids : jobs[j].gen \in 0..MaxResets
        BY JobTypes
      <3>2. QED
        BY <1>1, <2>1, <2>3, <3>1
    <2>5. QED
      BY <1>1, <2>1, <2>2, <2>4
  <1>5. CASE \E h \in Hashes : FileComplete(h)
    <2>1. PICK h \in Hashes : FileComplete(h)
      BY <1>5
    <2>2. jobs' = jobs /\ generation' = generation
      BY <2>1 DEF FileComplete
    <2>3. \A p \in Paths : gens'[p] = generation => gens[p] = generation
      BY <1>1, <2>1 DEF FileComplete, ConsumeEntries
    <2>4. QED
      BY <2>2, <2>3
  <1>6. CASE \/ \E p \in Paths : FileDeleted(p) \/ RetryFailed(p)
             \/ \E p \in Paths, h \in Hashes : Finish(p, h)
             \/ UNCHANGED vars
    <2>1. UNCHANGED <<jobs, generation, gens>>
      BY <1>6 DEF FileDeleted, RetryFailed, Finish, resetVars, vars
    <2>2. QED
      BY <2>1
  <1>7. QED
    BY <1>2, <1>3, <1>4, <1>5, <1>6
    DEF Next, Event, FileAdded, FileChanged, FileRenamed

\* The jobs of this generation that were counted, and those still to end as fast.
Validated == {j \in ThisGeneration : jobs[j].at # "validationQ"}
FastAhead == {j \in ThisGeneration : jobs[j].at \in {"fastQ", "light"}}

\* Without a reset, a path is not un-added.
LEMMA ReAddedStays ==
    ASSUME NEW p, ReAdded(p), generation' = generation,
           \/ jobs' = jobs
           \/ \E j, s : Moved(j, s)
           \/ \E q, n : Began(q, n)
    PROVE  ReAdded(p)'
  <1>1. PICK i \in Ids, j \in Ids : /\ jobs[i].gen = generation /\ jobs[j].gen # generation
                                    /\ jobs[i].path = p /\ jobs[j].path = p
    BY DEF ReAdded, ThisGeneration, JobPath
  <1>2. \A k \in Ids : /\ k \in DOMAIN jobs' /\ jobs'[k].gen = jobs[k].gen
                       /\ jobs'[k].path = jobs[k].path
    BY DEF Moved, Began, Ids
  <1>3. QED
    BY <1>1, <1>2 DEF ReAdded, ThisGeneration, JobPath, Ids

\* A step that counts nothing leaves at most fewer light phases ahead.
LEMMA NothingCounted ==
    ASSUME TypeInv, CountInv, UNCHANGED <<generation>>,
           counts'.validated = counts.validated, counts'.filtered = counts.filtered,
           counts'.fast = counts.fast,
           jobs' \in Seq(Job),
           \/ jobs' = jobs
           \/ \E j, s : Moved(j, s)
           \/ \E q, n : Began(q, n),
           Validated \subseteq Validated', FastAhead' \subseteq FastAhead
    PROVE  CountInv'
  <1>1. /\ jobs \in Seq(Job) /\ counts.validated \in Nat /\ counts.filtered \in Nat
        /\ counts.fast \in Nat
    BY DEF TypeInv, TypeOK
  <1>2. /\ Validated \subseteq Ids /\ FastAhead \subseteq Ids
        /\ Validated' \subseteq DOMAIN jobs' /\ FastAhead' \subseteq DOMAIN jobs'
    BY DEF Validated, FastAhead, ThisGeneration, Ids
  <1>3. IsFiniteSet(Validated') /\ IsFiniteSet(FastAhead)
    <2>1. /\ Ids = 1..Len(jobs) /\ Len(jobs) \in Nat
          /\ DOMAIN jobs' = 1..Len(jobs') /\ Len(jobs') \in Nat
      BY <1>1, LenProperties DEF Ids
    <2>2. \A m \in Nat : IsFiniteSet(1..m)
      BY FS_Interval
    <2>3. QED
      BY <1>2, <2>1, <2>2, FS_Subset
  <1>4. /\ Cardinality(Validated) <= Cardinality(Validated')
        /\ Cardinality(FastAhead') <= Cardinality(FastAhead)
        /\ Cardinality(Validated) \in Nat /\ Cardinality(Validated') \in Nat
        /\ Cardinality(FastAhead) \in Nat /\ Cardinality(FastAhead') \in Nat
    BY <1>3, FS_Subset, FS_CardinalityType
  <1>5. (\A p \in Paths : ~ReAdded(p))' => \A p \in Paths : ~ReAdded(p)
    BY ReAddedStays
  <1>6. QED
    BY <1>1, <1>4, <1>5 DEF CountInv, Validated, FastAhead


\* The sets of counted jobs when a job moves.
LEMMA CountedMoves ==
    ASSUME NEW j, NEW s, Moved(j, s), generation' = generation, s # "validationQ"
    PROVE  /\ Validated' = Validated \cup ({j} \cap ThisGeneration)
           /\ FastAhead' = IF s \in {"fastQ", "light"}
                           THEN FastAhead \cup ({j} \cap ThisGeneration) ELSE FastAhead \ {j}
  BY DEF Validated, FastAhead, ThisGeneration, Moved, Ids

\* The counts of this generation stay in order.
LEMMA CountStep ==
    ASSUME TypeInv, GenerationSound, CountInv, [Next]_vars
    PROVE  CountInv'
  <1>1. /\ jobs \in Seq(Job) /\ jobs' \in Seq(Job)
        /\ counts \in [{"validated", "filtered", "fast", "background"} -> Nat]
        /\ counts.validated \in Nat /\ counts.filtered \in Nat /\ counts.fast \in Nat
    BY QueuesSoundStep DEF TypeInv, TypeOK
  <1>2. \A c \in {"validated", "filtered", "fast", "background"} : Count(c) =>
            /\ counts'.validated = IF c = "validated" THEN counts.validated + 1
                                                      ELSE counts.validated
            /\ counts'.filtered = IF c = "filtered" THEN counts.filtered + 1
                                                    ELSE counts.filtered
            /\ counts'.fast = IF c = "fast" THEN counts.fast + 1 ELSE counts.fast
    BY <1>1 DEF Count
  <1>3. ASSUME NEW q \in Paths, NEW h \in Hashes, Enter(q, h)
        PROVE  CountInv'
    <2>1. PICK n \in Nat : Began(q, n)
      BY <1>3, EnterBegins DEF TypeInv, TypeOK
    <2>2. UNCHANGED <<counts, generation>>
      BY <1>3 DEF Enter
    <2>3. Validated \subseteq Validated' /\ FastAhead' \subseteq FastAhead
      BY <2>1, <2>2 DEF Validated, FastAhead, ThisGeneration, Began, Ids
    <2>4. QED
      BY <1>1, <2>1, <2>2, <2>3, NothingCounted
  <1>4. CASE UNCHANGED <<jobs, counts, generation>>
    <2>1. Validated' = Validated /\ FastAhead' = FastAhead
      BY <1>4 DEF Validated, FastAhead, ThisGeneration, Ids
    <2>2. QED
      BY <1>1, <1>4, <2>1, NothingCounted
  <1>5. CASE Reset
    <2>1. /\ generation' = generation + 1
          /\ counts'.validated = 0 /\ counts'.filtered = 0 /\ counts'.fast = 0
      BY <1>1, <1>5 DEF Reset
    <2>2. Validated' = {} /\ FastAhead' = {}
      <3>1. \A j \in Ids : jobs[j] \in Job
        BY <1>1, LenProperties, ElementOfSeq DEF Ids
      <3>2. \A j \in Ids : jobs'[j].gen = jobs[j].gen
        BY <1>5, <3>1 DEF Reset, Job
      <3>3. \A j \in Ids : jobs[j].gen \in Nat /\ jobs[j].gen <= generation
        BY JobTypes DEF GenerationSound
      <3>4. generation \in Nat /\ DOMAIN jobs' = Ids
        BY <1>5 DEF Reset, TypeInv, TypeOK
      <3>5. \A j \in DOMAIN jobs' : jobs'[j].gen # generation'
        BY <2>1, <3>2, <3>3, <3>4
      <3>6. ThisGeneration' = {}
        BY <3>5 DEF ThisGeneration, Ids
      <3>7. QED
        BY <3>6 DEF Validated, FastAhead
    <2>3. Cardinality(Validated') = 0 /\ Cardinality(FastAhead') = 0
      BY <2>2, FS_EmptySet
    <2>4. /\ counts'.validated + counts'.filtered <= Cardinality(Validated')
          /\ counts'.fast + Cardinality(FastAhead') <= counts'.validated
      BY <2>1, <2>3
    <2>5. QED
      BY <2>4 DEF CountInv, Validated, FastAhead
  <1>6. ASSUME NEW j \in Ids, JobStep(j)
        PROVE  CountInv'
    <2>1. generation' = generation
      BY <1>6 DEF JobStep, Validate, StartLight, EndLight, FailLight, StartHash, HashRead,
                  EndHash, resetVars
    <2>2. ASSUME NEW s, Moved(j, s), s \notin {"validationQ", "fastQ", "light"},
                 counts'.validated = counts.validated, counts'.filtered = counts.filtered,
                 counts'.fast = counts.fast
          PROVE  CountInv'
      <3>1. Validated \subseteq Validated' /\ FastAhead' \subseteq FastAhead
        BY <2>1, <2>2, CountedMoves
      <3>2. QED
        BY <1>1, <2>1, <2>2, <3>1, NothingCounted
    <2>3. CASE Validate(j)
      <3>1. PICK s \in {"over", "fastQ"} : Moved(j, s) /\ jobs[j].at = "validationQ"
        BY <2>3, StepMoves
      <3>2. j \in ThisGeneration /\ j \notin Validated /\ j \notin FastAhead
        BY <3>1 DEF GenerationSound, ThisGeneration, Validated, FastAhead
      <3>3. /\ Validated' = Validated \cup {j}
            /\ FastAhead' = IF s = "fastQ" THEN FastAhead \cup {j} ELSE FastAhead
        BY <2>1, <3>1, <3>2, CountedMoves
      <3>4. IsFiniteSet(Validated) /\ IsFiniteSet(FastAhead)
        BY <1>1, JobsFinite DEF Validated, FastAhead, ThisGeneration
      <3>5. /\ Cardinality(Validated) \in Nat /\ Cardinality(FastAhead) \in Nat
            /\ Cardinality(Validated') = Cardinality(Validated) + 1
            /\ Cardinality(FastAhead') = IF s = "fastQ" THEN Cardinality(FastAhead) + 1
                                                        ELSE Cardinality(FastAhead)
        BY <3>2, <3>3, <3>4, FS_AddElement, FS_CardinalityType
      <3>6. \/ s = "fastQ" /\ Count("validated")
            \/ s = "over" /\ (Count("filtered") \/ counts' = counts)
        <4>1. \/ MoveTo(j, "fastQ") /\ Count("validated")
              \/ MoveTo(j, "over") /\ (Count("filtered") \/ counts' = counts)
          BY <2>3 DEF Validate
        <4>2. \A t \in Stages : MoveTo(j, t) => Moved(j, t)
          BY <1>1, MoveIsMoved
        <4>3. \A t : Moved(j, t) => t = s
          BY <3>1 DEF Moved
        <4>4. QED
          BY <4>1, <4>2, <4>3 DEF Stages
      <3>7. /\ counts'.fast = counts.fast
            /\ \/ /\ counts'.validated = counts.validated + 1
                  /\ counts'.filtered = counts.filtered /\ s = "fastQ"
               \/ /\ counts'.validated = counts.validated
                  /\ counts'.filtered \in {counts.filtered, counts.filtered + 1}
                  /\ s = "over"
        BY <1>2, <3>6
      <3>8. (\A p \in Paths : ~ReAdded(p))' => \A p \in Paths : ~ReAdded(p)
        BY <2>1, <3>1, ReAddedStays
      <3>9. /\ counts.validated + counts.filtered <= Cardinality(Validated)
            /\ (\A p \in Paths : ~ReAdded(p)) =>
                   counts.fast + Cardinality(FastAhead) <= counts.validated
        BY DEF CountInv, Validated, FastAhead
      <3>10. /\ counts'.validated + counts'.filtered <= Cardinality(Validated')
             /\ (\A p \in Paths : ~ReAdded(p))' =>
                    counts'.fast + Cardinality(FastAhead') <= counts'.validated
        BY <1>1, <3>5, <3>7, <3>8, <3>9
      <3>11. QED
        BY <3>10 DEF CountInv, Validated, FastAhead
    <2>4. CASE StartLight(j)
      <3>1. PICK s \in {"over", "light"} : Moved(j, s) /\ jobs[j].at = "fastQ"
        BY <2>4, StepMoves
      <3>2. counts' = counts
        BY <2>4 DEF StartLight
      <3>3. {j} \cap ThisGeneration \subseteq FastAhead
        BY <3>1 DEF FastAhead
      <3>4. Validated \subseteq Validated' /\ FastAhead' \subseteq FastAhead
        BY <2>1, <3>1, <3>3, CountedMoves
      <3>5. QED
        BY <1>1, <2>1, <3>1, <3>2, <3>4, NothingCounted
    <2>5. CASE EndLight(j)
      <3>1. Moved(j, "backgroundQ") /\ jobs[j].at = "light"
        BY <2>5, StepMoves
      <3>2. /\ Validated' = Validated
            /\ FastAhead' = FastAhead \ {j}
        <4>1. {j} \cap ThisGeneration \subseteq Validated
          BY <3>1 DEF Validated
        <4>2. QED
          BY <2>1, <3>1, <4>1, CountedMoves
      <3>3. IsFiniteSet(FastAhead)
        BY <1>1, JobsFinite DEF FastAhead, ThisGeneration
      <3>4. /\ Cardinality(FastAhead) \in Nat
            /\ Cardinality(FastAhead') = IF j \in FastAhead THEN Cardinality(FastAhead) - 1
                                                            ELSE Cardinality(FastAhead)
        BY <3>2, <3>3, FS_RemoveElement, FS_CardinalityType
      <3>5. (Count("fast") /\ Current(JobPath(j))) \/ counts' = counts
        BY <2>5 DEF EndLight, CountFast
      <3>6. (\A p \in Paths : ~ReAdded(p))' => \A p \in Paths : ~ReAdded(p)
        BY <2>1, <3>1, ReAddedStays
      <3>7. ASSUME \A p \in Paths : ~ReAdded(p), Current(JobPath(j))
            PROVE  j \in FastAhead
        <4>1. JobPath(j) \in Paths
          BY JobTypes
        <4>2. PICK i \in ThisGeneration : JobPath(i) = JobPath(j)
          BY <3>7, <4>1 DEF GenerationSound
        <4>3. j \in ThisGeneration
          BY <3>7, <4>1, <4>2 DEF ReAdded
        <4>4. QED
          BY <3>1, <4>3 DEF FastAhead
      <3>8. /\ counts'.validated = counts.validated /\ counts'.filtered = counts.filtered
            /\ \/ counts'.fast = counts.fast
               \/ counts'.fast = counts.fast + 1 /\ Current(JobPath(j))
        BY <1>2, <3>5
      <3>9. /\ counts.validated + counts.filtered <= Cardinality(Validated)
            /\ (\A p \in Paths : ~ReAdded(p)) =>
                   counts.fast + Cardinality(FastAhead) <= counts.validated
        BY DEF CountInv, Validated, FastAhead
      <3>10. /\ counts'.validated + counts'.filtered <= Cardinality(Validated')
             /\ (\A p \in Paths : ~ReAdded(p))' =>
                    counts'.fast + Cardinality(FastAhead') <= counts'.validated
        <4>1. counts'.validated + counts'.filtered <= Cardinality(Validated')
          BY <3>2, <3>8, <3>9
        <4>2. ASSUME (\A p \in Paths : ~ReAdded(p))'
              PROVE  counts'.fast + Cardinality(FastAhead') <= counts'.validated
          <5>1. counts.fast + Cardinality(FastAhead) <= counts.validated
            BY <3>6, <3>9, <4>2
          <5>2. Current(JobPath(j)) => j \in FastAhead
            BY <3>6, <3>7, <4>2
          <5>3. QED
            BY <1>1, <3>4, <3>8, <5>1, <5>2
        <4>3. QED
          BY <4>1, <4>2
      <3>11. QED
        BY <3>10 DEF CountInv, Validated, FastAhead
    <2>6. CASE FailLight(j) \/ StartHash(j) \/ HashRead(j)
      <3>1. counts' = counts
        BY <2>6 DEF FailLight, StartHash, HashRead
      <3>2. \E s \in {"over", "hashing", "storing"} : Moved(j, s)
        BY <2>6, StepMoves
      <3>3. QED
        BY <2>2, <3>1, <3>2
    <2>7. CASE EndHash(j)
      <3>1. counts' = counts \/ Count("background")
        BY <2>7 DEF EndHash, HashPhaseOver
      <3>2. Moved(j, "over")
        BY <2>7, StepMoves
      <3>3. QED
        BY <1>2, <2>2, <3>1, <3>2
    <2>8. QED
      BY <1>6, <2>3, <2>4, <2>5, <2>6, <2>7 DEF JobStep
  <1>7. CASE \/ \E p \in Paths : FileDeleted(p) \/ RetryFailed(p)
             \/ \E h \in Hashes : FileComplete(h) \/ \E p \in Paths : Finish(p, h)
             \/ UNCHANGED vars
    BY <1>4, <1>7 DEF FileDeleted, RetryFailed, FileComplete, Finish, resetVars, vars
  <1>8. QED
    BY <1>3, <1>5, <1>6, <1>7 DEF Next, Event, FileAdded, FileChanged, FileRenamed


-----------------------------------------------------------------------------
(* Each file is counted once. *)

Settled == {j \in Ids : Closed(j)}

DispatchedLate ==
    \A p \in Paths : Dispatched(p) =>
        \E j \in Ids : JobPath(j) = p /\ jobs[j].at \notin EarlyStages

OneHandler ==
    \A p \in Paths, h \in Hashes : finishing[p][h] > 0 =>
        /\ ~Current(p) /\ finishing[p][h] = 1
        /\ \A k \in Hashes : finishing[p][k] > 0 => k = h

\* Jobs keep their paths, so that one event each was one event each before.
LEMMA OneEventEachBefore ==
    ASSUME OneEventEach',
           \/ jobs' = jobs
           \/ \E j, s : Moved(j, s)
           \/ \E q, n : Began(q, n)
    PROVE  OneEventEach
  <1>1. \A k \in Ids : k \in DOMAIN jobs' /\ jobs'[k].path = jobs[k].path
    BY DEF Moved, Began, Ids
  <1>2. QED
    BY <1>1 DEF OneEventEach, JobPath, Ids

\* The count of closed files bounds the total when nothing is completed ...
LEMMA NoneCompleted ==
    ASSUME jobs' \in Seq(Job), total \in Nat, total <= Cardinality(Settled), total' = total,
           jobs \in Seq(Job), Settled \subseteq Settled'
    PROVE  total' <= Cardinality(Settled')
  <1>1. IsFiniteSet(1..Len(jobs')) /\ DOMAIN jobs' = 1..Len(jobs')
    BY LenProperties, FS_Interval
  <1>2. Settled' \subseteq DOMAIN jobs'
    BY DEF Settled, Ids
  <1>3. IsFiniteSet(Settled') /\ Cardinality(Settled) <= Cardinality(Settled')
    BY <1>1, <1>2, FS_Subset
  <1>4. Cardinality(Settled) \in Nat /\ Cardinality(Settled') \in Nat
    BY <1>3, FS_Subset, FS_CardinalityType
  <1>5. QED
    BY <1>3, <1>4

\* ... and when one file is, whose job becomes closed by it.
LEMMA OneCompleted ==
    ASSUME jobs' \in Seq(Job), total \in Nat, total <= Cardinality(Settled),
           total' = total + 1,
           Settled \subseteq Settled', NEW j \in Settled', j \notin Settled
    PROVE  total' <= Cardinality(Settled')
  <1>1. IsFiniteSet(1..Len(jobs')) /\ DOMAIN jobs' = 1..Len(jobs')
    BY LenProperties, FS_Interval
  <1>2. Settled' \subseteq DOMAIN jobs'
    BY DEF Settled, Ids
  <1>3. IsFiniteSet(Settled')
    BY <1>1, <1>2, FS_Subset
  <1>4. Cardinality(Settled) + 1 <= Cardinality(Settled')
    BY <1>3, OneMore
  <1>5. Cardinality(Settled) \in Nat /\ Cardinality(Settled') \in Nat
    BY <1>3, FS_Subset, FS_CardinalityType
  <1>6. QED
    BY <1>4, <1>5

\* Where nothing but the stage of one job changes.
LEMMA MoveKeepsOnce ==
    ASSUME TypeInv, OneEventEach, DispatchedLate, OneHandler,
           NEW j \in Ids, NEW s \in Stages, Moved(j, s),
           s \in EarlyStages => jobs[j].at \in EarlyStages,
           jobs[j].at = "over" => s = "over",
           UNCHANGED <<tasks, finishing, generation>>,
           gens' = gens \/ gens' = [gens EXCEPT ![JobPath(j)] = NoEntry]
    PROVE  /\ DispatchedLate' /\ OneHandler' /\ Settled \subseteq Settled'
           /\ jobs' \in Seq(Job)
  <1>1. /\ gens \in [Paths -> 0..NoEntry] /\ generation \in 0..MaxResets
        /\ NoEntry \notin 0..MaxResets
    BY PipelineAssumption DEF TypeInv, TypeOK, PipelineAssumption, NoEntry
  <1>2. \A p \in Paths : Current(p)' => Current(p)
    BY <1>1 DEF Current
  <1>3. \A p \in Paths : Dispatched(p)' => Dispatched(p)
    BY DEF Dispatched
  <1>4. DispatchedLate'
    <2>1. SUFFICES ASSUME NEW p \in Paths, Dispatched(p)'
                   PROVE  \E i \in DOMAIN jobs' : /\ jobs'[i].path = p
                                                 /\ jobs'[i].at \notin EarlyStages
      BY DEF DispatchedLate, JobPath, Ids
    <2>2. PICK i \in Ids : JobPath(i) = p /\ jobs[i].at \notin EarlyStages
      BY <1>3, <2>1 DEF DispatchedLate
    <2>3. QED
      BY <2>2 DEF Moved, JobPath
  <1>5. OneHandler'
    BY <1>2 DEF OneHandler
  <1>6. Settled \subseteq Settled'
    <2>1. SUFFICES ASSUME NEW i \in Ids, Closed(i)
                   PROVE  Closed(i)' /\ i \in DOMAIN jobs'
      BY DEF Settled, Ids
    <2>2. PICK p \in Paths : p = jobs[i].path /\ p = jobs'[i].path
      BY JobTypes DEF Moved, JobPath
    <2>3. /\ i \in DOMAIN jobs' /\ jobs'[i].at \notin EarlyStages
          /\ jobs[i].at = "over" => jobs'[i].at = "over"
      BY <2>1 DEF Closed, Moved
    <2>4. QED
      BY <1>2, <2>1, <2>2, <2>3 DEF Closed, JobPath
  <1>7. QED
    BY <1>4, <1>5, <1>6 DEF Moved


\* While a job is on its way to the end of the light phase, nothing of it is dispatched.
LEMMA EarlyUndispatched ==
    ASSUME TypeInv, OneEventEach, DispatchedLate,
           NEW j \in Ids, jobs[j].at \in EarlyStages
    PROVE  ~Dispatched(JobPath(j))
  BY JobTypes DEF OneEventEach, DispatchedLate

\* A count that is not positive is zero.
LEMMA NoneHandled ==
    ASSUME TypeInv, NEW p \in Paths, \A h \in Hashes : ~(finishing[p][h] > 0)
    PROVE  \A h \in Hashes : finishing[p][h] = 0
  <1>1. ASSUME NEW h \in Hashes
        PROVE  finishing[p][h] = 0
    <2>1. finishing[p][h] \in Nat /\ ~(finishing[p][h] > 0)
      BY DEF TypeInv, TypeOK
    <2>2. \A x \in Nat : ~(x > 0) => x = 0
      OBVIOUS
    <2>3. QED
      BY <2>1, <2>2, Zenon
  <1>2. QED
    BY <1>1

\* The parts of OnceInv, step by step.
LEMMA OnceJobStep ==
    ASSUME TypeInv, OneEventEach, DispatchedLate, OneHandler, total <= Cardinality(Settled),
           NEW j \in Ids, JobStep(j)
    PROVE  DispatchedLate' /\ OneHandler' /\ total' <= Cardinality(Settled')
  <1>1. /\ jobs \in Seq(Job) /\ jobs' \in Seq(Job) /\ total \in Nat
        /\ gens \in [Paths -> 0..NoEntry] /\ generation \in 0..MaxResets
        /\ NoEntry \notin 0..MaxResets
    <2>1. \E s : Moved(j, s)
      BY StepMoves DEF JobStep
    <2>2. QED
      BY <2>1, PipelineAssumption DEF TypeInv, TypeOK, PipelineAssumption, NoEntry, Moved
  <1> PICK p \in Paths : p = JobPath(j)
    BY JobTypes
  <1>2. CASE Validate(j)
    <2>1. PICK s \in {"over", "fastQ"} : jobs[j].at = "validationQ" /\ Moved(j, s)
      BY <1>2, StepMoves
    <2>2. UNCHANGED <<tasks, finishing, generation, gens, total>>
      BY <1>2 DEF Validate, resetVars, pluginVars
    <2>3. DispatchedLate' /\ OneHandler' /\ Settled \subseteq Settled'
      BY <2>1, <2>2, MoveKeepsOnce DEF Stages, EarlyStages
    <2>4. QED
      BY <1>1, <2>2, <2>3, NoneCompleted
  <1>3. CASE StartLight(j)
    <2>1. PICK s \in {"over", "light"} : jobs[j].at = "fastQ" /\ Moved(j, s)
      BY <1>3, StepMoves
    <2>2. UNCHANGED <<tasks, finishing, generation, gens, total>>
      BY <1>3 DEF StartLight, StartLightProcessing, stateVars, resetVars, pluginVars
    <2>3. DispatchedLate' /\ OneHandler' /\ Settled \subseteq Settled'
      BY <2>1, <2>2, MoveKeepsOnce DEF Stages, EarlyStages
    <2>4. QED
      BY <1>1, <2>2, <2>3, NoneCompleted
  <1>4. CASE EndLight(j)
    <2>1. jobs[j].at = "light" /\ Moved(j, "backgroundQ")
      BY <1>4, StepMoves
    <2>2. /\ UNCHANGED <<finishing, generation, gens, total>>
          /\ tasks' = tasks \/ tasks' = tasks \cup {<<jobs[j].hash, p>>}
      BY <1>4 DEF EndLight, CompleteLightProcessing, DispatchPlugins, resetVars
    <2>3. DispatchedLate'
      <3>1. SUFFICES ASSUME NEW q \in Paths, Dispatched(q)'
                     PROVE  \E i \in DOMAIN jobs' : /\ jobs'[i].path = q
                                                   /\ jobs'[i].at \notin EarlyStages
        BY DEF DispatchedLate, JobPath, Ids
      <3>2. CASE q = p
        BY <2>1, <3>2 DEF Moved, JobPath, EarlyStages
      <3>3. CASE q # p
        <4>1. Dispatched(q)
          BY <2>2, <3>1, <3>3 DEF Dispatched
        <4>2. PICK i \in Ids : JobPath(i) = q /\ jobs[i].at \notin EarlyStages
          BY <4>1 DEF DispatchedLate
        <4>3. i # j
          BY <3>3, <4>2
        <4>4. QED
          BY <2>1, <4>2, <4>3 DEF Moved, JobPath
      <3>4. QED
        BY <3>2, <3>3
    <2>4. OneHandler'
      BY <2>2 DEF OneHandler, Current
    <2>5. Settled \subseteq Settled'
      <3>1. SUFFICES ASSUME NEW i \in Ids, Closed(i)
                     PROVE  Closed(i)' /\ i \in DOMAIN jobs'
        BY DEF Settled, Ids
      <3>2. i # j
        BY <2>1, <3>1 DEF Closed, EarlyStages
      <3>3. PICK q \in Paths : q = jobs[i].path /\ q = jobs'[i].path
        BY <2>1, JobTypes DEF Moved, JobPath
      <3>4. q # p
        BY <3>2, <3>3 DEF OneEventEach, JobPath
      <3>5. i \in DOMAIN jobs' /\ jobs'[i].at = jobs[i].at
        BY <2>1, <3>2 DEF Moved
      <3>6. \A h \in Hashes : <<h, q>> \in tasks' => <<h, q>> \in tasks
        BY <2>2, <3>4
      <3>7. QED
        BY <2>2, <3>1, <3>3, <3>5, <3>6 DEF Closed, JobPath, Current
    <2>6. QED
      BY <1>1, <2>2, <2>3, <2>4, <2>5, NoneCompleted
  <1>5. CASE FailLight(j)
    <2>1. jobs[j].at = "light" /\ Moved(j, "over")
      BY <1>5, StepMoves
    <2>2. UNCHANGED <<tasks, finishing, generation, gens>> /\ total' = total + 1
      BY <1>5 DEF FailLight, resetVars, pluginVars
    <2>3. DispatchedLate' /\ OneHandler' /\ Settled \subseteq Settled'
      BY <2>1, <2>2, MoveKeepsOnce DEF Stages, EarlyStages
    <2>4. j \notin Settled /\ ~Dispatched(p)
      BY <2>1, EarlyUndispatched DEF Settled, Closed, EarlyStages
    <2>5. /\ \A h \in Hashes : finishing[p][h] = 0
          /\ \A h \in Hashes : <<h, p>> \notin tasks
      BY <2>4, NoneHandled DEF Dispatched
    <2>6. j \in DOMAIN jobs' /\ jobs'[j].path = p /\ jobs'[j].at = "over"
      BY <2>1 DEF Moved, JobPath
    <2>7. j \in Settled'
      BY <2>2, <2>5, <2>6 DEF Settled, Closed, JobPath, Ids, EarlyStages
    <2>8. QED
      BY <1>1, <2>2, <2>3, <2>4, <2>7, OneCompleted
  <1>6. ASSUME jobs[j].at \in LateStages, Current(p), Moved(j, "over"),
               UNCHANGED <<tasks, finishing, generation>>,
               gens' = [gens EXCEPT ![p] = NoEntry], total' = total + 1
        PROVE  DispatchedLate' /\ OneHandler' /\ total' <= Cardinality(Settled')
    <2>1. DispatchedLate' /\ OneHandler' /\ Settled \subseteq Settled'
      BY <1>6, MoveKeepsOnce DEF Stages, EarlyStages, LateStages
    <2>2. j \notin Settled
      BY <1>6 DEF Settled, Closed, LateStages
    <2>3. \A h \in Hashes : finishing[p][h] = 0
      BY <1>6, NoneHandled DEF OneHandler
    <2>4. j \in DOMAIN jobs' /\ jobs'[j].path = p /\ jobs'[j].at = "over"
      BY <1>6 DEF Moved, JobPath
    <2>5. gens'[p] # generation'
      BY <1>1, <1>6
    <2>6. j \in Settled'
      BY <1>6, <2>3, <2>4, <2>5 DEF Settled, Closed, JobPath, Ids, Current, EarlyStages
    <2>7. QED
      BY <1>1, <1>6, <2>1, <2>2, <2>6, OneCompleted
  <1>7. ASSUME jobs[j].at \in LateStages, NEW s \in LateStages \cup {"over"}, Moved(j, s),
               UNCHANGED <<tasks, finishing, generation, gens, total>>
        PROVE  DispatchedLate' /\ OneHandler' /\ total' <= Cardinality(Settled')
    <2>1. DispatchedLate' /\ OneHandler' /\ Settled \subseteq Settled'
      BY <1>7, MoveKeepsOnce DEF Stages, EarlyStages, LateStages
    <2>2. QED
      BY <1>1, <1>7, <2>1, NoneCompleted
  <1>8. CASE StartHash(j)
    <2>1. PICK s \in {"over", "hashing"} :
              /\ jobs[j].at = "backgroundQ" /\ Moved(j, s)
              /\ s = "hashing" => Current(p) /\ db[p] # NoHash
      BY <1>8, StepMoves
    <2>2. UNCHANGED <<tasks, finishing, generation>>
      BY <1>8 DEF StartHash, pluginVars
    <2>3. CASE Current(p) /\ db[p] = NoHash
      BY <1>6, <1>8, <2>1, <2>2, <2>3 DEF StartHash, CompleteHashProcessing, LateStages
    <2>4. CASE ~(Current(p) /\ db[p] = NoHash)
      <3>1. UNCHANGED <<gens, total>>
        BY <1>8, <2>4 DEF StartHash, stateVars
      <3>2. QED
        BY <1>7, <2>1, <2>2, <3>1 DEF LateStages
    <2>5. QED
      BY <2>3, <2>4
  <1>9. CASE HashRead(j)
    <2>1. jobs[j].at = "hashing" /\ Moved(j, "storing")
      BY <1>9, StepMoves
    <2>2. UNCHANGED <<tasks, finishing, generation, gens, total>>
      BY <1>9 DEF HashRead, pluginVars, resetVars, stateVars
    <2>3. QED
      BY <1>7, <2>1, <2>2 DEF LateStages
  <1>10. CASE EndHash(j)
    <2>1. jobs[j].at = "storing" /\ Moved(j, "over")
      BY <1>10, StepMoves
    <2>2. UNCHANGED <<tasks, finishing, generation>>
      BY <1>10 DEF EndHash, pluginVars
    <2>3. CASE Current(p) /\ ~connected
      BY <1>6, <1>10, <2>1, <2>2, <2>3
      DEF EndHash, HashPhaseOver, CompleteNow, CompleteHashProcessing, LateStages
    <2>4. CASE ~(Current(p) /\ ~connected)
      <3>1. UNCHANGED <<gens, total>>
        BY <1>10, <2>4 DEF EndHash, HashPhaseOver, stateVars
      <3>2. QED
        BY <1>7, <2>1, <2>2, <3>1 DEF LateStages
    <2>5. QED
      BY <2>3, <2>4
  <1>11. QED
    BY <1>2, <1>3, <1>4, <1>5, <1>8, <1>9, <1>10 DEF JobStep


\* A completion settles a job that was not settled before, in every step.
LEMMA OnceStep ==
    ASSUME TypeInv, OnceInv, [Next]_vars
    PROVE  OnceInv'
  <1>1. /\ jobs \in Seq(Job) /\ jobs' \in Seq(Job) /\ total \in Nat
        /\ gens \in [Paths -> 0..NoEntry] /\ generation \in 0..MaxResets
        /\ NoEntry \notin 0..MaxResets /\ finishing \in [Paths -> [Hashes -> Nat]]
    BY QueuesSoundStep, PipelineAssumption
    DEF TypeInv, TypeOK, PipelineAssumption, NoEntry
  <1>2. SUFFICES ASSUME OneEventEach'
                 PROVE  DispatchedLate' /\ OneHandler' /\ total' <= Cardinality(Settled')
    BY DEF OnceInv, DispatchedLate, OneHandler, Settled
  <1>3. ASSUME OneEventEach
        PROVE  DispatchedLate /\ OneHandler /\ total <= Cardinality(Settled)
    BY <1>3 DEF OnceInv, DispatchedLate, OneHandler, Settled
  <1>4. ASSUME NEW q \in Paths, NEW h \in Hashes, Enter(q, h), total' = total
        PROVE  DispatchedLate' /\ OneHandler' /\ total' <= Cardinality(Settled')
    <2>1. PICK n \in Nat : Began(q, n)
      BY <1>1, <1>4, EnterBegins
    <2>2. /\ UNCHANGED <<generation, tasks, finishing>>
          /\ gens' = [gens EXCEPT ![q] = generation]
      BY <1>4 DEF Enter, MarkGeneration, pluginVars
    <2>3. OneEventEach /\ \A i \in Ids : JobPath(i) # q
      <3>1. OneEventEach
        BY <1>2, <2>1, OneEventEachBefore
      <3>2. QED
        BY <1>2, <2>1, <3>1 DEF Began, OneEventEach, JobPath, Ids
    <2>4. DispatchedLate /\ OneHandler /\ total <= Cardinality(Settled)
      BY <1>3, <2>3
    <2>5. ~Dispatched(q)
      BY <2>3, <2>4 DEF DispatchedLate
    <2>6. \A i \in Ids : i \in DOMAIN jobs' /\ jobs'[i] = jobs[i]
      BY <2>1 DEF Began
    <2>7. \A p \in Paths : p # q => gens'[p] = gens[p]
      BY <1>1, <2>2
    <2>8. DispatchedLate'
      BY <2>2, <2>4, <2>6 DEF DispatchedLate, Dispatched, JobPath, Ids
    <2>9. OneHandler'
      BY <2>2, <2>4, <2>5, <2>7 DEF OneHandler, Dispatched, Current
    <2>10. Settled \subseteq Settled'
      <3>1. SUFFICES ASSUME NEW i \in Ids, Closed(i)
                     PROVE  Closed(i)' /\ i \in DOMAIN jobs'
        BY DEF Settled, Ids
      <3>2. PICK p \in Paths : p = jobs[i].path /\ p = jobs'[i].path /\ p # q
        BY <2>3, <2>6, JobTypes DEF JobPath
      <3>3. QED
        BY <2>2, <2>6, <2>7, <3>1, <3>2 DEF Closed, JobPath, Current
    <2>11. QED
      BY <1>1, <1>4, <2>4, <2>8, <2>9, <2>10, NoneCompleted
  <1>5. CASE UNCHANGED <<jobs, total, generation, gens, tasks, finishing>>
    <2>1. OneEventEach
      BY <1>2, <1>5, OneEventEachBefore
    <2>2. DispatchedLate' /\ OneHandler' /\ Settled' = Settled
      BY <1>3, <1>5, <2>1
      DEF DispatchedLate, Dispatched, OneHandler, Settled, Closed, Current, JobPath, Ids
    <2>3. QED
      BY <1>3, <1>5, <2>1, <2>2
  <1>6. CASE Reset
    <2>1. /\ finishing' = finishing /\ tasks' = {} /\ total' = 0
          /\ generation' \in 0..MaxResets /\ \A p \in Paths : gens'[p] = NoEntry
          /\ DOMAIN jobs' = Ids
      BY <1>1, <1>6, PipelineAssumption DEF Reset, PipelineAssumption
    <2>2. \A j \in Ids : /\ jobs'[j].path = jobs[j].path
                         /\ jobs[j].at \notin EarlyStages => jobs'[j].at \notin EarlyStages
      <3>1. \A j \in Ids : jobs[j] \in Job
        BY <1>1, LenProperties, ElementOfSeq DEF Ids
      <3>2. QED
        BY <1>6, <3>1 DEF Reset, Job, EarlyStages
    <2>3. OneEventEach
      BY <1>2, <2>1, <2>2 DEF OneEventEach, JobPath, Ids
    <2>4. DispatchedLate /\ OneHandler
      BY <1>3, <2>3
    <2>5. DispatchedLate'
      <3>1. SUFFICES ASSUME NEW p \in Paths, Dispatched(p)'
                     PROVE  \E i \in DOMAIN jobs' : /\ jobs'[i].path = p
                                                   /\ jobs'[i].at \notin EarlyStages
        BY DEF DispatchedLate, JobPath, Ids
      <3>2. Dispatched(p)
        BY <2>1, <3>1 DEF Dispatched
      <3>3. PICK i \in Ids : JobPath(i) = p /\ jobs[i].at \notin EarlyStages
        BY <2>4, <3>2 DEF DispatchedLate
      <3>4. QED
        BY <2>1, <2>2, <3>3 DEF JobPath
    <2>6. OneHandler'
      BY <1>1, <2>1, <2>4 DEF OneHandler, Current
    <2>7. Cardinality(Settled') \in Nat
      <3>1. IsFiniteSet(1..Len(jobs')) /\ DOMAIN jobs' = 1..Len(jobs')
        BY <1>1, LenProperties, FS_Interval
      <3>2. QED
        BY <3>1, FS_Subset, FS_CardinalityType DEF Settled, Ids
    <2>8. QED
      BY <2>1, <2>5, <2>6, <2>7
  <1>7. ASSUME NEW j \in Ids, JobStep(j)
        PROVE  DispatchedLate' /\ OneHandler' /\ total' <= Cardinality(Settled')
    <2>1. \E s : Moved(j, s)
      BY <1>7, StepMoves DEF JobStep
    <2>2. OneEventEach
      BY <1>2, <2>1, OneEventEachBefore
    <2>3. QED
      BY <1>3, <1>7, <2>2, OnceJobStep
  <1>8. ASSUME NEW h \in Hashes, FileComplete(h)
        PROVE  DispatchedLate' /\ OneHandler' /\ total' <= Cardinality(Settled')
    <2>1. /\ UNCHANGED <<jobs, generation, total>>
          /\ tasks' = {t \in tasks : t[1] # h}
          /\ gens' = [q \in Paths |-> IF q \in Accepted(h) THEN NoEntry ELSE gens[q]]
          /\ finishing' = [q \in Paths |-> IF q \in Accepted(h)
                                           THEN [finishing[q] EXCEPT ![h] = @ + 1]
                                           ELSE finishing[q]]
      BY <1>8 DEF FileComplete, ConsumeEntries, stateVars
    <2>2. OneEventEach
      BY <1>2, <2>1, OneEventEachBefore
    <2>3. DispatchedLate /\ OneHandler /\ total <= Cardinality(Settled)
      BY <1>3, <2>2
    <2>4. ASSUME NEW p \in Paths, p \in Accepted(h)
          PROVE  /\ <<h, p>> \in tasks /\ Current(p) /\ gens'[p] # generation'
                 /\ \A k \in Hashes : finishing'[p][k] = IF k = h THEN 1 ELSE 0
      <3>1. <<h, p>> \in tasks /\ Current(p)
        BY <2>4 DEF Accepted
      <3>2. \A k \in Hashes : finishing[p][k] = 0
        BY <2>3, <3>1, NoneHandled DEF OneHandler
      <3>3. QED
        BY <1>1, <2>1, <2>4, <3>1, <3>2
    <2>5. ASSUME NEW p \in Paths, p \notin Accepted(h)
          PROVE  gens'[p] = gens[p] /\ finishing'[p] = finishing[p]
      BY <2>1, <2>5
    <2>6. \A p \in Paths : Dispatched(p)' => Dispatched(p)
      BY <2>1, <2>4, <2>5 DEF Dispatched
    <2>7. DispatchedLate'
      BY <2>1, <2>3, <2>6 DEF DispatchedLate, JobPath, Ids
    <2>8. OneHandler'
      <3>1. SUFFICES ASSUME NEW p \in Paths, NEW k \in Hashes, finishing'[p][k] > 0
                     PROVE  /\ gens'[p] # generation' /\ finishing'[p][k] = 1
                            /\ \A l \in Hashes : finishing'[p][l] > 0 => l = k
        BY DEF OneHandler, Current
      <3>2. CASE p \in Accepted(h)
        <4>1. ~(0 > 0)
          OBVIOUS
        <4>2. QED
          BY <2>4, <3>1, <3>2, <4>1
      <3>3. CASE p \notin Accepted(h)
        BY <2>1, <2>3, <2>5, <3>1, <3>3 DEF OneHandler, Current
      <3>4. QED
        BY <3>2, <3>3
    <2>9. Settled \subseteq Settled'
      <3>1. SUFFICES ASSUME NEW i \in Ids, Closed(i)
                     PROVE  Closed(i)' /\ i \in DOMAIN jobs'
        BY DEF Settled, Ids
      <3>2. PICK p \in Paths : p = jobs[i].path /\ p = jobs'[i].path
        BY <2>1, JobTypes DEF JobPath
      <3>3. p \notin Accepted(h)
        BY <2>4, <3>1, <3>2 DEF Closed, JobPath
      <3>4. QED
        BY <2>1, <2>5, <3>1, <3>2, <3>3 DEF Closed, JobPath, Current, Ids
    <2>10. QED
      BY <1>1, <2>1, <2>3, <2>7, <2>8, <2>9, NoneCompleted
  <1>9. ASSUME NEW p \in Paths, NEW h \in Hashes, Finish(p, h)
        PROVE  DispatchedLate' /\ OneHandler' /\ total' <= Cardinality(Settled')
    <2>1. /\ UNCHANGED <<jobs, generation, gens, tasks>> /\ total' = total + 1
          /\ finishing[p][h] > 0
          /\ finishing' = [finishing EXCEPT ![p][h] = @ - 1]
      BY <1>9 DEF Finish, CompleteHashProcessing, resetVars
    <2>2. OneEventEach
      BY <1>2, <2>1, OneEventEachBefore
    <2>3. DispatchedLate /\ OneHandler /\ total <= Cardinality(Settled)
      BY <1>3, <2>2
    <2>4. /\ ~Current(p) /\ finishing[p][h] = 1
          /\ \A k \in Hashes : finishing[p][k] > 0 => k = h
      BY <2>1, <2>3, Zenon DEF OneHandler
    <2>5. /\ finishing'[p] = [finishing[p] EXCEPT ![h] = 0]
          /\ \A q \in Paths : q # p => finishing'[q] = finishing[q]
      BY <1>1, <2>1, <2>4
    <2>6. \A k \in Hashes : finishing'[p][k] = 0
      <3>1. ASSUME NEW k \in Hashes, k # h
            PROVE  finishing[p][k] = 0
        <4>1. finishing[p][k] \in Nat /\ ~(finishing[p][k] > 0)
          BY <1>1, <2>4, <3>1
        <4>2. \A x \in Nat : ~(x > 0) => x = 0
          OBVIOUS
        <4>3. QED
          BY <4>1, <4>2, Zenon
      <3>2. QED
        BY <1>1, <2>5, <3>1
    <2>7. ~(0 > 0)
      OBVIOUS
    <2>8. \A q \in Paths : Dispatched(q)' => Dispatched(q)
      BY <2>1, <2>5, <2>6, <2>7 DEF Dispatched
    <2>9. DispatchedLate'
      BY <2>1, <2>3, <2>8 DEF DispatchedLate, JobPath, Ids
    <2>10. OneHandler'
      <3>1. SUFFICES ASSUME NEW q \in Paths, NEW k \in Hashes, finishing'[q][k] > 0
                     PROVE  /\ gens'[q] # generation' /\ finishing'[q][k] = 1
                            /\ \A l \in Hashes : finishing'[q][l] > 0 => l = k
        BY DEF OneHandler, Current
      <3>2. q # p
        BY <2>6, <2>7, <3>1
      <3>3. QED
        BY <2>1, <2>3, <2>5, <3>1, <3>2 DEF OneHandler, Current
    <2>11. Settled \subseteq Settled'
      <3>1. SUFFICES ASSUME NEW i \in Ids, Closed(i)
                     PROVE  Closed(i)' /\ i \in DOMAIN jobs'
        BY DEF Settled, Ids
      <3>2. PICK q \in Paths : q = jobs[i].path /\ q = jobs'[i].path
        BY <2>1, JobTypes DEF JobPath
      <3>3. \A k \in Hashes : finishing'[q][k] = 0
        BY <2>5, <2>6, <3>1, <3>2 DEF Closed, JobPath
      <3>4. QED
        BY <2>1, <3>1, <3>2, <3>3 DEF Closed, JobPath, Current, Ids
    <2>12. PICK j \in Ids : JobPath(j) = p /\ jobs[j].at \notin EarlyStages
      BY <2>1, <2>3 DEF DispatchedLate, Dispatched
    <2>13. j \notin Settled
      BY <2>1, <2>7, <2>12 DEF Settled, Closed
    <2>14. j \in Settled'
      BY <2>1, <2>4, <2>6, <2>12 DEF Settled, Closed, JobPath, Current, Ids
    <2>15. QED
      BY <1>1, <2>1, <2>3, <2>9, <2>10, <2>11, <2>13, <2>14, OneCompleted
  <1>10. CASE (\E p \in Paths : FileDeleted(p) \/ RetryFailed(p)) \/ UNCHANGED vars
    <2>1. UNCHANGED <<jobs, total, generation, gens, tasks, finishing>>
      BY <1>10 DEF FileDeleted, RetryFailed, resetVars, pluginVars, stateVars, vars
    <2>2. QED
      BY <1>5, <2>1
  <1>11. ASSUME NEW q \in Paths, NEW h \in Hashes,
                FileAdded(q, h) \/ FileChanged(q, h) \/ \E old \in Paths : FileRenamed(old, q, h)
         PROVE  Enter(q, h) /\ total' = total
    BY <1>11 DEF FileAdded, FileChanged, FileRenamed, Enter
  <1>12. QED
    BY <1>4, <1>6, <1>7, <1>8, <1>9, <1>10, <1>11 DEF Next, Event


-----------------------------------------------------------------------------
(* The theorems. *)

PipelineInv ==
    TypeInv /\ LightOwned /\ UndisturbedInv /\ GenerationSound /\ CountInv /\ OnceInv

\* The invariants hold at the start and every step keeps them.
LEMMA PipelineInductive ==
    /\ Init => PipelineInv
    /\ PipelineInv /\ [Next]_vars => PipelineInv'
  <1>1. ASSUME Init
        PROVE  PipelineInv
    <2> USE <1>1
    <2>1. TypeInv
      BY TypeInductive
    <2>2. LightOwned /\ UndisturbedInv
      BY DEF Init, LightOwned, UndisturbedInv, NoPlugins
    <2>3. GenerationSound
      BY PipelineAssumption DEF Init, GenerationSound, Current, Ids, NoEntry, PipelineAssumption
    <2>4. CountInv
      <3>1. Validated = {} /\ FastAhead = {}
        BY DEF Init, Validated, FastAhead, ThisGeneration, Ids
      <3>2. Cardinality(Validated) = 0 /\ Cardinality(FastAhead) = 0
        BY <3>1, FS_EmptySet
      <3>3. counts.validated = 0 /\ counts.filtered = 0 /\ counts.fast = 0
        BY DEF Init
      <3>4. /\ counts.validated + counts.filtered <= Cardinality(Validated)
            /\ counts.fast + Cardinality(FastAhead) <= counts.validated
        BY <3>2, <3>3
      <3>5. QED
        BY <3>4 DEF CountInv, Validated, FastAhead
    <2>5. OnceInv
      <3>1. ~(0 > 0) /\ \A p \in Paths, h \in Hashes : finishing[p][h] = 0
        BY DEF Init
      <3>2. tasks = {} /\ total = 0 /\ Settled = {}
        BY DEF Init, Settled, Ids
      <3>3. Cardinality(Settled) = 0
        BY <3>2, FS_EmptySet
      <3>4. total <= Cardinality(Settled)
        BY <3>2, <3>3
      <3>5. QED
        BY <3>1, <3>2, <3>4 DEF OnceInv, Dispatched, Settled
    <2>6. QED
      BY <2>1, <2>2, <2>3, <2>4, <2>5 DEF PipelineInv
  <1>2. ASSUME PipelineInv, [Next]_vars
        PROVE  PipelineInv'
    BY <1>2, TypeInductive, LightOwnedStep, UndisturbedStep, GenerationStep, CountStep,
       OnceStep DEF PipelineInv
  <1>3. QED
    BY <1>1, <1>2

\* The invariant holds in every state.
LEMMA PipelineInvariant == Spec => []PipelineInv
  BY PipelineInductive, PTL DEF Spec

\* The three queues hold exactly the jobs that wait at their stage, each once, and every
\* other part of the state keeps its type.
THEOREM PipelineTypeCorrect == Spec => []TypeOK
  <1>1. PipelineInv => TypeOK
    BY DEF PipelineInv, TypeInv
  <1>2. QED
    BY <1>1, PipelineInvariant, PTL

\* A path shown in the light stage has a light phase running.
THEOREM PipelineLightOwned == Spec => []LightOwned
  <1>1. PipelineInv => LightOwned
    BY DEF PipelineInv
  <1>2. QED
    BY <1>1, PipelineInvariant, PTL

\* A file shown as done has no plugin task left, unless its last event came while an
\* earlier one was still being dealt with.
THEOREM PipelineDoneMeansOver == Spec => []DoneMeansOver
  <1>1. PipelineInv => DoneMeansOver
    BY DEF PipelineInv, UndisturbedInv, PathInv, DoneSound, Dispatched, DoneMeansOver
  <1>2. QED
    BY <1>1, PipelineInvariant, PTL

\* A file in the hash stage has a plugin task, a job or a handler that takes it out.
THEOREM PipelineHashStageClaimed == Spec => []HashStageClaimed
  <1>1. PipelineInv => HashStageClaimed
    BY DEF PipelineInv, UndisturbedInv, PathInv, Claimed, HashStageClaimed
  <1>2. QED
    BY <1>1, PipelineInvariant, PTL

\* No file is counted twice in totalProcessedCount when each path had one event.
THEOREM PipelineCompletedOnce == Spec => []CompletedOnce
  <1>1. ASSUME PipelineInv, OneEventEach
        PROVE  total <= Len(jobs)
    <2>1. jobs \in Seq(Job) /\ total \in Nat
      BY <1>1 DEF PipelineInv, TypeInv, TypeOK
    <2>2. total <= Cardinality(Settled)
      BY <1>1 DEF PipelineInv, OnceInv, Settled
    <2>3. Cardinality(Settled) \in Nat /\ Cardinality(Settled) <= Len(jobs)
      BY <2>1, JobsFinite DEF Settled
    <2>4. QED
      BY <2>1, <2>2, <2>3, LenProperties
  <1>2. PipelineInv => CompletedOnce
    BY <1>1 DEF CompletedOnce, OneEventEach
  <1>3. QED
    BY <1>2, PipelineInvariant, PTL

\* The counters are of this generation and in the order of the stages.
THEOREM PipelineCountersOrdered == Spec => []CountersOrdered
  <1>1. ASSUME PipelineInv
        PROVE  CountersOrdered
    <2>1. /\ jobs \in Seq(Job)
          /\ counts.validated \in Nat /\ counts.filtered \in Nat /\ counts.fast \in Nat
      BY <1>1 DEF PipelineInv, TypeInv, TypeOK
    <2>2. /\ IsFiniteSet(ThisGeneration) /\ Cardinality(ThisGeneration) \in Nat
          /\ Validated \subseteq ThisGeneration
          /\ Cardinality(FastAhead) \in Nat /\ Cardinality(Validated) \in Nat
      BY <2>1, JobsFinite DEF Validated, FastAhead, ThisGeneration
    <2>3. Cardinality(Validated) <= Cardinality(ThisGeneration)
      BY <2>2, FS_Subset
    <2>4. /\ counts.validated + counts.filtered <= Cardinality(Validated)
          /\ (\A p \in Paths : ~ReAdded(p)) =>
                 counts.fast + Cardinality(FastAhead) <= counts.validated
      BY <1>1 DEF PipelineInv, CountInv, Validated, FastAhead
    <2>5. QED
      BY <2>1, <2>2, <2>3, <2>4 DEF CountersOrdered
  <1>2. QED
    BY <1>1, PipelineInvariant, PTL
=============================================================================
