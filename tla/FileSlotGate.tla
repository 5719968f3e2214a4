----------------------------- MODULE FileSlotGate -----------------------------
(***************************************************************************)
(* One FileSlotGate and the callers it has in ContainerPluginScheduler: a  *)
(* file acquires only while it neither holds a slot nor waits for one      *)
(* (enqueueTask, lines 325-340) and releases after its grant was observed  *)
(* (onTaskFinished, line 385).                                             *)
(***************************************************************************)
EXTENDS SlotGate

CONSTANTS Files, Capacity

\* The constructor throws on anything but a positive capacity.
ASSUME GateAssumption == Capacity \in Nat \ {0}

VARIABLE gate

vars == <<gate>>

Init == gate = EmptyGate

Acquire(f) ==
    /\ ~Holds(gate, f) /\ ~Waits(gate, f)
    /\ gate' = Acquired(gate, f, Capacity)

Observe(f) ==
    /\ f \in gate.granted
    /\ gate' = Observed(gate, f)

Release(f) ==
    /\ Holds(gate, f) /\ f \notin gate.granted
    /\ gate' = Released(gate, f)

Next == \E f \in Files : Acquire(f) \/ Observe(f) \/ Release(f)

Spec == Init /\ [][Next]_vars

\* A resolved promise runs its continuation, and a file whose last task ends
\* releases: both are steps the callers always take.  Asking is not fair.
Fairness == \A f \in Files : WF_vars(Observe(f)) /\ WF_vars(Release(f))

FairSpec == Spec /\ Fairness
-----------------------------------------------------------------------------
TypeOK == GateTypeOK(gate, Files)

\* "The gate caps the number of files" (FileSlotGate.ts:7): a grant handed over
\* by release() never raises the number of holders above the capacity.
CapacityBound == WithinCapacity(gate, Capacity)

\* No lost wake-up: a file is left waiting only while every slot is taken, so
\* the release that will wake it is still to come.
NoLostWakeUp == WaitersOnlyWhenFull(gate, Capacity)

\* A file is in one place at a time: it never waits for a slot it holds, and it
\* never stands in the line twice ("holds at most one slot", FileSlotGate.ts:12).
OnePlace == InOnePlace(gate)

\* The conjunction is inductive; each part needs the others.
GateInv == TypeOK /\ CapacityBound /\ NoLostWakeUp /\ OnePlace

\* The gate implements the semaphore: a file is inside from the moment its
\* caller learns of the grant until it releases.
Semaphore == INSTANCE SlotSemaphore
    WITH inside <- gate.holders \ gate.granted,
         asking <- gate.granted \cup {f \in Files : Waits(gate, f)}

\* acquire/release steps are steps of the abstract semaphore or invisible to it.
ImplementsSemaphore == Semaphore!Spec

\* Every file that asks is eventually let in (FIFO order, FileSlotGate.ts:14-15).
EveryoneAdmitted == Semaphore!Admission

\* "queues FIFO" (FileSlotGate.ts:15): whoever waits is only ever overtaken by
\* files that stood before it, and the line moves only by its head.
FirstComeFirstServed == [][NobodyOvertakes(gate, gate')]_vars
=============================================================================
