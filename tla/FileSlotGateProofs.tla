-------------------------- MODULE FileSlotGateProofs --------------------------
(***************************************************************************)
(* Theorems about the gate of the files (FileSlotGate), for every set of   *)
(* files and every capacity: GateInv is inductive, and what it says holds  *)
(* of every step; the order of the queue needs no more.  That it           *)
(* implements SlotSemaphore is shown step by step.                         *)
(***************************************************************************)
EXTENDS FileSlotGate, SlotGateProofs

\* The conjunction of the gate's invariants is inductive.
LEMMA GateInvInductive ==
    /\ Init => GateInv
    /\ GateInv /\ [Next]_vars => GateInv'
  <1> USE GateAssumption
  <1>1. GateInv <=> GateOK(gate, Files, Capacity)
    BY DEF GateInv, GateOK, TypeOK, CapacityBound, NoLostWakeUp, OnePlace
  <1>2. Init => GateInv
    BY <1>1, EmptyGateOK DEF Init
  <1>3. ASSUME GateInv, [Next]_vars
        PROVE  GateInv'
    <2>1. GateOK(gate, Files, Capacity)
      BY <1>1, <1>3
    <2>2. ASSUME NEW f \in Files, Acquire(f)
          PROVE  GateOK(gate', Files, Capacity)
      BY <2>1, <2>2, AcquiredOK DEF Acquire
    <2>3. ASSUME NEW f \in Files, Observe(f)
          PROVE  GateOK(gate', Files, Capacity)
      BY <2>1, <2>3, ObservedOK DEF Observe
    <2>4. ASSUME NEW f \in Files, Release(f)
          PROVE  GateOK(gate', Files, Capacity)
      BY <2>1, <2>4, ReleasedOK DEF Release
    <2>5. ASSUME UNCHANGED vars
          PROVE  GateOK(gate', Files, Capacity)
      BY <2>1, <2>5 DEF vars
    <2>6. GateOK(gate', Files, Capacity)
      BY <1>3, <2>2, <2>3, <2>4, <2>5 DEF Next
    <2>7. QED
      BY <2>6 DEF GateInv, GateOK, TypeOK, CapacityBound, NoLostWakeUp, OnePlace
  <1>4. QED
    BY <1>2, <1>3

\* The gate's invariants hold in every reachable state, whatever the set of
\* files and the capacity.
THEOREM GateInvariant == Spec => []GateInv
  BY GateInvInductive, PTL DEF Spec

\* The cap on concurrent files (FileSlotGate.ts:7) as a consequence.
THEOREM GateCapacity == Spec => []CapacityBound
  <1>1. GateInv => CapacityBound
    BY DEF GateInv
  <1>2. QED
    BY <1>1, GateInvariant, PTL

\* No file waits while a slot is free.
THEOREM GateNoLostWakeUp == Spec => []NoLostWakeUp
  <1>1. GateInv => NoLostWakeUp
    BY DEF GateInv
  <1>2. QED
    BY <1>1, GateInvariant, PTL

\* A file is in one place at a time: it holds at most one slot (FileSlotGate.ts:12) and
\* never waits for one it holds.
THEOREM GateOnePlace == Spec => []OnePlace
  <1>1. GateInv => OnePlace
    BY DEF GateInv
  <1>2. QED
    BY <1>1, GateInvariant, PTL

\* The line moves only by its head, so a waiting file is overtaken only by those that
\* stood before it ("queues FIFO", FileSlotGate.ts:15).
THEOREM GateFirstComeFirstServed == Spec => FirstComeFirstServed
  <1>1. ASSUME GateInv, Next
        PROVE  NobodyOvertakes(gate, gate')
    <2>1. GateOK(gate, Files, Capacity)
      BY <1>1 DEF GateInv, GateOK, TypeOK, CapacityBound, NoLostWakeUp, OnePlace
    <2>2. GateSound(gate, Files, Capacity) /\ GateTypeOK(gate, Files)
      BY <2>1, GateOKSound DEF GateSound
    <2>3. ASSUME NEW f \in Files, Acquire(f)
          PROVE  NobodyOvertakes(gate, gate')
      BY <2>2, <2>3, AcquiredInOrder, GateAssumption DEF Acquire
    <2>4. ASSUME NEW f \in Files, Observe(f)
          PROVE  NobodyOvertakes(gate, gate')
      <3>1. gate'.holders = gate.holders
        BY <2>2, <2>4 DEF Observe, Observed, GateTypeOK
      <3>2. QED
        BY <3>1, NoSlotInOrder
    <2>5. ASSUME NEW f \in Files, Release(f)
          PROVE  NobodyOvertakes(gate, gate')
      BY <2>2, <2>5, ReleasedInOrder DEF Release
    <2>6. QED
      BY <1>1, <2>3, <2>4, <2>5 DEF Next
  <1>2. GateInv /\ [Next]_vars => [NobodyOvertakes(gate, gate')]_vars
    BY <1>1
  <1>3. QED
    BY <1>2, GateInvariant, PTL DEF Spec, FirstComeFirstServed

\* The gate implements the abstract semaphore.
THEOREM GateImplementsSemaphore == Spec => ImplementsSemaphore
  <1> USE GateAssumption
  <1>1. Init => Semaphore!Init
    BY EmptySeq DEF Init, Semaphore!Init, EmptyGate, Waits
  <1>2. ASSUME GateInv, [Next]_vars
        PROVE  [Semaphore!Next]_(Semaphore!vars)
    <2>1. GateOK(gate, Files, Capacity)
      BY <1>2 DEF GateInv, GateOK, TypeOK, CapacityBound, NoLostWakeUp, OnePlace
    <2>2. ASSUME NEW f \in Files, Acquire(f)
          PROVE  Semaphore!Ask(f)
      <3>1. /\ f \notin AskingAt(gate, Files) \cup InsideOf(gate)
            /\ AskingAt(gate', Files) = AskingAt(gate, Files) \cup {f}
            /\ InsideOf(gate') = InsideOf(gate)
        BY <2>1, <2>2, AcquiredAsks DEF Acquire
      <3>2. QED
        BY <3>1 DEF Semaphore!Ask, AskingAt, InsideOf
    <2>3. ASSUME NEW f \in Files, Observe(f)
          PROVE  Semaphore!Enter(f)
      <3>1. /\ f \in AskingAt(gate, Files) /\ Cardinality(InsideOf(gate)) < Capacity
            /\ AskingAt(gate', Files) = AskingAt(gate, Files) \ {f}
            /\ InsideOf(gate') = InsideOf(gate) \cup {f}
        BY <2>1, <2>3, ObservedEnters DEF Observe
      <3>2. \A S : Semaphore!Cardinality(S) = Cardinality(S)
        BY DEF Semaphore!Cardinality, Cardinality
      <3>3. QED
        BY <3>1, <3>2 DEF Semaphore!Enter, AskingAt, InsideOf
    <2>4. ASSUME NEW f \in Files, Release(f)
          PROVE  Semaphore!Leave(f)
      <3>1. /\ f \in InsideOf(gate)
            /\ AskingAt(gate', Files) = AskingAt(gate, Files)
            /\ InsideOf(gate') = InsideOf(gate) \ {f}
        BY <2>1, <2>4, ReleasedLeaves DEF Release
      <3>2. QED
        BY <3>1 DEF Semaphore!Leave, AskingAt, InsideOf
    <2>5. CASE UNCHANGED vars
      BY <2>5 DEF vars, Semaphore!vars, Waits
    <2>6. QED
      BY <1>2, <2>2, <2>3, <2>4, <2>5 DEF Next, Semaphore!Next
  <1>3. QED
    BY <1>1, <1>2, GateInvariant, PTL DEF Spec, ImplementsSemaphore, Semaphore!Spec
=============================================================================
