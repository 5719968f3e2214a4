---------------------------- MODULE SlotGateProofs ----------------------------
(***************************************************************************)
(* What each operation of the gate preserves, for every set of files and   *)
(* every capacity: GateOK when a holder releases its slot after its grant  *)
(* was observed, GateSound whoever releases what and when.                 *)
(* FileSlotGateProofs and the proofs about the scheduler cite these lemmas.*)
(***************************************************************************)
EXTENDS SlotGate, FiniteSetTheorems, SequenceTheorems, TLAPS

\* GateOK without the observation of a grant before its release: a file waits once,
\* for a slot it neither holds nor was granted, and only while every slot is taken.
GateSound(g, files, capacity) ==
    /\ GateTypeOK(g, files)
    /\ WithinCapacity(g, capacity)
    /\ WaitersOnlyWhenFull(g, capacity)
    /\ \A i \in 1..Len(g.waiters) : g.waiters[i] \notin g.holders \cup g.granted
    /\ \A i, j \in 1..Len(g.waiters) : g.waiters[i] = g.waiters[j] => i = j

\* GateOK is GateSound with every grant still held.
LEMMA GateOKSound ==
    ASSUME NEW files, NEW capacity, NEW g
    PROVE  GateOK(g, files, capacity)
               <=> GateSound(g, files, capacity) /\ g.granted \subseteq g.holders
  BY DEF GateOK, GateSound, InOnePlace

\* The empty gate satisfies the invariant.
LEMMA EmptyGateOK ==
    ASSUME NEW files, NEW capacity \in Nat \ {0}
    PROVE  GateOK(EmptyGate, files, capacity)
  BY FS_EmptySet, EmptySeq
  DEF GateOK, GateTypeOK, WithinCapacity, WaitersOnlyWhenFull, InOnePlace, EmptyGate

\* acquire() by a file that neither holds a slot, nor waits, nor was granted one
\* (FileSlotGate.ts:37-48).
LEMMA AcquiredSound ==
    ASSUME NEW files, NEW capacity \in Nat \ {0}, NEW g, NEW f \in files,
           GateSound(g, files, capacity), ~Holds(g, f), ~Waits(g, f), f \notin g.granted
    PROVE  GateSound(Acquired(g, f, capacity), files, capacity)
  <1> DEFINE h == Acquired(g, f, capacity)
  <1> USE DEF GateSound, GateTypeOK, WithinCapacity, WaitersOnlyWhenFull, Holds, Waits
  <1>1. Cardinality(g.holders) \in Nat
    BY FS_CardinalityType
  <1>2. CASE Cardinality(g.holders) < capacity
    <2>1. /\ h.holders = g.holders \cup {f}
          /\ h.granted = g.granted \cup {f}
          /\ h.waiters = g.waiters
          /\ GateTypeOK(h, files)
      BY <1>2 DEF Acquired
    <2>2. g.waiters = <<>>
      BY <1>1, <1>2
    <2>3. /\ IsFiniteSet(g.holders \cup {f})
          /\ Cardinality(g.holders \cup {f}) = Cardinality(g.holders) + 1
      BY FS_AddElement
    <2>4. WithinCapacity(h, capacity)
      BY <1>1, <1>2, <2>1, <2>3
    <2>5. QED
      BY <2>1, <2>2, <2>4, EmptySeq
  <1>3. CASE ~(Cardinality(g.holders) < capacity)
    <2>1. /\ h.holders = g.holders
          /\ h.granted = g.granted
          /\ h.waiters = Append(g.waiters, f)
      BY <1>3 DEF Acquired
    <2>2. GateTypeOK(h, files)
      BY <1>3, AppendProperties DEF Acquired
    <2>3. Cardinality(h.holders) = capacity
      BY <1>1, <1>3, <2>1
    <2>4. /\ Len(h.waiters) = Len(g.waiters) + 1
          /\ Len(g.waiters) \in Nat
          /\ \A i \in 1..Len(g.waiters) : h.waiters[i] = g.waiters[i]
          /\ h.waiters[Len(g.waiters) + 1] = f
      BY <2>1, AppendProperties, LenProperties
    <2>5. /\ \A i \in 1..Len(h.waiters) : h.waiters[i] \notin h.holders \cup h.granted
          /\ \A i, j \in 1..Len(h.waiters) : h.waiters[i] = h.waiters[j] => i = j
      BY <2>1, <2>4
    <2>6. QED
      BY <2>1, <2>2, <2>3, <2>5
  <1>4. QED
    BY <1>2, <1>3

\* The same while every grant is held.
LEMMA AcquiredOK ==
    ASSUME NEW files, NEW capacity \in Nat \ {0}, NEW g, NEW f \in files,
           GateOK(g, files, capacity), ~Holds(g, f), ~Waits(g, f)
    PROVE  GateOK(Acquired(g, f, capacity), files, capacity)
  <1> DEFINE h == Acquired(g, f, capacity)
  <1>1. GateSound(g, files, capacity) /\ g.granted \subseteq g.holders
    BY GateOKSound
  <1>2. GateSound(h, files, capacity)
    BY <1>1, AcquiredSound DEF Holds
  <1>3. h.granted \subseteq h.holders
    BY <1>1 DEF Acquired, GateSound, GateTypeOK
  <1>4. QED
    BY <1>2, <1>3, GateOKSound

\* release() by anyone (FileSlotGate.ts:54-64).
LEMMA ReleasedSound ==
    ASSUME NEW files, NEW capacity \in Nat \ {0}, NEW g, NEW f \in files,
           GateSound(g, files, capacity)
    PROVE  GateSound(Released(g, f), files, capacity)
  <1> DEFINE h == Released(g, f)
  <1> USE DEF GateSound, GateTypeOK, WithinCapacity, WaitersOnlyWhenFull, Holds
  <1>1. Cardinality(g.holders) \in Nat
    BY FS_CardinalityType
  <1>2. CASE ~Holds(g, f)
    BY <1>2 DEF Released
  <1>3. CASE Holds(g, f) /\ g.waiters = <<>>
    <2>1. /\ h.holders = g.holders \ {f}
          /\ h.granted = g.granted
          /\ h.waiters = g.waiters
          /\ GateTypeOK(h, files)
      BY <1>3 DEF Released
    <2>2. /\ IsFiniteSet(g.holders \ {f})
          /\ Cardinality(g.holders \ {f}) = Cardinality(g.holders) - 1
      BY <1>3, FS_RemoveElement
    <2>3. WithinCapacity(h, capacity)
      BY <1>1, <2>1, <2>2
    <2>4. QED
      BY <1>3, <2>1, <2>3, EmptySeq
  <1>4. CASE Holds(g, f) /\ g.waiters # <<>>
    <2> DEFINE w == Head(g.waiters)
    <2>1. /\ h.holders = (g.holders \ {f}) \cup {w}
          /\ h.granted = g.granted \cup {w}
          /\ h.waiters = Tail(g.waiters)
      BY <1>4 DEF Released
    <2>2. /\ w \in files
          /\ w = g.waiters[1]
          /\ Len(g.waiters) \in Nat \ {0}
          /\ Tail(g.waiters) \in Seq(files)
          /\ Len(Tail(g.waiters)) = Len(g.waiters) - 1
          /\ \A i \in 1..Len(Tail(g.waiters)) : Tail(g.waiters)[i] = g.waiters[i + 1]
      BY <1>4, HeadTailProperties, EmptySeq
    <2>3. GateTypeOK(h, files)
      BY <1>4, <2>2 DEF Released
    <2>4. w \notin g.holders
      BY <2>2
    <2>5. /\ IsFiniteSet(g.holders \ {f})
          /\ Cardinality(g.holders \ {f}) = Cardinality(g.holders) - 1
      BY <1>4, FS_RemoveElement
    <2>6. /\ IsFiniteSet(h.holders)
          /\ Cardinality(h.holders) = Cardinality(g.holders)
      <3>1. w \notin g.holders \ {f}
        BY <2>4
      <3>2. /\ IsFiniteSet((g.holders \ {f}) \cup {w})
            /\ Cardinality((g.holders \ {f}) \cup {w}) = Cardinality(g.holders \ {f}) + 1
        BY <2>5, <3>1, FS_AddElement
      <3>3. QED
        BY <1>1, <2>1, <2>5, <3>2
    <2>7. Cardinality(g.holders) = capacity
      BY <1>4
    <2>8. \A i \in 1..Len(h.waiters) : h.waiters[i] \notin h.holders \cup h.granted
      <3> SUFFICES ASSUME NEW i \in 1..Len(h.waiters)
                   PROVE  h.waiters[i] \notin h.holders \cup h.granted
        OBVIOUS
      <3>1. /\ i + 1 \in 1..Len(g.waiters)
            /\ h.waiters[i] = g.waiters[i + 1]
            /\ i + 1 # 1
        BY <2>1, <2>2
      <3>2. g.waiters[i + 1] # w /\ 1 \in 1..Len(g.waiters)
        BY <2>2, <3>1
      <3>3. g.waiters[i + 1] \notin g.holders \cup g.granted
        BY <3>1
      <3>4. QED
        BY <2>1, <3>1, <3>2, <3>3
    <2>9. \A i, j \in 1..Len(h.waiters) : h.waiters[i] = h.waiters[j] => i = j
      BY <2>1, <2>2
    <2>10. QED
      BY <2>3, <2>6, <2>7, <2>8, <2>9
  <1>5. QED
    BY <1>2, <1>3, <1>4

\* release() of a slot whose grant was observed.
LEMMA ReleasedOK ==
    ASSUME NEW files, NEW capacity \in Nat \ {0}, NEW g, NEW f \in files,
           GateOK(g, files, capacity), f \notin g.granted
    PROVE  GateOK(Released(g, f), files, capacity)
  <1> DEFINE h == Released(g, f)
  <1>1. GateSound(g, files, capacity) /\ g.granted \subseteq g.holders
    BY GateOKSound
  <1>2. GateSound(h, files, capacity)
    BY <1>1, ReleasedSound
  <1>3. h.granted \subseteq h.holders
    BY <1>1 DEF Released, GateSound, GateTypeOK
  <1>4. QED
    BY <1>2, <1>3, GateOKSound

\* The continuation of a grant starts: only the set of pending grants shrinks.
LEMMA ObservedSound ==
    ASSUME NEW files, NEW capacity \in Nat \ {0}, NEW g, NEW f,
           GateSound(g, files, capacity)
    PROVE  GateSound(Observed(g, f), files, capacity)
  BY DEF GateSound, GateTypeOK, WithinCapacity, WaitersOnlyWhenFull, Observed

\* The same while every grant is held.
LEMMA ObservedOK ==
    ASSUME NEW files, NEW capacity \in Nat \ {0}, NEW g, NEW f,
           GateOK(g, files, capacity)
    PROVE  GateOK(Observed(g, f), files, capacity)
  BY DEF GateOK, GateTypeOK, WithinCapacity, WaitersOnlyWhenFull, InOnePlace, Observed

\* acquire() puts the file among those that wait or were just granted a slot, and
\* moves no other file.
LEMMA AcquiredMoves ==
    ASSUME NEW files, NEW capacity \in Nat \ {0}, NEW g, NEW f \in files,
           GateTypeOK(g, files), NEW h, h = Acquired(g, f, capacity)
    PROVE  /\ g.holders \subseteq h.holders /\ h.holders \subseteq g.holders \cup {f}
           /\ \A x : Waits(h, x) \/ x \in h.granted
                      <=> Waits(g, x) \/ x \in g.granted \/ x = f
  <1>1. CASE Holds(g, f) \/ Cardinality(g.holders) < capacity
    <2>1. /\ h.holders = g.holders \cup {f}
          /\ h.granted = g.granted \cup {f}
          /\ h.waiters = g.waiters
      BY <1>1 DEF Acquired, GateTypeOK
    <2>2. QED
      BY <2>1 DEF Waits
  <1>2. CASE ~(Holds(g, f) \/ Cardinality(g.holders) < capacity)
    <2>1. /\ h.holders = g.holders
          /\ h.granted = g.granted
          /\ h.waiters = Append(g.waiters, f)
      BY <1>2 DEF Acquired, GateTypeOK
    <2>2. /\ Len(h.waiters) = Len(g.waiters) + 1
          /\ Len(g.waiters) \in Nat
          /\ \A i \in 1..Len(g.waiters) : h.waiters[i] = g.waiters[i]
          /\ h.waiters[Len(g.waiters) + 1] = f
      BY <2>1, AppendProperties, LenProperties DEF GateTypeOK
    <2>3. \A x : Waits(h, x) <=> (Waits(g, x) \/ x = f)
      BY <2>2 DEF Waits
    <2>4. QED
      BY <2>1, <2>3
  <1>3. QED
    BY <1>1, <1>2

\* release() by a holder takes its slot away, gives one to no file but a waiting
\* one, and keeps whoever waits or was granted a slot among those.
LEMMA ReleasedMoves ==
    ASSUME NEW files, NEW capacity \in Nat \ {0}, NEW g, NEW f \in files,
           GateTypeOK(g, files), Holds(g, f), NEW h, h = Released(g, f)
    PROVE  /\ g.holders \ {f} \subseteq h.holders
           /\ \A x \in h.holders : x \in g.holders \ {f}
                                    \/ (Waits(g, x) /\ x \in h.granted)
           /\ g.granted \subseteq h.granted
           /\ \A x : Waits(h, x) \/ x \in h.granted
                      <=> Waits(g, x) \/ x \in g.granted
  <1> USE DEF GateTypeOK
  <1>1. CASE g.waiters = <<>>
    <2>1. /\ h.holders = g.holders \ {f}
          /\ h.granted = g.granted
          /\ h.waiters = g.waiters
      BY <1>1 DEF Released
    <2>2. QED
      BY <2>1 DEF Waits
  <1>2. CASE g.waiters # <<>>
    <2> DEFINE w == Head(g.waiters)
    <2>1. /\ h.holders = (g.holders \ {f}) \cup {w}
          /\ h.granted = g.granted \cup {w}
          /\ h.waiters = Tail(g.waiters)
      BY <1>2 DEF Released
    <2>2. /\ w = g.waiters[1]
          /\ Len(g.waiters) \in Nat \ {0}
          /\ Len(Tail(g.waiters)) = Len(g.waiters) - 1
          /\ \A i \in 1..Len(Tail(g.waiters)) : Tail(g.waiters)[i] = g.waiters[i + 1]
      BY <1>2, HeadTailProperties, EmptySeq
    <2>3. Waits(g, w)
      BY <2>2 DEF Waits
    <2>4. ASSUME NEW x, Waits(g, x)
          PROVE  Waits(h, x) \/ x = w
      <3>1. PICK i \in 1..Len(g.waiters) : g.waiters[i] = x
        BY <2>4 DEF Waits
      <3>2. CASE i = 1
        BY <2>2, <3>1, <3>2
      <3>3. CASE i # 1
        <4>1. i - 1 \in 1..Len(Tail(g.waiters)) /\ Tail(g.waiters)[i - 1] = x
          BY <2>2, <3>1, <3>3
        <4>2. QED
          BY <2>1, <4>1 DEF Waits
      <3>4. QED
        BY <3>2, <3>3
    <2>5. ASSUME NEW x, Waits(h, x)
          PROVE  Waits(g, x)
      <3>1. PICK i \in 1..Len(Tail(g.waiters)) : Tail(g.waiters)[i] = x
        BY <2>1, <2>5 DEF Waits
      <3>2. i + 1 \in 1..Len(g.waiters) /\ g.waiters[i + 1] = x
        BY <2>2, <3>1
      <3>3. QED
        BY <3>2 DEF Waits
    <2>6. QED
      BY <2>1, <2>3, <2>4, <2>5
  <1>3. QED
    BY <1>1, <1>2


\* Nobody is overtaken by a file that asks: while somebody waits it joins the line.
LEMMA AcquiredInOrder ==
    ASSUME NEW files, NEW capacity \in Nat \ {0}, NEW g, NEW f \in files,
           GateSound(g, files, capacity)
    PROVE  NobodyOvertakes(g, Acquired(g, f, capacity))
  <1> DEFINE h == Acquired(g, f, capacity)
  <1> SUFFICES ASSUME NEW j \in 1..Len(g.waiters)
               PROVE  h.holders = g.holders
    BY DEF NobodyOvertakes
  <1>1. /\ g \in [holders : SUBSET files, waiters : Seq(files), granted : SUBSET files]
        /\ g.waiters # <<>>
    BY EmptySeq DEF GateSound, GateTypeOK
  <1>2. Cardinality(g.holders) = capacity
    BY <1>1 DEF GateSound, WaitersOnlyWhenFull
  <1>3. ~(Cardinality(g.holders) < capacity)
    BY <1>2
  <1>4. CASE Holds(g, f)
    BY <1>1, <1>4 DEF Acquired, Holds
  <1>5. CASE ~Holds(g, f)
    BY <1>1, <1>3, <1>5 DEF Acquired
  <1>6. QED
    BY <1>4, <1>5

\* Nor when a slot is given back: it passes to the first in line.
LEMMA ReleasedInOrder ==
    ASSUME NEW files, NEW g, GateTypeOK(g, files), NEW f
    PROVE  NobodyOvertakes(g, Released(g, f))
  <1> DEFINE h == Released(g, f)
  <1> SUFFICES ASSUME NEW j \in 1..Len(g.waiters), NEW x \in h.holders \ g.holders,
                      x # g.waiters[j]
               PROVE  \E i \in 1..Len(g.waiters) : i < j /\ g.waiters[i] = x
    BY DEF NobodyOvertakes
  <1>1. /\ g \in [holders : SUBSET files, waiters : Seq(files), granted : SUBSET files]
        /\ g.waiters # <<>> /\ Len(g.waiters) \in Nat
    BY EmptySeq DEF GateTypeOK
  <1>2. x = Head(g.waiters)
    BY <1>1 DEF Released
  <1>3. x = g.waiters[1]
    BY <1>1, <1>2
  <1>4. QED
    BY <1>1, <1>3

\* What leaves the line alone and gives no slot overtakes nobody.
LEMMA NoSlotInOrder ==
    ASSUME NEW g, NEW h, h.holders \subseteq g.holders
    PROVE  NobodyOvertakes(g, h)
  BY DEF NobodyOvertakes

\* The gate seen from outside: the files that ask, a grant nobody observed yet
\* included, and those that know that they are in.
AskingAt(g, files) == g.granted \cup {f \in files : Waits(g, f)}
InsideOf(g) == g.holders \ g.granted

\* acquire() makes a file ask that is neither in nor asking.
LEMMA AcquiredAsks ==
    ASSUME NEW files, NEW capacity \in Nat \ {0}, NEW g, NEW f \in files,
           GateOK(g, files, capacity), ~Holds(g, f), ~Waits(g, f),
           NEW h, h = Acquired(g, f, capacity)
    PROVE  /\ f \notin AskingAt(g, files) \cup InsideOf(g)
           /\ AskingAt(h, files) = AskingAt(g, files) \cup {f}
           /\ InsideOf(h) = InsideOf(g)
  <1>1. GateTypeOK(g, files) /\ g.granted \subseteq g.holders
    BY DEF GateOK, InOnePlace
  <1>2. \A x : Waits(h, x) \/ x \in h.granted <=> Waits(g, x) \/ x \in g.granted \/ x = f
    BY <1>1, AcquiredMoves
  <1>3. \/ h.holders = g.holders /\ h.granted = g.granted
        \/ h.holders = g.holders \cup {f} /\ h.granted = g.granted \cup {f}
    BY <1>1 DEF Acquired, GateTypeOK
  <1>4. g.granted \subseteq files /\ h.granted \subseteq files
    BY <1>1, <1>3 DEF GateTypeOK
  <1>5. AskingAt(h, files) = AskingAt(g, files) \cup {f}
    BY <1>2, <1>4 DEF AskingAt
  <1>6. QED
    BY <1>1, <1>3, <1>5 DEF AskingAt, InsideOf, Holds

\* The continuation of a grant lets a file in that asks, while there is room.
LEMMA ObservedEnters ==
    ASSUME NEW files, NEW capacity \in Nat \ {0}, NEW g, NEW f \in g.granted,
           GateOK(g, files, capacity), NEW h, h = Observed(g, f)
    PROVE  /\ f \in AskingAt(g, files) /\ Cardinality(InsideOf(g)) < capacity
           /\ AskingAt(h, files) = AskingAt(g, files) \ {f}
           /\ InsideOf(h) = InsideOf(g) \cup {f}
  <1>1. GateTypeOK(g, files) /\ WithinCapacity(g, capacity) /\ InOnePlace(g)
    BY DEF GateOK
  <1>2. h.holders = g.holders /\ h.granted = g.granted \ {f} /\ h.waiters = g.waiters
    BY <1>1 DEF Observed, GateTypeOK
  <1>3. f \in g.holders /\ ~Waits(g, f)
    BY <1>1 DEF InOnePlace, Waits
  <1>4. Cardinality(InsideOf(g)) < capacity
    <2>1. IsFiniteSet(g.holders) /\ Cardinality(g.holders) <= capacity
      BY <1>1 DEF WithinCapacity
    <2>2. /\ IsFiniteSet(g.holders \ {f})
          /\ Cardinality(g.holders \ {f}) = Cardinality(g.holders) - 1
      BY <1>3, <2>1, FS_RemoveElement
    <2>3. InsideOf(g) \subseteq g.holders \ {f}
      BY DEF InsideOf
    <2>4. IsFiniteSet(InsideOf(g)) /\ Cardinality(InsideOf(g)) <= Cardinality(g.holders \ {f})
      BY <2>2, <2>3, FS_Subset
    <2>5. Cardinality(g.holders) \in Nat /\ Cardinality(InsideOf(g)) \in Nat
      BY <2>1, <2>4, FS_CardinalityType
    <2>6. QED
      BY <2>1, <2>2, <2>4, <2>5
  <1>5. QED
    BY <1>2, <1>3, <1>4 DEF AskingAt, InsideOf, Waits

\* release() by a file that is in lets it out and no other in.
LEMMA ReleasedLeaves ==
    ASSUME NEW files, NEW capacity \in Nat \ {0}, NEW g, NEW f \in files,
           GateOK(g, files, capacity), Holds(g, f), f \notin g.granted,
           NEW h, h = Released(g, f)
    PROVE  /\ f \in InsideOf(g)
           /\ AskingAt(h, files) = AskingAt(g, files)
           /\ InsideOf(h) = InsideOf(g) \ {f}
  <1>1. GateTypeOK(g, files) /\ InOnePlace(g)
    BY DEF GateOK
  <1>2. /\ g.holders \ {f} \subseteq h.holders
        /\ \A x \in h.holders : x \in g.holders \ {f} \/ (Waits(g, x) /\ x \in h.granted)
        /\ g.granted \subseteq h.granted
        /\ \A x : Waits(h, x) \/ x \in h.granted <=> Waits(g, x) \/ x \in g.granted
    BY <1>1, ReleasedMoves
  <1>3. \A x : Waits(g, x) => x \notin g.holders
    BY <1>1 DEF InOnePlace, Waits
  <1>4. h.granted \subseteq files /\ g.granted \subseteq files
    BY <1>1, ReleasedOK DEF GateOK, GateTypeOK
  <1>5. AskingAt(h, files) = AskingAt(g, files)
    BY <1>2, <1>4 DEF AskingAt
  <1>6. InsideOf(h) = InsideOf(g) \ {f}
    BY <1>2, <1>3 DEF InsideOf
  <1>7. QED
    BY <1>5, <1>6 DEF InsideOf, Holds
=============================================================================
