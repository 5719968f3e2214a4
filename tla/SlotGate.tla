------------------------------- MODULE SlotGate -------------------------------
(***************************************************************************)
(* The operations of class FileSlotGate (container-plugins/FileSlotGate.ts)*)
(* as functions of the gate's state:                                       *)
(*   holders  the Set of files that hold a slot                            *)
(*   waiters  the FIFO array of files whose acquire() has not resolved     *)
(*   granted  files whose acquire() promise is resolved and whose ".then"  *)
(*            continuation has not run yet (it is a queued microtask)      *)
(* The capacity is an argument, so that one definition serves both gates.  *)
(*                                                                         *)
(* The definitions named Mutant... are not the code's: each is a plausible *)
(* mistake in the definition it precedes, kept to show that a property     *)
(* notices it.                                                             *)
(***************************************************************************)
EXTENDS Naturals, Sequences, FiniteSets

EmptyGate == [holders |-> {}, waiters |-> <<>>, granted |-> {}]

Holds(g, f) == f \in g.holders

Waits(g, f) == \E i \in 1..Len(g.waiters) : g.waiters[i] = f

MutantOneTooMany(g, f, capacity) ==
    IF Holds(g, f) \/ Cardinality(g.holders) <= capacity
    THEN [g EXCEPT !.holders = @ \cup {f}, !.granted = @ \cup {f}]
    ELSE [g EXCEPT !.waiters = Append(@, f)]

\* acquire(): re-entrant for a holder, immediate while there is room, FIFO else.
Acquired(g, f, capacity) ==
    IF Holds(g, f) \/ Cardinality(g.holders) < capacity
    THEN [g EXCEPT !.holders = @ \cup {f}, !.granted = @ \cup {f}]
    ELSE [g EXCEPT !.waiters = Append(@, f)]

MutantLosesWakeUp(g, f) == [g EXCEPT !.holders = @ \ {f}]

MutantUnresolved(g, f) ==
    IF g.waiters = <<>> THEN [g EXCEPT !.holders = @ \ {f}]
    ELSE [g EXCEPT !.holders = (@ \ {f}) \cup {Head(g.waiters)}, !.waiters = Tail(@)]

MutantStaysInLine(g, f) ==
    IF g.waiters = <<>> THEN [g EXCEPT !.holders = @ \ {f}]
    ELSE [g EXCEPT !.holders = (@ \ {f}) \cup {Head(g.waiters)},
                   !.granted = @ \cup {Head(g.waiters)}]

MutantLastFirst(g, f) ==
    IF g.waiters = <<>> THEN [g EXCEPT !.holders = @ \ {f}]
    ELSE LET h == g.waiters[Len(g.waiters)]
         IN  [holders |-> (g.holders \ {f}) \cup {h},
              waiters |-> SubSeq(g.waiters, 1, Len(g.waiters) - 1),
              granted |-> g.granted \cup {h}]

\* release(): nothing for a file that holds no slot; otherwise the slot passes
\* to the first waiter, whose promise resolves.
Released(g, f) ==
    IF ~Holds(g, f) THEN g
    ELSE IF g.waiters = <<>>
    THEN [g EXCEPT !.holders = @ \ {f}]
    ELSE [holders |-> (g.holders \ {f}) \cup {Head(g.waiters)},
          waiters |-> Tail(g.waiters),
          granted |-> g.granted \cup {Head(g.waiters)}]

\* The ".then" continuation of a resolved acquire() starts to run.
Observed(g, f) == [g EXCEPT !.granted = @ \ {f}]
-----------------------------------------------------------------------------
\* What the callers rely on, in four parts that need each other: the types, ...
GateTypeOK(g, files) ==
    g \in [holders : SUBSET files, waiters : Seq(files), granted : SUBSET files]

\* ... the cap on the number of holders, ...
WithinCapacity(g, capacity) ==
    IsFiniteSet(g.holders) /\ Cardinality(g.holders) <= capacity

\* ... that a file waits only while every slot is taken, ...
WaitersOnlyWhenFull(g, capacity) ==
    g.waiters # <<>> => Cardinality(g.holders) = capacity

\* ... and that a file never waits twice, nor for a slot it holds.
InOnePlace(g) ==
    /\ g.granted \subseteq g.holders
    /\ \A i \in 1..Len(g.waiters) : g.waiters[i] \notin g.holders
    /\ \A i, j \in 1..Len(g.waiters) : g.waiters[i] = g.waiters[j] => i = j

GateOK(g, files, capacity) ==
    /\ GateTypeOK(g, files)
    /\ WithinCapacity(g, capacity)
    /\ WaitersOnlyWhenFull(g, capacity)
    /\ InOnePlace(g)

\* From g to h nobody overtakes: of those left in the line, each is passed only by
\* files that stood before it.
NobodyOvertakes(g, h) ==
    \A j \in 1..Len(g.waiters) : \A x \in h.holders \ g.holders :
        (Waits(h, g.waiters[j]) /\ x # g.waiters[j])
            => \E i \in 1..Len(g.waiters) : i < j /\ g.waiters[i] = x
=============================================================================
