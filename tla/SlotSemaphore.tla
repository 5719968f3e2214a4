---------------------------- MODULE SlotSemaphore ----------------------------
(***************************************************************************)
(* What a phase of the scheduler promises about files: a file asks to be   *)
(* let in, at most Capacity files are inside at a time, and a file leaves  *)
(* when its last task of the phase has ended.  FileSlotGate implements it. *)
(***************************************************************************)
EXTENDS Naturals, FiniteSets

CONSTANTS Files,     \* file hashes
          Capacity   \* files that may be inside at once

VARIABLES asking,    \* files that asked and were not let in yet
          inside     \* files let in

vars == <<asking, inside>>

Init == asking = {} /\ inside = {}

Ask(f) ==
    /\ f \notin asking \cup inside
    /\ asking' = asking \cup {f}
    /\ UNCHANGED inside

Enter(f) ==
    /\ f \in asking
    /\ Cardinality(inside) < Capacity
    /\ asking' = asking \ {f}
    /\ inside' = inside \cup {f}

Leave(f) ==
    /\ f \in inside
    /\ inside' = inside \ {f}
    /\ UNCHANGED asking

Next == \E f \in Files : Ask(f) \/ Enter(f) \/ Leave(f)

Spec == Init /\ [][Next]_vars

\* Whoever asks is let in, as long as those inside leave: the promise of
\* "queues FIFO" (FileSlotGate.ts:14-15) that no file is starved.
Admission == \A f \in Files : (f \in asking) ~> (f \in inside)
=============================================================================
