------------------------------- MODULE EventLog -------------------------------
(***************************************************************************)
(* What an event stream with a saved place promises its reader             *)
(* (events/SSEEventClient.ts:9-20): events are handed on in the order of   *)
(* the log; between two of them none is left out but what no longer can be *)
(* handed on, because it was trimmed (a gap) or is illegible; a restart    *)
(* goes back to a place saved before, never ahead of what was handed on.   *)
(* A reader without a place starts anywhere: the first one, one whose      *)
(* saved place is gone, and one that could not read it.                    *)
(***************************************************************************)
EXTENDS Naturals, Sequences

CONSTANT Legible      \* the kinds of event a reader can parse

VARIABLES log,        \* the kinds of the events published so far
          trimmed,    \* how many of them, from the first, are kept no more
          place,      \* the last event handed on; 0: none since a blind start
          saved,      \* the place a restart goes back to; 0: none
          unread      \* since its restart the reader goes without the saved place

vars == <<log, trimmed, place, saved, unread>>

Init == log = <<>> /\ trimmed = 0 /\ place = 0 /\ saved = 0 /\ unread = FALSE

Publish == \E k \in Legible \cup {"garbled"} :
               log' = Append(log, k) /\ UNCHANGED <<trimmed, place, saved, unread>>

Trim ==
    /\ trimmed < Len(log)
    /\ trimmed' = trimmed + 1
    /\ UNCHANGED <<log, place, saved, unread>>

Hand(e) ==
    /\ place < e /\ log[e] \in Legible
    /\ place # 0 => \A i \in (place + 1)..(e - 1) : log[i] \notin Legible
    /\ place' = e
    /\ UNCHANGED <<log, trimmed, saved, unread>>

\* What lies between the place and e was trimmed, e included.
Gap(e) ==
    /\ place < e /\ e <= trimmed
    /\ place' = e
    /\ UNCHANGED <<log, trimmed, saved, unread>>

\* While it is being written the saved place may be gone.
Save == saved' \in 0..place /\ UNCHANGED <<log, trimmed, place, unread>>

Restart == place' = saved /\ unread' = FALSE /\ UNCHANGED <<log, trimmed, saved>>

\* A restart that cannot read the saved place.
Misread ==
    /\ place = saved /\ ~unread
    /\ place' = 0 /\ unread' = TRUE
    /\ UNCHANGED <<log, trimmed, saved>>

Next ==
    \/ Publish \/ Trim \/ Save \/ Restart \/ Misread
    \/ \E e \in DOMAIN log : Hand(e) \/ Gap(e)

Spec == Init /\ [][Next]_vars
=============================================================================
