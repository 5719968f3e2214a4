-------------------------- MODULE ServiceRegistration --------------------------
(***************************************************************************)
(* The file by which other services find this one: class                   *)
(* ServiceRegistration (kv/ServiceRegistration.ts).  start() registers and *)
(* starts the heartbeat, a heartbeat reads the file and writes it back,    *)
(* unregister() removes it.  meta-core (external) removes the file of a    *)
(* service whose heartbeat is old.                                         *)
(*                                                                         *)
(* writeFile() empties the file before it writes.  A file that is unlinked *)
(* while it is being written is gone: what is written goes nowhere.        *)
(*                                                                         *)
(* Not modelled: what the file says of the service; updateStatus(), which  *)
(* has no caller; heartbeats that overlap (they are thirty seconds apart). *)
(***************************************************************************)

VARIABLES
    entry,        \* the file: "absent", "cut" (emptied, not written) or "whole"
    writer,       \* register() or heartbeat() in progress: "idle", "read", "write",
                  \* "writing", or "lost" (writing a file that is unlinked)
    timer         \* the heartbeat interval runs; it stops where isShuttingDown is set

registrationVars == <<entry, writer, timer>>

RegistrationInit == entry = "absent" /\ writer = "idle" /\ timer = FALSE

\* startHeartbeat(), the callback of the interval.
Tick ==
    /\ timer /\ writer = "idle"
    /\ writer' = "read" /\ UNCHANGED <<entry, timer>>

\* BUG variant: a missing file is an error like any other.
MutantAfterRead(e) == IF e = "whole" THEN "write" ELSE "idle"

\* heartbeat(): a missing file is registered anew, one that cannot be parsed is
\* left as it is.
AfterRead(e) == IF e = "cut" THEN "idle" ELSE "write"

HeartbeatRead ==
    /\ writer = "read"
    /\ writer' = AfterRead(entry) /\ UNCHANGED <<entry, timer>>

WriteOpens ==
    /\ writer = "write"
    /\ writer' = "writing" /\ entry' = "cut" /\ UNCHANGED timer

WriteEnds ==
    /\ writer \in {"writing", "lost"}
    /\ writer' = "idle" /\ entry' = IF writer = "lost" THEN entry ELSE "whole"

WriteFails ==
    /\ writer \in {"write", "writing", "lost"}
    /\ writer' = "idle" /\ UNCHANGED <<entry, timer>>

\* Both unlink() and meta-core's removal of a file.
Unlinked == entry' = "absent" /\ writer' = IF writer = "writing" THEN "lost" ELSE writer

\* unregister() up to its await.
Unregister == timer' = FALSE
=============================================================================
