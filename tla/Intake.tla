--------------------------------- MODULE Intake ---------------------------------
(***************************************************************************)
(* How a process of meta-sort comes to take in events: index.ts loads the  *)
(* index of hashes (HashIndex) before it starts the consumer of the event  *)
(* stream (EventStream), and the files that events bring add to the index. *)
(* A start whose index fails ends in the catch of index.ts: the process    *)
(* runs on and takes nothing in.                                           *)
(***************************************************************************)
EXTENDS EventStream, HashIndex

CONSTANTS
    MaxLoad,      \* bound: events, faults and exits together,
    MaxMixed      \* bound: the same, once the index is used

ASSUME IntakeAssumption == {MaxLoad, MaxMixed} \subseteq Nat

intakeVars == <<vars, indexVars>>

IntakeInit == Init /\ IndexInit

\* Index and disk are as in the beginning.
Unused == ~hasChanged /\ cache = NoLines /\ saving = Resting
            /\ \A a \in Targets : end[a] = "whole" /\ \A f \in Files : rows[a][f] = 0

Load == Len(log) + faults + exits + (IF stopped THEN 1 ELSE 0)

\* The stream: it is not read before the index is loaded.
StreamStep ==
    /\ Next
    /\ reader = "loading" /\ reader' # "loading" => indexAt = "ready"
    /\ IF up /\ ~up' THEN IndexLost ELSE UNCHANGED indexVars

IndexFault(A) == up /\ Fault /\ A /\ UNCHANGED <<serverVars, sent, cursorVars, flushVars,
                                                 processVars, readVars, reader, buffer, blindVars>>

IndexLoads == up /\ LoadIndex /\ UNCHANGED vars

\* A file that came without a hash, or whose other hashes were computed.
FileHashed ==
    /\ up /\ reader # "loading"
    /\ \E f \in Files, hashes \in (SUBSET Targets) \ {{}} : AddFileCid(f, hashes)
    /\ UNCHANGED vars

AutoSave == up /\ BeginSave /\ UNCHANGED vars

SaveGoes == up /\ SaveStep /\ UNCHANGED vars

IntakeNext ==
    /\ \/ StreamStep \/ IndexLoads \/ FileHashed \/ AutoSave \/ SaveGoes
       \/ IndexFault(LoadFails) \/ IndexFault(SaveFails)
    /\ Load' <= (IF Unused' THEN MaxLoad ELSE MaxMixed)

IntakeSpec == IntakeInit /\ [][IntakeNext]_intakeVars

Undisturbed(A) == A /\ UNCHANGED indexVars

\* The event loop runs, timers fire, requests and file operations end, and the process
\* is started again; nothing is assumed of the log, of faults and of exits.
IntakeFairness ==
    /\ WF_intakeVars(Undisturbed(Loop) /\ (reader = "loading" => indexAt = "ready"))
    /\ WF_intakeVars(Undisturbed(Tick))
    /\ \A f \in Flushes : WF_intakeVars(Undisturbed(FlushStep(f)))
    /\ WF_intakeVars(Exit /\ IndexLost) /\ WF_intakeVars(Undisturbed(Restart))
    /\ WF_intakeVars(IndexLoads) /\ WF_intakeVars(AutoSave) /\ WF_intakeVars(SaveGoes)

IntakeFairSpec == IntakeSpec /\ IntakeFairness
-----------------------------------------------------------------------------
\* No row is appended twice, whatever was computed during a save, and what is in a file
\* the process knows (HashIndexManager.ts 110-215): a restart would not compute it again.
IndexSound ==
    \A a \in Targets, f \in Files :
        /\ rows[a][f] <= 1
        /\ indexAt = "ready" /\ rows[a][f] = 1 => a \in cache[f]

\* A hash that was computed is on disk in the end, also one that came during a save:
\* unless the process ends before, or a save has thrown, after which the index is never
\* saved again (HashIndexManager.ts 168-240).
AddedIsSaved ==
    \A a \in Targets, f \in Files :
        (indexAt = "ready" /\ a \in cache[f])
            ~> \/ rows[a][f] = 1 \/ indexAt # "ready"
               \/ indexOpsInProgress /\ saving.at = "none"

\* Every event is handled in the end, or announced as missing, whatever is cut on the
\* way: unless a connection without a cursor has passed it over (NothingSkipped says
\* when there is none), or a start found a row of the index cut: no later start reads
\* that file, and the process takes nothing in.
EventuallyTakenIn ==
    \A e \in 1..MaxEvents :
        e \in 1..Len(log) ~> (e \in passed \/ indexAt = "failed" \/ DealtWith(e))
=============================================================================
