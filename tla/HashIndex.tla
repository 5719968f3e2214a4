------------------------------- MODULE HashIndex -------------------------------
(***************************************************************************)
(* The index of hashes computed so far: class HashIndexManager             *)
(* (shared/meta-hash, lib/hash-compute/HashIndexManager.ts).  In memory, a *)
(* line for each file (its name, size and time of change) with a hash for  *)
(* each algorithm; on disk, for each algorithm, a CSV file of rows to      *)
(* which the autosave appends those that are new.                          *)
(*                                                                         *)
(* Hashes are left out: a line has the one of an algorithm or not.  A file *)
(* that ends in the middle of an append ends "open", if what it ends in is *)
(* still read as a row (or as the header), or "short", if it is not; a row *)
(* appended to an open end makes the file unreadable too ("garbled").      *)
(*                                                                         *)
(* Not modelled: the check of the headers, which parses the file's name    *)
(* and thus accepts all; reading a CSV file again in a save, which skips   *)
(* one whose size is the same and finds nothing that is not in memory.     *)
(***************************************************************************)
EXTENDS Naturals, FiniteSets, Sequences

CONSTANTS
    Files,          \* bound: lines, by name, size and time
    Algorithms      \* targetHash, in order

ASSUME HashIndexAssumption ==
    IsFiniteSet(Files) /\ Algorithms \in Seq(STRING) /\ Algorithms # <<>>

VARIABLES
    indexAt,      \* init(): "loading", "ready" or "failed"
    cache,        \* the hashes in each line; none: there is no line
    hasChanged,
    saving,       \* saveCacheToFile(): what it awaits, for which algorithm, and its rows
    indexOpsInProgress,
    rows,         \* on disk: how often each line is in the file of each algorithm
    end           \* how the file ends: "whole", "open", "short", "garbled"

memoryVars == <<indexAt, cache, hasChanged, saving, indexOpsInProgress>>
diskVars == <<rows, end>>
indexVars == <<memoryVars, diskVars>>

Targets == {Algorithms[i] : i \in DOMAIN Algorithms}
NoLines == [f \in Files |-> {}]
Resting == [at |-> "none", of |-> 0, lines |-> {}, new |-> {}]

Fresh ==
    /\ indexAt = "loading" /\ cache = NoLines /\ hasChanged = FALSE
    /\ saving = Resting /\ indexOpsInProgress = FALSE

IndexInit ==
    /\ Fresh
    /\ rows = [a \in Targets |-> [f \in Files |-> 0]]
    /\ end = [a \in Targets |-> "whole"]

Readable(a) == end[a] \in {"whole", "open"}
-----------------------------------------------------------------------------
\* init(): every file is read, or the promise rejects.
LoadIndex ==
    /\ indexAt = "loading"
    /\ IF \A a \in Targets : Readable(a)
       THEN /\ indexAt' = "ready"
            /\ cache' = [f \in Files |-> {a \in Targets : rows[a][f] > 0}]
       ELSE indexAt' = "failed" /\ UNCHANGED cache
    /\ UNCHANGED <<hasChanged, saving, indexOpsInProgress, diskVars>>

\* The folder cannot be made, and the promise is never settled; or a file cannot be
\* read, and it rejects.  Either way the start ends here.
LoadFails ==
    /\ indexAt = "loading" /\ indexAt' = "failed"
    /\ UNCHANGED <<cache, hasChanged, saving, indexOpsInProgress, diskVars>>

\* addFileCid(), after a hash that was not in the line was computed; another file of the
\* same name, size and time may have given it meanwhile.
AddFileCid(f, hashes) ==
    /\ indexAt = "ready"
    /\ cache' = [cache EXCEPT ![f] = @ \cup hashes]
    /\ hasChanged' = TRUE
    /\ UNCHANGED <<indexAt, saving, indexOpsInProgress, diskVars>>
-----------------------------------------------------------------------------
\* The interval: saveCacheToFile() up to its first await.
BeginSave ==
    /\ indexAt = "ready" /\ ~indexOpsInProgress /\ hasChanged
    /\ hasChanged' = FALSE /\ indexOpsInProgress' = TRUE
    /\ saving' = [Resting EXCEPT !.at = "read", !.of = 1,
                                 !.lines = {f \in Files : cache[f] # {}}]
    /\ UNCHANGED <<indexAt, cache, diskVars>>

\* BUG variant: the flag is cleared once all is saved.
MutantSaved == hasChanged' = FALSE

Saved == UNCHANGED hasChanged

\* The next algorithm, or the end of the save.
SaveGoesOn ==
    IF saving.of < Len(Algorithms)
    THEN /\ saving' = [saving EXCEPT !.at = "read", !.of = @ + 1, !.new = {}]
         /\ UNCHANGED <<hasChanged, indexOpsInProgress>>
    ELSE /\ saving' = Resting /\ indexOpsInProgress' = FALSE
         /\ Saved

\* Nothing resets indexOpsInProgress when the save throws.
SaveThrows == saving' = Resting /\ UNCHANGED <<hasChanged, indexOpsInProgress>>

\* BUG variant: rows that are in the file are appended again.
MutantNewRows(a) == {f \in saving.lines : a \in cache[f]}

\* The lines there were when the save began that have the hash, now, and no row yet.
NewRows(a) == {f \in saving.lines : a \in cache[f] /\ rows[a][f] = 0}

SaveReads ==
    /\ saving.at = "read"
    /\ LET a == Algorithms[saving.of]
       IN  IF ~Readable(a) THEN SaveThrows
           ELSE IF NewRows(a) = {} THEN SaveGoesOn
           ELSE /\ saving' = [saving EXCEPT !.at = "append", !.new = NewRows(a)]
                /\ UNCHANGED <<hasChanged, indexOpsInProgress>>
    /\ UNCHANGED <<indexAt, cache, diskVars>>

Appended(a, new) == [rows EXCEPT ![a] = [f \in Files |-> @[f] + (IF f \in new THEN 1 ELSE 0)]]

SaveAppends ==
    /\ saving.at = "append"
    /\ LET a == Algorithms[saving.of]
       IN  /\ rows' = Appended(a, saving.new)
           /\ end' = [end EXCEPT ![a] = IF @ = "whole" THEN "whole" ELSE "garbled"]
    /\ SaveGoesOn
    /\ UNCHANGED <<indexAt, cache>>

\* What an append that is cut leaves: some of its rows, and an end.
CutAppend ==
    LET a == Algorithms[saving.of]
    IN  \/ UNCHANGED diskVars
        \/ \E new \in SUBSET saving.new, e \in {"whole", "open", "short"} :
               /\ rows' = Appended(a, new)
               /\ end' = [end EXCEPT ![a] = IF @ = "whole" THEN e ELSE "garbled"]

\* The disk is full, or the folder is gone.
SaveFails ==
    /\ saving.at \in {"read", "append"}
    /\ IF saving.at = "append" THEN CutAppend ELSE UNCHANGED diskVars
    /\ SaveThrows
    /\ UNCHANGED <<indexAt, cache>>

\* The process ends, and nothing saves what is only in memory.
IndexLost ==
    /\ indexAt' = "loading" /\ cache' = NoLines /\ hasChanged' = FALSE
    /\ saving' = Resting /\ indexOpsInProgress' = FALSE
    /\ IF saving.at = "append" THEN CutAppend ELSE UNCHANGED diskVars

SaveStep == SaveReads \/ SaveAppends
=============================================================================
