------------------------------ MODULE EventStream ------------------------------
(***************************************************************************)
(* The stream of file events from meta-core: class SSEEventClient          *)
(* (events/SSEEventClient.ts) with its reconnect loop and its cursor file, *)
(* the handler of FileEventConsumer.ts behind it, crashes and restarts of  *)
(* the process, and meta-core's end of the connection (external: a log     *)
(* whose entries are numbered from 1, the retention that trims it, and one *)
(* reply to each subscription).                                            *)
(*                                                                         *)
(* The text of a chunk is its kind and its id.  The steps of the loop are  *)
(* one action from await to await; a flush of the cursor is three, because *)
(* writeFile() empties the file before it writes.                          *)
(*                                                                         *)
(* Not modelled: the length of the backoff, and what the pipeline does     *)
(* with the events (StreamingPipeline.tla).                                *)
(***************************************************************************)
EXTENDS Naturals, FiniteSets, Sequences, SequencesExt

CONSTANTS
    Flushes,      \* bound: cursor flushes that may run at once
    MaxEvents,    \* bound: events published
    MaxFaults,    \* bound: refused or broken connections and failed writes
    MaxExits      \* bound: crashes and shutdowns

ASSUME EventStreamAssumption ==
    IsFiniteSet(Flushes) /\ {MaxEvents, MaxFaults, MaxExits} \subseteq Nat

VARIABLES
    log,          \* kinds of the events meta-core published
    trimmed,      \* how many of them its retention has dropped
    sent,         \* last event sent on the open connection
    cursor,       \* last event handled; 0 is the empty string
    cursorDirty,
    flushing,     \* what each flush is at, and the value it writes
    stopFlush,    \* the flush stop() waits for, if any: at most one member
    stopped,
    reader,       \* what runLoop() awaits
    buffer,       \* chunks read and not yet handled
    file,         \* cursor file; 0 when it is missing or empty
    up,           \* the process runs
    handed,       \* events the handler has taken, in any life of the process
    missed,       \* events a gap has announced as lost
    unread,       \* the cursor file could not be read at the start of the process
    passed,       \* events a connection without a cursor has passed over
    everSaved,    \* a cursor has been written, and
    cut,          \* the process has ended with the file emptied by a write, and
    overlapped,   \* the last flush began while another one was running
    faults, exits

serverVars == <<log, trimmed>>
cursorVars == <<cursor, cursorDirty>>
flushVars == <<flushing, stopFlush, file, everSaved, overlapped>>
processVars == <<up, stopped, cut, exits>>
readVars == <<handed, missed>>
blindVars == <<unread, passed>>
vars == <<serverVars, sent, cursorVars, flushVars, processVars, readVars, reader,
          buffer, blindVars, faults>>

\* What handleChunk() and the consumer tell apart: an event handled at once, a
\* reset (its handler awaits the pipeline), an event whose handler throws, and
\* one that is no JSON.
Legible == {"change", "reset", "broken"}
Kinds == Legible \cup {"garbled"}

Idle == [at |-> "idle", value |-> 0]
Flushing(f) == flushing[f].at # "idle"

Init ==
    /\ log = <<>> /\ trimmed = 0 /\ sent = 0
    /\ cursor = 0 /\ cursorDirty = FALSE
    /\ flushing = [f \in Flushes |-> Idle] /\ stopFlush = {}
    /\ stopped = FALSE /\ reader = "loading" /\ buffer = <<>>
    /\ file = 0 /\ up = TRUE
    /\ handed = {} /\ missed = {} /\ unread = FALSE /\ passed = {}
    /\ everSaved = FALSE /\ cut = FALSE /\ overlapped = FALSE
    /\ faults = 0 /\ exits = 0

Fault == faults < MaxFaults /\ faults' = faults + 1
-----------------------------------------------------------------------------
\* meta-core.
Publish ==
    /\ Len(log) < MaxEvents
    /\ \E k \in Kinds : log' = Append(log, k)
    /\ UNCHANGED <<trimmed, sent, cursorVars, flushVars, processVars, readVars,
                   reader, buffer, blindVars, faults>>

\* Retention is long: what an open connection still has to send stays.
Trim ==
    /\ trimmed < Len(log)
    /\ reader # "reading"
    /\ trimmed' = trimmed + 1
    /\ UNCHANGED <<log, sent, cursorVars, flushVars, processVars, readVars,
                   reader, buffer, blindVars, faults>>

\* The chunks that bring a reader from one event to another.
Chunk(e) == [event |-> log[e], id |-> e]

Chunks(from, to) ==
    IF from < trimmed
    THEN <<[event |-> "gap", id |-> trimmed]>>
             \o [i \in 1..(to - trimmed) |-> Chunk(trimmed + i)]
    ELSE [i \in 1..(to - from) |-> Chunk(from + i)]
-----------------------------------------------------------------------------
\* loadCursor(): a missing or an empty file is no cursor, ...
LoadCursor ==
    /\ up /\ reader = "loading"
    /\ cursor' = file
    /\ reader' = "connecting"
    /\ UNCHANGED <<serverVars, sent, cursorDirty, flushVars, processVars, readVars,
                   buffer, blindVars, faults>>

\* ... and any other error of the read is only warned about: the client goes on
\* without the cursor that the file still holds.
LoadCursorFails ==
    /\ up /\ reader = "loading"
    /\ Fault
    /\ unread' = TRUE
    /\ reader' = "connecting"
    /\ UNCHANGED <<serverVars, sent, cursorVars, flushVars, processVars, readVars,
                   buffer, passed>>

\* Where a subscription starts: after its Last-Event-ID, or at the end.
ResumeFrom == IF cursor = 0 THEN Len(log) ELSE cursor

\* A reader may be without a cursor if none was ever written, if its write was
\* cut by the end of a process, or if it could not be read.
Blind == cursor = 0 /\ (unread \/ ~everSaved \/ cut)

\* connect() up to the reply.
Connect ==
    /\ up /\ reader = "connecting" /\ ~stopped
    /\ sent' = ResumeFrom
    /\ passed' = IF Blind THEN passed \cup ((file + 1)..Len(log)) ELSE passed
    /\ reader' = "reading"
    /\ UNCHANGED <<serverVars, cursorVars, flushVars, processVars, readVars,
                   buffer, unread, faults>>

\* runLoop(), catch: a refused or broken connection; sleep() before the next.
ConnectionFails ==
    /\ up /\ reader \in {"connecting", "reading"} /\ buffer = <<>> /\ ~stopped
    /\ Fault
    /\ reader' = "sleeping"
    /\ UNCHANGED <<serverVars, sent, cursorVars, flushVars, processVars, readVars,
                   buffer, blindVars>>

\* The server ends the stream: connect() returns and runLoop() goes round.
MutantLoopEnds == reader' = "ended"

NextConnection == reader' = "connecting"

StreamEnds ==
    /\ up /\ reader = "reading" /\ buffer = <<>> /\ ~stopped
    /\ Fault
    /\ NextConnection
    /\ UNCHANGED <<serverVars, sent, cursorVars, flushVars, processVars, readVars,
                   buffer, blindVars>>

WakeUp ==
    /\ up /\ reader = "sleeping"
    /\ reader' = "connecting"
    /\ UNCHANGED <<serverVars, sent, cursorVars, flushVars, processVars, readVars,
                   buffer, blindVars, faults>>

\* runLoop() and connect() leave at the next look at "stopped", or when the
\* aborted request or read rejects; chunks in the buffer are handled before.
LoopEnds ==
    /\ up /\ stopped /\ buffer = <<>>
    /\ reader \in {"connecting", "reading"}
    /\ reader' = "ended"
    /\ UNCHANGED <<serverVars, sent, cursorVars, flushVars, processVars, readVars,
                   buffer, blindVars, faults>>

Read ==
    /\ up /\ reader = "reading" /\ buffer = <<>> /\ ~stopped
    /\ \E to \in (sent + 1)..Len(log) :
           /\ sent' = to
           /\ buffer' = Chunks(sent, to)
    /\ UNCHANGED <<serverVars, cursorVars, flushVars, processVars, readVars, reader,
                   blindVars, faults>>
-----------------------------------------------------------------------------
MoveCursor(e) == cursor' = e /\ cursorDirty' = TRUE

NextChunk == buffer' = Tail(buffer)

\* handleChunk() for each kind of chunk.  An unparseable one is dropped ...
HandleGarbled ==
    /\ Head(buffer).event = "garbled"
    /\ NextChunk
    /\ UNCHANGED <<cursorVars, readVars, reader>>

\* ... a gap moves the cursor to where the server resumes; nothing else is done ...
HandleGap ==
    /\ Head(buffer).event = "gap"
    /\ MoveCursor(Head(buffer).id)
    /\ missed' = missed \cup ((cursor + 1)..Head(buffer).id)
    /\ NextChunk
    /\ UNCHANGED <<handed, reader>>

\* ... the handler of a file event is synchronous, and if it throws the cursor
\* moves on all the same ...
HandleFileEvent ==
    /\ Head(buffer).event \in {"change", "broken"}
    /\ handed' = IF Head(buffer).event = "broken" THEN handed
                 ELSE handed \cup {Head(buffer).id}
    /\ MoveCursor(Head(buffer).id)
    /\ NextChunk
    /\ UNCHANGED <<missed, reader>>

\* ... and a reset awaits the pipeline, with the cursor still behind it.
MutantMovesFirst ==
    /\ Head(buffer).event = "reset"
    /\ reader' = "handling"
    /\ MoveCursor(Head(buffer).id)
    /\ UNCHANGED <<readVars, buffer>>

BeginReset ==
    /\ Head(buffer).event = "reset"
    /\ reader' = "handling"
    /\ UNCHANGED <<cursorVars, readVars, buffer>>

HandleChunk ==
    /\ up /\ reader = "reading" /\ buffer # <<>>
    /\ HandleGarbled \/ HandleGap \/ HandleFileEvent \/ BeginReset
    /\ UNCHANGED <<serverVars, sent, flushVars, processVars, blindVars, faults>>

EndReset ==
    /\ up /\ reader = "handling"
    /\ handed' = handed \cup {Head(buffer).id}
    /\ MoveCursor(Head(buffer).id)
    /\ NextChunk
    /\ reader' = "reading"
    /\ UNCHANGED <<serverVars, sent, flushVars, processVars, missed, blindVars, faults>>
-----------------------------------------------------------------------------
\* flushCursor() up to its first await (mkdir).
BeginFlush(f) ==
    /\ ~Flushing(f)
    /\ cursorDirty' = FALSE
    /\ flushing' = [flushing EXCEPT ![f] = [at |-> "mkdir", value |-> 0]]
    /\ overlapped' = (\E g \in Flushes \ {f} : Flushing(g))

\* The flush timer.
Tick ==
    /\ up /\ ~stopped /\ cursorDirty /\ reader # "loading"
    /\ \E f \in Flushes : BeginFlush(f)
    /\ UNCHANGED <<serverVars, sent, cursor, stopFlush, file, everSaved, processVars,
                   readVars, reader, buffer, blindVars, faults>>

MutantAhead == sent

\* The value a flush writes: the cursor as it is after mkdir().
ValueToWrite == cursor

\* writeFile() opens the file, which empties it ...
OpenFile(f) ==
    /\ up /\ flushing[f].at = "mkdir"
    /\ flushing' = [flushing EXCEPT ![f] = [at |-> "writing", value |-> ValueToWrite]]
    /\ file' = 0
    /\ UNCHANGED <<serverVars, sent, cursorVars, stopFlush, everSaved, overlapped,
                   processVars, readVars, reader, buffer, blindVars, faults>>

MutantCleansAfter == cursorDirty' = FALSE

AfterWrite == UNCHANGED cursorDirty

\* ... and writes it.
EndFlush(f) ==
    /\ up /\ flushing[f].at = "writing"
    /\ file' = flushing[f].value
    /\ flushing' = [flushing EXCEPT ![f] = Idle]
    /\ AfterWrite
    /\ everSaved' = TRUE
    /\ UNCHANGED <<serverVars, sent, cursor, stopFlush, overlapped, processVars,
                   readVars, reader, buffer, blindVars, faults>>

\* mkdir() or the write fails: "Re-mark dirty so the next tick retries".
FlushFails(f) ==
    /\ up /\ Flushing(f)
    /\ Fault
    /\ cursorDirty' = TRUE
    /\ flushing' = [flushing EXCEPT ![f] = Idle]
    /\ UNCHANGED <<serverVars, sent, cursor, stopFlush, file, everSaved, overlapped,
                   processVars, readVars, reader, buffer, blindVars>>

\* stop(): the request is aborted, the timer cleared, and the cursor flushed.
Stop ==
    /\ up /\ ~stopped /\ exits < MaxExits
    /\ stopped' = TRUE
    /\ IF cursorDirty
       THEN \E f \in Flushes : BeginFlush(f) /\ stopFlush' = {f}
       ELSE UNCHANGED <<cursorDirty, flushing, overlapped, stopFlush>>
    /\ UNCHANGED <<serverVars, sent, cursor, file, everSaved, up, cut, exits,
                   readVars, reader, buffer, blindVars, faults>>
-----------------------------------------------------------------------------
\* The process ends, with every flush that is under way.  A write that was under
\* way, or the last one when it failed, leaves the file empty.
Ends ==
    /\ up' = FALSE
    /\ exits' = exits + 1
    /\ cut' = (cut \/ (everSaved /\ file = 0))
    /\ flushing' = [f \in Flushes |-> Idle] /\ stopFlush' = {}
    /\ cursor' = 0 /\ cursorDirty' = FALSE /\ stopped' = FALSE
    /\ buffer' = <<>> /\ reader' = "loading" /\ overlapped' = FALSE
    /\ unread' = FALSE
    /\ UNCHANGED <<serverVars, sent, file, everSaved, readVars, passed, faults>>

\* The shutdown of index.ts, once stop() has returned (when its flush failed the
\* handler ends there, and the process waits to be killed), ...
Exit ==
    /\ up /\ stopped
    /\ \A f \in stopFlush : ~Flushing(f)
    /\ Ends

\* ... or a crash.
Crash == up /\ exits < MaxExits /\ Ends

Restart ==
    /\ ~up
    /\ up' = TRUE
    /\ UNCHANGED <<serverVars, sent, cursorVars, flushVars, stopped, cut, exits,
                   readVars, reader, buffer, blindVars, faults>>

Loop == LoadCursor \/ Connect \/ WakeUp \/ LoopEnds \/ Read \/ HandleChunk \/ EndReset

FlushStep(f) == OpenFile(f) \/ EndFlush(f)

Next ==
    \/ Publish \/ Trim \/ Loop \/ LoadCursorFails \/ ConnectionFails \/ StreamEnds
    \/ Tick \/ \E f \in Flushes : FlushStep(f) \/ FlushFails(f)
    \/ Stop \/ Exit \/ Crash \/ Restart

Spec == Init /\ [][Next]_vars
-----------------------------------------------------------------------------
Ids == 0..MaxEvents

TypeOK ==
    /\ log \in Seq(Kinds) /\ Len(log) <= MaxEvents
    /\ {trimmed, sent, cursor, file} \subseteq 0..Len(log)
    /\ {cursorDirty, stopped, up, everSaved, cut, overlapped, unread} \subseteq BOOLEAN
    /\ flushing \in [Flushes -> [at : {"idle", "mkdir", "writing"}, value : Ids]]
    /\ stopFlush \subseteq Flushes
    /\ reader \in {"loading", "connecting", "sleeping", "reading", "handling", "ended"}
    /\ buffer \in Seq([event : Kinds \cup {"gap"}, id : Ids])
    /\ reader = "handling" => buffer # <<>> /\ Head(buffer).event = "reset"
    /\ handed \cup missed \cup passed \subseteq 1..Len(log)
    /\ faults \in 0..MaxFaults /\ exits \in Nat

DealtWith(e) ==
    e \in handed \cup missed \/ (e \in DOMAIN log /\ log[e] \in {"broken", "garbled"})

\* Every event up to the saved place was handled, announced as missing, or could
\* not be, whatever connections, flushes and processes were cut on the way: "On
\* reconnect we send Last-Event-ID so meta-core resumes from the entry AFTER our
\* cursor" (SSEEventClient.ts:12-13).  The others were passed over by a connection
\* without a cursor: before the first save, after the end of a process had left the
\* file empty, or in a process that could not read it.
NothingSkipped ==
    \A e \in 1..(IF cursor = 0 THEN file ELSE cursor) : DealtWith(e) \/ e \in passed

\* A clean cursor is on disk: an event handled during a flush, a failed write or
\* a restart leaves it dirty.  The older of two flushes at once may land last;
\* the next flush that runs alone repairs it.  A process that could not read the file
\* has none until its first event, and writes that one over the file.
CleanIsSaved ==
    (up /\ reader # "loading" /\ ~cursorDirty /\ ~overlapped
        /\ (unread => cursor # 0)
        /\ \A f \in Flushes : ~Flushing(f)) => file = cursor

\* What the stream promises its reader.
Log == INSTANCE EventLog
         WITH place <- IF ~up \/ reader = "loading" THEN file
                       ELSE IF reader = "handling" THEN Head(buffer).id
                       ELSE cursor,
              saved <- file

\* The client implements the promise: through reconnects and restarts it hands on
\* the events in order, leaves out none but those that were trimmed and announced,
\* and no saved place is ahead of what was handed on; the place is lost only with the
\* file's content or by a read of it that fails.
ImplementsEventLog == Log!Spec
=============================================================================
