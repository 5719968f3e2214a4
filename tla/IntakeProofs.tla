------------------------------ MODULE IntakeProofs ------------------------------
(***************************************************************************)
(* Theorems about the intake, for every log, every number of connections,  *)
(* flushes, crashes and restarts, every set of files and algorithms.       *)
(*                                                                         *)
(* The stream: StreamInv says what the buffer of a connection holds, what  *)
(* lies between the cursor and the chunks sent, and how far the cursor,    *)
(* the flushes under way and the file may be apart.  No event is skipped   *)
(* and a clean cursor is on disk, and the stream implements EventLog.      *)
(*                                                                         *)
(* The index of hashes: IndexInv says what a save under way may append.    *)
(* A step of the intake is one of the stream or one of the index; all they *)
(* share is the count of faults.                                           *)
(***************************************************************************)
EXTENDS Intake, SequenceTheorems, TLAPS

-----------------------------------------------------------------------------
(* The inductive invariant of the stream. *)

Loaded == up /\ reader # "loading"

InConnection == reader \in {"reading", "handling"}

\* The buffer holds, in the order of the log, chunks that come after the cursor;
\* only the first may be a gap, and only an open connection has any.
BufferSound ==
    /\ ~InConnection => buffer = <<>>
    /\ \A i \in DOMAIN buffer :
          \/ /\ i = 1 /\ buffer[i].event = "gap"
             /\ cursor <= buffer[i].id /\ 0 < buffer[i].id /\ buffer[i].id <= trimmed
          \/ /\ buffer[i].id \in DOMAIN log /\ buffer[i] = Chunk(buffer[i].id)
             /\ cursor < buffer[i].id /\ buffer[i].id <= sent
    /\ \A i, j \in DOMAIN buffer : i < j => buffer[i].id < buffer[j].id

\* What needs no more to be handed on.
Settled(e) == DealtWith(e) \/ e \in passed

\* What was sent after the cursor is in the buffer, unless it cannot be read; a gap
\* in front stands for all up to it.  Without a cursor, all that comes before what is
\* in the buffer is settled.
PassedBy(e) == cursor = 0 /\ Settled(e) /\ \A i \in DOMAIN buffer : e < buffer[i].id

Buffered(e) ==
    \/ \E i \in DOMAIN buffer : buffer[i].id = e
    \/ buffer # <<>> /\ buffer[1].event = "gap" /\ e <= buffer[1].id

NothingLost ==
    InConnection =>
        /\ cursor <= sent \/ cursor <= trimmed
        /\ \A e \in DOMAIN log :
              cursor < e /\ e <= sent => log[e] = "garbled" \/ Buffered(e) \/ PassedBy(e)

\* Outside a run that has loaded its cursor nothing is under way.
AtRest ==
    /\ ~up => reader = "loading"
    /\ ~Loaded => /\ cursor = 0 /\ ~cursorDirty /\ ~overlapped /\ ~unread
                  /\ \A f \in Flushes : flushing[f] = Idle

\* No place is ahead of the cursor, and every event up to the cursor and up to the
\* saved place is settled; a cursor of 0 is one that was never moved.
PlacesSound ==
    /\ (cursorDirty \/ \E f \in Flushes : Flushing(f)) => cursor # 0
    /\ Loaded => \A f \in Flushes : flushing[f].value <= cursor
    /\ \A e \in 1..cursor : Settled(e)
    /\ \A e \in 1..file : Settled(e)

\* A cursor that was once saved is found again, or the file was cut or not read.
CursorKept ==
    (IF Loaded THEN cursor = 0 ELSE file = 0) => unread \/ ~everSaved \/ cut

\* A flush that began alone is still the only one, and while the cursor is clean it
\* writes, or has written, what the cursor is, but for the cursor that was not read.
FlushSound ==
    ~overlapped =>
        /\ \A f, g \in Flushes : Flushing(f) /\ Flushing(g) => f = g
        /\ Loaded /\ ~cursorDirty =>
              /\ \A f \in Flushes : flushing[f].at = "writing" => flushing[f].value = cursor
              /\ (unread => cursor # 0) /\ (\A f \in Flushes : ~Flushing(f))
                     => file = cursor

StreamInv ==
    TypeOK /\ BufferSound /\ NothingLost /\ AtRest /\ PlacesSound /\ CursorKept /\ FlushSound
-----------------------------------------------------------------------------
(* What the chunks of a read are. *)

\* A function on 1..n is a sequence of length n.
LEMMA FunctionIsSeq ==
    ASSUME NEW S, NEW n \in Nat, NEW s \in [1..n -> S]
    PROVE  s \in Seq(S) /\ Len(s) = n
  <1>1. s \in UNION {[1..m -> S] : m \in Nat}
    OBVIOUS
  <1>2. s \in Seq(S)
    BY <1>1, SeqDef, Zenon
  <1>3. QED
    BY <1>2, LenProperties

\* Chunks(from, to) is a sequence that holds what lies between, in the order of the
\* log: a gap first when retention has passed "from", then the events themselves.
LEMMA ChunksSound ==
    ASSUME TypeOK, NEW from \in 0..Len(log), NEW to \in (from + 1)..Len(log)
    PROVE  /\ Chunks(from, to) \in Seq([event : Kinds \cup {"gap"}, id : Ids])
           /\ \A i \in DOMAIN Chunks(from, to) :
                 LET c == Chunks(from, to)[i]
                 IN  \/ i = 1 /\ from < trimmed /\ c = [event |-> "gap", id |-> trimmed]
                     \/ /\ c.id \in DOMAIN log /\ c = Chunk(c.id)
                        /\ from < c.id /\ trimmed < c.id /\ c.id <= to
           /\ \A i, j \in DOMAIN Chunks(from, to) :
                 i < j => Chunks(from, to)[i].id < Chunks(from, to)[j].id
           /\ from < trimmed => /\ Chunks(from, to) # <<>>
                               /\ Chunks(from, to)[1] = [event |-> "gap", id |-> trimmed]
           /\ \A e \in (from + 1)..to :
                 \/ from < trimmed /\ e <= trimmed
                 \/ \E i \in DOMAIN Chunks(from, to) : Chunks(from, to)[i].id = e
  <1> DEFINE Chunk4 == [event : Kinds \cup {"gap"}, id : Ids]
             first  == <<[event |-> "gap", id |-> trimmed]>>
             rest   == [i \in 1..(to - trimmed) |-> Chunk(trimmed + i)]
             all    == [i \in 1..(to - from) |-> Chunk(from + i)]
  <1>1. /\ Len(log) \in Nat /\ DOMAIN log = 1..Len(log) /\ trimmed \in 0..Len(log)
        /\ Len(log) <= MaxEvents /\ MaxEvents \in Nat
        /\ \A e \in 1..Len(log) : Chunk(e) \in Chunk4 /\ Chunk(e).id = e
    BY EventStreamAssumption DEF TypeOK, Chunk, Ids
  <1> DEFINE more == IF trimmed < to THEN to - trimmed ELSE 0
  <1>2. /\ more \in Nat /\ rest \in [1..more -> Chunk4]
        /\ \A i \in 1..more : rest[i] = Chunk(trimmed + i) /\ trimmed + i \in 1..Len(log)
    <2>1. more \in Nat /\ 1..(to - trimmed) = 1..more
      BY <1>1
    <2>2. \A i \in 1..more : trimmed + i \in 1..Len(log)
      BY <1>1
    <2>3. QED
      BY <1>1, <2>1, <2>2
  <1>3. /\ to - from \in Nat /\ all \in [1..(to - from) -> Chunk4]
        /\ \A i \in 1..(to - from) : all[i] = Chunk(from + i) /\ from + i \in 1..Len(log)
    BY <1>1
  <1>4. /\ first \in Seq(Chunk4) /\ Len(first) = 1
        /\ first[1] = [event |-> "gap", id |-> trimmed]
    BY <1>1 DEF Ids
  <1>5. Chunks(from, to) = IF from < trimmed THEN first \o rest ELSE all
    BY DEF Chunks
  <1> DEFINE cs == Chunks(from, to)
  <1> HIDE DEF first, rest, all, cs, Chunk4
  <1>6. rest \in Seq(Chunk4) /\ Len(rest) = more
    BY <1>2, FunctionIsSeq
  <1>7. all \in Seq(Chunk4) /\ Len(all) = to - from
    BY <1>3, FunctionIsSeq
  <1>8. CASE from < trimmed
    <2>1. /\ cs = first \o rest /\ cs \in Seq(Chunk4) /\ Len(cs) = Len(first) + Len(rest)
          /\ \A i \in 1..(Len(first) + Len(rest)) :
                cs[i] = IF i <= Len(first) THEN first[i] ELSE rest[i - Len(first)]
      <3>1. cs = first \o rest
        BY <1>5, <1>8 DEF cs
      <3>2. QED
        BY <1>4, <1>6, <3>1, ConcatProperties, Zenon
    <2>2. cs \in Seq(Chunk4) /\ Len(cs) = 1 + Len(rest)
      BY <1>4, <2>1
    <2>3. cs[1] = [event |-> "gap", id |-> trimmed]
      BY <1>4, <1>2, <1>6, <2>1
    <2>4. \A i \in 1..Len(rest) : cs[i + 1] = Chunk(trimmed + i)
      <3>1. SUFFICES ASSUME NEW i \in 1..Len(rest)
                     PROVE  cs[i + 1] = Chunk(trimmed + i)
        OBVIOUS
      <3>2. /\ i + 1 \in 1..(Len(first) + Len(rest)) /\ ~(i + 1 <= Len(first))
            /\ (i + 1) - Len(first) = i
        BY <1>2, <1>4, <1>6, <3>1
      <3>3. QED
        BY <1>2, <1>6, <2>1, <3>1, <3>2
    <2>5. DOMAIN cs = 1..(1 + Len(rest))
      BY <2>2
    <2>6. \A i \in DOMAIN cs :
             \/ i = 1
             \/ /\ trimmed + i - 1 \in 1..Len(log)
                /\ cs[i] = Chunk(trimmed + i - 1) /\ cs[i].id = trimmed + i - 1
                /\ trimmed + i - 1 <= to
      <3>1. SUFFICES ASSUME NEW i \in DOMAIN cs, i # 1
                     PROVE  /\ trimmed + i - 1 \in 1..Len(log)
                            /\ cs[i] = Chunk(trimmed + i - 1) /\ cs[i].id = trimmed + i - 1
                            /\ trimmed + i - 1 <= to
        OBVIOUS
      <3>2. i - 1 \in 1..Len(rest) /\ (i - 1) + 1 = i /\ trimmed + (i - 1) = trimmed + i - 1
        BY <1>1, <1>2, <1>6, <2>5, <3>1
      <3>3. cs[i] = Chunk(trimmed + i - 1) /\ trimmed + i - 1 \in 1..Len(log)
        BY <1>2, <1>6, <2>4, <3>2
      <3>4. QED
        BY <1>1, <1>2, <1>6, <3>2, <3>3
    <2>7. \A e \in (trimmed + 1)..to :
             (e - trimmed) + 1 \in DOMAIN cs /\ cs[(e - trimmed) + 1].id = e
      <3>1. SUFFICES ASSUME NEW e \in (trimmed + 1)..to
                     PROVE  (e - trimmed) + 1 \in DOMAIN cs /\ cs[(e - trimmed) + 1].id = e
        OBVIOUS
      <3>2. /\ trimmed < to /\ e - trimmed \in 1..Len(rest)
            /\ trimmed + (e - trimmed) = e /\ e \in 1..Len(log)
        BY <1>1, <1>2, <1>6, <3>1
      <3>3. cs[(e - trimmed) + 1] = Chunk(e)
        BY <2>4, <3>2
      <3>4. QED
        BY <1>1, <1>2, <1>6, <2>5, <3>2, <3>3
    <2>8. cs # <<>> /\ 1 \in DOMAIN cs
      BY <1>2, <1>6, <2>2, <2>5
    <2>9. \A i, j \in DOMAIN cs : i < j => cs[i].id < cs[j].id
      <3>1. \A i \in DOMAIN cs : cs[i].id = trimmed + i - 1
        BY <1>1, <2>3, <2>6
      <3>2. DOMAIN cs \subseteq Nat
        BY <1>2, <1>6, <2>5
      <3>3. QED
        BY <1>1, <3>1, <3>2
    <2>10. \A i \in DOMAIN cs :
             \/ i = 1 /\ from < trimmed /\ cs[i] = [event |-> "gap", id |-> trimmed]
             \/ /\ cs[i].id \in DOMAIN log /\ cs[i] = Chunk(cs[i].id)
                /\ from < cs[i].id /\ trimmed < cs[i].id /\ cs[i].id <= to
      BY <1>1, <1>2, <1>6, <1>8, <2>3, <2>5, <2>6
    <2>11. \A e \in (from + 1)..to :
             \/ from < trimmed /\ e <= trimmed
             \/ \E i \in DOMAIN cs : cs[i].id = e
      BY <1>1, <1>8, <2>7
    <2>12. QED
      BY <1>8, <2>2, <2>3, <2>8, <2>9, <2>10, <2>11 DEF cs, Chunk4
  <1>9. CASE ~(from < trimmed)
    <2>1. cs = all
      BY <1>5, <1>9 DEF cs
    <2>2. DOMAIN cs = 1..(to - from)
      BY <1>1, <1>3, <1>7, <2>1
    <2>3. \A i \in DOMAIN cs : /\ cs[i] = Chunk(from + i) /\ from + i \in 1..Len(log)
                              /\ cs[i].id = from + i
      BY <1>1, <1>3, <1>7, <2>1, <2>2
    <2>4. \A e \in (from + 1)..to : e - from \in DOMAIN cs /\ cs[e - from].id = e
      BY <1>1, <2>2, <2>3
    <2>5. \A i, j \in DOMAIN cs : i < j => cs[i].id < cs[j].id
      BY <1>1, <2>2, <2>3
    <2>6. \A i \in DOMAIN cs : /\ cs[i].id \in DOMAIN log /\ cs[i] = Chunk(cs[i].id)
                              /\ from < cs[i].id /\ trimmed < cs[i].id /\ cs[i].id <= to
      BY <1>1, <1>9, <2>2, <2>3
    <2>7. QED
      BY <1>3, <1>7, <1>9, <2>1, <2>4, <2>5, <2>6 DEF cs, Chunk4
  <1>10. QED
    BY <1>8, <1>9
-----------------------------------------------------------------------------
(* Every step of the stream keeps the invariant. *)

\* The steps of meta-core and of the connection, but for those that hand a chunk over.
LEMMA ConnectionStepKeeps ==
    ASSUME StreamInv,
           Publish \/ Trim \/ LoadCursor \/ LoadCursorFails \/ Connect \/ ConnectionFails
              \/ StreamEnds
              \/ WakeUp \/ LoopEnds
    PROVE  StreamInv'
  <1> USE EventStreamAssumption DEF StreamInv, Loaded, InConnection, serverVars, cursorVars,
                                    flushVars, processVars, readVars, blindVars
  <1>1. CASE Publish
    <2>1. TypeOK'
      BY <1>1 DEF Publish, TypeOK
    <2>2. BufferSound'
      BY <1>1 DEF Publish, BufferSound, TypeOK, Chunk
    <2>3. NothingLost'
      BY <1>1 DEF Publish, BufferSound, NothingLost, PassedBy, Settled, DealtWith,
                  Buffered, CursorKept, PlacesSound, TypeOK
    <2>4. AtRest'
      BY <1>1 DEF Publish, AtRest, TypeOK
    <2>5. PlacesSound'
      <3>1. \A e \in DOMAIN log : e \in DOMAIN log' /\ log'[e] = log[e]
        BY <1>1 DEF Publish, TypeOK
      <3>2. \A e : Settled(e) => Settled(e)'
        BY <1>1, <3>1 DEF Publish, Settled, DealtWith
      <3>3. QED
        BY <1>1, <3>2 DEF Publish, PlacesSound, Flushing
    <2>6. CursorKept'
      BY <1>1 DEF Publish, CursorKept, AtRest, TypeOK
    <2>7. FlushSound'
      BY <1>1 DEF Publish, AtRest, FlushSound, Flushing, Idle, TypeOK
    <2>8. QED
      BY <2>1, <2>2, <2>3, <2>4, <2>5, <2>6, <2>7
  <1>2. CASE Trim
    <2>1. TypeOK'
      BY <1>2 DEF Trim, TypeOK
    <2>2. BufferSound'
      BY <1>2 DEF Trim, BufferSound, TypeOK, Chunk
    <2>3. NothingLost'
      BY <1>2 DEF Trim, BufferSound, NothingLost, PassedBy, Settled, DealtWith, Buffered,
                  CursorKept, PlacesSound, TypeOK
    <2>4. AtRest'
      BY <1>2 DEF Trim, AtRest, TypeOK
    <2>5. PlacesSound'
      BY <1>2 DEF Trim, AtRest, PlacesSound, Settled, DealtWith, Flushing, Idle, TypeOK
    <2>6. CursorKept'
      BY <1>2 DEF Trim, CursorKept, AtRest, TypeOK
    <2>7. FlushSound'
      BY <1>2 DEF Trim, AtRest, FlushSound, Flushing, Idle, TypeOK
    <2>8. QED
      BY <2>1, <2>2, <2>3, <2>4, <2>5, <2>6, <2>7
  <1>3. CASE LoadCursor
    <2>1. TypeOK'
      BY <1>3 DEF LoadCursor, TypeOK
    <2>2. BufferSound'
      BY <1>3 DEF LoadCursor, BufferSound, TypeOK, Chunk
    <2>3. NothingLost'
      BY <1>3 DEF LoadCursor, BufferSound, NothingLost, PassedBy, Settled, DealtWith,
                  Buffered, CursorKept, PlacesSound, TypeOK
    <2>4. AtRest'
      BY <1>3 DEF LoadCursor, AtRest, TypeOK
    <2>5. PlacesSound'
      BY <1>3 DEF LoadCursor, AtRest, PlacesSound, Settled, DealtWith, Flushing, Idle,
                  TypeOK
    <2>6. CursorKept'
      BY <1>3 DEF LoadCursor, CursorKept, AtRest, TypeOK
    <2>7. FlushSound'
      BY <1>3 DEF LoadCursor, AtRest, FlushSound, Flushing, Idle, TypeOK
    <2>8. QED
      BY <2>1, <2>2, <2>3, <2>4, <2>5, <2>6, <2>7
  <1>4. CASE Connect
    <2>1. TypeOK'
      BY <1>4 DEF Connect, ResumeFrom, TypeOK
    <2>2. BufferSound'
      BY <1>4 DEF Connect, ResumeFrom, BufferSound, TypeOK, Chunk
    <2>3. NothingLost'
      <3>1. /\ buffer' = <<>> /\ log' = log /\ trimmed' = trimmed /\ cursor' = cursor
            /\ handed' = handed /\ missed' = missed /\ sent' = ResumeFrom
        BY <1>4 DEF Connect, BufferSound
      <3>2. Len(log) \in Nat /\ DOMAIN log = 1..Len(log) /\ cursor \in Nat /\ file \in Nat
        BY DEF TypeOK
      <3>3. CASE cursor # 0
        BY <3>1, <3>2, <3>3 DEF ResumeFrom, NothingLost
      <3>4. CASE cursor = 0
        <4>1. passed' = passed \cup ((file + 1)..Len(log))
          BY <1>4, <3>4 DEF Connect, Blind, CursorKept
        <4>2. ASSUME NEW e \in DOMAIN log
              PROVE  PassedBy(e)'
          <5>1. CASE e <= file
            <6>1. Settled(e)
              BY <3>2, <5>1 DEF PlacesSound
            <6>2. QED
              BY <3>1, <3>4, <4>1, <6>1 DEF PassedBy, Settled, DealtWith
          <5>2. CASE ~(e <= file)
            <6>1. e \in passed'
              BY <3>2, <4>1, <5>2
            <6>2. QED
              BY <3>1, <3>4, <6>1 DEF PassedBy, Settled
          <5>3. QED
            BY <5>1, <5>2
        <4>3. QED
          BY <3>1, <3>2, <3>4, <4>2 DEF ResumeFrom, NothingLost
      <3>5. QED
        BY <3>3, <3>4
    <2>4. AtRest'
      BY <1>4 DEF Connect, ResumeFrom, AtRest, TypeOK
    <2>5. PlacesSound'
      BY <1>4 DEF Connect, ResumeFrom, AtRest, PlacesSound, Settled, DealtWith, Flushing,
                  Idle, TypeOK
    <2>6. CursorKept'
      BY <1>4 DEF Connect, ResumeFrom, CursorKept, AtRest, TypeOK
    <2>7. FlushSound'
      BY <1>4 DEF Connect, ResumeFrom, AtRest, FlushSound, Flushing, Idle, TypeOK
    <2>8. QED
      BY <2>1, <2>2, <2>3, <2>4, <2>5, <2>6, <2>7
  <1>5. CASE ConnectionFails
    <2>1. TypeOK'
      BY <1>5 DEF ConnectionFails, Fault, TypeOK
    <2>2. BufferSound'
      BY <1>5 DEF ConnectionFails, Fault, BufferSound, TypeOK, Chunk
    <2>3. NothingLost'
      BY <1>5 DEF ConnectionFails, Fault, BufferSound, NothingLost, PassedBy, Settled,
                  DealtWith, Buffered, CursorKept,
                  PlacesSound, TypeOK
    <2>4. AtRest'
      BY <1>5 DEF ConnectionFails, Fault, AtRest, TypeOK
    <2>5. PlacesSound'
      BY <1>5 DEF ConnectionFails, Fault, AtRest, PlacesSound, Settled, DealtWith,
                  Flushing, Idle, TypeOK
    <2>6. CursorKept'
      BY <1>5 DEF ConnectionFails, Fault, CursorKept, AtRest, TypeOK
    <2>7. FlushSound'
      BY <1>5 DEF ConnectionFails, Fault, AtRest, FlushSound, Flushing, Idle, TypeOK
    <2>8. QED
      BY <2>1, <2>2, <2>3, <2>4, <2>5, <2>6, <2>7
  <1>6. CASE StreamEnds
    <2>1. TypeOK'
      BY <1>6 DEF StreamEnds, NextConnection, Fault, TypeOK
    <2>2. BufferSound'
      BY <1>6 DEF StreamEnds, NextConnection, Fault, BufferSound, TypeOK, Chunk
    <2>3. NothingLost'
      BY <1>6 DEF StreamEnds, NextConnection, Fault, BufferSound, NothingLost, PassedBy,
                  Settled, DealtWith, Buffered,
                  CursorKept, PlacesSound, TypeOK
    <2>4. AtRest'
      BY <1>6 DEF StreamEnds, NextConnection, Fault, AtRest, TypeOK
    <2>5. PlacesSound'
      BY <1>6 DEF StreamEnds, NextConnection, Fault, AtRest, PlacesSound, Settled,
                  DealtWith, Flushing,
                  Idle, TypeOK
    <2>6. CursorKept'
      BY <1>6 DEF StreamEnds, NextConnection, Fault, CursorKept, AtRest, TypeOK
    <2>7. FlushSound'
      BY <1>6 DEF StreamEnds, NextConnection, Fault, AtRest, FlushSound, Flushing, Idle,
                  TypeOK
    <2>8. QED
      BY <2>1, <2>2, <2>3, <2>4, <2>5, <2>6, <2>7
  <1>7. CASE WakeUp
    <2>1. TypeOK'
      BY <1>7 DEF WakeUp, TypeOK
    <2>2. BufferSound'
      BY <1>7 DEF WakeUp, BufferSound, TypeOK, Chunk
    <2>3. NothingLost'
      BY <1>7 DEF WakeUp, BufferSound, NothingLost, PassedBy, Settled, DealtWith, Buffered,
                  CursorKept, PlacesSound, TypeOK
    <2>4. AtRest'
      BY <1>7 DEF WakeUp, AtRest, TypeOK
    <2>5. PlacesSound'
      BY <1>7 DEF WakeUp, AtRest, PlacesSound, Settled, DealtWith, Flushing, Idle, TypeOK
    <2>6. CursorKept'
      BY <1>7 DEF WakeUp, CursorKept, AtRest, TypeOK
    <2>7. FlushSound'
      BY <1>7 DEF WakeUp, AtRest, FlushSound, Flushing, Idle, TypeOK
    <2>8. QED
      BY <2>1, <2>2, <2>3, <2>4, <2>5, <2>6, <2>7
  <1>8. CASE LoopEnds
    <2>1. TypeOK'
      BY <1>8 DEF LoopEnds, TypeOK
    <2>2. BufferSound'
      BY <1>8 DEF LoopEnds, BufferSound, TypeOK, Chunk
    <2>3. NothingLost'
      BY <1>8 DEF LoopEnds, BufferSound, NothingLost, PassedBy, Settled, DealtWith,
                  Buffered, CursorKept, PlacesSound, TypeOK
    <2>4. AtRest'
      BY <1>8 DEF LoopEnds, AtRest, TypeOK
    <2>5. PlacesSound'
      BY <1>8 DEF LoopEnds, AtRest, PlacesSound, Settled, DealtWith, Flushing, Idle, TypeOK
    <2>6. CursorKept'
      BY <1>8 DEF LoopEnds, CursorKept, AtRest, TypeOK
    <2>7. FlushSound'
      BY <1>8 DEF LoopEnds, AtRest, FlushSound, Flushing, Idle, TypeOK
    <2>8. QED
      BY <2>1, <2>2, <2>3, <2>4, <2>5, <2>6, <2>7
  <1>10. CASE LoadCursorFails
    <2>1. TypeOK'
      BY <1>10 DEF LoadCursorFails, Fault, TypeOK
    <2>2. BufferSound'
      BY <1>10 DEF LoadCursorFails, Fault, BufferSound, TypeOK, Chunk
    <2>3. NothingLost'
      BY <1>10 DEF LoadCursorFails, Fault, BufferSound, NothingLost, PassedBy, Settled,
                   DealtWith, Buffered, CursorKept, PlacesSound, TypeOK
    <2>4. AtRest'
      BY <1>10 DEF LoadCursorFails, Fault, AtRest, TypeOK
    <2>5. PlacesSound'
      BY <1>10 DEF LoadCursorFails, Fault, AtRest, PlacesSound, Settled, DealtWith,
                   Flushing, Idle, TypeOK
    <2>6. CursorKept'
      BY <1>10 DEF LoadCursorFails, Fault, CursorKept, AtRest, TypeOK
    <2>7. FlushSound'
      BY <1>10 DEF LoadCursorFails, Fault, AtRest, FlushSound, Flushing, Idle, TypeOK
    <2>8. QED
      BY <2>1, <2>2, <2>3, <2>4, <2>5, <2>6, <2>7
  <1>11. QED
    BY <1>1, <1>2, <1>3, <1>4, <1>5, <1>6, <1>7, <1>8, <1>10

\* The flushes of the cursor, their timer, and the end and the start of the process.
LEMMA FlushStepKeeps ==
    ASSUME StreamInv,
           Tick \/ Stop \/ Exit \/ Crash \/ Restart
              \/ \E f \in Flushes : FlushStep(f) \/ FlushFails(f)
    PROVE  StreamInv'
  <1> USE EventStreamAssumption DEF StreamInv, Loaded, InConnection, serverVars, cursorVars,
                                    flushVars, processVars, readVars, blindVars
  <1>1. CASE Tick
    <2>1. TypeOK'
      <3>1. PICK f \in Flushes : BeginFlush(f)
        BY <1>1 DEF Tick
      <3>2. flushing' \in [Flushes -> [at : {"idle", "mkdir", "writing"}, value : Ids]]
        BY <3>1 DEF BeginFlush, TypeOK, Ids
      <3>3. cursorDirty' \in BOOLEAN /\ overlapped' \in BOOLEAN
        BY <3>1 DEF BeginFlush
      <3>4. QED
        BY <1>1, <3>2, <3>3 DEF Tick, TypeOK
    <2>2. BufferSound'
      BY <1>1 DEF Tick, BeginFlush, BufferSound, TypeOK, Chunk
    <2>3. NothingLost'
      BY <1>1 DEF Tick, BeginFlush, BufferSound, NothingLost, PassedBy, Settled, DealtWith,
                  Buffered, AtRest, TypeOK
    <2>4. AtRest'
      BY <1>1 DEF Tick, BeginFlush, AtRest, TypeOK, Flushing, Idle
    <2>5. PlacesSound'
      BY <1>1 DEF Tick, BeginFlush, AtRest, PlacesSound, Settled, DealtWith, Flushing,
                  Idle, TypeOK
    <2>6. CursorKept'
      BY <1>1 DEF Tick, BeginFlush, CursorKept, AtRest, PlacesSound, Flushing, Idle, TypeOK
    <2>7. FlushSound'
      BY <1>1 DEF Tick, BeginFlush, AtRest, FlushSound, Flushing, Idle, TypeOK
    <2>8. QED
      BY <2>1, <2>2, <2>3, <2>4, <2>5, <2>6, <2>7
  <1>2. ASSUME NEW f \in Flushes, OpenFile(f)
        PROVE  StreamInv'
    <2>1. TypeOK'
      BY <1>2 DEF OpenFile, ValueToWrite, TypeOK, Flushing, Idle, Ids
    <2>2. BufferSound'
      BY <1>2 DEF OpenFile, ValueToWrite, BufferSound, TypeOK, Chunk
    <2>3. NothingLost'
      BY <1>2 DEF OpenFile, ValueToWrite, BufferSound, NothingLost, PassedBy, Settled,
                  DealtWith, Buffered, AtRest, TypeOK
    <2>4. AtRest'
      BY <1>2 DEF OpenFile, ValueToWrite, AtRest, TypeOK, Flushing, Idle
    <2>5. PlacesSound'
      BY <1>2 DEF OpenFile, ValueToWrite, AtRest, PlacesSound, Settled, DealtWith,
                  Flushing, Idle, TypeOK
    <2>6. CursorKept'
      BY <1>2 DEF OpenFile, ValueToWrite, CursorKept, AtRest, PlacesSound, Flushing, Idle,
                  TypeOK
    <2>7. FlushSound'
      BY <1>2 DEF OpenFile, ValueToWrite, AtRest, FlushSound, Flushing, Idle, TypeOK
    <2>8. QED
      BY <2>1, <2>2, <2>3, <2>4, <2>5, <2>6, <2>7
  <1>3. ASSUME NEW f \in Flushes, EndFlush(f)
        PROVE  StreamInv'
    <2>1. TypeOK'
      <3>1. flushing' \in [Flushes -> [at : {"idle", "mkdir", "writing"}, value : Ids]]
        BY <1>3 DEF EndFlush, TypeOK, Idle, Ids
      <3>2. file' \in 0..Len(log)
        BY <1>3 DEF EndFlush, TypeOK, Ids, AtRest, PlacesSound, Idle
      <3>3. QED
        BY <1>3, <3>1, <3>2 DEF EndFlush, AfterWrite, TypeOK
    <2>2. BufferSound'
      BY <1>3 DEF EndFlush, AfterWrite, BufferSound, TypeOK, Chunk
    <2>3. NothingLost'
      BY <1>3 DEF EndFlush, AfterWrite, BufferSound, NothingLost, PassedBy, Settled,
                  DealtWith, Buffered, AtRest, TypeOK
    <2>4. AtRest'
      BY <1>3 DEF EndFlush, AfterWrite, AtRest, TypeOK, Flushing, Idle
    <2>5. PlacesSound'
      <3>1. Loaded /\ cursor # 0 /\ flushing[f].value <= cursor
        BY <1>3 DEF EndFlush, AtRest, PlacesSound, Flushing, Idle
      <3>2. \A e \in 1..flushing[f].value : Settled(e)
        BY <3>1 DEF PlacesSound, TypeOK, Ids
      <3>3. \A e : Settled(e)' <=> Settled(e)
        BY <1>3 DEF EndFlush, Settled, DealtWith
      <3>4. \A g \in Flushes : flushing'[g].value <= cursor
        BY <1>3, <3>1 DEF EndFlush, PlacesSound, Idle, TypeOK
      <3>5. QED
        BY <1>3, <3>1, <3>2, <3>3, <3>4 DEF EndFlush, PlacesSound, TypeOK
    <2>6. CursorKept'
      BY <1>3 DEF EndFlush, AfterWrite, CursorKept, AtRest, PlacesSound, Flushing, Idle,
                  TypeOK
    <2>7. FlushSound'
      BY <1>3 DEF EndFlush, AfterWrite, AtRest, FlushSound, Flushing, Idle, TypeOK
    <2>8. QED
      BY <2>1, <2>2, <2>3, <2>4, <2>5, <2>6, <2>7
  <1>4. ASSUME NEW f \in Flushes, FlushFails(f)
        PROVE  StreamInv'
    <2>1. TypeOK'
      BY <1>4 DEF FlushFails, Fault, TypeOK, Flushing, Idle, Ids
    <2>2. BufferSound'
      BY <1>4 DEF FlushFails, Fault, BufferSound, TypeOK, Chunk
    <2>3. NothingLost'
      BY <1>4 DEF FlushFails, Fault, BufferSound, NothingLost, PassedBy, Settled,
                  DealtWith, Buffered, AtRest, TypeOK
    <2>4. AtRest'
      BY <1>4 DEF FlushFails, Fault, AtRest, TypeOK, Flushing, Idle
    <2>5. PlacesSound'
      BY <1>4 DEF FlushFails, Fault, AtRest, PlacesSound, Settled, DealtWith, Flushing,
                  Idle, TypeOK
    <2>6. CursorKept'
      BY <1>4 DEF FlushFails, Fault, CursorKept, AtRest, PlacesSound, Flushing, Idle, TypeOK
    <2>7. FlushSound'
      BY <1>4 DEF FlushFails, Fault, AtRest, FlushSound, Flushing, Idle, TypeOK
    <2>8. QED
      BY <2>1, <2>2, <2>3, <2>4, <2>5, <2>6, <2>7
  <1>5. CASE Stop
    <2>1. TypeOK'
      <3>1. /\ flushing' \in [Flushes -> [at : {"idle", "mkdir", "writing"}, value : Ids]]
            /\ stopFlush' \subseteq Flushes
            /\ cursorDirty' \in BOOLEAN /\ overlapped' \in BOOLEAN
        <4>1. CASE cursorDirty
          <5>1. PICK f \in Flushes : BeginFlush(f) /\ stopFlush' = {f}
            BY <1>5, <4>1 DEF Stop
          <5>2. flushing' \in [Flushes -> [at : {"idle", "mkdir", "writing"}, value : Ids]]
            BY <5>1 DEF BeginFlush, TypeOK, Ids
          <5>3. cursorDirty' \in BOOLEAN /\ overlapped' \in BOOLEAN
            BY <5>1 DEF BeginFlush
          <5>4. QED
            BY <5>1, <5>2, <5>3
        <4>2. CASE ~cursorDirty
          BY <1>5, <4>2 DEF Stop, TypeOK
        <4>3. QED
          BY <4>1, <4>2
      <3>2. QED
        BY <1>5, <3>1 DEF Stop, TypeOK
    <2>2. BufferSound'
      BY <1>5 DEF Stop, BeginFlush, BufferSound, TypeOK, Chunk
    <2>3. NothingLost'
      BY <1>5 DEF Stop, BeginFlush, BufferSound, NothingLost, PassedBy, Settled, DealtWith,
                  Buffered, AtRest, TypeOK
    <2>4. AtRest'
      BY <1>5 DEF Stop, BeginFlush, AtRest, TypeOK, Flushing, Idle
    <2>5. PlacesSound'
      <3>1. CASE cursorDirty
        <4>1. PICK f \in Flushes : BeginFlush(f)
          BY <1>5, <3>1 DEF Stop
        <4>2. QED
          BY <1>5, <3>1, <4>1 DEF Stop, BeginFlush, AtRest, PlacesSound, Settled,
                                  DealtWith, Flushing,
                                  Idle, TypeOK
      <3>2. CASE ~cursorDirty
        BY <1>5, <3>2 DEF Stop, AtRest, PlacesSound, Settled, DealtWith, Flushing, Idle,
                          TypeOK
      <3>3. QED
        BY <3>1, <3>2
    <2>6. CursorKept'
      BY <1>5 DEF Stop, BeginFlush, CursorKept, AtRest, PlacesSound, Flushing, Idle, TypeOK
    <2>7. FlushSound'
      <3>1. CASE cursorDirty
        <4>1. PICK f \in Flushes : BeginFlush(f)
          BY <1>5, <3>1 DEF Stop
        <4>2. QED
          BY <1>5, <3>1, <4>1 DEF Stop, BeginFlush, AtRest, FlushSound, Flushing, Idle,
                                  TypeOK
      <3>2. CASE ~cursorDirty
        BY <1>5, <3>2 DEF Stop, AtRest, FlushSound, Flushing, Idle, TypeOK
      <3>3. QED
        BY <3>1, <3>2
    <2>8. QED
      BY <2>1, <2>2, <2>3, <2>4, <2>5, <2>6, <2>7
  <1>6. CASE Exit \/ Crash
    <2>1. TypeOK'
      <3>1. Ends
        BY <1>6 DEF Exit, Crash
      <3>2. flushing' \in [Flushes -> [at : {"idle", "mkdir", "writing"}, value : Ids]]
        BY <3>1 DEF Ends, Idle, Ids
      <3>3. cut' \in BOOLEAN /\ exits' \in Nat
        BY <3>1 DEF Ends, TypeOK
      <3>4. buffer' \in Seq([event : Kinds \cup {"gap"}, id : Ids])
        BY <3>1, EmptySeq DEF Ends
      <3>5. {trimmed', sent', cursor', file'} \subseteq 0..Len(log')
            /\ stopFlush' \subseteq Flushes
        BY <3>1 DEF Ends, TypeOK
      <3>6. QED
        BY <3>1, <3>2, <3>3, <3>4, <3>5 DEF Ends, TypeOK
    <2>2. BufferSound'
      BY <1>6 DEF Exit, Crash, Ends, BufferSound, TypeOK, Chunk
    <2>3. NothingLost'
      BY <1>6 DEF Exit, Crash, Ends, BufferSound, NothingLost, PassedBy, Settled,
                  DealtWith, Buffered, AtRest, TypeOK
    <2>4. AtRest'
      BY <1>6 DEF Exit, Crash, Ends, AtRest, TypeOK, Flushing, Idle
    <2>5. PlacesSound'
      BY <1>6 DEF Exit, Crash, Ends, AtRest, PlacesSound, Settled, DealtWith, Flushing,
                  Idle, TypeOK
    <2>6. CursorKept'
      BY <1>6 DEF Exit, Crash, Ends, CursorKept, AtRest, PlacesSound, Flushing, Idle, TypeOK
    <2>7. FlushSound'
      BY <1>6 DEF Exit, Crash, Ends, AtRest, FlushSound, Flushing, Idle, TypeOK
    <2>8. QED
      BY <2>1, <2>2, <2>3, <2>4, <2>5, <2>6, <2>7
  <1>7. CASE Restart
    <2>1. TypeOK'
      BY <1>7 DEF Restart, TypeOK, Flushing, Idle, Ids
    <2>2. BufferSound'
      BY <1>7 DEF Restart, BufferSound, TypeOK, Chunk
    <2>3. NothingLost'
      BY <1>7 DEF Restart, BufferSound, NothingLost, PassedBy, Settled, DealtWith,
                  Buffered, AtRest, TypeOK
    <2>4. AtRest'
      BY <1>7 DEF Restart, AtRest, TypeOK, Flushing, Idle
    <2>5. PlacesSound'
      BY <1>7 DEF Restart, AtRest, PlacesSound, Settled, DealtWith, Flushing, Idle, TypeOK
    <2>6. CursorKept'
      BY <1>7 DEF Restart, CursorKept, AtRest, PlacesSound, Flushing, Idle, TypeOK
    <2>7. FlushSound'
      BY <1>7 DEF Restart, AtRest, FlushSound, Flushing, Idle, TypeOK
    <2>8. QED
      BY <2>1, <2>2, <2>3, <2>4, <2>5, <2>6, <2>7
  <1>8. QED
    BY <1>1, <1>2, <1>3, <1>4, <1>5, <1>6, <1>7 DEF FlushStep

\* The first chunk of the buffer, and the others.
LEMMA BufferParts ==
    ASSUME TypeOK, buffer # <<>>
    PROVE  /\ Head(buffer) = buffer[1] /\ 1 \in DOMAIN buffer
           /\ buffer[1] \in [event : Kinds \cup {"gap"}, id : Ids]
           /\ Tail(buffer) \in Seq([event : Kinds \cup {"gap"}, id : Ids])
           /\ \A i \in DOMAIN Tail(buffer) : i \in Nat \ {0} /\ i + 1 \in DOMAIN buffer
                                            /\ Tail(buffer)[i] = buffer[i + 1]
           /\ \A i \in DOMAIN buffer :
                 /\ i \in Nat
                 /\ i # 1 => i - 1 \in DOMAIN Tail(buffer) /\ Tail(buffer)[i - 1] = buffer[i]
  <1> DEFINE C == [event : Kinds \cup {"gap"}, id : Ids]
  <1>1. buffer \in Seq(C)
    BY DEF TypeOK
  <1> HIDE DEF C
  <1>2. /\ Tail(buffer) \in Seq(C) /\ Len(Tail(buffer)) = Len(buffer) - 1
        /\ \A i \in 1..Len(Tail(buffer)) : Tail(buffer)[i] = buffer[i + 1]
    BY <1>1, HeadTailProperties
  <1>3. Len(buffer) \in Nat \ {0}
    BY <1>1, EmptySeq
  <1>4. DOMAIN buffer = 1..Len(buffer) /\ DOMAIN Tail(buffer) = 1..Len(Tail(buffer))
    BY <1>1, <1>2, LenProperties
  <1>5. Head(buffer) = buffer[1] /\ buffer[1] \in C
    BY <1>1, <1>3, ElementOfSeq
  <1>6. ASSUME NEW i \in DOMAIN buffer, i # 1
        PROVE  i - 1 \in DOMAIN Tail(buffer) /\ Tail(buffer)[i - 1] = buffer[i]
    <2>1. i - 1 \in 1..Len(Tail(buffer)) /\ (i - 1) + 1 = i
      BY <1>2, <1>3, <1>4, <1>6
    <2>2. QED
      BY <1>2, <1>4, <2>1
  <1>7. ASSUME NEW i \in DOMAIN Tail(buffer)
        PROVE  i \in Nat \ {0} /\ i + 1 \in DOMAIN buffer /\ Tail(buffer)[i] = buffer[i + 1]
    BY <1>2, <1>3, <1>4
  <1>8. DOMAIN buffer \subseteq Nat /\ 1 \in DOMAIN buffer
    BY <1>3, <1>4
  <1>9. \A i \in DOMAIN buffer :
           /\ i \in Nat
           /\ i # 1 => i - 1 \in DOMAIN Tail(buffer) /\ Tail(buffer)[i - 1] = buffer[i]
    BY <1>6, <1>8
  <1>10. \A i \in DOMAIN Tail(buffer) : i \in Nat \ {0} /\ i + 1 \in DOMAIN buffer
                                          /\ Tail(buffer)[i] = buffer[i + 1]
    BY <1>7, Zenon
  <1>11. QED
    BY <1>2, <1>5, <1>8, <1>9, <1>10, Zenon DEF C

\* Dropping the first chunk, with the cursor moved to it, keeps the invariant when all
\* that the move passes is dealt with.
LEMMA MoveKeeps ==
    ASSUME StreamInv, Loaded, InConnection, buffer # <<>>, reader' = "reading",
           buffer' = Tail(buffer), cursor' = buffer[1].id, cursorDirty' = TRUE,
           UNCHANGED <<serverVars, sent, flushVars, processVars, blindVars, faults>>,
           handed \subseteq handed', missed \subseteq missed',
           handed' \cup missed' \subseteq 1..Len(log),
           \A e \in (cursor + 1)..buffer[1].id : Settled(e)'
    PROVE  StreamInv'
  <1> USE DEF StreamInv, Loaded, InConnection, serverVars, cursorVars, flushVars,
              processVars,
              readVars, blindVars
  <1>1. TypeOK
    OBVIOUS
  <1>2. /\ buffer[1].id \in 0..Len(log) /\ cursor <= buffer[1].id /\ 0 < buffer[1].id
        /\ buffer[1].id <= sent \/ buffer[1].id <= trimmed
        /\ Len(log) \in Nat /\ cursor \in Nat /\ sent \in Nat /\ trimmed \in Nat
    <2>1. /\ Len(log) \in Nat /\ cursor \in Nat /\ sent \in 0..Len(log) /\ trimmed \in 0..Len(log)
          /\ DOMAIN log = 1..Len(log)
      BY DEF TypeOK
    <2>2. buffer[1].id \in Nat
      BY BufferParts DEF Ids
    <2>3. \/ cursor <= buffer[1].id /\ 0 < buffer[1].id /\ buffer[1].id <= trimmed
          \/ buffer[1].id \in DOMAIN log /\ cursor < buffer[1].id /\ buffer[1].id <= sent
      BY BufferParts DEF BufferSound
    <2>4. QED
      BY <2>1, <2>2, <2>3
  <1>3. TypeOK'
    BY BufferParts, <1>2 DEF TypeOK
  <1>4. /\ \A i \in DOMAIN buffer : i # 1 => /\ buffer[i].id \in DOMAIN log
                                          /\ buffer[i] = Chunk(buffer[i].id)
                                          /\ buffer[1].id < buffer[i].id
                                          /\ buffer[i].id <= sent
        /\ \A i \in DOMAIN buffer : i \in Nat /\ (i # 1 => 1 < i)
    BY BufferParts DEF BufferSound
  <1>5. BufferSound'
    <2>1. ASSUME NEW i \in DOMAIN buffer'
          PROVE  /\ i + 1 \in DOMAIN buffer /\ i + 1 # 1 /\ buffer'[i] = buffer[i + 1]
                 /\ buffer'[i].id \in DOMAIN log /\ buffer'[i] = Chunk(buffer'[i].id)
                 /\ cursor' < buffer'[i].id /\ buffer'[i].id <= sent
      BY <2>1, <1>4, BufferParts
    <2>2. \A i, j \in DOMAIN buffer' : i < j => buffer'[i].id < buffer'[j].id
      BY <2>1, BufferParts DEF BufferSound
    <2>3. \A e : Chunk(e)' = Chunk(e)
      BY DEF Chunk
    <2>4. QED
      BY <1>2, <2>1, <2>2, <2>3 DEF BufferSound
  <1>6. NothingLost'
    <2>1. cursor' <= sent' \/ cursor' <= trimmed'
      BY <1>2
    <2>2. ASSUME NEW e \in DOMAIN log, cursor' < e, e <= sent
          PROVE  log[e] = "garbled" \/ Buffered(e)'
      <3>1. e \in Nat /\ cursor < e
        BY <1>2, <2>2 DEF TypeOK
      <3>2. log[e] = "garbled" \/ Buffered(e)
        <4>1. ~(e < buffer[1].id)
          BY <1>2, <2>2, <3>1
        <4>2. ~PassedBy(e)
          BY <4>1, BufferParts DEF PassedBy
        <4>3. QED
          BY <2>2, <3>1, <4>2 DEF NothingLost
      <3>3. ASSUME Buffered(e)
            PROVE  \E i \in DOMAIN buffer : i # 1 /\ buffer[i].id = e
        BY <1>2, <2>2, <3>1, <3>3 DEF Buffered
      <3>4. ASSUME NEW i \in DOMAIN buffer, i # 1, buffer[i].id = e
            PROVE  Buffered(e)'
        BY <3>4, BufferParts DEF Buffered
      <3>5. QED
        BY <3>2, <3>3, <3>4
    <2>3. QED
      BY <1>2, <2>1, <2>2 DEF NothingLost
  <1>7. AtRest'
    BY DEF AtRest
  <1>8. PlacesSound'
    <2>1. \A e : Settled(e) => Settled(e)'
      BY DEF Settled, DealtWith
    <2>2. \A e \in 1..cursor' : Settled(e)'
      BY <1>2, <2>1 DEF PlacesSound
    <2>3. \A f \in Flushes : flushing'[f].value <= cursor'
      BY <1>2 DEF PlacesSound, TypeOK, Ids
    <2>4. QED
      BY <1>2, <2>1, <2>2, <2>3 DEF PlacesSound, Flushing
  <1>9. CursorKept' /\ FlushSound'
    BY <1>2 DEF CursorKept, FlushSound, Flushing
  <1>10. QED
    BY <1>3, <1>5, <1>6, <1>7, <1>8, <1>9

\* A read puts all that was published since the last one into the buffer.
LEMMA ReadKeeps ==
    ASSUME StreamInv, Read
    PROVE  StreamInv'
  <1> USE DEF StreamInv, Loaded, InConnection, serverVars, cursorVars, flushVars,
              processVars,
              readVars, blindVars
  <1>1. PICK to \in (sent + 1)..Len(log) : sent' = to /\ buffer' = Chunks(sent, to)
    BY DEF Read
  <1>2. /\ buffer = <<>> /\ reader = "reading" /\ up
        /\ UNCHANGED <<log, trimmed, cursorVars, flushVars, processVars, readVars, reader,
                       blindVars, faults>>
    BY DEF Read
  <1>3. /\ Len(log) \in Nat /\ DOMAIN log = 1..Len(log) /\ sent \in 0..Len(log) /\ sent < to
        /\ cursor \in Nat /\ trimmed \in Nat /\ to \in Nat
    BY DEF TypeOK
  <1> DEFINE cs == Chunks(sent, to)
  <1>4. /\ cs \in Seq([event : Kinds \cup {"gap"}, id : Ids])
        /\ \A i \in DOMAIN cs :
              \/ i = 1 /\ sent < trimmed /\ cs[i] = [event |-> "gap", id |-> trimmed]
              \/ /\ cs[i].id \in DOMAIN log /\ cs[i] = Chunk(cs[i].id)
                 /\ sent < cs[i].id /\ trimmed < cs[i].id /\ cs[i].id <= to
        /\ \A i, j \in DOMAIN cs : i < j => cs[i].id < cs[j].id
        /\ sent < trimmed => cs # <<>> /\ cs[1] = [event |-> "gap", id |-> trimmed]
        /\ \A e \in (sent + 1)..to :
              \/ sent < trimmed /\ e <= trimmed
              \/ \E i \in DOMAIN cs : cs[i].id = e
    BY <1>1, <1>3, ChunksSound
  <1>5. buffer' = cs
    BY <1>1
  <1> HIDE DEF cs
  <1>6. TypeOK'
    BY <1>1, <1>2, <1>3, <1>4, <1>5 DEF TypeOK
  <1>7. cursor <= sent \/ cursor <= trimmed
    BY <1>2 DEF NothingLost
  <1>8. \A e : Chunk(e)' = Chunk(e)
    BY <1>2 DEF Chunk
  <1>9. BufferSound'
    <2>1. ASSUME NEW i \in DOMAIN cs
          PROVE  /\ \/ /\ i = 1 /\ cs[i].event = "gap"
                       /\ cursor <= cs[i].id /\ 0 < cs[i].id /\ cs[i].id <= trimmed
                    \/ /\ cs[i].id \in DOMAIN log /\ cs[i] = Chunk(cs[i].id)
                       /\ cursor < cs[i].id /\ cs[i].id <= to
      <3>2. CASE i = 1 /\ sent < trimmed /\ cs[i] = [event |-> "gap", id |-> trimmed]
        BY <1>3, <1>7, <3>2
      <3>3. CASE /\ cs[i].id \in DOMAIN log /\ cs[i] = Chunk(cs[i].id)
                 /\ sent < cs[i].id /\ trimmed < cs[i].id /\ cs[i].id <= to
        BY <1>3, <1>7, <3>3
      <3>4. QED
        BY <1>4, <3>2, <3>3
    <2>2. QED
      BY <1>1, <1>2, <1>4, <1>5, <1>8, <2>1 DEF BufferSound
  <1>10. NothingLost'
    <2>1. cursor <= to \/ cursor <= trimmed
      BY <1>3, <1>7
    <2>2. \A i \in DOMAIN cs : sent < cs[i].id /\ cs[i].id \in Nat
      BY <1>3, <1>4
    <2>3. ASSUME NEW e \in DOMAIN log, cursor < e, e <= to
          PROVE  log[e] = "garbled" \/ Buffered(e)' \/ PassedBy(e)'
      <3>1. CASE e <= sent
        <4>1. log[e] = "garbled" \/ PassedBy(e)
          BY <1>2, <2>3, <3>1 DEF NothingLost, Buffered
        <4>2. Settled(e)' <=> Settled(e)
          BY <1>2 DEF Settled, DealtWith
        <4>3. \A i \in DOMAIN cs : e < cs[i].id
          BY <1>3, <2>2, <2>3, <3>1
        <4>4. QED
          BY <1>2, <1>5, <4>1, <4>2, <4>3 DEF PassedBy
      <3>2. CASE ~(e <= sent)
        <4>1. e \in (sent + 1)..to
          BY <1>3, <2>3, <3>2
        <4>2. CASE sent < trimmed /\ e <= trimmed
          BY <1>4, <1>5, <4>2 DEF Buffered
        <4>3. CASE \E i \in DOMAIN cs : cs[i].id = e
          BY <1>5, <4>3 DEF Buffered
        <4>4. QED
          BY <1>4, <4>1, <4>2, <4>3
      <3>3. QED
        BY <3>1, <3>2
    <2>4. QED
      BY <1>1, <1>2, <2>1, <2>3 DEF NothingLost
  <1>11. AtRest' /\ CursorKept' /\ FlushSound'
    BY <1>2 DEF AtRest, CursorKept, FlushSound, Flushing
  <1>12. PlacesSound'
    BY <1>2 DEF PlacesSound, Flushing, Settled, DealtWith
  <1>13. QED
    BY <1>6, <1>9, <1>10, <1>11, <1>12

\* What the events up to the head of the buffer are: all that come before the head are
\* garbled or were passed over by a connection without a cursor.
LEMMA BeforeHead ==
    ASSUME StreamInv, InConnection, buffer # <<>>, buffer[1].event # "gap",
           NEW e \in (cursor + 1)..(buffer[1].id - 1)
    PROVE  e \in DOMAIN log /\ (log[e] = "garbled" \/ PassedBy(e))
  <1> USE DEF StreamInv
  <1>1. /\ buffer[1].id \in DOMAIN log /\ buffer[1].id <= sent
        /\ \A i \in DOMAIN buffer : i # 1 => buffer[1].id < buffer[i].id
    BY BufferParts DEF BufferSound
  <1>2. e \in DOMAIN log /\ cursor < e /\ e < buffer[1].id /\ e <= sent
    BY <1>1 DEF TypeOK
  <1>3. ~Buffered(e)
    <2>1. e \in Nat /\ buffer[1].id \in Nat
      BY <1>2, BufferParts DEF TypeOK, Ids
    <2>2. \A i \in DOMAIN buffer : buffer[i].id # e
      BY <1>1, <1>2, <2>1
    <2>3. QED
      BY <2>2 DEF Buffered
  <1>4. QED
    BY <1>2, <1>3 DEF NothingLost

\* The chunk at the head of the buffer is dealt with: passed over, handed on, or both.
LEMMA HandleStepKeeps ==
    ASSUME StreamInv, HandleChunk \/ EndReset
    PROVE  StreamInv'
  <1> USE DEF StreamInv, Loaded, InConnection, serverVars, cursorVars, flushVars,
              processVars,
              readVars, blindVars
  <1>1. /\ buffer # <<>> /\ Head(buffer) = buffer[1] /\ 1 \in DOMAIN buffer /\ up
        /\ buffer[1].id \in Nat
    BY BufferParts DEF HandleChunk, EndReset, TypeOK, Ids
  <1>2. buffer[1].event # "gap" => /\ buffer[1].id \in DOMAIN log
                                   /\ log[buffer[1].id] = buffer[1].event
                                   /\ cursor < buffer[1].id
    BY <1>1 DEF BufferSound, Chunk
  <1>3. /\ Len(log) \in Nat /\ DOMAIN log = 1..Len(log) /\ cursor \in Nat /\ trimmed \in 0..Len(log)
    BY DEF TypeOK
  <1>4. CASE HandleChunk /\ HandleGarbled
    <2>1. /\ buffer' = Tail(buffer) /\ reader = "reading" /\ buffer[1].event = "garbled"
          /\ UNCHANGED <<serverVars, sent, cursorVars, flushVars, processVars, readVars,
                         reader, blindVars, faults>>
      BY <1>1, <1>4 DEF HandleChunk, HandleGarbled, NextChunk
    <2>2. TypeOK'
      BY <1>1, <2>1, BufferParts DEF TypeOK
    <2>3. \A e : Chunk(e)' = Chunk(e)
      BY <2>1 DEF Chunk
    <2>4. BufferSound'
      <3>1. ASSUME NEW i \in DOMAIN buffer'
            PROVE  /\ i \in Nat /\ i + 1 \in DOMAIN buffer /\ i + 1 # 1
                   /\ buffer'[i] = buffer[i + 1]
                   /\ buffer'[i].id \in DOMAIN log /\ buffer'[i] = Chunk(buffer'[i].id)
                   /\ cursor < buffer'[i].id /\ buffer'[i].id <= sent
        <4>1. i \in Nat \ {0} /\ i + 1 \in DOMAIN buffer /\ buffer'[i] = buffer[i + 1]
          BY <1>1, <2>1, <3>1, BufferParts
        <4>2. QED
          BY <4>1 DEF BufferSound
      <3>2. \A i, j \in DOMAIN buffer' : i < j => buffer'[i].id < buffer'[j].id
        BY <3>1 DEF BufferSound
      <3>3. QED
        BY <2>1, <2>3, <3>1, <3>2 DEF BufferSound
    <2>5. NothingLost'
      <3>1. ASSUME NEW e \in DOMAIN log, log[e] # "garbled", Buffered(e)
            PROVE  Buffered(e)'
        <4>1. PICK i \in DOMAIN buffer : buffer[i].id = e
          BY <2>1, <3>1 DEF Buffered
        <4>2. i # 1
          BY <1>2, <2>1, <3>1, <4>1
        <4>3. i - 1 \in DOMAIN Tail(buffer) /\ Tail(buffer)[i - 1] = buffer[i]
          BY <1>1, <4>1, <4>2, BufferParts
        <4>4. QED
          BY <2>1, <4>1, <4>3 DEF Buffered
      <3>2. ASSUME NEW e \in DOMAIN log, PassedBy(e)
            PROVE  PassedBy(e)'
        <4>1. \A i \in DOMAIN buffer' : i + 1 \in DOMAIN buffer /\ buffer'[i] = buffer[i + 1]
          BY <1>1, <2>1, BufferParts
        <4>2. QED
          BY <2>1, <3>2, <4>1 DEF PassedBy, Settled, DealtWith
      <3>3. QED
        BY <2>1, <3>1, <3>2 DEF NothingLost
    <2>6. AtRest' /\ PlacesSound' /\ CursorKept' /\ FlushSound'
      BY <2>1 DEF AtRest, PlacesSound, CursorKept, FlushSound, Flushing, Settled, DealtWith
    <2>7. QED
      BY <2>2, <2>4, <2>5, <2>6
  <1>5. CASE HandleChunk /\ HandleGap
    <2>1. /\ buffer' = Tail(buffer) /\ reader = "reading" /\ reader' = "reading"
          /\ cursor' = buffer[1].id /\ cursorDirty' = TRUE /\ buffer[1].event = "gap"
          /\ missed' = missed \cup ((cursor + 1)..buffer[1].id) /\ handed' = handed
          /\ UNCHANGED <<serverVars, sent, flushVars, processVars, blindVars, faults>>
      BY <1>1, <1>5 DEF HandleChunk, HandleGap, NextChunk, MoveCursor
    <2>2. \A e \in (cursor + 1)..buffer[1].id : Settled(e)'
      BY <2>1 DEF Settled, DealtWith
    <2>3. buffer[1].id <= Len(log)
      BY <1>1, <1>3, <2>1 DEF BufferSound, Chunk
    <2>4. handed' \cup missed' \subseteq 1..Len(log)
      BY <1>1, <1>3, <2>1, <2>3 DEF TypeOK
    <2>5. QED
      BY <1>1, <2>1, <2>2, <2>4, MoveKeeps
  <1>6. ASSUME buffer[1].event \in Legible, buffer' = Tail(buffer),
               reader \in {"reading", "handling"}, reader' = "reading",
               cursor' = buffer[1].id, cursorDirty' = TRUE,
               handed' = IF buffer[1].event = "broken" THEN handed
                         ELSE handed \cup {buffer[1].id},
               UNCHANGED <<serverVars, sent, flushVars, processVars, missed, blindVars, faults>>
        PROVE  StreamInv'
    <2>1. buffer[1].event # "gap"
      BY <1>6 DEF Legible
    <2>2. ASSUME NEW e \in (cursor + 1)..buffer[1].id
          PROVE  Settled(e)'
      <3>1. CASE e = buffer[1].id
        BY <1>2, <1>6, <2>1, <3>1 DEF Settled, DealtWith
      <3>2. CASE e # buffer[1].id
        <4>1. e \in (cursor + 1)..(buffer[1].id - 1)
          BY <1>1, <1>3, <2>2, <3>2
        <4>2. QED
          BY <1>1, <1>6, <2>1, <2>2, <4>1, BeforeHead DEF PassedBy, Settled, DealtWith
      <3>3. QED
        BY <3>1, <3>2
    <2>3. handed' \cup missed' \subseteq 1..Len(log)
      BY <1>2, <1>3, <1>6, <2>1 DEF TypeOK
    <2>4. QED
      BY <1>1, <1>6, <2>2, <2>3, MoveKeeps
  <1>7. CASE HandleChunk /\ HandleFileEvent
    BY <1>1, <1>6, <1>7 DEF HandleChunk, HandleFileEvent, NextChunk, MoveCursor, Legible
  <1>8. CASE HandleChunk /\ BeginReset
    <2>1. /\ buffer[1].event = "reset" /\ reader = "reading" /\ reader' = "handling"
          /\ UNCHANGED <<serverVars, sent, cursorVars, flushVars, processVars, readVars,
                         buffer, blindVars, faults>>
      BY <1>1, <1>8 DEF HandleChunk, BeginReset
    <2>2. TypeOK'
      BY <1>1, <2>1 DEF TypeOK
    <2>3. BufferSound' /\ NothingLost'
      BY <2>1 DEF BufferSound, NothingLost, PassedBy, Settled, DealtWith, Buffered, Chunk
    <2>4. AtRest' /\ PlacesSound' /\ CursorKept' /\ FlushSound'
      BY <1>1, <2>1 DEF AtRest, PlacesSound, CursorKept, FlushSound, Flushing, Settled,
                        DealtWith
    <2>5. QED
      BY <2>2, <2>3, <2>4
  <1>9. CASE EndReset
    <2>1. buffer[1].event = "reset"
      BY <1>1, <1>9 DEF EndReset, TypeOK
    <2>2. QED
      BY <1>1, <1>6, <1>9, <2>1 DEF EndReset, NextChunk, MoveCursor, Legible
  <1>10. QED
    BY <1>4, <1>5, <1>7, <1>8, <1>9 DEF HandleChunk

\* A step that only counts a fault, the index's, is none of the stream's.
LEMMA StreamStepKeeps ==
    ASSUME StreamInv, [Next]_vars \/ (Fault /\ UNCHANGED <<serverVars, sent, cursorVars, flushVars,
                                          processVars, readVars, reader, buffer, blindVars>>)
    PROVE  StreamInv'
  <1>1. CASE Next
    BY <1>1, ConnectionStepKeeps, FlushStepKeeps, ReadKeeps, HandleStepKeeps DEF Next, Loop
  <1>2. CASE UNCHANGED vars
    BY <1>2 DEF vars, serverVars, cursorVars, flushVars, processVars, readVars, blindVars,
                StreamInv,
                TypeOK,
                BufferSound, NothingLost, AtRest, PlacesSound, CursorKept, FlushSound, Loaded,
                InConnection, Buffered, PassedBy, Settled, DealtWith, Flushing, Chunk
  <1>3. CASE Fault /\ UNCHANGED <<serverVars, sent, cursorVars, flushVars,
                                  processVars, readVars, reader, buffer, blindVars>>
    <2>1. faults' \in 0..MaxFaults
      BY <1>3, EventStreamAssumption DEF Fault, StreamInv, TypeOK
    <2>2. QED
      BY <1>3, <2>1 DEF serverVars, cursorVars, flushVars, processVars, readVars,
                        blindVars, StreamInv,
                TypeOK,
                BufferSound, NothingLost, AtRest, PlacesSound, CursorKept, FlushSound, Loaded,
                InConnection, Buffered, PassedBy, Settled, DealtWith, Flushing, Chunk
  <1>4. QED
    BY <1>1, <1>2, <1>3

\* The first run finds nothing on disk and an empty log.
LEMMA StreamInit == Init => StreamInv
  <1> SUFFICES ASSUME Init PROVE StreamInv
    OBVIOUS
  <1> USE EventStreamAssumption DEF Init
  <1>1. TypeOK
    <2>1. log \in Seq(Kinds) /\ buffer \in Seq([event : Kinds \cup {"gap"},
        id : Ids]) /\ Len(log) = 0
      BY EmptySeq
    <2>2. flushing \in [Flushes -> [at : {"idle", "mkdir", "writing"}, value : Ids]]
      BY DEF Idle, Ids
    <2>3. {trimmed, sent, cursor, file} \subseteq 0..Len(log) /\ Len(log) <= MaxEvents
      BY <2>1
    <2>4. faults \in 0..MaxFaults /\ exits \in Nat /\ handed \cup missed \cup passed \subseteq 1..Len(log)
      OBVIOUS
    <2>5. QED
      BY <2>1, <2>2, <2>3, <2>4 DEF TypeOK
  <1>2. BufferSound /\ NothingLost /\ AtRest /\ CursorKept
    BY DEF BufferSound, NothingLost, AtRest, CursorKept, Loaded, InConnection
  <1>3. PlacesSound /\ FlushSound
    BY DEF PlacesSound, FlushSound, Loaded, Flushing, Idle
  <1>4. QED
    BY <1>1, <1>2, <1>3 DEF StreamInv

\* A step of the intake is one of the stream, or leaves the stream as it is but for the
\* count of faults.
LEMMA IntakeStep ==
    ASSUME [IntakeNext]_intakeVars
    PROVE  [Next]_vars \/ (Fault /\ UNCHANGED <<serverVars, sent, cursorVars, flushVars,
                                      processVars, readVars, reader, buffer, blindVars>>)
  BY DEF IntakeNext, intakeVars, StreamStep, IndexLoads, FileHashed, AutoSave, SaveGoes,
         IndexFault

\* The invariant holds in every state of the intake.
LEMMA StreamInvariant == IntakeSpec => []StreamInv
  <1>1. IntakeInit => StreamInv
    BY StreamInit DEF IntakeInit
  <1>2. StreamInv /\ [IntakeNext]_intakeVars => StreamInv'
    BY IntakeStep, StreamStepKeeps
  <1>3. QED
    BY <1>1, <1>2, PTL DEF IntakeSpec

\* Every event up to the saved place was handled, announced as missing, or could not be
\* (SSEEventClient.ts:12-13), through any number of reconnections, flushes, crashes and
\* restarts.
THEOREM IntakeNothingSkipped == IntakeSpec => []NothingSkipped
  <1>1. StreamInv => NothingSkipped
    BY DEF StreamInv, PlacesSound, Settled, NothingSkipped
  <1>2. QED
    BY <1>1, StreamInvariant, PTL

\* A clean cursor is on disk (flushCursor(), SSEEventClient.ts).
THEOREM IntakeCleanIsSaved == IntakeSpec => []CleanIsSaved
  <1>1. StreamInv => CleanIsSaved
    BY DEF StreamInv, FlushSound, CleanIsSaved, Loaded
  <1>2. QED
    BY <1>1, StreamInvariant, PTL
-----------------------------------------------------------------------------
(* The client implements an event log with a saved place. *)

\* The place the mapping gives the abstract log.
Place == IF ~up \/ reader = "loading" THEN file
         ELSE IF reader = "handling" THEN Head(buffer).id
         ELSE cursor

LogStep == [Log!Next]_(Log!vars)

\* What leaves the log, the saved place and the place alone is no step of the log; ...
LEMMA LogStays ==
    ASSUME UNCHANGED <<log, trimmed, file, unread>>, Place' = Place
    PROVE  LogStep
  BY DEF LogStep, Log!vars, Place

\* ... handing on the event at the head of the buffer is its step Hand, ...
LEMMA LogHands ==
    ASSUME StreamInv, up, reader = "reading", buffer # <<>>, Head(buffer).event \in Legible,
           UNCHANGED <<log, trimmed, file, unread>>, Place' = Head(buffer).id
    PROVE  LogStep
  <1>1. /\ Head(buffer) = buffer[1] /\ buffer[1].event # "gap" /\ 1 \in DOMAIN buffer
    BY BufferParts DEF StreamInv, Legible
  <1>2. /\ buffer[1].id \in DOMAIN log /\ log[buffer[1].id] = buffer[1].event
        /\ cursor < buffer[1].id
    BY <1>1 DEF StreamInv, BufferSound, Chunk
  <1>3. \A i \in (cursor + 1)..(buffer[1].id - 1) : cursor # 0 => log[i] \notin Legible
    BY <1>1, BeforeHead DEF InConnection, Legible, PassedBy
  <1>4. Place = cursor
    BY DEF Place
  <1>5. Log!Hand(buffer[1].id)
    BY <1>1, <1>2, <1>3, <1>4 DEF Log!Hand, Place
  <1>6. QED
    BY <1>2, <1>5 DEF LogStep, Log!Next

\* ... and writing any place up to the cursor is its step Save.
LEMMA LogSaves ==
    ASSUME StreamInv, Loaded, UNCHANGED <<log, trimmed, unread>>, Place' = Place,
           file' \in 0..cursor
    PROVE  LogStep
  <1>1. cursor <= Place /\ Place \in Nat /\ cursor \in Nat
    <2>1. CASE reader = "handling"
      BY <2>1, BufferParts DEF StreamInv, TypeOK, Ids, BufferSound, Place, Loaded
    <2>2. CASE reader # "handling"
      BY <2>2 DEF StreamInv, TypeOK, Place, Loaded
    <2>3. QED
      BY <2>1, <2>2
  <1>2. file' \in 0..Place
    BY <1>1
  <1>3. Log!Save
    BY <1>2 DEF Log!Save, Place
  <1>4. QED
    BY <1>3 DEF LogStep, Log!Next

\* Every step of the stream is a step of the log, or none.
LEMMA StreamRefines ==
    ASSUME StreamInv, [Next]_vars \/ (Fault /\ UNCHANGED <<serverVars, sent, cursorVars, flushVars,
                                          processVars, readVars, reader, buffer, blindVars>>)
    PROVE  LogStep
  <1> USE DEF Loaded, InConnection, serverVars, cursorVars, flushVars, processVars,
              readVars,
              blindVars
  <1>1. CASE Publish
    <2>1. PICK k \in Kinds : log' = Append(log, k)
      BY <1>1 DEF Publish
    <2>2. Place' = Place /\ file' = file
      BY <1>1 DEF Publish, Place
    <2>3. Log!Publish
      BY <1>1, <2>1, <2>2 DEF Publish, Log!Publish, Kinds, Place
    <2>4. QED
      BY <2>3 DEF LogStep, Log!Next
  <1>2. CASE LoadCursor
    BY <1>2, LogStays DEF LoadCursor, Place
  <1>11. CASE Trim
    <2>1. Log!Trim
      BY <1>11 DEF Trim, Log!Trim, Place
    <2>2. QED
      BY <2>1 DEF LogStep, Log!Next
  <1>12. CASE LoadCursorFails
    <2>1. Place = file /\ Place' = 0 /\ ~unread /\ unread' /\ UNCHANGED <<log, trimmed, file>>
      BY <1>12 DEF LoadCursorFails, StreamInv, AtRest, TypeOK, Place
    <2>2. Log!Misread
      BY <1>12, <2>1 DEF LoadCursorFails, Log!Misread, Place
    <2>3. QED
      BY <2>2 DEF LogStep, Log!Next
  <1>3. CASE \/ Connect \/ ConnectionFails \/ StreamEnds \/ WakeUp \/ LoopEnds \/ Read
             \/ Tick \/ Stop \/ UNCHANGED vars \/ \E f \in Flushes : FlushFails(f)
             \/ Fault /\ UNCHANGED <<serverVars, sent, cursorVars, flushVars,
                                      processVars, readVars, reader, buffer, blindVars>>
    BY <1>3, LogStays DEF Connect, ConnectionFails, StreamEnds, NextConnection, WakeUp,
                          LoopEnds, Read, Tick, Stop, FlushFails, vars, Place
  <1>4. CASE HandleChunk
    <2>1. up /\ reader = "reading" /\ buffer # <<>>
          /\ UNCHANGED <<log, trimmed, file, unread, up>>
      BY <1>4 DEF HandleChunk
    <2>2. CASE HandleGarbled
      BY <2>1, <2>2, LogStays DEF HandleGarbled, Place
    <2>3. CASE HandleGap
      <3>1. /\ Head(buffer).id \in DOMAIN log /\ cursor <= Head(buffer).id
            /\ Head(buffer).id <= trimmed
            /\ cursor \in Nat /\ Head(buffer).id \in Nat
        <4>1. Head(buffer) = buffer[1] /\ 1 \in DOMAIN buffer /\ buffer[1].event = "gap"
          BY <2>1, <2>3, BufferParts DEF HandleGap, StreamInv
        <4>2. \A e \in DOMAIN log : Chunk(e).event # "gap"
          BY DEF Chunk, StreamInv, TypeOK, Kinds, Legible
        <4>3. /\ cursor <= buffer[1].id /\ 0 < buffer[1].id /\ buffer[1].id <= trimmed
          BY <4>1, <4>2 DEF StreamInv, BufferSound
        <4>4. /\ buffer[1].id \in Nat /\ cursor \in Nat /\ trimmed \in 0..Len(log)
              /\ Len(log) \in Nat /\ DOMAIN log = 1..Len(log)
          BY <2>1, BufferParts DEF StreamInv, TypeOK, Ids
        <4>5. QED
          BY <4>1, <4>3, <4>4
      <3>2. Place = cursor /\ Place' = Head(buffer).id
        BY <2>1, <2>3 DEF HandleGap, MoveCursor, Place
      <3>3. CASE cursor = Head(buffer).id
        BY <2>1, <3>2, <3>3, LogStays
      <3>4. CASE cursor < Head(buffer).id
        <4>1. Log!Gap(Head(buffer).id)
          BY <2>1, <3>1, <3>2, <3>4 DEF Log!Gap, Place
        <4>2. QED
          BY <3>1, <4>1 DEF LogStep, Log!Next
      <3>5. QED
        BY <3>1, <3>3, <3>4
    <2>4. CASE HandleFileEvent
      BY <2>1, <2>4, LogHands DEF HandleFileEvent, MoveCursor, Legible, Place
    <2>5. CASE BeginReset
      BY <2>1, <2>5, LogHands DEF BeginReset, Legible, Place
    <2>6. QED
      BY <1>4, <2>2, <2>3, <2>4, <2>5 DEF HandleChunk
  <1>5. CASE EndReset
    BY <1>5, LogStays DEF EndReset, MoveCursor, Place
  <1>6. ASSUME NEW f \in Flushes, OpenFile(f)
        PROVE  LogStep
    <2>1. Loaded /\ 0 \in 0..cursor
      BY <1>6 DEF OpenFile, StreamInv, TypeOK, AtRest, Idle
    <2>2. QED
      BY <1>6, <2>1, LogSaves DEF OpenFile, Place
  <1>7. ASSUME NEW f \in Flushes, EndFlush(f)
        PROVE  LogStep
    <2>1. Loaded /\ flushing[f].value \in 0..cursor
      BY <1>7 DEF EndFlush, StreamInv, TypeOK, Ids, AtRest, PlacesSound, Idle
    <2>2. QED
      BY <1>7, <2>1, LogSaves DEF EndFlush, Place
  <1>8. CASE Exit \/ Crash
    <2>1. Place' = file /\ unread' = FALSE /\ UNCHANGED <<log, trimmed, file>>
      BY <1>8 DEF Exit, Crash, Ends, Place
    <2>2. Log!Restart
      BY <2>1 DEF Log!Restart, Place
    <2>3. QED
      BY <2>2 DEF LogStep, Log!Next
  <1>9. CASE Restart
    BY <1>9, LogStays DEF Restart, StreamInv, AtRest, Place
  <1>10. QED
    BY <1>1, <1>2, <1>3, <1>4, <1>5, <1>6, <1>7, <1>8, <1>9, <1>11, <1>12
    DEF Next, Loop, FlushStep

\* Through reconnects and restarts the client hands on the events in order and leaves none
\* out but what was trimmed or cannot be parsed, no saved place is ahead of what was handed
\* on, and a place is lost only with the file's content or by a read of it that fails
\* (SSEEventClient.ts:9-20, 118-133).
THEOREM IntakeImplementsEventLog == IntakeSpec => ImplementsEventLog
  <1>1. IntakeInit => Log!Init
    BY DEF IntakeInit, Init, Log!Init
  <1>2. StreamInv /\ [IntakeNext]_intakeVars => [Log!Next]_(Log!vars)
    BY IntakeStep, StreamRefines DEF LogStep
  <1>3. QED
    BY <1>1, <1>2, StreamInvariant, PTL DEF IntakeSpec, ImplementsEventLog, Log!Spec
-----------------------------------------------------------------------------
(* The index of hashes. *)

IndexTypeOK ==
    /\ indexAt \in {"loading", "ready", "failed"}
    /\ cache \in [Files -> SUBSET Targets]
    /\ rows \in [Targets -> [Files -> Nat]]
    /\ saving \in [at : {"none", "read", "append"}, of : 0..Len(Algorithms),
                   lines : SUBSET Files, new : SUBSET Files]

\* A save belongs to a loaded index and to one algorithm, and what it is about to append
\* is known and not in the file.
SaveSound ==
    saving.at # "none" =>
        /\ indexAt = "ready" /\ saving.of \in DOMAIN Algorithms
        /\ saving.at = "append" =>
              \A f \in saving.new : /\ Algorithms[saving.of] \in cache[f]
                                    /\ rows[Algorithms[saving.of]][f] = 0

IndexInv == IndexTypeOK /\ SaveSound /\ IndexSound

\* The index begins with empty files.
LEMMA IndexInitSound == IndexInit => IndexInv
  BY DEF IndexInit, Fresh, NoLines, Resting, IndexInv, IndexTypeOK, SaveSound, IndexSound

\* The algorithm a save is at, and the rows with what it appends added to them.
LEMMA AppendedSound ==
    ASSUME IndexInv, saving.at = "append", NEW new \in SUBSET saving.new
    PROVE  LET a == Algorithms[saving.of]
               more == Appended(a, new)
           IN  /\ a \in Targets
               /\ more \in [Targets -> [Files -> Nat]]
               /\ \A b \in Targets, f \in Files :
                     /\ more[b][f] <= 1
                     /\ more[b][f] = 1 => rows[b][f] = 1 \/ b \in cache[f]
  <1> DEFINE a == Algorithms[saving.of]
             more == Appended(a, new)
  <1> USE DEF IndexInv, IndexTypeOK
  <1>1. a \in Targets
    BY DEF SaveSound, Targets
  <1>2. /\ new \subseteq Files
        /\ \A f \in new : a \in cache[f] /\ rows[a][f] = 0
    BY DEF SaveSound
  <1>3. /\ more \in [Targets -> [Files -> Nat]]
        /\ \A b \in Targets, f \in Files :
              more[b][f] = IF b = a /\ f \in new THEN rows[b][f] + 1 ELSE rows[b][f]
    BY <1>1 DEF Appended
  <1> HIDE DEF more
  <1>4. \A b \in Targets, f \in Files :
           /\ more[b][f] <= 1
           /\ more[b][f] = 1 => rows[b][f] = 1 \/ b \in cache[f]
    <2>1. SUFFICES ASSUME NEW b \in Targets, NEW f \in Files
                   PROVE  /\ more[b][f] <= 1
                          /\ more[b][f] = 1 => rows[b][f] = 1 \/ b \in cache[f]
      OBVIOUS
    <2>2. rows[b][f] \in Nat /\ rows[b][f] <= 1
      BY DEF IndexSound
    <2>3. CASE b = a /\ f \in new
      BY <1>2, <1>3, <2>3
    <2>4. CASE ~(b = a /\ f \in new)
      BY <1>3, <2>2, <2>4
    <2>5. QED
      BY <2>3, <2>4
  <1>5. QED
    BY <1>1, <1>3, <1>4 DEF more

\* An append that is cut leaves no row twice, and none that the line does not have.
LEMMA CutSound ==
    ASSUME IndexInv, saving.at = "append", CutAppend
    PROVE  /\ rows' \in [Targets -> [Files -> Nat]]
           /\ \A b \in Targets, f \in Files :
                 /\ rows'[b][f] <= 1
                 /\ rows'[b][f] = 1 => rows[b][f] = 1 \/ b \in cache[f]
  <1>1. CASE UNCHANGED diskVars
    BY <1>1 DEF diskVars, IndexInv, IndexTypeOK, IndexSound
  <1>2. CASE \E new \in SUBSET saving.new : rows' = Appended(Algorithms[saving.of], new)
    BY <1>2, AppendedSound
  <1>3. QED
    BY <1>1, <1>2 DEF CutAppend

\* A save goes on by one step, or fails at one.
LEMMA SaveStepKeeps ==
    ASSUME IndexInv, SaveStep \/ SaveFails
    PROVE  IndexInv'
  <1> USE HashIndexAssumption DEF IndexInv, IndexTypeOK
  <1>1. /\ Len(Algorithms) \in Nat \ {0} /\ DOMAIN Algorithms = 1..Len(Algorithms)
        /\ saving.at # "none" /\ saving.of \in DOMAIN Algorithms /\ indexAt = "ready"
    BY DEF SaveStep, SaveReads, SaveAppends, SaveFails, SaveSound
  <1>2. UNCHANGED <<indexAt, cache>>
    BY DEF SaveStep, SaveReads, SaveAppends, SaveFails
  <1>3. ASSUME SaveGoesOn \/ SaveThrows
        PROVE  /\ saving' \in [at : {"none", "read", "append"}, of : 0..Len(Algorithms),
                               lines : SUBSET Files, new : SUBSET Files]
               /\ saving'.at # "append"
               /\ saving'.at = "read" => saving'.of \in DOMAIN Algorithms
    <2>1. CASE saving' = [saving EXCEPT !.at = "read", !.of = @ + 1, !.new = {}]
                 /\ saving.of < Len(Algorithms)
      <3>1. saving.of + 1 \in 0..Len(Algorithms) /\ saving.of + 1 \in DOMAIN Algorithms
        BY <1>1, <2>1
      <3>2. QED
        BY <2>1, <3>1
    <2>2. CASE saving' = Resting
      BY <1>1, <2>2 DEF Resting
    <2>3. QED
      BY <1>3, <2>1, <2>2 DEF SaveGoesOn, SaveThrows
  <1>4. ASSUME SaveGoesOn \/ SaveThrows,
               rows' \in [Targets -> [Files -> Nat]],
               \A b \in Targets, f \in Files :
                  /\ rows'[b][f] <= 1
                  /\ rows'[b][f] = 1 => rows[b][f] = 1 \/ b \in cache[f]
        PROVE  IndexInv'
    <2>1. IndexTypeOK' /\ SaveSound'
      BY <1>1, <1>2, <1>3, <1>4 DEF SaveSound
    <2>2. IndexSound'
      BY <1>1, <1>2, <1>4 DEF IndexSound, Targets
    <2>3. QED
      BY <2>1, <2>2
  <1>5. CASE SaveReads
    <2> DEFINE a == Algorithms[saving.of]
    <2>1. CASE SaveGoesOn \/ SaveThrows
      BY <1>4, <1>5, <2>1 DEF SaveReads, diskVars, IndexSound
    <2>2. CASE saving' = [saving EXCEPT !.at = "append", !.new = NewRows(a)]
      <3>1. NewRows(a) \subseteq Files
        BY DEF NewRows
      <3>2. IndexTypeOK'
        BY <1>2, <1>5, <2>2, <3>1 DEF SaveReads, diskVars
      <3>3. SaveSound'
        BY <1>1, <1>2, <1>5, <2>2, <3>1 DEF SaveReads, diskVars, SaveSound, NewRows
      <3>4. IndexSound'
        BY <1>2, <1>5 DEF SaveReads, diskVars, IndexSound, Targets
      <3>5. QED
        BY <3>2, <3>3, <3>4
    <2>3. QED
      BY <1>5, <2>1, <2>2 DEF SaveReads
  <1>6. CASE SaveAppends
    <2>1. rows' = Appended(Algorithms[saving.of], saving.new)
      BY <1>6 DEF SaveAppends
    <2>2. QED
      BY <1>4, <1>6, <2>1, AppendedSound DEF SaveAppends
  <1>7. CASE SaveFails
    BY <1>4, <1>7, CutSound DEF SaveFails, diskVars, IndexSound
  <1>8. QED
    BY <1>5, <1>6, <1>7 DEF SaveStep

\* The index is loaded, is told of a file, begins a save, or is lost with the process.
LEMMA IndexStepKeeps ==
    ASSUME IndexInv, LoadIndex \/ LoadFails \/ BeginSave \/ IndexLost \/ UNCHANGED indexVars
                     \/ \E f \in Files, hashes \in SUBSET Targets : AddFileCid(f, hashes)
    PROVE  IndexInv'
  <1> USE HashIndexAssumption DEF IndexInv, IndexTypeOK, diskVars
  <1>1. CASE LoadIndex
    <2>1. saving.at = "none" /\ UNCHANGED <<saving, rows>> /\ indexAt' \in {"ready", "failed"}
      BY <1>1 DEF LoadIndex, SaveSound
    <2>2. CASE indexAt' = "ready"
      <3>1. cache' = [f \in Files |-> {a \in Targets : rows[a][f] > 0}]
        BY <1>1, <2>2 DEF LoadIndex
      <3>2. QED
        BY <2>1, <2>2, <3>1 DEF SaveSound, IndexSound, Targets
    <2>3. CASE indexAt' = "failed"
      BY <1>1, <2>1, <2>3 DEF LoadIndex, SaveSound, IndexSound, Targets
    <2>4. QED
      BY <2>1, <2>2, <2>3
  <1>2. CASE LoadFails
    BY <1>2 DEF LoadFails, SaveSound, IndexSound, Targets
  <1>3. CASE BeginSave
    <2>1. Len(Algorithms) \in Nat \ {0} /\ DOMAIN Algorithms = 1..Len(Algorithms)
      BY EmptySeq
    <2>2. QED
      <3>1. /\ saving'.at = "read" /\ saving'.of = 1
            /\ saving' \in [at : {"none", "read", "append"}, of : 0..Len(Algorithms),
                           lines : SUBSET Files, new : SUBSET Files]
        <4> DEFINE known == {f \in Files : cache[f] # {}}
        <4>1. saving' = [at |-> "read", of |-> 1, lines |-> known, new |-> {}]
          BY <1>3 DEF BeginSave, Resting
        <4>2. known \in SUBSET Files /\ 1 \in 0..Len(Algorithms)
          BY <2>1
        <4> HIDE DEF known
        <4>3. QED
          BY <4>1, <4>2
      <3>2. indexAt = "ready" /\ UNCHANGED <<indexAt, cache, rows>> /\ Targets' = Targets
        BY <1>3 DEF BeginSave, Targets
      <3>3. IndexTypeOK' /\ SaveSound' /\ IndexSound'
        BY <2>1, <3>1, <3>2 DEF SaveSound, IndexSound
      <3>4. QED
        BY <3>3
  <1>4. CASE IndexLost
    <2>1. /\ rows' \in [Targets -> [Files -> Nat]]
          /\ \A b \in Targets, f \in Files : rows'[b][f] <= 1
      BY <1>4, CutSound DEF IndexLost, IndexSound
    <2>2. QED
      <3>1. /\ saving'.at = "none"
            /\ saving' \in [at : {"none", "read", "append"}, of : 0..Len(Algorithms),
                           lines : SUBSET Files, new : SUBSET Files]
        <4>1. 0 \in 0..Len(Algorithms)
          BY EmptySeq
        <4>2. QED
          BY <1>4, <4>1 DEF IndexLost, Resting
      <3>2. cache' \in [Files -> SUBSET Targets] /\ indexAt' = "loading"
        BY <1>4 DEF IndexLost, NoLines
      <3>3. Targets' = Targets
        BY DEF Targets
      <3>4. IndexTypeOK' /\ SaveSound' /\ IndexSound'
        BY <2>1, <3>1, <3>2, <3>3 DEF SaveSound, IndexSound
      <3>5. QED
        BY <3>4
  <1>5. CASE UNCHANGED indexVars
    BY <1>5 DEF indexVars, memoryVars, SaveSound, IndexSound, Targets
  <1>6. ASSUME NEW f \in Files, NEW hashes \in SUBSET Targets, AddFileCid(f, hashes)
        PROVE  IndexInv'
    BY <1>6 DEF AddFileCid, SaveSound, IndexSound, Targets
  <1>7. QED
    BY <1>1, <1>2, <1>3, <1>4, <1>5, <1>6

\* No row is appended twice, whatever was computed during a save or cut by a crash, and what
\* is in a file the process knows (HashIndexManager.ts 110-215).
THEOREM IntakeIndexSound == IntakeSpec => []IndexSound
  <1>1. IntakeInit => IndexInv
    BY IndexInitSound DEF IntakeInit
  <1>2. IndexInv /\ [IntakeNext]_intakeVars => IndexInv'
    BY IndexStepKeeps, SaveStepKeeps DEF IntakeNext, intakeVars, StreamStep, IndexLoads,
         FileHashed, AutoSave, SaveGoes, IndexFault
  <1>3. IndexInv => IndexSound
    BY DEF IndexInv
  <1>4. QED
    BY <1>1, <1>2, <1>3, PTL DEF IntakeSpec
=============================================================================
