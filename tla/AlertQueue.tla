----------------------------- MODULE AlertQueue -----------------------------
(***************************************************************************)
(* The durable alert queue of idsm_managerd (alert_queue.cpp), the socket  *)
(* threads that append to it (main.cpp, socket_server.cpp), the uploader   *)
(* loop that drains it (main.cpp) and the MQTT library behind publish()    *)
(* (mqtt_uploader.cpp).  The process may crash between any two file        *)
(* operations and is restarted.                                            *)
(*                                                                         *)
(* The file alerts.jsonl is a sequence of cells: the line of alert a is    *)
(* the cells <<a, 1>>, ..., <<a, Size[a]>>, the last one its newline.      *)
(* Cursors are offsets in cells, as they are byte offsets in the code.     *)
(***************************************************************************)
EXTENDS Integers, Sequences, FiniteSets, SequencesExt

CONSTANTS
    Alerts,       \* the alerts that may be appended, each once
    Size,         \* the length of each alert's line, newline included
    MaxBatch,     \* the most lines pending() returns, 64 in main.cpp
    Environments, \* records: faults, a set of
                  \*   "tear": a crash may cut an append short;
                  \*   "append": writes to the file may fail;
                  \*   "save": the cursor cannot always be saved, nor the file cut;
                  \* and crashPoints, where the uploader may be in a crash
    MaxCrashes    \* bound

ASSUME QueueAssumption ==
    /\ Size \in [Alerts -> Nat \ {0, 1}]
    /\ MaxBatch \in Nat \ {0}
    /\ MaxCrashes \in Nat

VARIABLES
    file,        \* alerts.jsonl
    cursorFile,  \* the number in the file "cursor", 0 when there is none
    buffered,    \* what m_fp still holds after a write that failed
    cursor,      \* m_cursor
    pendingEnd,  \* m_pending_end
    upc,         \* where the uploader loop is; "down" when there is no process
    batch        \* the alerts among the lines pending() returned

VARIABLE
    environment  \* one of Environments, chosen at the start: a run covers each

\* History variables; offered and lives also bound the behaviours.
VARIABLES
    offered,     \* alerts that append() was called with
    logged,      \* alerts that append() took, or whose whole line a crash left
                 \* in the file, in order
    uploaded,    \* alerts publish() accepted, in order, with repetitions
    lives        \* processes started so far

disk    == <<file, cursorFile>>
memory  == <<buffered, cursor, pendingEnd, upc, batch>>
history == <<offered, logged, uploaded, lives>>
queue   == <<disk, memory, history>>
vars    == <<queue, environment>>

Up == upc # "down"

\* markUploaded holds m_mutex from the advance of the cursor to its end.
MutexFree == Up /\ upc \notin {"save", "compact", "truncated"}

-----------------------------------------------------------------------------
\* Lines of the file.

Line(a) == [j \in 1..Size[a] |-> <<a, j>>]
Body(a) == [j \in 1..(Size[a] - 1) |-> <<a, j>>]

Newline(cell) == cell[2] = Size[cell[1]]

\* Where the lines end that getline() returns, read from offset from on: at a
\* newline, and at the end of the file.
Ends(f, from) == {i \in (from + 1)..Len(f) : Newline(f[i]) \/ i = Len(f)}

\* The line that ends at i.
LineTo(f, from, i) ==
    SubSeq(f, Max({from} \cup {k \in Ends(f, from) : k < i}) + 1, i)

\* A line is uploaded as an alert when it is the whole body of one, with or
\* without the newline; anything else does not parse (buildAlertEnvelope).
AlertOf(line) == {a \in Alerts : line \in {Line(a), Body(a)}}
Blank(line)   == Len(line) = 1 /\ Newline(line[1])

UpTo(S, n) == {i \in S : i <= n}
Filled(f, from) == {i \in Ends(f, from) : ~Blank(LineTo(f, from, i))}

\* pending() reads until it has MaxBatch lines that are not blank, or to the end.
ReadEnd(f, from) ==
    CHOOSE e \in {from} \cup Ends(f, from) :
        /\ \/ Cardinality(UpTo(Filled(f, from), e)) = MaxBatch
           \/ \A i \in Ends(f, from) : i <= e
        /\ \A i \in Ends(f, from) :
              i < e => Cardinality(UpTo(Filled(f, from), i)) < MaxBatch

\* The alerts among the lines that end after from and not behind to, in order.
AlertsBetween(f, from, to) ==
    LET whole  == {i \in UpTo(Ends(f, from), to) : AlertOf(LineTo(f, from, i)) # {}}
        nth(n) == CHOOSE i \in whole : Cardinality(UpTo(whole, i)) = n
    IN  [n \in 1..Cardinality(whole) |->
            CHOOSE a \in AlertOf(LineTo(f, from, nth(n))) : TRUE]

-----------------------------------------------------------------------------
Init ==
    /\ file = <<>>
    /\ cursorFile = 0
    /\ buffered = <<>>
    /\ cursor = 0
    /\ pendingEnd = 0
    /\ upc = "down"
    /\ batch = <<>>
    /\ offered = {}
    /\ logged = <<>>
    /\ uploaded = <<>>
    /\ lives = 0
    /\ environment \in Environments

\* The cursor a process starts with: a file that is shorter was cut.
StartCursor == IF cursorFile > Len(file) THEN 0 ELSE cursorFile

\* Mutant of Open: the saved cursor is taken as it is.
OpenAnyCursor ==
    /\ ~Up
    /\ cursor' = cursorFile
    /\ pendingEnd' = 0
    /\ upc' = "idle"
    /\ lives' = lives + 1
    /\ UNCHANGED <<disk, buffered, batch, offered, logged, uploaded>>

Open ==
    /\ ~Up
    /\ cursor' = StartCursor
    /\ pendingEnd' = 0
    /\ upc' = "idle"
    /\ lives' = lives + 1
    /\ UNCHANGED <<disk, buffered, batch, offered, logged, uploaded>>

\* The process is gone, and with it everything in its memory.
Gone ==
    /\ buffered' = <<>>
    /\ upc' = "down"
    /\ batch' = <<>>
    /\ UNCHANGED <<cursor, pendingEnd, offered, uploaded, lives>>

Crash ==
    /\ upc \in environment.crashPoints /\ lives <= MaxCrashes
    /\ Gone
    /\ UNCHANGED <<disk, logged>>

-----------------------------------------------------------------------------
\* append(), called by the socket threads.

Offer(a) ==
    /\ MutexFree /\ a \in Alerts \ offered
    /\ offered' = offered \cup {a}

\* fwrite, fflush and fsync went through.
AppendLine(a) ==
    /\ Offer(a)
    /\ file' = file \o buffered \o Line(a)
    /\ buffered' = <<>>
    /\ logged' = Append(logged, a)
    /\ UNCHANGED <<cursorFile, cursor, pendingEnd, upc, batch, uploaded, lives>>

\* The first k cells of what the stream holds are written, the rest stays there.
WritePart(cells, k) ==
    /\ file' = file \o SubSeq(cells, 1, k)
    /\ buffered' = SubSeq(cells, k + 1, Len(cells))

\* A write or the fsync failed; main.cpp ignores the error.
AppendFails(a) ==
    /\ "append" \in environment.faults /\ Offer(a)
    /\ \E k \in 0..Len(buffered \o Line(a)) : WritePart(buffered \o Line(a), k)
    /\ UNCHANGED <<cursorFile, cursor, pendingEnd, upc, batch, logged,
                   uploaded, lives>>

\* The process dies while it writes the line: a part of it is in the file, or
\* all of it, but append() has not returned.
AppendTorn(a) ==
    /\ Offer(a) /\ upc \in environment.crashPoints /\ lives <= MaxCrashes
    /\ LET cells == buffered \o Line(a) IN
        \E k \in (IF "tear" \in environment.faults THEN 1..Len(cells) ELSE {Len(cells)}) :
            /\ file' = file \o SubSeq(cells, 1, k)
            /\ logged' = IF k = Len(cells) THEN Append(logged, a) ELSE logged
    /\ buffered' = <<>>
    /\ upc' = "down"
    /\ batch' = <<>>
    /\ UNCHANGED <<cursorFile, cursor, pendingEnd, uploaded, lives>>

-----------------------------------------------------------------------------
\* The uploader loop, for one channel.

\* pending(64): flush what the stream holds, read the lines from the cursor on.
Pending ==
    /\ upc = "idle"
    /\ file' = file \o buffered
    /\ buffered' = <<>>
    /\ pendingEnd' = ReadEnd(file', cursor)
    /\ batch' = AlertsBetween(file', cursor, pendingEnd')
    /\ upc' = IF UpTo(Filled(file', cursor), pendingEnd') = {} THEN "idle" ELSE "batch"
    /\ UNCHANGED <<cursorFile, cursor, history>>

\* The flush failed, or the file could not be opened again after it: pending()
\* returns nothing.
PendingFails ==
    /\ "append" \in environment.faults /\ upc = "idle"
    /\ \E k \in 0..Len(buffered) : WritePart(buffered, k)
    /\ UNCHANGED <<cursorFile, cursor, pendingEnd, upc, batch, history>>

\* No line of the batch parses: it is passed over.
DropBatch ==
    /\ upc = "batch" /\ batch = <<>>
    /\ upc' = "mark"
    /\ UNCHANGED <<disk, buffered, cursor, pendingEnd, batch, history>>

\* publish() has the MQTT library queue the message.
PublishAccepted ==
    /\ upc = "batch" /\ batch # <<>>
    /\ uploaded' = uploaded \o batch
    /\ batch' = <<>>
    /\ upc' = "mark"
    /\ UNCHANGED <<disk, buffered, cursor, pendingEnd, offered, logged, lives>>

\* publish() failed: the loop sleeps and asks for the pending lines again.
PublishRefused ==
    /\ upc = "batch" /\ batch # <<>>
    /\ batch' = <<>>
    /\ upc' = "idle"
    /\ UNCHANGED <<disk, buffered, cursor, pendingEnd, history>>

\* Mutant of MarkAdvance: the cursor goes to the end of the file.
MarkToEnd ==
    /\ upc = "mark"
    /\ cursor' = Len(file)
    /\ pendingEnd' = 0
    /\ upc' = "save"
    /\ UNCHANGED <<disk, buffered, batch, history>>

\* Mutant of MarkAdvance: the cursor stays.
MarkNothing ==
    /\ upc = "mark"
    /\ pendingEnd' = 0
    /\ upc' = "save"
    /\ UNCHANGED <<disk, buffered, cursor, batch, history>>

\* markUploaded(), file operation by file operation.  Its early return for a
\* pendingEnd before the cursor is never taken: see CursorInFile.
MarkAdvance ==
    /\ upc = "mark"
    /\ cursor' = pendingEnd
    /\ pendingEnd' = 0
    /\ upc' = "save"
    /\ UNCHANGED <<disk, buffered, batch, history>>

\* The cursor is written beside the old one and renamed over it, or not at all.
SaveCursor(value) ==
    \/ cursorFile' = value
    \/ "save" \in environment.faults /\ UNCHANGED cursorFile

MarkSave ==
    /\ upc = "save"
    /\ SaveCursor(cursor)
    /\ upc' = "compact"
    /\ UNCHANGED <<file, buffered, cursor, pendingEnd, batch, history>>

\* compactIfDrained: a file that is uploaded to its end is cut.
Drained == Len(file) = cursor /\ cursor > 0

Compact ==
    /\ upc = "compact" /\ Drained
    /\ file' = <<>>
    /\ upc' = "truncated"
    /\ UNCHANGED <<cursorFile, buffered, cursor, pendingEnd, batch, history>>

KeepFile ==
    /\ upc = "compact" /\ (~Drained \/ "save" \in environment.faults)
    /\ upc' = "idle"
    /\ UNCHANGED <<disk, buffered, cursor, pendingEnd, batch, history>>

CompactSave ==
    /\ upc = "truncated"
    /\ cursor' = 0
    /\ SaveCursor(0)
    /\ upc' = "idle"
    /\ UNCHANGED <<file, buffered, pendingEnd, batch, history>>

\* The loop has ended: close() flushes, the MQTT library is stopped at once.
Stop ==
    /\ upc = "idle" /\ lives <= MaxCrashes
    /\ file' = file \o buffered
    /\ Gone
    /\ UNCHANGED <<cursorFile, logged>>

-----------------------------------------------------------------------------
Uploader ==
    \/ Pending \/ DropBatch
    \/ MarkAdvance \/ MarkSave \/ Compact \/ KeepFile \/ CompactSave

Next ==
    /\ UNCHANGED environment
    /\ \/ Open
       \/ Crash
       \/ Stop
       \/ \E a \in Alerts : AppendLine(a) \/ AppendFails(a) \/ AppendTorn(a)
       \/ Uploader
       \/ PendingFails
       \/ PublishAccepted
       \/ PublishRefused

Spec == Init /\ [][Next]_vars

\* Nothing fails and no crash falls between the cut of the file and the save of
\* the cursor: see NothingSkipped, which finds what happens otherwise.
Calm == environment.faults = {} /\ "truncated" \notin environment.crashPoints

\* The daemon is started again (systemd after a crash, the next boot after a
\* stop), its loop keeps running, and a publish that is tried again and again
\* is accepted at some time.
Fairness ==
    /\ WF_queue(Calm /\ Open)
    /\ WF_queue(Calm /\ Uploader)
    /\ SF_queue(Calm /\ PublishAccepted)

FairSpec == Spec /\ Fairness

-----------------------------------------------------------------------------
\* Properties.

Cells == UNION {{<<a, j>> : j \in 1..Size[a]} : a \in Alerts}

\* Every variable keeps its type and no batch exceeds its limit.
TypeOK ==
    /\ file \in Seq(Cells) /\ buffered \in Seq(Cells)
    /\ cursorFile \in Nat /\ cursor \in Nat /\ pendingEnd \in Nat
    /\ upc \in {"down", "idle", "batch", "mark", "save", "compact", "truncated"}
    /\ batch \in Seq(Alerts) /\ Len(batch) <= MaxBatch
    /\ logged \in Seq(Alerts) /\ uploaded \in Seq(Alerts)
    /\ offered \subseteq Alerts
    /\ lives \in Nat
    /\ environment \in Environments

\* Besides the types, a running uploader never reads from beyond the end of the file, whatever
\* cursor a crash has left on the disk (the check in open()), and between
\* pending() and markUploaded() the end of the batch lies behind the cursor.
CursorInFile ==
    /\ TypeOK
    /\ Up /\ upc # "truncated" => cursor <= Len(file)
    /\ upc = "mark" => cursor <= pendingEnd /\ pendingEnd <= Len(file)

\* One process hands an alert to the MQTT library at most once: only a restart
\* may repeat one, however appends, failed writes and lost cursors interleave.
OncePerLife ==
    \A a \in Alerts : Cardinality({i \in DOMAIN uploaded : uploaded[i] = a}) <= lives

\* Where the uploader will read next: from its cursor on, or behind the batch it
\* has just published; and the alerts it would find there.
NextOffset == CASE ~Up          -> StartCursor
                [] upc = "mark" -> pendingEnd
                [] OTHER        -> cursor
Remaining == AlertsBetween(file, NextOffset, Len(file))

Fifo == INSTANCE DurableFifo
            WITH log <- logged, next <- Len(logged) - Len(Remaining), handed <- uploaded

\* Over crashes and restarts, with appends between any two steps of the
\* uploader, the queue is the durable FIFO it promises to be.
ImplementsFifo ==
    /\ Calm => Fifo!FifoInit
    /\ [][Calm => Fifo!FifoNext]_Fifo!fifoVars

\* What was logged is uploaded at some time, over crashes and refusals.
EventuallyUploaded ==
    \A a \in Alerts : Calm /\ a \in ToSet(logged) ~> a \in ToSet(uploaded)

\* alert_queue.h:4 "at least once", :7 "resumed from the break after a restart":
\* every alert that append() took was uploaded or will still be found.
NothingSkipped ==
    \A a \in ToSet(logged) : a \in ToSet(uploaded) \cup ToSet(Remaining)
=============================================================================
