----------------------------- MODULE FileWriter -----------------------------
(***************************************************************************)
(* One FileWriter (writers/file_writer.go): the CSV rows of one item type  *)
(* are buffered and appended to files named by the ingest time of their    *)
(* first row.  Every handler below runs with the writer's mutex held, so   *)
(* each is one step; an operating-system call that fails is an outcome of  *)
(* the step, at most MaxFaults times in a behaviour.                       *)
(*                                                                         *)
(* Time is counted in units no finer than the millisecond of a row's       *)
(* stamp, and a file is identified by the stamp in its name: opening a     *)
(* name that exists reopens the same file (O_CREATE|O_APPEND).             *)
(***************************************************************************)
EXTENDS Integers, SequencesExt

CONSTANTS Id,           \* identities of the ingested items
          BatchSize,    \* writerBatchSize of the configuration, unchecked by the code
          MaxAge,       \* the type's latency as a Duration, which may have overflowed
          Horizon,      \* bound: the last instant of a behaviour
          MaxFaults,    \* bound: how many open and write calls may fail
          TornWrites,   \* may a failing write stop in the middle of a row?
          Fragment,     \* a last row without its newline
          Garbled       \* a fragment with the next row glued to it

ASSUME WriterAssumption ==
  /\ BatchSize \in Int /\ MaxAge \in Int \ {0}
  /\ Horizon \in Nat /\ MaxFaults \in Nat /\ TornWrites \in BOOLEAN

Time   == 0..Horizon
Never  == -1            \* time.Time{}
NoFile == -1            \* w.file == nil
Item   == [id : Id, at : Time]

ASSUME MarksAssumption == Fragment \notin Item /\ Garbled \notin Item /\ Fragment # Garbled

Line == Item \cup {Fragment, Garbled}

VARIABLES buffer,       \* w.buffer
          file,         \* w.file, by the stamp in its name
          fileStart,    \* w.fileStart
          itemsWritten, \* w.itemsWritten
          loop,         \* the goroutine of Start: "running" or "exited"
          cancelled,    \* the type's context is cancelled
          disk,         \* rows of each file in the output directory
          faults,       \* history: failed calls so far
          added,        \* history: every item handed to Add, in order
          now           \* the clock

outputVars == <<buffer, file, fileStart, itemsWritten, disk, faults>>
writerVars == <<outputVars, loop, cancelled, added, now>>

WriterTypeOK ==
  /\ buffer \in Seq(Item)
  /\ file \in Time \cup {NoFile}
  /\ fileStart \in Time \cup {Never}
  /\ itemsWritten \in Nat
  /\ loop \in {"running", "exited"}
  /\ cancelled \in BOOLEAN
  /\ disk \in [Time -> Seq(Line)]
  /\ faults \in Nat
  /\ added \in Seq(Item)
  /\ now \in Time

\* NewFileWriter followed by Start.
WriterInit ==
  /\ buffer = <<>> /\ file = NoFile /\ fileStart = Never /\ itemsWritten = 0
  /\ loop = "running" /\ cancelled = FALSE
  /\ disk = [f \in Time |-> <<>>]
  /\ faults = 0 /\ added = <<>> /\ now = 0

-----------------------------------------------------------------------------
(* What one WriteString of some rows does to a file.                       *)

IsTorn(c) == c # <<>> /\ Last(c) = Fragment

\* The whole string is appended; after a fragment its first row is lost in it.
Appended(c, rows) ==
  IF rows # <<>> /\ IsTorn(c) THEN Front(c) \o <<Garbled>> \o Tail(rows) ELSE c \o rows

\* A call that returns an error may have appended a proper part of the rows.
FailedWrites(c, rows) ==
  LET whole == {Appended(c, SubSeq(rows, 1, k)) : k \in 0..(Len(rows) - 1)}
  IN  whole \cup IF TornWrites THEN {Append(w, Fragment) : w \in {v \in whole : ~IsTorn(v)}}
                               ELSE {}

-----------------------------------------------------------------------------
(* flush, for the buffer b; Start's ctx.Done branch closes the file after  *)
(* it (keepOpen = FALSE) without releasing the mutex.                      *)

Fail == faults < MaxFaults /\ faults' = faults + 1

\* Mutant: the file is named by the newest row.
LastItemTime(b) == b[Len(b)].at

firstItemTime(b) == b[1].at

Expired == file = NoFile \/ fileStart = Never \/ now - fileStart >= MaxAge

KeptOpen(f, keepOpen) == IF keepOpen THEN f ELSE NoFile

FlushNothing(b, keepOpen) ==
  /\ b = <<>>
  /\ buffer' = b
  /\ file' = KeptOpen(file, keepOpen)
  /\ UNCHANGED <<fileStart, itemsWritten, disk, faults>>

\* Mutant: the buffer is dropped when the file does not open.
FlushCannotOpenDrops(b) ==
  /\ b # <<>> /\ Expired /\ Fail
  /\ buffer' = <<>>
  /\ file' = NoFile
  /\ fileStart' = firstItemTime(b)
  /\ UNCHANGED <<itemsWritten, disk>>

FlushCannotOpen(b) ==
  /\ b # <<>> /\ Expired /\ Fail
  /\ buffer' = b
  /\ file' = NoFile
  /\ fileStart' = firstItemTime(b)
  /\ UNCHANGED <<itemsWritten, disk>>

\* Mutant: the error of WriteString is ignored.
WriteRowsIgnoringError(f, b) ==
  /\ \/ disk' = [disk EXCEPT ![f] = Appended(@, b)] /\ UNCHANGED faults
     \/ Fail /\ \E c \in FailedWrites(disk[f], b) : disk' = [disk EXCEPT ![f] = c]
  /\ buffer' = <<>>
  /\ itemsWritten' = itemsWritten + Len(b)

\* The rows b reach file f, or an error keeps them in the buffer.
WriteRows(f, b) ==
  \/ /\ disk' = [disk EXCEPT ![f] = Appended(@, b)]
     /\ buffer' = <<>>
     /\ itemsWritten' = itemsWritten + Len(b)
     /\ UNCHANGED faults
  \/ /\ Fail
     /\ \E c \in FailedWrites(disk[f], b) : disk' = [disk EXCEPT ![f] = c]
     /\ buffer' = b
     /\ UNCHANGED itemsWritten

\* Mutant: files are opened with O_TRUNC.
FlushRowsTruncating(b, keepOpen) ==
  /\ b # <<>>
  /\ LET f == IF Expired THEN firstItemTime(b) ELSE file
     IN  /\ disk' = [disk EXCEPT ![f] = IF Expired THEN b ELSE @ \o b]
         /\ file' = KeptOpen(f, keepOpen)
  /\ buffer' = <<>> /\ itemsWritten' = itemsWritten + Len(b)
  /\ fileStart' = IF Expired THEN firstItemTime(b) ELSE fileStart
  /\ UNCHANGED faults

FlushRows(b, keepOpen) ==
  /\ b # <<>>
  /\ LET f == IF Expired THEN firstItemTime(b) ELSE file
     IN  /\ WriteRows(f, b)
         /\ file' = KeptOpen(f, keepOpen)
  /\ fileStart' = IF Expired THEN firstItemTime(b) ELSE fileStart

flush(b, keepOpen) ==
  FlushNothing(b, keepOpen) \/ FlushCannotOpen(b) \/ FlushRows(b, keepOpen)

-----------------------------------------------------------------------------
(* The handlers.                                                           *)

\* Mutant: the newest row is put first.
AddInFront(item) ==
  /\ added' = Append(added, item)
  /\ LET b == <<item>> \o buffer
     IN  IF Len(b) >= BatchSize
         THEN flush(b, TRUE)
         ELSE buffer' = b /\ UNCHANGED <<file, fileStart, itemsWritten, disk, faults>>
  /\ UNCHANGED <<loop, cancelled, now>>

\* Add(item): append, and flush when the batch is full.
Add(item) ==
  /\ added' = Append(added, item)
  /\ LET b == Append(buffer, item)
     IN  IF Len(b) >= BatchSize
         THEN flush(b, TRUE)
         ELSE buffer' = b /\ UNCHANGED <<file, fileStart, itemsWritten, disk, faults>>
  /\ UNCHANGED <<loop, cancelled, now>>

\* Mutant: the ticker flushes full batches only.
TickFullBatch ==
  /\ loop = "running" /\ Len(buffer) >= BatchSize
  /\ flush(buffer, TRUE)
  /\ UNCHANGED <<loop, cancelled, added, now>>

\* The ticker branch of Start's loop.
Tick ==
  /\ loop = "running"
  /\ flush(buffer, TRUE)
  /\ UNCHANGED <<loop, cancelled, added, now>>

\* The ctx.Done branch of Start's loop: final flush, close, exit.
Finish ==
  /\ loop = "running" /\ cancelled
  /\ flush(buffer, FALSE)
  /\ loop' = "exited"
  /\ UNCHANGED <<cancelled, added, now>>

RotateCannotOpen ==
  /\ buffer # <<>> /\ file = NoFile /\ Fail
  /\ UNCHANGED <<buffer, file, fileStart, itemsWritten, disk>>

\* Mutant: fileStart survives the rotation.
RotateCloseKeepsStart ==
  /\ file' = NoFile
  /\ UNCHANGED fileStart

RotateClose ==
  /\ file' = NoFile
  /\ fileStart' = Never

\* Buffered rows go to the open file, whatever its age; a failed write
\* returns before the file is closed.
RotateRows ==
  /\ buffer # <<>>
  /\ LET f == IF file = NoFile THEN firstItemTime(buffer) ELSE file
     IN  /\ WriteRows(f, buffer)
         /\ IF buffer' = <<>> THEN RotateClose
                              ELSE file' = f /\ UNCHANGED fileStart

RotateEmpty ==
  /\ buffer = <<>>
  /\ IF file = NoFile THEN UNCHANGED <<file, fileStart>> ELSE RotateClose
  /\ UNCHANGED <<buffer, itemsWritten, disk, faults>>

Rotate ==
  /\ RotateCannotOpen \/ RotateRows \/ RotateEmpty
  /\ UNCHANGED <<loop, cancelled, added, now>>

Cancel ==
  /\ ~cancelled
  /\ cancelled' = TRUE
  /\ UNCHANGED <<outputVars, loop, added, now>>

Elapse ==
  /\ now < Horizon
  /\ now' = now + 1
  /\ UNCHANGED <<outputVars, loop, cancelled, added>>

-----------------------------------------------------------------------------
(* The writer alone.  Its worker hands it each accepted item once, stamped *)
(* no later than now, also after the cancellation (the worker drains its   *)
(* queue); a rotate request finds the writer only before it.               *)

IsNew(item) == \A i \in 1..Len(added) : added[i].id # item.id

AddSome == \E item \in Item : item.at <= now /\ IsNew(item) /\ Add(item)

RotateLive == ~cancelled /\ Rotate

WriterNext == AddSome \/ Tick \/ Finish \/ RotateLive \/ Cancel \/ Elapse

WriterSpec == WriterInit /\ [][WriterNext]_writerVars

-----------------------------------------------------------------------------
(* Properties.                                                             *)

\* The buffer is exactly the rows added and not yet counted as written, in
\* order: no failing open or write, no rotation and no final flush loses,
\* repeats or reorders an item (flush and Rotate keep the buffer on error).
BufferIsUnwritten ==
  /\ Len(added) = itemsWritten + Len(buffer)
  /\ \A i \in 1..Len(buffer) : buffer[i] = added[itemsWritten + i]

\* A row counted in itemsWritten ("successfully flushed", writers/stats.go)
\* is in some file as a whole line.
OnDisk(item) == \E f \in Time : item \in Range(disk[f])
WrittenRowsOnDisk == \A i \in 1..itemsWritten : OnDisk(added[i])

\* Where a failing write may stop inside a row, a counted row can be glued to the
\* half of its own first copy; but a failed call costs one row at most, lost
\* already or about to be (a file that ends in half a row), whichever handler
\* retries, and however often the retry fails in its turn.
LostRows == {i \in 1..itemsWritten : ~OnDisk(added[i])}
TornFiles == {f \in Time : IsTorn(disk[f])}
FaultsCostOneRow == Cardinality(LostRows) + Cardinality(TornFiles) <= faults

\* README "Gobbler Architecture": the time stamp in a file's name is the ingest
\* time of the first row stored in it, also when an open or write failed
\* and was retried by another handler.
FileNamedByFirstRow ==
  \A f \in Time : disk[f] # <<>> /\ disk[f][1] \in Item => disk[f][1].at = f

\* The age of the open file is measured from the stamp in its name, or it
\* is taken as expired: a retry never leaves a file with the start of another.
AgeMeasuredFromName == file # NoFile => fileStart \in {file, Never}

\* A row's first copy in a file comes after the first copies of the rows
\* added before it: retries repeat rows but never reorder them.
Position(item) == CHOOSE i \in 1..Len(added) : added[i] = item
FirstCopiesInOrder ==
  \A f \in Time : \A q \in 1..Len(disk[f]) :
    disk[f][q] \in Item =>
      \/ \E p \in 1..(q - 1) : disk[f][p] = disk[f][q]
      \/ \A p \in 1..(q - 1) : disk[f][p] \in Item => Position(disk[f][p]) < Position(disk[f][q])

=============================================================================
