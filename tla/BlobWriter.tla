----------------------------- MODULE BlobWriter -----------------------------
(***************************************************************************)
(* One BlobWriter (writers/blob_writer.go): the rows of an item type are   *)
(* buffered and sent, a batch at a time, to append blobs named by the      *)
(* ingest time of their first row.  Every handler holds the writer's mutex *)
(* and is one step.  A call to the storage that fails is an outcome of the *)
(* step, at most MaxFaults times; it may have taken effect all the same,   *)
(* only its answer being lost.                                             *)
(*                                                                         *)
(* A blob is identified by the stamp in its name.  Creating an append blob *)
(* whose name exists replaces it by an empty one, and appending a block    *)
(* adds all its rows or none.                                              *)
(***************************************************************************)
EXTENDS Integers, SequencesExt

CONSTANTS MaxItems,     \* bound: rows handed to the writer
          BatchSize,    \* writerBatchSize of the configuration
          MaxAge,       \* the type's latency as a Duration, which may have overflowed
          Horizon,      \* bound: the last instant
          MaxFaults     \* bound: calls to the storage that may fail

ASSUME BlobWriterAssumption ==
  /\ BatchSize \in Int /\ MaxAge \in Int \ {0}
  /\ {MaxItems, Horizon, MaxFaults} \subseteq Nat

Time   == 0..Horizon
Never  == -1            \* time.Time{}
NoBlob == -1            \* w.blobClient == nil
Row    == [id : 1..MaxItems, at : Time]

VARIABLES buffer,       \* w.buffer
          blobClient,   \* the blob that w.blobClient and w.currentBlob name
          blobStart,    \* w.blobStart
          itemsWritten, \* w.itemsWritten
          loop,         \* the goroutine of Start: "running" or "exited"
          cancelled,    \* the type's context is cancelled
          blobs,        \* rows of each append blob in the container
          faults,       \* history: failed calls so far
          createFailed, \* history: a Create failed since blobClient was made
          begun,        \* history: the places in added of the rows that a Create named its blob by
          added,        \* history: every row handed to Add, in order
          now           \* the clock

outputVars == <<buffer, blobClient, blobStart, itemsWritten, blobs, faults, createFailed, begun>>
vars == <<outputVars, loop, cancelled, added, now>>

BlobTypeOK ==
  /\ {buffer, added} \subseteq Seq(Row)
  /\ blobClient \in Time \cup {NoBlob} /\ blobStart \in Time \cup {Never}
  /\ itemsWritten \in Nat /\ faults \in 0..MaxFaults /\ now \in Time
  /\ loop \in {"running", "exited"} /\ {cancelled, createFailed} \subseteq BOOLEAN
  /\ blobs \in [Time -> Seq(Row)] /\ begun \subseteq Nat

\* NewBlobWriter's result, after Start.  Its uploads are in module Storage.
Init ==
  /\ buffer = <<>> /\ blobClient = NoBlob /\ blobStart = Never /\ itemsWritten = 0
  /\ loop = "running" /\ cancelled = FALSE
  /\ blobs = [n \in Time |-> <<>>]
  /\ faults = 0 /\ createFailed = FALSE /\ begun = {} /\ added = <<>> /\ now = 0

-----------------------------------------------------------------------------
(* flush, of the buffer b.  Rotate forgets the client after it, whatever   *)
(* became of the rows (forget = TRUE).                                     *)

Fail == faults < MaxFaults /\ faults' = faults + 1

firstItemTime(b) == b[1].at

Rotates == blobClient = NoBlob \/ now - blobStart >= MaxAge

Created(n) == [blobs EXCEPT ![n] = <<>>]

\* The row that a batch begins with has the next place.
Begin == begun' = begun \cup {itemsWritten + 1}

UseBlob(n, start, forget) ==
  /\ blobClient' = IF forget THEN NoBlob ELSE n
  /\ blobStart' = IF forget THEN Never ELSE start

FlushNothing(b, forget) ==
  /\ b = <<>> /\ buffer' = b
  /\ UseBlob(blobClient, blobStart, forget)
  /\ UNCHANGED <<itemsWritten, blobs, faults, createFailed, begun>>

\* Mutant: a failed Create gives the rows up.
CreateFailsDropping(b, forget) ==
  /\ b # <<>> /\ Rotates /\ Fail
  /\ buffer' = <<>>
  /\ UseBlob(blobClient, firstItemTime(b), forget)
  /\ createFailed' = (blobClient # NoBlob /\ ~forget)
  /\ UNCHANGED <<blobs, begun>> \/ (blobs' = Created(firstItemTime(b)) /\ Begin)
  /\ UNCHANGED itemsWritten

\* blobStart is set before the call, blobClient only after it has succeeded.
CreateFails(b, forget) ==
  /\ b # <<>> /\ Rotates /\ Fail
  /\ buffer' = b
  /\ UseBlob(blobClient, firstItemTime(b), forget)
  /\ createFailed' = (blobClient # NoBlob /\ ~forget)
  /\ UNCHANGED <<blobs, begun>> \/ (blobs' = Created(firstItemTime(b)) /\ Begin)
  /\ UNCHANGED itemsWritten

\* Mutant: the error of AppendBlock is not looked at.
AppendBlockUnchecked(st, n, b) ==
  /\ \/ blobs' = [st EXCEPT ![n] = @ \o b] /\ UNCHANGED faults
     \/ Fail /\ blobs' \in {st, [st EXCEPT ![n] = @ \o b]}
  /\ buffer' = <<>>
  /\ itemsWritten' = itemsWritten + Len(b)

\* Mutant: the rows are taken off the counter.
AppendBlockCountsDown(st, n, b) ==
  \/ /\ blobs' = [st EXCEPT ![n] = @ \o b]
     /\ buffer' = <<>>
     /\ itemsWritten' = itemsWritten - Len(b)
     /\ UNCHANGED faults
  \/ /\ Fail
     /\ blobs' \in {st, [st EXCEPT ![n] = @ \o b]}
     /\ buffer' = b
     /\ UNCHANGED itemsWritten

\* AppendBlock to blob n of the storage st.
AppendBlock(st, n, b) ==
  \/ /\ blobs' = [st EXCEPT ![n] = @ \o b]
     /\ buffer' = <<>>
     /\ itemsWritten' = itemsWritten + Len(b)
     /\ UNCHANGED faults
  \/ /\ Fail
     /\ blobs' \in {st, [st EXCEPT ![n] = @ \o b]}
     /\ buffer' = b
     /\ UNCHANGED itemsWritten

FlushToCurrent(b, forget) ==
  /\ b # <<>> /\ ~Rotates
  /\ AppendBlock(blobs, blobClient, b)
  /\ UseBlob(blobClient, blobStart, forget)
  /\ createFailed' = (createFailed /\ ~forget)
  /\ UNCHANGED begun

\* Mutant: blobStart stays that of the blob before.
FlushToNewKeepsStart(b, forget) ==
  LET n == firstItemTime(b)
  IN  /\ b # <<>> /\ Rotates /\ Begin
      /\ AppendBlock(Created(n), n, b)
      /\ UseBlob(n, IF blobStart = Never THEN n ELSE blobStart, forget)
      /\ createFailed' = FALSE

FlushToNew(b, forget) ==
  LET n == firstItemTime(b)
  IN  /\ b # <<>> /\ Rotates /\ Begin
      /\ AppendBlock(Created(n), n, b)
      /\ UseBlob(n, n, forget)
      /\ createFailed' = FALSE

flush(b, forget) ==
  FlushNothing(b, forget) \/ CreateFails(b, forget) \/ FlushToCurrent(b, forget) \/ FlushToNew(b, forget)

-----------------------------------------------------------------------------
(* The handlers.                                                           *)

Add(row) ==
  /\ added' = Append(added, row)
  /\ LET b == Append(buffer, row)
     IN  IF Len(b) >= BatchSize
         THEN flush(b, FALSE)
         ELSE buffer' = b
              /\ UNCHANGED <<blobClient, blobStart, itemsWritten, blobs, faults, createFailed, begun>>
  /\ UNCHANGED <<loop, cancelled, now>>

\* Mutant: the ticker flushes full batches only.
TickFullBatch ==
  /\ loop = "running" /\ Len(buffer) >= BatchSize
  /\ flush(buffer, FALSE)
  /\ UNCHANGED <<loop, cancelled, added, now>>

\* The ticker branch of Start's loop.
Tick ==
  /\ loop = "running"
  /\ flush(buffer, FALSE)
  /\ UNCHANGED <<loop, cancelled, added, now>>

\* The ctx.Done branch: a final flush, and nothing to close.
Finish ==
  /\ loop = "running" /\ cancelled
  /\ flush(buffer, FALSE)
  /\ loop' = "exited"
  /\ UNCHANGED <<cancelled, added, now>>

Rotate ==
  /\ flush(buffer, TRUE)
  /\ UNCHANGED <<loop, cancelled, added, now>>

Cancel ==
  /\ ~cancelled /\ cancelled' = TRUE
  /\ UNCHANGED <<outputVars, loop, added, now>>

Elapse ==
  /\ now < Horizon /\ now' = now + 1
  /\ UNCHANGED <<outputVars, loop, cancelled, added>>

\* What the status handler reports of this writer.
Stats == [itemsInBuffer |-> Len(buffer), itemsWritten |-> itemsWritten, currentOutput |-> blobClient]

-----------------------------------------------------------------------------
(* The worker hands over each accepted row once, stamped no later than     *)
(* now, also after the cancellation; a rotation finds the writer only      *)
(* before it.                                                              *)

AddSome ==
  /\ Len(added) < MaxItems
  /\ \E at \in 0..now : Add([id |-> Len(added) + 1, at |-> at])

RotateLive == ~cancelled /\ Rotate

Next == AddSome \/ Tick \/ Finish \/ RotateLive \/ Cancel \/ Elapse

Spec == Init /\ [][Next]_vars

\* The goroutine of Start is scheduled, and select takes each ready branch.
FairSpec == Spec /\ WF_vars(Tick) /\ WF_vars(Finish)

-----------------------------------------------------------------------------
(* Properties.                                                             *)

\* What status reports adds up, in the buffer's own order: no failed create or
\* append, no rotation (which forgets its client even when its flush failed)
\* and no final flush loses, repeats or reorders a row of the buffer.
BufferIsUnwritten ==
  /\ Stats.itemsWritten + Stats.itemsInBuffer = Len(added)
  /\ \A i \in DOMAIN buffer : buffer[i] = added[itemsWritten + i]

\* A Create named its blob by row h, no later than i, and after i was counted another
\* did so by row j: requests stamp all their items alike, and rows of several
\* requests may have one stamp as well.
Replaced(i) ==
  \E h, j \in begun : h <= i /\ i < j /\ added[h].at = added[j].at

\* A row counted in itemsWritten stays in some blob, through failed creates and appends,
\* lost answers, rotations and retries, unless its blob is replaced by one that
\* a later batch began, whose first row has the stamp that named the blob.
LostOnlyByReplacement ==
  \A i \in 1..itemsWritten : Replaced(i) \/ \E n \in Time : added[i] \in Range(blobs[n])

\* README: the stamp in a blob's name is the ingest time of its first row, and
\* the age of the current blob counts from it, also when a create or append
\* failed and another handler retried. The exception: once a Create has failed
\* for the successor of a blob, flush has moved blobStart, and goes on appending to
\* the old blob when it comes to be called again.
BlobNameAndAge ==
  /\ \A n \in Time : blobs[n] # <<>> => blobs[n][1].at = n
  /\ blobClient # NoBlob /\ ~createFailed => blobStart = Stats.currentOutput

\* With faults that come to an end, each row is in the end counted as written,
\* unless the pipeline is stopped first: no failure leaves the writer in a
\* state in which the ticker can no longer flush.
AddedIsWritten ==
  \A k \in 1..MaxItems : (Len(added) >= k /\ ~cancelled) ~> (itemsWritten >= k \/ cancelled)

-----------------------------------------------------------------------------
(* What the documentation promises and the code does not keep.             *)

\* writers/stats.go: the rows counted in itemsWritten are "successfully flushed".
\* The Create after a rotation, or for a blob that is too old, replaces the blob
\* they are in when the next batch begins with a row of the same stamp.
WrittenRowsStored ==
  \A i \in 1..itemsWritten : \E n \in Time : added[i] \in Range(blobs[n])

=============================================================================
