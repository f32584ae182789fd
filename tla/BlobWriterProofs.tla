-------------------------- MODULE BlobWriterProofs --------------------------
(***************************************************************************)
(* What BlobWriter keeps for every batch size, latency, number of rows and *)
(* of failing calls.  Each way out of flush has its lemma; the handlers    *)
(* differ only in the buffer they flush and in what they forget.           *)
(***************************************************************************)
EXTENDS BlobWriter, SequenceTheorems, TLAPS

-----------------------------------------------------------------------------
(* Types.                                                                  *)

OutputTypeOK ==
  /\ buffer \in Seq(Row)
  /\ blobClient \in Time \cup {NoBlob} /\ blobStart \in Time \cup {Never}
  /\ itemsWritten \in Nat /\ faults \in 0..MaxFaults /\ createFailed \in BOOLEAN
  /\ blobs \in [Time -> Seq(Row)] /\ begun \subseteq Nat

\* The name of a blob is the stamp of a row.
LEMMA FirstItemTimeIsTime ==
  ASSUME NEW b \in Seq(Row), b # <<>>
  PROVE  firstItemTime(b) \in Time
<1>1. 1 \in 1..Len(b)
  BY EmptySeq
<1>2. b[1] \in Row
  BY <1>1, ElementOfSeq
<1> QED BY <1>2 DEF firstItemTime, Row

\* Creating a blob leaves the storage in its type.
LEMMA CreatedType ==
  ASSUME blobs \in [Time -> Seq(Row)], NEW n \in Time
  PROVE  Created(n) \in [Time -> Seq(Row)]
<1>1. <<>> \in Seq(Row)
  BY EmptySeq
<1> QED BY <1>1 DEF Created

\* Places are numbers.
LEMMA BeginType == OutputTypeOK /\ Begin => begun' \subseteq Nat
BY DEF OutputTypeOK, Begin

\* A call that fails is counted.
LEMMA FailType == faults \in 0..MaxFaults /\ Fail => faults' \in 0..MaxFaults
BY BlobWriterAssumption DEF Fail

\* Appending a block, whether it fails or not.
LEMMA AppendBlockType ==
  ASSUME OutputTypeOK, NEW st \in [Time -> Seq(Row)], NEW n \in Time, NEW b \in Seq(Row),
         AppendBlock(st, n, b)
  PROVE  /\ buffer' \in Seq(Row) /\ itemsWritten' \in Nat
         /\ blobs' \in [Time -> Seq(Row)] /\ faults' \in 0..MaxFaults
<1>1. st[n] \o b \in Seq(Row) /\ <<>> \in Seq(Row) /\ Len(b) \in Nat
  BY ConcatProperties, EmptySeq, LenProperties
<1>2. [st EXCEPT ![n] = @ \o b] \in [Time -> Seq(Row)]
  BY <1>1
<1>3. Fail => faults' \in 0..MaxFaults
  BY FailType DEF OutputTypeOK
<1>4. blobs' \in [Time -> Seq(Row)]
  <2>1. blobs' \in {st, [st EXCEPT ![n] = @ \o b]}
    BY DEF AppendBlock
  <2> QED BY <1>2, <2>1
<1>5. buffer' \in Seq(Row)
  <2>1. buffer' = <<>> \/ buffer' = b
    BY DEF AppendBlock
  <2> QED BY <1>1, <2>1, Zenon
<1>6. itemsWritten' \in Nat
  <2>1. itemsWritten' = itemsWritten \/ itemsWritten' = itemsWritten + Len(b)
    BY DEF AppendBlock
  <2> QED BY <1>1, <2>1 DEF OutputTypeOK
<1>7. faults' \in 0..MaxFaults
  <2>1. Fail \/ faults' = faults
    BY DEF AppendBlock
  <2> QED BY <1>3, <2>1 DEF OutputTypeOK
<1> QED BY <1>4, <1>5, <1>6, <1>7

\* flush keeps the types of what it changes.
LEMMA FlushType ==
  ASSUME OutputTypeOK, NEW b \in Seq(Row), NEW forget \in BOOLEAN, flush(b, forget)
  PROVE  OutputTypeOK'
<1>1. CASE FlushNothing(b, forget)
  BY <1>1 DEF FlushNothing, UseBlob, OutputTypeOK
<1>2. CASE CreateFails(b, forget)
  <2>1. firstItemTime(b) \in Time
    BY <1>2, FirstItemTimeIsTime DEF CreateFails
  <2>2. blobs' \in [Time -> Seq(Row)]
    BY <1>2, <2>1, CreatedType DEF CreateFails, OutputTypeOK
  <2>3. faults' \in 0..MaxFaults
    BY <1>2, FailType DEF CreateFails, OutputTypeOK
  <2>4. begun' \subseteq Nat
    BY <1>2, BeginType DEF CreateFails, OutputTypeOK
  <2> QED BY <1>2, <2>1, <2>2, <2>3, <2>4 DEF CreateFails, UseBlob, OutputTypeOK
<1>3. CASE FlushToCurrent(b, forget)
  <2>1. blobClient \in Time /\ AppendBlock(blobs, blobClient, b)
    BY <1>3 DEF FlushToCurrent, Rotates, OutputTypeOK
  <2>2. blobs \in [Time -> Seq(Row)]
    BY DEF OutputTypeOK
  <2> QED BY <1>3, <2>1, <2>2, AppendBlockType DEF FlushToCurrent, UseBlob, OutputTypeOK
<1>4. CASE FlushToNew(b, forget)
  <2> DEFINE n == firstItemTime(b)
  <2>1. n \in Time /\ AppendBlock(Created(n), n, b)
    BY <1>4, FirstItemTimeIsTime DEF FlushToNew
  <2>2. Created(n) \in [Time -> Seq(Row)]
    BY <2>1, CreatedType DEF OutputTypeOK
  <2>3. UseBlob(n, n, forget) /\ createFailed' = FALSE /\ begun' \subseteq Nat
    BY <1>4, BeginType DEF FlushToNew
  <2> HIDE DEF n
  <2> QED BY <2>1, <2>2, <2>3, AppendBlockType DEF UseBlob, OutputTypeOK
<1> QED BY <1>1, <1>2, <1>3, <1>4 DEF flush

\* Every step keeps the types.
LEMMA StepType ==
  ASSUME BlobTypeOK, Next
  PROVE  BlobTypeOK'
<1>0. OutputTypeOK
  BY DEF BlobTypeOK, OutputTypeOK
<1>1. ASSUME NEW at \in 0..now, Add([id |-> Len(added) + 1, at |-> at]), Len(added) < MaxItems
      PROVE  BlobTypeOK'
  <2> DEFINE row == [id |-> Len(added) + 1, at |-> at]
             b == Append(buffer, row)
  <2>1. row \in Row
    <3>1. Len(added) + 1 \in 1..MaxItems
      BY <1>1, BlobWriterAssumption, LenProperties DEF BlobTypeOK
    <3>2. at \in Time
      BY <1>1, BlobWriterAssumption DEF BlobTypeOK, Time
    <3> QED BY <3>1, <3>2 DEF Row
  <2>2. b \in Seq(Row) /\ added' \in Seq(Row)
    BY <1>1, <2>1, AppendProperties DEF BlobTypeOK, Add
  <2>3. \/ flush(b, FALSE)
        \/ buffer' = b /\ UNCHANGED <<blobClient, blobStart, itemsWritten, blobs, faults, createFailed, begun>>
    BY <1>1 DEF Add
  <2>4. UNCHANGED <<loop, cancelled, now>>
    BY <1>1 DEF Add
  <2> HIDE DEF b, row
  <2>5. OutputTypeOK'
    BY <1>0, <2>2, <2>3, FlushType DEF OutputTypeOK
  <2> QED BY <2>2, <2>4, <2>5 DEF BlobTypeOK, OutputTypeOK
<1>2. CASE Tick
  <2>1. OutputTypeOK'
    BY <1>0, <1>2, FlushType DEF Tick, OutputTypeOK
  <2> QED BY <1>2, <2>1 DEF Tick, BlobTypeOK, OutputTypeOK
<1>3. CASE Finish
  <2>1. OutputTypeOK'
    BY <1>0, <1>3, FlushType DEF Finish, OutputTypeOK
  <2> QED BY <1>3, <2>1 DEF Finish, BlobTypeOK, OutputTypeOK
<1>4. CASE RotateLive
  <2>1. OutputTypeOK'
    BY <1>0, <1>4, FlushType DEF RotateLive, Rotate, OutputTypeOK
  <2> QED BY <1>4, <2>1 DEF RotateLive, Rotate, BlobTypeOK, OutputTypeOK
<1>5. CASE Cancel
  BY <1>5 DEF Cancel, outputVars, BlobTypeOK
<1>6. CASE Elapse
  BY <1>6, BlobWriterAssumption DEF Elapse, outputVars, BlobTypeOK, Time
<1> QED BY <1>1, <1>2, <1>3, <1>4, <1>5, <1>6 DEF Next, AddSome

\* Type correctness of the blob writer: whatever calls fail, its counter is
\* a number, its times are instants, and its blobs hold rows.
THEOREM BlobTypeCorrect == Spec => []BlobTypeOK
<1>1. Init => BlobTypeOK
  <2> SUFFICES ASSUME Init PROVE BlobTypeOK
    OBVIOUS
  <2>1. <<>> \in Seq(Row)
    BY EmptySeq
  <2>2. 0 \in Time /\ 0 \in 0..MaxFaults
    BY BlobWriterAssumption DEF Time
  <2>3. blobs \in [Time -> Seq(Row)]
    BY <2>1 DEF Init
  <2> QED BY <2>1, <2>2, <2>3 DEF Init, BlobTypeOK
<1>2. BlobTypeOK /\ [Next]_vars => BlobTypeOK'
  <2>1. BlobTypeOK /\ UNCHANGED vars => BlobTypeOK'
    BY DEF BlobTypeOK, vars, outputVars
  <2> QED BY <2>1, StepType
<1> QED BY <1>1, <1>2, PTL DEF Spec

-----------------------------------------------------------------------------
(* No row is lost, repeated or reordered on its way to the counter.        *)

\* The rows b are the part of all that follows its first n.
Unwritten(b, all, n) ==
  n + Len(b) = Len(all) /\ \A i \in DOMAIN b : b[i] = all[n + i]

\* A flush of b either leaves b in the buffer or counts all of it.
KeptOrCounted(b) ==
  \/ buffer' = b /\ itemsWritten' = itemsWritten
  \/ buffer' = <<>> /\ itemsWritten' = itemsWritten + Len(b)

\* Every way out of flush does, forgetting the client or not.
LEMMA FlushKeepsOrCounts ==
  ASSUME NEW b, NEW forget, flush(b, forget)
  PROVE  KeptOrCounted(b)
BY DEF flush, FlushNothing, CreateFails, FlushToCurrent, FlushToNew, AppendBlock, KeptOrCounted

\* Keeping b in the buffer, or counting it, leaves the rest of all unwritten.
LEMMA CountingKeepsUnwritten ==
  ASSUME NEW all \in Seq(Row), NEW b \in Seq(Row), itemsWritten \in Nat,
         Unwritten(b, all, itemsWritten), KeptOrCounted(b)
  PROVE  Unwritten(buffer', all, itemsWritten')
<1>1. CASE buffer' = b /\ itemsWritten' = itemsWritten
  BY <1>1 DEF Unwritten
<1>2. CASE buffer' = <<>> /\ itemsWritten' = itemsWritten + Len(b)
  <2>1. Len(b) \in Nat /\ Len(<<>>) = 0 /\ DOMAIN <<>> = {}
    BY LenProperties, EmptySeq
  <2> QED BY <1>2, <2>1 DEF Unwritten
<1> QED BY <1>1, <1>2 DEF KeptOrCounted

\* A row put behind both stays unwritten.
LEMMA AppendKeepsUnwritten ==
  ASSUME NEW all \in Seq(Row), NEW b \in Seq(Row), NEW n \in Nat, NEW row \in Row,
         Unwritten(b, all, n)
  PROVE  Unwritten(Append(b, row), Append(all, row), n)
<1>1. Len(b) \in Nat /\ Len(all) \in Nat /\ DOMAIN b = 1..Len(b)
  BY LenProperties
<1>2. /\ Len(Append(b, row)) = Len(b) + 1 /\ Len(Append(all, row)) = Len(all) + 1
      /\ DOMAIN Append(b, row) = 1..(Len(b) + 1)
  BY AppendProperties, LenProperties
<1>3. ASSUME NEW i \in 1..(Len(b) + 1)
      PROVE  Append(b, row)[i] = Append(all, row)[n + i]
  <2>1. CASE i \in 1..Len(b)
    BY <1>1, <2>1, AppendProperties DEF Unwritten
  <2>2. CASE i = Len(b) + 1
    BY <1>1, <2>2, AppendProperties DEF Unwritten
  <2>3. i \in 1..Len(b) \/ i = Len(b) + 1
    <3> DEFINE m == Len(b)
    <3>1. m \in Nat /\ i \in 1..(m + 1)
      BY <1>1
    <3> HIDE DEF m
    <3>2. i \in 1..m \/ i = m + 1
      BY <3>1
    <3> QED BY <3>2 DEF m
  <2> QED BY <2>1, <2>2, <2>3
<1> QED BY <1>1, <1>2, <1>3 DEF Unwritten

\* One step of the writer keeps BufferIsUnwritten.
LEMMA StepUnwritten ==
  ASSUME BlobTypeOK, BufferIsUnwritten, Next, added' \in Seq(Row)
  PROVE  BufferIsUnwritten'
<1> USE DEF BlobTypeOK
<1>0. Unwritten(buffer, added, itemsWritten)
  BY DEF BufferIsUnwritten, Unwritten, Stats
<1>1. Unwritten(buffer', added', itemsWritten')
  <2>1. ASSUME NEW row, Add(row)
        PROVE  Unwritten(buffer', added', itemsWritten')
    <3> DEFINE b == Append(buffer, row)
    <3>1. added' = Append(added, row) /\ row \in Row
      <4>1. added' = Append(added, row)
        BY <2>1 DEF Add
      <4>2. Len(added) + 1 \in 1..Len(added') /\ added'[Len(added) + 1] = row
        BY <4>1, LenProperties
      <4> QED BY <4>1, <4>2, ElementOfSeq
    <3>2. b \in Seq(Row) /\ Unwritten(b, added', itemsWritten)
      BY <1>0, <3>1, AppendProperties, AppendKeepsUnwritten
    <3>3. flush(b, FALSE) \/ (buffer' = b /\ itemsWritten' = itemsWritten)
      BY <2>1 DEF Add
    <3> HIDE DEF b
    <3>4. KeptOrCounted(b)
      BY <3>3, FlushKeepsOrCounts DEF KeptOrCounted
    <3> QED BY <3>2, <3>4, CountingKeepsUnwritten
  <2>2. CASE Tick \/ Finish \/ RotateLive
    <3>1. KeptOrCounted(buffer) /\ added' = added
      BY <2>2, FlushKeepsOrCounts DEF Tick, Finish, RotateLive, Rotate
    <3> QED BY <1>0, <3>1, CountingKeepsUnwritten
  <2>3. CASE Cancel \/ Elapse
    BY <1>0, <2>3 DEF Cancel, Elapse, outputVars
  <2> QED BY <2>1, <2>2, <2>3 DEF Next, AddSome
<1> QED BY <1>1 DEF BufferIsUnwritten, Unwritten, Stats

\* Through every failing create and append, every lost answer, every rotation
\* and the final flush, the buffer is exactly the rows added and not yet counted.
THEOREM BlobBufferUnwritten == Spec => []BufferIsUnwritten
<1>1. Init => BufferIsUnwritten
  BY EmptySeq DEF Init, BufferIsUnwritten, Stats
<1>2. BlobTypeOK /\ BufferIsUnwritten /\ [Next]_vars => BufferIsUnwritten'
  <2>1. BlobTypeOK /\ Next => added' \in Seq(Row)
    BY StepType DEF BlobTypeOK
  <2>2. BufferIsUnwritten /\ UNCHANGED vars => BufferIsUnwritten'
    BY DEF BufferIsUnwritten, Stats, vars, outputVars
  <2> QED BY <2>1, <2>2, StepUnwritten
<1> QED BY <1>1, <1>2, BlobTypeCorrect, PTL DEF Spec

-----------------------------------------------------------------------------
(* Names and age.                                                          *)

NamesOK == \A n \in Time : blobs[n] # <<>> => blobs[n][1].at = n

\* A blob that was created and whose append failed is still empty: the next row
\* appended to it must be the one it was named by.
EmptyBlobAwaitsRow ==
  blobClient # NoBlob /\ blobs[blobClient] = <<>> =>
    buffer # <<>> /\ firstItemTime(buffer) = blobClient

AgeOK == blobClient # NoBlob /\ ~createFailed => blobStart = blobClient

NameInv == NamesOK /\ EmptyBlobAwaitsRow /\ AgeOK

\* What a handler that flushes b knows of it: b begins with the buffer.
Awaited(b) ==
  blobClient # NoBlob /\ blobs[blobClient] = <<>> => b # <<>> /\ firstItemTime(b) = blobClient

\* A block appended to an empty blob begins with its name's row; one appended
\* to another leaves its first row.
LEMMA BlockKeepsName ==
  ASSUME NEW n \in Time, NEW c \in Seq(Row), NEW b \in Seq(Row), b # <<>>,
         c = <<>> => firstItemTime(b) = n, c # <<>> => c[1].at = n
  PROVE  c \o b # <<>> /\ (c \o b)[1].at = n
<1>1. Len(b) \in Nat \ {0} /\ Len(c) \in Nat
  BY EmptySeq, LenProperties
<1>2. Len(c \o b) = Len(c) + Len(b)
  BY ConcatProperties
<1>3. c \o b # <<>>
  BY <1>1, <1>2, EmptySeq
<1>4. CASE c = <<>>
  <2>1. Len(c) = 0 /\ (c \o b)[1] = b[1]
    BY <1>1, <1>4, ConcatProperties, EmptySeq
  <2> QED BY <1>3, <1>4, <2>1 DEF firstItemTime
<1>5. CASE c # <<>>
  <2>1. Len(c) # 0
    BY <1>5, EmptySeq
  <2>2. (c \o b)[1] = c[1]
    BY <1>1, <2>1, ConcatProperties
  <2> QED BY <1>3, <1>5, <2>2
<1> QED BY <1>4, <1>5

\* Appending b to blob n, which is rightly named or awaits the first row of b.
LEMMA AppendBlockName ==
  ASSUME OutputTypeOK, NEW st \in [Time -> Seq(Row)], NEW n \in Time,
         NEW b \in Seq(Row), b # <<>>,
         \A m \in Time : st[m] # <<>> => st[m][1].at = m,
         st[n] = <<>> => firstItemTime(b) = n,
         AppendBlock(st, n, b)
  PROVE  /\ NamesOK'
         /\ blobs'[n] = <<>> => buffer' = b /\ firstItemTime(b) = n
<1> DEFINE d == [st EXCEPT ![n] = @ \o b]
<1>1. st[n] \o b # <<>> /\ (st[n] \o b)[1].at = n
  BY BlockKeepsName
<1>2. d[n] = st[n] \o b /\ \A m \in Time : m # n => d[m] = st[m]
  OBVIOUS
<1>3. \/ blobs' = d
      \/ blobs' = st /\ buffer' = b
  BY DEF AppendBlock
<1> HIDE DEF d
<1>4. CASE blobs' = d
  BY <1>1, <1>2, <1>4 DEF NamesOK
<1>5. CASE blobs' = st /\ buffer' = b
  BY <1>5 DEF NamesOK
<1> QED BY <1>3, <1>4, <1>5

\* Every way out of flush keeps names and age.
LEMMA FlushName ==
  ASSUME OutputTypeOK, NamesOK, AgeOK, NEW b \in Seq(Row), Awaited(b),
         NEW forget \in BOOLEAN, flush(b, forget)
  PROVE  NameInv'
<1>1. CASE FlushNothing(b, forget)
  BY <1>1 DEF FlushNothing, UseBlob, NameInv, NamesOK, AgeOK, EmptyBlobAwaitsRow, Awaited
<1>2. CASE CreateFails(b, forget)
  <2> DEFINE n == firstItemTime(b)
  <2>1. n \in Time
    BY <1>2, FirstItemTimeIsTime DEF CreateFails
  <2>2. /\ b # <<>> /\ buffer' = b /\ UseBlob(blobClient, n, forget)
        /\ createFailed' = (blobClient # NoBlob /\ ~forget)
        /\ blobs' = blobs \/ blobs' = Created(n)
    BY <1>2 DEF CreateFails
  <2>3. /\ Created(n)[n] = <<>>
        /\ \A m \in Time : m # n => Created(n)[m] = blobs[m]
    BY <2>1 DEF Created, OutputTypeOK
  <2> HIDE DEF n
  <2>4. NamesOK'
    BY <2>2, <2>3 DEF NamesOK
  <2>5. EmptyBlobAwaitsRow'
    <3> SUFFICES ASSUME blobClient' # NoBlob, blobs'[blobClient'] = <<>>
                 PROVE  buffer' # <<>> /\ firstItemTime(buffer') = blobClient'
      BY DEF EmptyBlobAwaitsRow, firstItemTime
    <3>1. blobClient' = blobClient /\ blobClient \in Time
      BY <2>2 DEF UseBlob, OutputTypeOK
    <3>2. CASE blobs[blobClient] = <<>>
      BY <2>2, <3>1, <3>2 DEF Awaited
    <3>3. CASE blobs[blobClient] # <<>>
      <4>1. blobClient = n
        BY <2>2, <2>3, <3>1, <3>3
      <4> QED BY <2>2, <3>1, <4>1 DEF n
    <3> QED BY <3>2, <3>3
  <2>6. AgeOK'
    BY <2>2 DEF AgeOK, UseBlob
  <2> QED BY <2>4, <2>5, <2>6 DEF NameInv
<1>3. CASE FlushToCurrent(b, forget)
  <2>1. /\ b # <<>> /\ blobClient \in Time /\ blobClient # NoBlob
        /\ AppendBlock(blobs, blobClient, b)
        /\ UseBlob(blobClient, blobStart, forget) /\ createFailed' = (createFailed /\ ~forget)
    BY <1>3 DEF FlushToCurrent, Rotates, OutputTypeOK
  <2>2. NamesOK' /\ (blobs'[blobClient] = <<>> => buffer' = b /\ firstItemTime(b) = blobClient)
    BY <2>1, AppendBlockName DEF OutputTypeOK, NamesOK, Awaited
  <2>3. EmptyBlobAwaitsRow'
    BY <2>1, <2>2 DEF UseBlob, EmptyBlobAwaitsRow, firstItemTime
  <2>4. AgeOK'
    BY <2>1 DEF AgeOK, UseBlob
  <2> QED BY <2>2, <2>3, <2>4 DEF NameInv
<1>4. CASE FlushToNew(b, forget)
  <2> DEFINE n == firstItemTime(b)
             st == Created(n)
  <2>1. n \in Time
    BY <1>4, FirstItemTimeIsTime DEF FlushToNew
  <2>2. b # <<>> /\ AppendBlock(st, n, b) /\ UseBlob(n, n, forget)
    BY <1>4 DEF FlushToNew
  <2>3. st \in [Time -> Seq(Row)]
    BY <2>1, CreatedType DEF OutputTypeOK
  <2>4. \A m \in Time : st[m] # <<>> => st[m][1].at = m
    BY <2>1 DEF Created, NamesOK, OutputTypeOK
  <2>5. NamesOK' /\ (blobs'[n] = <<>> => buffer' = b)
    <3> HIDE DEF st
    <3> QED BY <2>1, <2>2, <2>3, <2>4, AppendBlockName
  <2>6. EmptyBlobAwaitsRow'
    BY <2>2, <2>5 DEF UseBlob, EmptyBlobAwaitsRow, firstItemTime
  <2>7. AgeOK'
    BY <2>2 DEF AgeOK, UseBlob
  <2> QED BY <2>5, <2>6, <2>7 DEF NameInv
<1> QED BY <1>1, <1>2, <1>3, <1>4 DEF flush

\* One step of the writer keeps names and age.
LEMMA StepName ==
  ASSUME BlobTypeOK, NameInv, Next
  PROVE  NameInv'
<1>0. OutputTypeOK /\ NamesOK /\ AgeOK /\ Awaited(buffer) /\ buffer \in Seq(Row)
  BY DEF BlobTypeOK, OutputTypeOK, NameInv, EmptyBlobAwaitsRow, Awaited
<1>1. ASSUME NEW at \in 0..now, Add([id |-> Len(added) + 1, at |-> at]), Len(added) < MaxItems
      PROVE  NameInv'
  <2> DEFINE row == [id |-> Len(added) + 1, at |-> at]
             b == Append(buffer, row)
  <2>1. row \in Row
    <3>1. Len(added) + 1 \in 1..MaxItems
      BY <1>1, BlobWriterAssumption, LenProperties DEF BlobTypeOK
    <3>2. at \in Time
      BY <1>1, BlobWriterAssumption DEF BlobTypeOK, Time
    <3> QED BY <3>1, <3>2 DEF Row
  <2>2. b \in Seq(Row) /\ b # <<>> /\ (buffer # <<>> => b[1] = buffer[1])
    <3> HIDE DEF row
    <3>1. b \in Seq(Row) /\ Len(b) = Len(buffer) + 1 /\ Len(buffer) \in Nat
      BY <1>0, <2>1, AppendProperties, LenProperties
    <3>2. b # <<>>
      BY <3>1, EmptySeq
    <3>3. buffer # <<>> => b[1] = buffer[1]
      BY <1>0, <2>1, <3>1, AppendProperties, EmptySeq
    <3> QED BY <3>1, <3>2, <3>3
  <2>3. Awaited(b)
    BY <1>0, <2>2 DEF Awaited, firstItemTime
  <2>4. CASE flush(b, FALSE)
    <3> HIDE DEF b
    <3> QED BY <1>0, <2>2, <2>3, <2>4, FlushName
  <2>5. CASE buffer' = b /\ UNCHANGED <<blobClient, blobStart, itemsWritten, blobs, faults, createFailed>>
    <3> HIDE DEF b
    <3> QED BY <1>0, <2>3, <2>5 DEF NameInv, NamesOK, AgeOK, EmptyBlobAwaitsRow, Awaited, firstItemTime
  <2> QED BY <1>1, <2>4, <2>5 DEF Add
<1>2. CASE Tick \/ Finish \/ RotateLive
  BY <1>0, <1>2, FlushName DEF Tick, Finish, RotateLive, Rotate
<1>3. CASE Cancel \/ Elapse
  BY <1>3 DEF Cancel, Elapse, outputVars, NameInv, NamesOK, AgeOK, EmptyBlobAwaitsRow, firstItemTime
<1> QED BY <1>1, <1>2, <1>3 DEF Next, AddSome

\* A blob's first row has the stamp of its name, and the age of the current one
\* counts from it unless a Create has failed since: through failed appends whose
\* rows another handler sends, blobs emptied by a Create of their name, and rotations.
THEOREM BlobNameAlways == Spec => []BlobNameAndAge
<1>1. Init => NameInv
  BY DEF Init, NameInv, NamesOK, AgeOK, EmptyBlobAwaitsRow
<1>2. BlobTypeOK /\ NameInv /\ [Next]_vars => NameInv'
  <2>1. NameInv /\ UNCHANGED vars => NameInv'
    BY DEF NameInv, NamesOK, AgeOK, EmptyBlobAwaitsRow, firstItemTime, vars, outputVars
  <2> QED BY <2>1, StepName
<1>3. NameInv => BlobNameAndAge
  BY DEF NameInv, NamesOK, AgeOK, BlobNameAndAge, Stats
<1> QED BY <1>1, <1>2, <1>3, BlobTypeCorrect, PTL DEF Spec

-----------------------------------------------------------------------------
(* What is counted stays in blobs, but for blobs that are replaced.        *)

\* LostOnlyByReplacement with its state as parameters, to speak of a middle state, and
\* with the place h that named the blob a row is in.
ReplacedIn(all, B, i) == \E h, j \in B : h <= i /\ i < j /\ all[h].at = all[j].at
InBlobOf(all, B, d, i) == \E h \in B : h <= i /\ all[i] \in Range(d[all[h].at])
KeptIn(all, w, B, d) == \A i \in 1..w : ReplacedIn(all, B, i) \/ InBlobOf(all, B, d, i)

\* Blob n was named by a row that comes no later than the next to be counted.
NamedIn(all, w, B, n) == \E h \in B : h <= w + 1 /\ all[h].at = n

Places(all, B) == B \subseteq DOMAIN all

\* The rows of a concatenation.
LEMMA ConcatRows ==
  ASSUME NEW c \in Seq(Row), NEW b \in Seq(Row)
  PROVE  /\ \A k \in DOMAIN (c \o b) :
              \/ k \in DOMAIN c /\ (c \o b)[k] = c[k]
              \/ \E i \in DOMAIN b : (c \o b)[k] = b[i]
         /\ \A k \in DOMAIN c : c[k] \in Range(c \o b)
         /\ \A i \in DOMAIN b : b[i] \in Range(c \o b)
<1> DEFINE s == c \o b
           m == Len(c)
           l == Len(b)
<1>1. /\ DOMAIN c = 1..m /\ DOMAIN b = 1..l /\ DOMAIN s = 1..(m + l) /\ m \in Nat /\ l \in Nat
      /\ \A k \in 1..(m + l) : s[k] = IF k <= m THEN c[k] ELSE b[k - m]
  BY ConcatProperties, LenProperties
<1> HIDE DEF s, m, l
<1>2. \A k \in DOMAIN s : (k \in DOMAIN c /\ s[k] = c[k]) \/ (\E i \in DOMAIN b : s[k] = b[i])
  <2> TAKE k \in DOMAIN s
  <2>1. CASE k <= m
    BY <1>1, <2>1
  <2>2. CASE ~(k <= m)
    <3>1. k - m \in DOMAIN b /\ s[k] = b[k - m]
      BY <1>1, <2>2
    <3> QED BY <3>1
  <2> QED BY <2>1, <2>2
<1>3. \A k \in DOMAIN c : k \in DOMAIN s /\ s[k] = c[k]
  BY <1>1
<1>4. \A i \in DOMAIN b : m + i \in DOMAIN s /\ s[m + i] = b[i]
  BY <1>1
<1> QED BY <1>2, <1>3, <1>4 DEF Range, s

\* The first row that is due, and its place.
LEMMA NextPlace ==
  ASSUME NEW all \in Seq(Row), NEW b \in Seq(Row), NEW w \in Nat, Unwritten(b, all, w), b # <<>>
  PROVE  w + 1 \in DOMAIN all /\ all[w + 1].at = firstItemTime(b)
<1>1. 1 \in DOMAIN b /\ Len(b) \in Nat /\ Len(b) >= 1 /\ DOMAIN all = 1..Len(all)
  BY EmptySeq, LenProperties
<1> QED BY <1>1 DEF Unwritten, firstItemTime

\* Creating a blob for the rows that are due replaces, if any, a blob named by the
\* stamp of a row that comes before.
LEMMA CreateKeeps ==
  ASSUME blobs \in [Time -> Seq(Row)], NEW all \in Seq(Row), NEW b \in Seq(Row), NEW w \in Nat,
         Unwritten(b, all, w), b # <<>>, NEW B, Places(all, B), KeptIn(all, w, B, blobs),
         NEW n, n = firstItemTime(b)
  PROVE  LET C == B \cup {w + 1}
         IN  Places(all, C) /\ KeptIn(all, w, C, Created(n)) /\ NamedIn(all, w, C, n)
<1> DEFINE C == B \cup {w + 1}
<1>1. w + 1 \in DOMAIN all /\ all[w + 1].at = n
  BY NextPlace
<1>2. Places(all, C) /\ NamedIn(all, w, C, n)
  BY <1>1 DEF Places, NamedIn
<1>3. \A t \in Time : t # n => Created(n)[t] = blobs[t]
  BY DEF Created
<1>4. \A h \in DOMAIN all : all[h].at \in Time
  <2>1. \A h \in DOMAIN all : all[h] \in Row
    BY ElementOfSeq, LenProperties
  <2> QED BY <2>1 DEF Row
<1>5. ASSUME NEW i \in 1..w
      PROVE  ReplacedIn(all, C, i) \/ InBlobOf(all, C, Created(n), i)
  <2>1. CASE ReplacedIn(all, B, i)
    BY <2>1 DEF ReplacedIn
  <2>2. CASE InBlobOf(all, B, blobs, i)
    <3>1. PICK h \in B : h <= i /\ all[i] \in Range(blobs[all[h].at])
      BY <2>2 DEF InBlobOf
    <3>2. CASE all[h].at = n
      <4>1. i < w + 1
        OBVIOUS
      <4> QED BY <1>1, <3>1, <3>2, <4>1 DEF ReplacedIn
    <3>3. CASE all[h].at # n
      <4>1. all[h].at \in Time
        BY <1>4 DEF Places
      <4>2. Created(n)[all[h].at] = blobs[all[h].at]
        BY <1>3, <3>3, <4>1
      <4> QED BY <3>1, <4>2 DEF InBlobOf
    <3> QED BY <3>2, <3>3
  <2> QED BY <2>1, <2>2 DEF KeptIn
<1> HIDE DEF C
<1> QED BY <1>2, <1>5 DEF KeptIn, C

\* Appending the rows that are due keeps what was there, and keeps them if it counts them.
LEMMA AppendBlockKeeps ==
  ASSUME NEW st \in [Time -> Seq(Row)], NEW n \in Time, NEW b \in Seq(Row),
         NEW all \in Seq(Row), itemsWritten \in Nat, Unwritten(b, all, itemsWritten),
         NEW B, Places(all, B), KeptIn(all, itemsWritten, B, st), NamedIn(all, itemsWritten, B, n),
         AppendBlock(st, n, b)
  PROVE  KeptIn(all, itemsWritten', B, blobs') /\ NamedIn(all, itemsWritten', B, n)
<1> DEFINE d == [st EXCEPT ![n] = @ \o b]
           w == itemsWritten
<1>0. w \in Nat /\ Len(b) \in Nat /\ DOMAIN b = 1..Len(b) /\ B \subseteq Nat
  BY LenProperties DEF Places
<1>1. d[n] = st[n] \o b /\ \A m \in Time : m # n => d[m] = st[m]
  OBVIOUS
<1>2. \A m \in Time : Range(st[m]) \subseteq Range(d[m])
  <2> SUFFICES ASSUME NEW m \in Time, NEW row \in Range(st[m])
               PROVE  row \in Range(d[m])
    OBVIOUS
  <2>1. CASE m = n
    <3>1. PICK k \in DOMAIN st[n] : row = st[n][k]
      BY <2>1 DEF Range
    <3> QED BY <1>1, <2>1, <3>1, ConcatRows
  <2>2. CASE m # n
    BY <1>1, <2>2
  <2> QED BY <2>1, <2>2
<1>3. \A i \in DOMAIN b : b[i] \in Range(d[n])
  BY <1>1, ConcatRows
<1>4. \A h \in B : all[h].at \in Time
  <2>1. \A h \in B : all[h] \in Row
    BY ElementOfSeq, LenProperties DEF Places
  <2> QED BY <2>1 DEF Row
<1>5. \/ blobs' = d /\ itemsWritten' = w + Len(b)
      \/ blobs' \in {st, d} /\ itemsWritten' = w
  BY DEF AppendBlock
<1> HIDE DEF d, w
<1>6. KeptIn(all, w, B, d)
  <2> SUFFICES ASSUME NEW i \in 1..w, ~ReplacedIn(all, B, i)
               PROVE  InBlobOf(all, B, d, i)
    BY DEF KeptIn
  <2>1. PICK h \in B : h <= i /\ all[i] \in Range(st[all[h].at])
    BY DEF KeptIn, InBlobOf, w
  <2> QED BY <1>2, <1>4, <2>1 DEF InBlobOf
<1>7. KeptIn(all, w + Len(b), B, d) /\ NamedIn(all, w + Len(b), B, n)
  <2>1. PICK h \in B : h <= w + 1 /\ all[h].at = n
    BY DEF NamedIn, w
  <2>2. ASSUME NEW i \in 1..(w + Len(b))
        PROVE  ReplacedIn(all, B, i) \/ InBlobOf(all, B, d, i)
    <3>1. CASE i \in 1..w
      BY <1>6, <3>1 DEF KeptIn
    <3>2. CASE ~(i \in 1..w)
      <4>1. i - w \in DOMAIN b /\ w + (i - w) = i /\ h <= i
        BY <1>0, <2>1, <3>2
      <4>2. b[i - w] = all[i]
        BY <4>1 DEF Unwritten, w
      <4> QED BY <1>3, <2>1, <4>1, <4>2 DEF InBlobOf
    <3> QED BY <3>1, <3>2
  <2>3. h <= w + Len(b) + 1
    BY <1>0, <2>1
  <2> QED BY <2>1, <2>2, <2>3 DEF KeptIn, NamedIn
<1> QED BY <1>5, <1>6, <1>7 DEF w

StoreIn(all, w, B, d, n) ==
  Places(all, B) /\ KeptIn(all, w, B, d) /\ (n # NoBlob => NamedIn(all, w, B, n))

\* Every way out of flush keeps what was there, and keeps what it counts.
LEMMA FlushKeeps ==
  ASSUME OutputTypeOK, NEW all \in Seq(Row), NEW b \in Seq(Row), Unwritten(b, all, itemsWritten),
         StoreIn(all, itemsWritten, begun, blobs, blobClient),
         NEW forget \in BOOLEAN, flush(b, forget)
  PROVE  StoreIn(all, itemsWritten', begun', blobs', blobClient')
<1> DEFINE n == firstItemTime(b)
           C == begun \cup {itemsWritten + 1}
<1>0. /\ blobs \in [Time -> Seq(Row)] /\ itemsWritten \in Nat
      /\ Places(all, begun) /\ KeptIn(all, itemsWritten, begun, blobs)
  BY DEF OutputTypeOK, StoreIn
<1>1. b # <<>> => Places(all, C) /\ KeptIn(all, itemsWritten, C, Created(n)) /\ NamedIn(all, itemsWritten, C, n)
  BY <1>0, CreateKeeps
<1>2. \A m : NamedIn(all, itemsWritten, begun, m) => NamedIn(all, itemsWritten, C, m)
  BY DEF NamedIn
<1> HIDE DEF C, n
<1>3. CASE FlushNothing(b, forget)
  BY <1>3 DEF FlushNothing, UseBlob, StoreIn
<1>4. CASE CreateFails(b, forget)
  <2>1. /\ b # <<>> /\ itemsWritten' = itemsWritten
        /\ UNCHANGED <<blobs, begun>> \/ (blobs' = Created(n) /\ begun' = C)
        /\ blobClient' \in {NoBlob, blobClient}
    BY <1>4 DEF CreateFails, Begin, UseBlob, C, n
  <2> QED BY <1>1, <1>2, <2>1 DEF StoreIn
<1>5. CASE FlushToCurrent(b, forget)
  <2>1. /\ blobClient \in Time /\ AppendBlock(blobs, blobClient, b) /\ blobClient # NoBlob
        /\ begun' = begun /\ blobClient' \in {NoBlob, blobClient}
    BY <1>5 DEF FlushToCurrent, Rotates, UseBlob, OutputTypeOK
  <2>2. NamedIn(all, itemsWritten, begun, blobClient)
    BY <2>1 DEF StoreIn
  <2>3. KeptIn(all, itemsWritten', begun, blobs') /\ NamedIn(all, itemsWritten', begun, blobClient)
    BY <1>0, <2>1, <2>2, AppendBlockKeeps
  <2> QED BY <1>0, <2>1, <2>3 DEF StoreIn
<1>6. CASE FlushToNew(b, forget)
  <2>1. b # <<>> /\ AppendBlock(Created(n), n, b) /\ begun' = C /\ blobClient' \in {NoBlob, n}
    BY <1>6 DEF FlushToNew, Begin, UseBlob, C, n
  <2>2. n \in Time /\ Created(n) \in [Time -> Seq(Row)]
    BY <1>0, <2>1, FirstItemTimeIsTime, CreatedType DEF n
  <2>3. KeptIn(all, itemsWritten', C, blobs') /\ NamedIn(all, itemsWritten', C, n)
    BY <1>0, <1>1, <2>1, <2>2, AppendBlockKeeps
  <2> QED BY <1>1, <2>1, <2>3 DEF StoreIn
<1> QED BY <1>3, <1>4, <1>5, <1>6 DEF flush

StoreInv == StoreIn(added, itemsWritten, begun, blobs, blobClient)

\* A row handed to the writer disturbs nothing that is stored.
LEMMA AppendKeepsStore ==
  ASSUME StoreInv, OutputTypeOK, NEW row \in Row, added \in Seq(Row), itemsWritten <= Len(added)
  PROVE  StoreIn(Append(added, row), itemsWritten, begun, blobs, blobClient)
<1> DEFINE all == Append(added, row)
           l == Len(added)
<1>1. l \in Nat /\ DOMAIN added = 1..l /\ DOMAIN all = 1..(l + 1) /\ itemsWritten \in Nat /\ itemsWritten <= l
  BY AppendProperties, LenProperties DEF OutputTypeOK
<1>2. \A i \in 1..l : all[i] = added[i]
  BY AppendProperties
<1> HIDE DEF all, l
<1>3. Places(all, begun) /\ begun \subseteq 1..l
  BY <1>1 DEF StoreInv, StoreIn, Places
<1>4. KeptIn(all, itemsWritten, begun, blobs)
  <2> SUFFICES ASSUME NEW i \in 1..itemsWritten
               PROVE  ReplacedIn(all, begun, i) \/ InBlobOf(all, begun, blobs, i)
    BY DEF KeptIn
  <2>1. i \in 1..l
    BY <1>1
  <2>2. ReplacedIn(added, begun, i) \/ InBlobOf(added, begun, blobs, i)
    BY DEF StoreInv, StoreIn, KeptIn
  <2> QED BY <1>2, <1>3, <2>1, <2>2 DEF ReplacedIn, InBlobOf
<1>5. blobClient # NoBlob => NamedIn(all, itemsWritten, begun, blobClient)
  BY <1>2, <1>3 DEF StoreInv, StoreIn, NamedIn
<1> QED BY <1>3, <1>4, <1>5 DEF StoreIn, all

\* One step of the writer keeps what is stored, but for blobs that it replaces.
LEMMA StepStored ==
  ASSUME BlobTypeOK, BufferIsUnwritten, StoreInv, Next
  PROVE  StoreInv'
<1>0. /\ OutputTypeOK /\ buffer \in Seq(Row) /\ added \in Seq(Row)
      /\ Unwritten(buffer, added, itemsWritten)
  BY DEF BlobTypeOK, OutputTypeOK, BufferIsUnwritten, Unwritten, Stats
<1>1. ASSUME NEW at \in 0..now, Add([id |-> Len(added) + 1, at |-> at]), Len(added) < MaxItems
      PROVE  StoreInv'
  <2> DEFINE row == [id |-> Len(added) + 1, at |-> at]
             b == Append(buffer, row)
             all == Append(added, row)
  <2>1. row \in Row
    <3>1. Len(added) + 1 \in 1..MaxItems
      BY <1>1, BlobWriterAssumption, LenProperties DEF BlobTypeOK
    <3>2. at \in Time
      BY <1>1, BlobWriterAssumption DEF BlobTypeOK, Time
    <3> QED BY <3>1, <3>2 DEF Row
  <2>2. itemsWritten \in Nat /\ itemsWritten <= Len(added)
    BY <1>0, LenProperties DEF BlobTypeOK, Unwritten
  <2>3. /\ b \in Seq(Row) /\ all \in Seq(Row) /\ added' = all
        /\ flush(b, FALSE) \/ UNCHANGED <<itemsWritten, blobs, begun, blobClient>>
    BY <1>0, <1>1, <2>1, AppendProperties DEF Add
  <2>4. Unwritten(b, all, itemsWritten)
    BY <1>0, <2>1, <2>2, AppendKeepsUnwritten
  <2> HIDE DEF row
  <2>5. StoreIn(all, itemsWritten, begun, blobs, blobClient)
    BY <1>0, <2>1, <2>2, AppendKeepsStore
  <2> HIDE DEF b, all
  <2>6. StoreIn(all, itemsWritten', begun', blobs', blobClient')
    BY <1>0, <2>3, <2>4, <2>5, FlushKeeps
  <2> QED BY <2>3, <2>6 DEF StoreInv
<1>2. CASE Tick \/ Finish \/ RotateLive
  <2>1. added' = added /\ \E forget \in BOOLEAN : flush(buffer, forget)
    BY <1>2 DEF Tick, Finish, RotateLive, Rotate
  <2>2. StoreIn(added, itemsWritten', begun', blobs', blobClient')
    BY <1>0, <2>1, FlushKeeps DEF StoreInv
  <2> QED BY <2>1, <2>2 DEF StoreInv
<1>3. CASE Cancel \/ Elapse
  BY <1>3 DEF Cancel, Elapse, outputVars, StoreInv
<1> QED BY <1>1, <1>2, <1>3 DEF Next, AddSome

\* Through every failing create and append, every lost answer, every rotation and
\* expiry, with any stamps, a counted row stays in a blob unless a later batch begins
\* with a row of the stamp that named this blob, and its Create replaces it.
THEOREM RowsLostOnlyByReplacement == Spec => []LostOnlyByReplacement
<1>1. Init => StoreInv
  BY DEF Init, StoreInv, StoreIn, Places, KeptIn
<1>2. BlobTypeOK /\ BufferIsUnwritten /\ StoreInv /\ [Next]_vars => StoreInv'
  <2>1. StoreInv /\ UNCHANGED vars => StoreInv'
    BY DEF StoreInv, vars, outputVars
  <2> QED BY <2>1, StepStored
<1>3. BlobTypeOK /\ StoreInv => LostOnlyByReplacement
  <2> SUFFICES ASSUME BlobTypeOK, StoreInv, NEW i \in 1..itemsWritten, ~Replaced(i)
               PROVE  \E n \in Time : added[i] \in Range(blobs[n])
    BY DEF LostOnlyByReplacement
  <2>1. PICK h \in begun : added[i] \in Range(blobs[added[h].at])
    BY DEF StoreInv, StoreIn, KeptIn, ReplacedIn, InBlobOf, Replaced
  <2>2. added[h] \in Row
    BY ElementOfSeq, LenProperties DEF StoreInv, StoreIn, Places, BlobTypeOK
  <2> QED BY <2>1, <2>2 DEF Row
<1> QED BY <1>1, <1>2, <1>3, BlobTypeCorrect, BlobBufferUnwritten, PTL DEF Spec

=============================================================================
