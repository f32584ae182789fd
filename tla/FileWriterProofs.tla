-------------------------- MODULE FileWriterProofs --------------------------
(***************************************************************************)
(* What FileWriter keeps for every batch size, latency, number of faults   *)
(* and set of items.  The lemmas about one step are stated for each        *)
(* handler by itself, so that a composition of the writer can cite them.   *)
(***************************************************************************)
EXTENDS FileWriter, SequenceTheorems, FiniteSetTheorems, TLAPS

\* Any step of the writer, whoever asks for it.
WriterStep ==
  (\E item \in Item : Add(item)) \/ Tick \/ Finish \/ Rotate \/ Cancel \/ Elapse

-----------------------------------------------------------------------------
(* What a write leaves in a file.                                          *)

\* A whole write leaves lines.
LEMMA AppendedLines ==
  ASSUME NEW c \in Seq(Line), NEW rows \in Seq(Item)
  PROVE  Appended(c, rows) \in Seq(Line)
<1>1. rows \in Seq(Line)
  BY SeqMonotonic DEF Line
<1>2. CASE rows # <<>> /\ IsTorn(c)
  <2>1. Front(c) \in Seq(Line)
    BY <1>2, SubSeqProperties, LenProperties DEF Front, IsTorn
  <2>2. <<Garbled>> \in Seq(Line)
    BY DEF Line
  <2>3. Tail(rows) \in Seq(Line)
    BY <1>1, <1>2, HeadTailProperties
  <2> QED BY <1>2, <2>1, <2>2, <2>3, ConcatProperties DEF Appended
<1>3. CASE ~(rows # <<>> /\ IsTorn(c))
  BY <1>1, <1>3, ConcatProperties DEF Appended
<1> QED BY <1>2, <1>3

\* So does a failed one.
LEMMA FailedWritesLines ==
  ASSUME NEW c \in Seq(Line), NEW rows \in Seq(Item), NEW d \in FailedWrites(c, rows)
  PROVE  d \in Seq(Line)
<1>1. \A k \in 0..(Len(rows) - 1) : Appended(c, SubSeq(rows, 1, k)) \in Seq(Line)
  <2> TAKE k \in 0..(Len(rows) - 1)
  <2>1. SubSeq(rows, 1, k) \in Seq(Item)
    BY SubSeqProperties, LenProperties, ElementOfSeq
  <2> QED BY <2>1, AppendedLines
<1>2. Fragment \in Line
  BY DEF Line
<1> DEFINE whole == {Appended(c, SubSeq(rows, 1, k)) : k \in 0..(Len(rows) - 1)}
<1>3. d \in whole \/ \E w \in whole : d = Append(w, Fragment)
  BY DEF FailedWrites
<1>4. \A w \in whole : w \in Seq(Line)
  BY <1>1
<1> HIDE DEF whole
<1> QED BY <1>2, <1>3, <1>4, AppendProperties

-----------------------------------------------------------------------------
(* Types.                                                                  *)

OutputTypeOK ==
  /\ buffer \in Seq(Item)
  /\ file \in Time \cup {NoFile}
  /\ fileStart \in Time \cup {Never}
  /\ itemsWritten \in Nat
  /\ disk \in [Time -> Seq(Line)]
  /\ faults \in Nat

\* The name of a file is the stamp of a row.
LEMMA FirstItemTimeIsTime ==
  ASSUME NEW b \in Seq(Item), b # <<>>
  PROVE  firstItemTime(b) \in Time
<1>1. 1 \in 1..Len(b)
  BY EmptySeq
<1>2. b[1] \in Item
  BY <1>1, ElementOfSeq
<1> QED BY <1>2 DEF firstItemTime, Item

\* Writing rows to a file, whether it fails or not.
LEMMA WriteRowsType ==
  ASSUME OutputTypeOK, NEW f \in Time, NEW b \in Seq(Item), WriteRows(f, b)
  PROVE  /\ buffer' \in Seq(Item) /\ itemsWritten' \in Nat
         /\ disk' \in [Time -> Seq(Line)] /\ faults' \in Nat
<1>1. disk[f] \in Seq(Line)
  BY DEF OutputTypeOK
<1>2. CASE /\ disk' = [disk EXCEPT ![f] = Appended(@, b)]
           /\ buffer' = <<>> /\ itemsWritten' = itemsWritten + Len(b) /\ UNCHANGED faults
  <2>1. Appended(disk[f], b) \in Seq(Line)
    BY <1>1, AppendedLines
  <2>2. Len(b) \in Nat /\ <<>> \in Seq(Item)
    BY LenProperties
  <2> QED BY <1>2, <2>1, <2>2 DEF OutputTypeOK
<1>3. CASE /\ Fail /\ \E c \in FailedWrites(disk[f], b) : disk' = [disk EXCEPT ![f] = c]
           /\ buffer' = b /\ UNCHANGED itemsWritten
  <2>1. PICK c \in FailedWrites(disk[f], b) : disk' = [disk EXCEPT ![f] = c]
    BY <1>3
  <2>2. c \in Seq(Line)
    BY <1>1, <2>1, FailedWritesLines
  <2> QED BY <1>3, <2>1, <2>2 DEF OutputTypeOK, Fail
<1> QED BY <1>2, <1>3 DEF WriteRows

\* flush keeps the types of what it changes.
LEMMA FlushType ==
  ASSUME OutputTypeOK, NEW b \in Seq(Item), NEW keepOpen \in BOOLEAN, flush(b, keepOpen)
  PROVE  OutputTypeOK'
<1>1. CASE FlushNothing(b, keepOpen)
  BY <1>1 DEF FlushNothing, KeptOpen, OutputTypeOK
<1>2. CASE FlushCannotOpen(b)
  <2>1. firstItemTime(b) \in Time
    BY <1>2, FirstItemTimeIsTime DEF FlushCannotOpen
  <2> QED BY <1>2, <2>1 DEF FlushCannotOpen, Fail, OutputTypeOK
<1>3. CASE FlushRows(b, keepOpen)
  <2> DEFINE f == IF Expired THEN firstItemTime(b) ELSE file
  <2>1. firstItemTime(b) \in Time
    BY <1>3, FirstItemTimeIsTime DEF FlushRows
  <2>2. f \in Time
    BY <2>1 DEF Expired, OutputTypeOK
  <2>3. WriteRows(f, b) /\ file' = KeptOpen(f, keepOpen)
    BY <1>3 DEF FlushRows
  <2>4. fileStart' \in Time \cup {Never}
    BY <1>3, <2>1 DEF FlushRows, OutputTypeOK
  <2> HIDE DEF f
  <2>5. file' \in Time \cup {NoFile}
    BY <2>2, <2>3 DEF KeptOpen
  <2> QED BY <2>2, <2>3, <2>4, <2>5, WriteRowsType DEF OutputTypeOK
<1> QED BY <1>1, <1>2, <1>3 DEF flush

\* Rotate keeps them too.
LEMMA RotateType ==
  ASSUME OutputTypeOK, Rotate
  PROVE  OutputTypeOK'
<1>1. CASE RotateCannotOpen
  BY <1>1 DEF RotateCannotOpen, Fail, OutputTypeOK
<1>2. CASE RotateRows
  <2> DEFINE f == IF file = NoFile THEN firstItemTime(buffer) ELSE file
  <2>1. f \in Time
    BY <1>2, FirstItemTimeIsTime DEF RotateRows, OutputTypeOK
  <2>2. WriteRows(f, buffer)
    BY <1>2 DEF RotateRows
  <2>3. file' \in {NoFile, f} /\ fileStart' \in {Never, fileStart}
    BY <1>2 DEF RotateRows, RotateClose
  <2> HIDE DEF f
  <2> QED BY <2>1, <2>2, <2>3, WriteRowsType DEF OutputTypeOK
<1>3. CASE RotateEmpty
  BY <1>3 DEF RotateEmpty, RotateClose, OutputTypeOK
<1> QED BY <1>1, <1>2, <1>3 DEF Rotate

\* Every step of the writer keeps its types.
LEMMA WriterStepType ==
  ASSUME WriterTypeOK, WriterStep
  PROVE  WriterTypeOK'
<1>0. OutputTypeOK
  BY DEF WriterTypeOK, OutputTypeOK
<1>1. ASSUME NEW item \in Item, Add(item)
      PROVE  WriterTypeOK'
  <2> DEFINE b == Append(buffer, item)
  <2>1. b \in Seq(Item) /\ added' \in Seq(Item)
    BY <1>1, AppendProperties DEF WriterTypeOK, Add
  <2>2. \/ flush(b, TRUE)
        \/ buffer' = b /\ UNCHANGED <<file, fileStart, itemsWritten, disk, faults>>
    BY <1>1 DEF Add
  <2>3. UNCHANGED <<loop, cancelled, now>>
    BY <1>1 DEF Add
  <2> HIDE DEF b
  <2>4. OutputTypeOK'
    BY <1>0, <2>1, <2>2, FlushType DEF OutputTypeOK
  <2> QED BY <2>1, <2>3, <2>4 DEF WriterTypeOK, OutputTypeOK
<1>2. CASE Tick
  <2>1. OutputTypeOK'
    BY <1>0, <1>2, FlushType DEF Tick, OutputTypeOK
  <2> QED BY <1>2, <2>1 DEF Tick, WriterTypeOK, OutputTypeOK
<1>3. CASE Finish
  <2>1. OutputTypeOK'
    BY <1>0, <1>3, FlushType DEF Finish, OutputTypeOK
  <2> QED BY <1>3, <2>1 DEF Finish, WriterTypeOK, OutputTypeOK
<1>4. CASE Rotate
  <2>1. OutputTypeOK'
    BY <1>0, <1>4, RotateType
  <2> QED BY <1>4, <2>1 DEF Rotate, WriterTypeOK, OutputTypeOK
<1>5. CASE Cancel
  BY <1>5 DEF Cancel, outputVars, WriterTypeOK
<1>6. CASE Elapse
  BY <1>6, WriterAssumption DEF Elapse, outputVars, WriterTypeOK, Time
<1> QED BY <1>1, <1>2, <1>3, <1>4, <1>5, <1>6 DEF WriterStep

\* The writer starts in its types.
LEMMA WriterInitType == WriterInit => WriterTypeOK
BY WriterAssumption DEF WriterInit, WriterTypeOK, Time

\* Every step the writer alone takes is one of its handlers.
LEMMA WriterNextIsStep == WriterNext => WriterStep
BY DEF WriterNext, AddSome, RotateLive, WriterStep

\* Type correctness of the writer (FileWriter's fields, with the counters
\* never negative and every file a sequence of lines).
THEOREM WriterTypeCorrect == WriterSpec => []WriterTypeOK
<1>1. WriterInit => WriterTypeOK
  BY WriterInitType
<1>2. WriterTypeOK /\ [WriterNext]_writerVars => WriterTypeOK'
  <2>1. WriterTypeOK /\ WriterNext => WriterTypeOK'
    BY WriterStepType, WriterNextIsStep
  <2>2. WriterTypeOK /\ UNCHANGED writerVars => WriterTypeOK'
    BY DEF WriterTypeOK, writerVars, outputVars
  <2> QED BY <2>1, <2>2
<1> QED BY <1>1, <1>2, PTL DEF WriterSpec

-----------------------------------------------------------------------------
(* No item is lost, repeated or reordered on its way to the counter.       *)

\* The rows b are the part of all that follows its first n.
Unwritten(b, all, n) ==
  Len(all) = n + Len(b) /\ \A i \in 1..Len(b) : b[i] = all[n + i]

\* A write or flush of b either leaves b in the buffer or counts all of it.
KeptOrCounted(b) ==
  \/ buffer' = b /\ itemsWritten' = itemsWritten
  \/ buffer' = <<>> /\ itemsWritten' = itemsWritten + Len(b)

\* A flush does.
LEMMA FlushKeepsOrCounts ==
  ASSUME NEW b, NEW keepOpen, flush(b, keepOpen)
  PROVE  KeptOrCounted(b)
BY DEF flush, FlushNothing, FlushCannotOpen, FlushRows, WriteRows, KeptOrCounted

\* So does a rotation, for the buffer.
LEMMA RotateKeepsOrCounts == Rotate => KeptOrCounted(buffer)
BY DEF Rotate, RotateCannotOpen, RotateRows, RotateEmpty, WriteRows, KeptOrCounted

\* Keeping b in the buffer, or counting it, leaves the rest of all unwritten.
LEMMA CountingKeepsUnwritten ==
  ASSUME NEW all \in Seq(Item), NEW b \in Seq(Item), itemsWritten \in Nat,
         Unwritten(b, all, itemsWritten), KeptOrCounted(b)
  PROVE  Unwritten(buffer', all, itemsWritten')
<1>1. Len(b) \in Nat /\ Len(<<>>) = 0
  BY LenProperties
<1> QED BY <1>1 DEF Unwritten, KeptOrCounted

\* An item put behind both stays unwritten.
LEMMA AppendKeepsUnwritten ==
  ASSUME NEW all \in Seq(Item), NEW b \in Seq(Item), NEW n \in Nat, NEW item \in Item,
         Unwritten(b, all, n)
  PROVE  Unwritten(Append(b, item), Append(all, item), n)
<1>1. Len(b) \in Nat /\ Len(all) \in Nat
  BY LenProperties
<1>2. Len(Append(b, item)) = Len(b) + 1 /\ Len(Append(all, item)) = Len(all) + 1
  BY AppendProperties
<1>3. ASSUME NEW i \in 1..Len(Append(b, item))
      PROVE  Append(b, item)[i] = Append(all, item)[n + i]
  <2>1. CASE i \in 1..Len(b)
    BY <1>1, <1>2, <2>1, AppendProperties DEF Unwritten
  <2>2. CASE i = Len(b) + 1
    BY <1>1, <1>2, <2>2, AppendProperties DEF Unwritten
  <2>3. i \in 1..Len(b) \/ i = Len(b) + 1
    <3> DEFINE m == Len(b)
    <3>1. m \in Nat /\ i \in 1..(m + 1)
      BY <1>1, <1>2
    <3> HIDE DEF m
    <3>2. i \in 1..m \/ i = m + 1
      BY <3>1
    <3> QED BY <3>2 DEF m
  <2> QED BY <2>1, <2>2, <2>3
<1> QED BY <1>1, <1>2, <1>3 DEF Unwritten

\* One step of the writer keeps BufferIsUnwritten.
LEMMA WriterStepUnwritten ==
  ASSUME WriterTypeOK, BufferIsUnwritten, WriterStep
  PROVE  BufferIsUnwritten'
<1> USE DEF WriterTypeOK
<1>0. Unwritten(buffer, added, itemsWritten)
  BY DEF BufferIsUnwritten, Unwritten
<1>1. Unwritten(buffer', added', itemsWritten')
  <2>1. ASSUME NEW item \in Item, Add(item)
        PROVE  Unwritten(buffer', added', itemsWritten')
    <3> DEFINE b == Append(buffer, item)
    <3>1. b \in Seq(Item) /\ Append(added, item) \in Seq(Item)
      BY AppendProperties
    <3>2. Unwritten(b, Append(added, item), itemsWritten)
      BY <1>0, AppendKeepsUnwritten
    <3>3. added' = Append(added, item)
      BY <2>1 DEF Add
    <3>4. flush(b, TRUE) \/ (buffer' = b /\ itemsWritten' = itemsWritten)
      BY <2>1 DEF Add
    <3> HIDE DEF b
    <3>5. KeptOrCounted(b)
      BY <3>4, FlushKeepsOrCounts DEF KeptOrCounted
    <3> QED BY <3>1, <3>2, <3>3, <3>5, CountingKeepsUnwritten
  <2>2. CASE Tick \/ Finish \/ Rotate
    <3>1. KeptOrCounted(buffer)
      BY <2>2, FlushKeepsOrCounts, RotateKeepsOrCounts DEF Tick, Finish
    <3>2. added' = added
      BY <2>2 DEF Tick, Finish, Rotate
    <3> QED BY <1>0, <3>1, <3>2, CountingKeepsUnwritten
  <2>3. CASE Cancel \/ Elapse
    BY <1>0, <2>3 DEF Cancel, Elapse, outputVars
  <2> QED BY <2>1, <2>2, <2>3 DEF WriterStep
<1> QED BY <1>1 DEF BufferIsUnwritten, Unwritten

\* Through every failure of open and write, every rotation and the final
\* flush, the buffer is exactly the items added and not yet counted.
THEOREM BufferAlwaysUnwritten == WriterSpec => []BufferIsUnwritten
<1>1. WriterInit => BufferIsUnwritten
  BY DEF WriterInit, BufferIsUnwritten
<1>2. WriterTypeOK /\ BufferIsUnwritten /\ [WriterNext]_writerVars => BufferIsUnwritten'
  <2>1. WriterTypeOK /\ BufferIsUnwritten /\ WriterNext => BufferIsUnwritten'
    BY WriterStepUnwritten, WriterNextIsStep
  <2>2. BufferIsUnwritten /\ UNCHANGED writerVars => BufferIsUnwritten'
    BY DEF BufferIsUnwritten, writerVars, outputVars
  <2> QED BY <2>1, <2>2
<1> QED BY <1>1, <1>2, WriterTypeCorrect, PTL DEF WriterSpec

-----------------------------------------------------------------------------
(* Where writes stop at row boundaries, what is counted is on disk.        *)

\* OnDisk with the files as a parameter, to speak of the files after a step.
HeldIn(d, item) == \E f \in Time : item \in Range(d[f])

WholeRows == disk \in [Time -> Seq(Item)]

\* The files keep what they had and gain nothing but rows of b, all of them
\* when they are counted.
DiskGains(b) ==
  /\ WholeRows'
  /\ \A item \in Item : HeldIn(disk, item) => HeldIn(disk', item)
  /\ \A item \in Item : HeldIn(disk', item) => HeldIn(disk, item) \/ item \in Range(b)
  /\ buffer' # b => \A i \in 1..Len(b) : HeldIn(disk', b[i])

\* On files of whole rows Appended is concatenation.
LEMMA AppendedWhole ==
  ASSUME NEW c \in Seq(Item), NEW rows \in Seq(Item)
  PROVE  Appended(c, rows) = c \o rows
<1>1. ~IsTorn(c)
  <2> SUFFICES ASSUME c # <<>>, Last(c) = Fragment
               PROVE  FALSE
    BY DEF IsTorn
  <2>1. Len(c) \in 1..Len(c)
    BY EmptySeq
  <2>2. c[Len(c)] \in Item
    BY <2>1, ElementOfSeq
  <2> QED BY <2>2, MarksAssumption DEF Last
<1> QED BY <1>1 DEF Appended

\* The rows of a concatenation.
LEMMA RangeOfConcat ==
  ASSUME NEW c \in Seq(Item), NEW r \in Seq(Item)
  PROVE  Range(c \o r) = Range(c) \cup Range(r)
BY RangeConcatenation

\* Writing r at the end of one file of whole rows.
LEMMA ConcatGains ==
  ASSUME WholeRows, NEW f \in Time, NEW r \in Seq(Item),
         disk' = [disk EXCEPT ![f] = @ \o r]
  PROVE  /\ WholeRows'
         /\ \A item \in Item : HeldIn(disk', item) <=> HeldIn(disk, item) \/ item \in Range(r)
<1>1. disk[f] \in Seq(Item)
  BY DEF WholeRows
<1>2. disk[f] \o r \in Seq(Item)
  BY <1>1, ConcatProperties
<1>3. WholeRows'
  BY <1>2 DEF WholeRows
<1>4. Range(disk'[f]) = Range(disk[f]) \cup Range(r)
  BY <1>1, RangeOfConcat DEF WholeRows
<1>5. \A g \in Time : g # f => disk'[g] = disk[g]
  BY DEF WholeRows
<1>6. ASSUME NEW item \in Item
      PROVE  HeldIn(disk', item) <=> HeldIn(disk, item) \/ item \in Range(r)
  BY <1>4, <1>5 DEF OnDisk, HeldIn
<1> QED BY <1>3, <1>6

\* A prefix of some rows holds only those rows.
LEMMA RangeOfPrefix ==
  ASSUME NEW b \in Seq(Item), NEW k \in 0..(Len(b) - 1)
  PROVE  SubSeq(b, 1, k) \in Seq(Item) /\ Range(SubSeq(b, 1, k)) \subseteq Range(b)
<1>1. Len(b) \in Nat /\ k <= Len(b)
  BY LenProperties
<1>2. \A i \in 1..k : b[i] \in Item
  BY <1>1, ElementOfSeq
<1>3. /\ SubSeq(b, 1, k) \in Seq(Item)
      /\ Len(SubSeq(b, 1, k)) = k
      /\ \A i \in 1..k : SubSeq(b, 1, k)[i] = b[i]
  BY <1>1, <1>2, SubSeqProperties
<1>4. DOMAIN SubSeq(b, 1, k) = 1..k /\ DOMAIN b = 1..Len(b)
  BY <1>3, LenProperties
<1> QED BY <1>1, <1>3, <1>4 DEF Range

\* What WriteRows does to the files.
LEMMA WriteRowsGains ==
  ASSUME ~TornWrites, WholeRows, NEW f \in Time, NEW b \in Seq(Item), WriteRows(f, b)
  PROVE  DiskGains(b)
<1>0. disk[f] \in Seq(Item)
  BY DEF WholeRows
<1>1. CASE /\ disk' = [disk EXCEPT ![f] = Appended(@, b)]
           /\ buffer' = <<>> /\ itemsWritten' = itemsWritten + Len(b) /\ UNCHANGED faults
  <2>1. disk' = [disk EXCEPT ![f] = @ \o b]
    BY <1>0, <1>1, AppendedWhole
  <2>2. \A item \in Item : HeldIn(disk', item) <=> HeldIn(disk, item) \/ item \in Range(b)
    BY <2>1, ConcatGains
  <2>3. \A i \in 1..Len(b) : b[i] \in Item /\ b[i] \in Range(b)
    BY ElementOfSeq, LenProperties DEF Range
  <2> QED BY <2>1, <2>2, <2>3, ConcatGains DEF DiskGains
<1>2. CASE /\ Fail /\ \E c \in FailedWrites(disk[f], b) : disk' = [disk EXCEPT ![f] = c]
           /\ buffer' = b /\ UNCHANGED itemsWritten
  <2>1. PICK c \in FailedWrites(disk[f], b) : disk' = [disk EXCEPT ![f] = c]
    BY <1>2
  <2>2. PICK k \in 0..(Len(b) - 1) : c = Appended(disk[f], SubSeq(b, 1, k))
    BY <2>1 DEF FailedWrites
  <2> DEFINE r == SubSeq(b, 1, k)
  <2>3. r \in Seq(Item) /\ Range(r) \subseteq Range(b)
    BY RangeOfPrefix
  <2>4. c = disk[f] \o r
    BY <1>0, <2>2, <2>3, AppendedWhole
  <2>5. disk' = [disk EXCEPT ![f] = @ \o r]
    BY <2>1, <2>4
  <2> HIDE DEF r
  <2> QED BY <1>2, <2>3, <2>5, ConcatGains DEF DiskGains
<1> QED BY <1>1, <1>2 DEF WriteRows

\* Nothing happens to the files and the buffer is kept.
LEMMA NothingGained ==
  ASSUME WholeRows, NEW b, buffer' = b, disk' = disk
  PROVE  DiskGains(b)
BY DEF DiskGains, WholeRows, OnDisk, HeldIn

\* What a flush of b does to the files.
LEMMA FlushGains ==
  ASSUME ~TornWrites, OutputTypeOK, WholeRows, NEW b \in Seq(Item), NEW keepOpen,
         flush(b, keepOpen)
  PROVE  DiskGains(b)
<1>1. CASE FlushNothing(b, keepOpen) \/ FlushCannotOpen(b)
  BY <1>1, NothingGained DEF FlushNothing, FlushCannotOpen
<1>2. CASE FlushRows(b, keepOpen)
  <2> DEFINE f == IF Expired THEN firstItemTime(b) ELSE file
  <2>1. f \in Time
    BY <1>2, FirstItemTimeIsTime DEF FlushRows, Expired, OutputTypeOK
  <2>2. WriteRows(f, b)
    BY <1>2 DEF FlushRows
  <2> HIDE DEF f
  <2> QED BY <2>1, <2>2, WriteRowsGains
<1> QED BY <1>1, <1>2 DEF flush

\* What a rotation does to them.
LEMMA RotateGains ==
  ASSUME ~TornWrites, OutputTypeOK, WholeRows, Rotate
  PROVE  DiskGains(buffer)
<1>1. CASE RotateCannotOpen \/ RotateEmpty
  BY <1>1, NothingGained DEF RotateCannotOpen, RotateEmpty
<1>2. CASE RotateRows
  <2> DEFINE f == IF file = NoFile THEN firstItemTime(buffer) ELSE file
  <2>1. f \in Time
    BY <1>2, FirstItemTimeIsTime DEF RotateRows, OutputTypeOK
  <2>2. WriteRows(f, buffer)
    BY <1>2 DEF RotateRows
  <2> HIDE DEF f
  <2> QED BY <2>1, <2>2, WriteRowsGains DEF OutputTypeOK
<1> QED BY <1>1, <1>2 DEF Rotate

\* Nothing is in a file that was not added.
DiskIsAdded == \A item \in Item : HeldIn(disk, item) => item \in Range(added)

DiskInv == WholeRows /\ WrittenRowsOnDisk /\ DiskIsAdded

\* The step from the files to the invariant: all is the items added by the
\* end of the step, b those among them not counted before it.
LEMMA GainsKeepDiskInv ==
  ASSUME DiskInv, itemsWritten \in Nat, added \in Seq(Item), NEW b \in Seq(Item),
         added' \in Seq(Item), Unwritten(b, added', itemsWritten),
         \A i \in 1..itemsWritten : i \in 1..Len(added) /\ added'[i] = added[i],
         Range(added) \subseteq Range(added'),
         KeptOrCounted(b), DiskGains(b)
  PROVE  DiskInv'
<1>1. Len(b) \in Nat
  BY LenProperties
<1>2. ASSUME NEW i \in 1..itemsWritten'
      PROVE  HeldIn(disk', added'[i])
  <2>1. CASE i \in 1..itemsWritten
    <3>1. HeldIn(disk, added[i]) /\ added[i] \in Item
      BY <2>1, ElementOfSeq DEF DiskInv, WrittenRowsOnDisk, OnDisk, HeldIn
    <3> QED BY <2>1, <3>1 DEF DiskGains
  <2>2. CASE i \notin 1..itemsWritten
    <3>1. itemsWritten' = itemsWritten + Len(b) /\ buffer' = <<>>
      BY <1>2, <2>2 DEF KeptOrCounted
    <3>2. i - itemsWritten \in 1..Len(b)
      BY <1>1, <1>2, <2>2, <3>1
    <3>3. b[i - itemsWritten] = added'[i]
      BY <3>2 DEF Unwritten
    <3>4. b # <<>>
      BY <3>2
    <3>5. HeldIn(disk', b[i - itemsWritten])
      BY <3>1, <3>2, <3>4 DEF DiskGains
    <3> QED BY <3>3, <3>5
  <2> QED BY <2>1, <2>2
<1>3. Range(b) \subseteq Range(added')
  <2> SUFFICES ASSUME NEW i \in 1..Len(b)
               PROVE  b[i] \in Range(added')
    BY LenProperties DEF Range
  <2>1. b[i] = added'[itemsWritten + i] /\ itemsWritten + i \in 1..Len(added')
    BY <1>1 DEF Unwritten
  <2> QED BY <2>1, LenProperties DEF Range
<1>4. DiskIsAdded'
  BY <1>3 DEF DiskInv, DiskIsAdded, DiskGains
<1> QED BY <1>2, <1>4 DEF DiskInv, DiskGains, WrittenRowsOnDisk, OnDisk, HeldIn

\* One step of the writer keeps DiskInv.
LEMMA WriterStepDisk ==
  ASSUME ~TornWrites, WriterTypeOK, BufferIsUnwritten, DiskInv, WriterStep
  PROVE  DiskInv'
<1> USE DEF WriterTypeOK
<1>0. /\ OutputTypeOK
      /\ Unwritten(buffer, added, itemsWritten)
      /\ Len(buffer) \in Nat
      /\ \A i \in 1..itemsWritten : i \in 1..Len(added)
  BY LenProperties DEF OutputTypeOK, BufferIsUnwritten, Unwritten
<1>1. ASSUME NEW item \in Item, Add(item)
      PROVE  DiskInv'
  <2> DEFINE b == Append(buffer, item)
  <2>1. added' = Append(added, item)
    BY <1>1 DEF Add
  <2>2. b \in Seq(Item) /\ added' \in Seq(Item)
    BY <2>1, AppendProperties
  <2>3. Unwritten(b, added', itemsWritten)
    BY <1>0, <2>1, AppendKeepsUnwritten
  <2>4. \A i \in 1..Len(added) : added'[i] = added[i]
    BY <2>1, AppendProperties
  <2>5. Range(added) \subseteq Range(added')
    <3>1. DOMAIN added = 1..Len(added) /\ DOMAIN added' = 1..(Len(added) + 1)
      BY <2>1, <2>2, AppendProperties, LenProperties
    <3> QED BY <2>4, <3>1, LenProperties DEF Range
  <2>6. flush(b, TRUE) \/ (buffer' = b /\ itemsWritten' = itemsWritten /\ disk' = disk)
    BY <1>1 DEF Add
  <2> HIDE DEF b
  <2>7. KeptOrCounted(b)
    BY <2>6, FlushKeepsOrCounts DEF KeptOrCounted
  <2>8. DiskGains(b)
    BY <1>0, <2>2, <2>6, FlushGains, NothingGained DEF DiskInv
  <2> QED BY <1>0, <2>2, <2>3, <2>4, <2>5, <2>7, <2>8, GainsKeepDiskInv
<1>2. CASE Tick \/ Finish \/ Rotate
  <2>1. KeptOrCounted(buffer)
    BY <1>2, FlushKeepsOrCounts, RotateKeepsOrCounts DEF Tick, Finish
  <2>2. DiskGains(buffer)
    BY <1>0, <1>2, FlushGains, RotateGains DEF Tick, Finish, DiskInv
  <2>3. added' = added
    BY <1>2 DEF Tick, Finish, Rotate
  <2> QED BY <1>0, <2>1, <2>2, <2>3, GainsKeepDiskInv
<1>3. CASE Cancel \/ Elapse
  BY <1>3 DEF Cancel, Elapse, outputVars, DiskInv, WholeRows, WrittenRowsOnDisk,
              DiskIsAdded, OnDisk, HeldIn
<1> QED BY <1>1, <1>2, <1>3 DEF WriterStep

\* Rows in files stay there, and the counter never goes down.
LEMMA WriterStepGrows ==
  ASSUME ~TornWrites, WriterTypeOK, WholeRows, WriterStep
  PROVE  /\ \A item \in Item : HeldIn(disk, item) => HeldIn(disk', item)
         /\ itemsWritten <= itemsWritten'
<1> USE DEF WriterTypeOK
<1>0. OutputTypeOK
  BY DEF OutputTypeOK
<1>1. \A b \in Seq(Item) : KeptOrCounted(b) => itemsWritten <= itemsWritten'
  BY LenProperties DEF KeptOrCounted
<1>2. ASSUME NEW item \in Item, Add(item)
      PROVE  \E b \in Seq(Item) : DiskGains(b) /\ KeptOrCounted(b)
  <2> DEFINE b == Append(buffer, item)
  <2>1. b \in Seq(Item)
    BY AppendProperties
  <2>2. flush(b, TRUE) \/ (buffer' = b /\ itemsWritten' = itemsWritten /\ disk' = disk)
    BY <1>2 DEF Add
  <2> HIDE DEF b
  <2>3. KeptOrCounted(b) /\ DiskGains(b)
    BY <1>0, <2>1, <2>2, FlushKeepsOrCounts, FlushGains, NothingGained DEF KeptOrCounted
  <2> QED BY <2>1, <2>3
<1>3. CASE Tick \/ Finish \/ Rotate
  <2>1. KeptOrCounted(buffer) /\ DiskGains(buffer)
    BY <1>0, <1>3, FlushKeepsOrCounts, RotateKeepsOrCounts, FlushGains, RotateGains
       DEF Tick, Finish
  <2> QED BY <1>1, <2>1 DEF DiskGains
<1>4. CASE Cancel \/ Elapse
  BY <1>4 DEF Cancel, Elapse, outputVars
<1> QED BY <1>1, <1>2, <1>3, <1>4 DEF WriterStep, DiskGains

\* A new writer and its empty files.
LEMMA WriterInitDisk == WriterInit => BufferIsUnwritten /\ DiskInv
<1> SUFFICES ASSUME WriterInit
             PROVE  BufferIsUnwritten /\ DiskInv
  OBVIOUS
<1>1. <<>> \in Seq(Item) /\ Len(<<>>) = 0 /\ DOMAIN <<>> = {}
  OBVIOUS
<1>2. \A item \in Item : ~HeldIn(disk, item)
  BY <1>1 DEF WriterInit, OnDisk, HeldIn, Range
<1> QED BY <1>1, <1>2 DEF WriterInit, BufferIsUnwritten, DiskInv, WholeRows,
                          WrittenRowsOnDisk, DiskIsAdded, OnDisk, HeldIn

\* When a failing write stops at the end of a row, every row counted in
\* itemsWritten is whole in a file.
THEOREM WrittenAlwaysOnDisk ==
  ASSUME ~TornWrites
  PROVE  WriterSpec => []WrittenRowsOnDisk
<1>1. WriterInit => DiskInv
  BY WriterInitDisk
<1>2. WriterTypeOK /\ BufferIsUnwritten /\ DiskInv /\ [WriterNext]_writerVars => DiskInv'
  <2>1. WriterTypeOK /\ BufferIsUnwritten /\ DiskInv /\ WriterNext => DiskInv'
    BY WriterStepDisk, WriterNextIsStep
  <2>2. DiskInv /\ UNCHANGED writerVars => DiskInv'
    BY DEF DiskInv, WholeRows, WrittenRowsOnDisk, DiskIsAdded, OnDisk, HeldIn, writerVars, outputVars
  <2> QED BY <2>1, <2>2
<1>3. DiskInv => WrittenRowsOnDisk
  BY DEF DiskInv
<1> QED BY <1>1, <1>2, <1>3, WriterTypeCorrect, BufferAlwaysUnwritten, PTL DEF WriterSpec

-----------------------------------------------------------------------------
(* Where writes stop at row boundaries, retries do not reorder rows.       *)

HasRow(d, item) == \E p \in 1..Len(d) : d[p] = item
IdsDiffer(all)  == \A i, j \in 1..Len(all) : all[i].id = all[j].id => i = j

\* Of the rows that are not counted, a file holds the first few: a failed write
\* stops somewhere in the buffer, and the buffer stays.
FromFront(d, all, n) ==
  \A x, y \in 1..Len(all) : n < y /\ y <= x /\ HasRow(d, all[x]) => HasRow(d, all[y])

\* FirstCopiesInOrder of one file, with the places in added instead of Position.
InOrder(d, all) ==
  \A q \in 1..Len(d) :
    \/ \E p \in 1..(q - 1) : d[p] = d[q]
    \/ \A p \in 1..(q - 1) : \A x, y \in 1..Len(all) : d[p] = all[x] /\ d[q] = all[y] => x < y

Known(d, all) == \A p \in 1..Len(d) : HasRow(all, d[p])

FileOK(d, all, n) == Known(d, all) /\ FromFront(d, all, n) /\ InOrder(d, all)

OrderInv == WholeRows /\ IdsDiffer(added) /\ \A f \in Time : FileOK(disk[f], added, itemsWritten)

\* The first k rows of b are put behind a file.
LEMMA PrefixBehind ==
  ASSUME NEW d \in Seq(Item), NEW b \in Seq(Item), NEW k \in 0..Len(b)
  PROVE  /\ SubSeq(b, 1, k) \in Seq(Item) /\ d \o SubSeq(b, 1, k) \in Seq(Item)
         /\ Len(d \o SubSeq(b, 1, k)) = Len(d) + k
         /\ \A p \in 1..Len(d) : (d \o SubSeq(b, 1, k))[p] = d[p]
         /\ \A i \in 1..k : (d \o SubSeq(b, 1, k))[Len(d) + i] = b[i]
<1>1. Len(b) \in Nat /\ Len(d) \in Nat /\ k \in Nat /\ k <= Len(b)
  BY LenProperties
<1>2. \A i \in 1..k : b[i] \in Item
  BY <1>1, ElementOfSeq
<1> DEFINE r == SubSeq(b, 1, k)
<1>3. r \in Seq(Item) /\ Len(r) = k /\ \A i \in 1..k : r[i] = b[i]
  BY <1>1, <1>2, SubSeqProperties
<1> HIDE DEF r
<1>4. d \o r \in Seq(Item) /\ Len(d \o r) = Len(d) + k
  BY <1>3, ConcatProperties
<1>5. \A p \in 1..(Len(d) + k) : (d \o r)[p] = IF p <= Len(d) THEN d[p] ELSE r[p - Len(d)]
  BY <1>3, ConcatProperties
<1>6. \A p \in 1..Len(d) : (d \o r)[p] = d[p]
  BY <1>1, <1>5
<1>7. ASSUME NEW i \in 1..k
      PROVE  (d \o r)[Len(d) + i] = b[i]
  <2>1. Len(d) + i \in 1..(Len(d) + k) /\ ~(Len(d) + i <= Len(d)) /\ (Len(d) + i) - Len(d) = i
    BY <1>1
  <2> QED BY <1>3, <1>5, <2>1
<1> QED BY <1>3, <1>4, <1>6, <1>7 DEF r

\* Writing the first rows of the buffer keeps a file in order.
LEMMA PrefixInOrder ==
  ASSUME NEW d \in Seq(Item), NEW b \in Seq(Item), NEW all \in Seq(Item), NEW n \in Nat,
         NEW k \in 0..Len(b), Unwritten(b, all, n), IdsDiffer(all), FileOK(d, all, n)
  PROVE  FileOK(d \o SubSeq(b, 1, k), all, n)
<1> DEFINE e == d \o SubSeq(b, 1, k)
           m == Len(d)
<1>1. Len(b) \in Nat /\ m \in Nat /\ Len(all) \in Nat /\ k \in Nat /\ k <= Len(b) /\ Len(all) = n + Len(b)
  BY LenProperties DEF Unwritten
<1>2. /\ e \in Seq(Item) /\ Len(e) = m + k
      /\ \A p \in 1..m : e[p] = d[p]
      /\ \A i \in 1..k : e[m + i] = b[i]
  BY PrefixBehind
<1>3. \A i \in 1..k : n + i \in 1..Len(all) /\ b[i] = all[n + i]
  BY <1>1 DEF Unwritten
<1> HIDE DEF e, m
<1>4. \A p \in 1..(m + k) : p \in 1..m \/ (p - m \in 1..k /\ p = m + (p - m))
  BY <1>1
<1>5. \A x, y \in 1..Len(all) : all[x] = all[y] => x = y
  BY DEF IdsDiffer
<1>6. \A item : HasRow(d, item) => HasRow(e, item)
  <2> SUFFICES ASSUME NEW item, NEW p \in 1..m, d[p] = item
               PROVE  HasRow(e, item)
    BY DEF HasRow, m
  <2>1. p \in 1..Len(e) /\ e[p] = item
    BY <1>1, <1>2
  <2> QED BY <2>1 DEF HasRow
<1>7. \A x \in 1..Len(all) : HasRow(e, all[x]) => HasRow(d, all[x]) \/ (n < x /\ x <= n + k)
  <2> SUFFICES ASSUME NEW x \in 1..Len(all), NEW p \in 1..(m + k), e[p] = all[x]
               PROVE  HasRow(d, all[x]) \/ (n < x /\ x <= n + k)
    BY <1>2 DEF HasRow
  <2>1. CASE p \in 1..m
    BY <1>2, <2>1 DEF HasRow, m
  <2>2. CASE p - m \in 1..k /\ p = m + (p - m)
    <3>1. all[x] = all[n + (p - m)] /\ n + (p - m) \in 1..Len(all)
      BY <1>2, <1>3, <2>2
    <3>2. x = n + (p - m)
      BY <1>5, <3>1
    <3> QED BY <1>1, <2>2, <3>2
  <2> QED BY <1>4, <2>1, <2>2
<1>8. \A x \in 1..Len(all) : n < x /\ x <= n + k => HasRow(e, all[x])
  <2> SUFFICES ASSUME NEW x \in 1..Len(all), n < x, x <= n + k
               PROVE  HasRow(e, all[x])
    OBVIOUS
  <2>1. x - n \in 1..k /\ n + (x - n) = x /\ m + (x - n) \in 1..Len(e)
    BY <1>1, <1>2
  <2>2. e[m + (x - n)] = all[x]
    BY <1>2, <1>3, <2>1
  <2> QED BY <2>1, <2>2 DEF HasRow
<1>9. Known(e, all)
  <2> SUFFICES ASSUME NEW p \in 1..(m + k)
               PROVE  HasRow(all, e[p])
    BY <1>2 DEF Known
  <2>1. CASE p \in 1..m
    BY <1>2, <2>1 DEF FileOK, Known, m
  <2>2. CASE p - m \in 1..k /\ p = m + (p - m)
    BY <1>2, <1>3, <2>2 DEF HasRow
  <2> QED BY <1>4, <2>1, <2>2
<1>10. FromFront(e, all, n)
  <2> SUFFICES ASSUME NEW x \in 1..Len(all), NEW y \in 1..Len(all), n < y, y <= x, HasRow(e, all[x])
               PROVE  HasRow(e, all[y])
    BY DEF FromFront
  <2>1. CASE HasRow(d, all[x])
    BY <1>6, <2>1 DEF FileOK, FromFront
  <2>2. CASE n < x /\ x <= n + k
    BY <1>1, <1>8, <2>2
  <2> QED BY <1>7, <2>1, <2>2
<1>11. InOrder(e, all)
  <2> SUFFICES ASSUME NEW q \in 1..(m + k), \A p \in 1..(q - 1) : e[p] # e[q],
                      NEW p \in 1..(q - 1), NEW x \in 1..Len(all), NEW y \in 1..Len(all),
                      e[p] = all[x], e[q] = all[y]
               PROVE  x < y
    BY <1>2 DEF InOrder
  <2>1. CASE q \in 1..m
    <3>1. \A o \in 1..(q - 1) : o \in 1..m /\ e[o] = d[o]
      BY <1>1, <1>2, <2>1
    <3>2. e[q] = d[q]
      BY <1>2, <2>1
    <3> QED BY <2>1, <3>1, <3>2 DEF FileOK, InOrder, m
  <2>2. CASE q - m \in 1..k /\ q = m + (q - m)
    <3>1. n + (q - m) \in 1..Len(all) /\ all[y] = all[n + (q - m)]
      BY <1>2, <1>3, <2>2
    <3>2. y = n + (q - m)
      BY <1>5, <3>1
    <3>3. ~HasRow(d, all[y])
      <4> SUFFICES ASSUME NEW o \in 1..m, d[o] = all[y]
                   PROVE  FALSE
        BY DEF HasRow, m
      <4>1. o \in 1..(q - 1) /\ e[o] = d[o]
        BY <1>1, <1>2, <2>2
      <4> QED BY <4>1
    <3>4. CASE p \in 1..m
      <4>1. HasRow(d, all[x])
        BY <1>2, <3>4 DEF HasRow, m
      <4>2. n < y
        BY <1>1, <2>2, <3>2
      <4>3. ~(y <= x)
        BY <3>3, <4>1, <4>2 DEF FileOK, FromFront
      <4> QED BY <1>1, <4>3
    <3>5. CASE p - m \in 1..k /\ p = m + (p - m)
      <4>1. n + (p - m) \in 1..Len(all) /\ all[x] = all[n + (p - m)]
        BY <1>2, <1>3, <3>5
      <4>2. x = n + (p - m)
        BY <1>5, <4>1
      <4> QED BY <1>1, <2>2, <3>2, <3>5, <4>2
    <3>6. p \in 1..(m + k)
      BY <1>1
    <3> QED BY <1>4, <3>4, <3>5, <3>6
  <2> QED BY <1>4, <2>1, <2>2
<1> QED BY <1>9, <1>10, <1>11 DEF FileOK, e

\* What was known of a file is known when an item that is new comes behind the others.
LEMMA NewItemInOrder ==
  ASSUME NEW d \in Seq(Item), NEW all \in Seq(Item), NEW n \in Nat, NEW item \in Item,
         \A i \in 1..Len(all) : all[i].id # item.id, FileOK(d, all, n), IdsDiffer(all)
  PROVE  FileOK(d, Append(all, item), n) /\ IdsDiffer(Append(all, item))
<1> DEFINE more == Append(all, item)
           m == Len(all)
<1>1. m \in Nat /\ Len(more) = m + 1 /\ more[m + 1] = item /\ \A i \in 1..m : more[i] = all[i]
  BY LenProperties, AppendProperties
<1>2. ~HasRow(all, item)
  BY DEF HasRow
<1> HIDE DEF more, m
<1>3. \A x \in 1..(m + 1) : x \in 1..m \/ x = m + 1
  BY <1>1
<1>4. IdsDiffer(more)
  <2> SUFFICES ASSUME NEW i \in 1..(m + 1), NEW j \in 1..(m + 1), more[i].id = more[j].id
               PROVE  i = j
    BY <1>1 DEF IdsDiffer
  <2> QED BY <1>1, <1>3 DEF IdsDiffer, m
<1>5. ~HasRow(d, item)
  BY <1>2 DEF FileOK, Known, HasRow
<1>6. Known(d, more)
  <2>1. \A x \in 1..m : x \in 1..Len(more)
    BY <1>1
  <2> QED BY <1>1, <2>1 DEF FileOK, Known, HasRow, m
<1>7. FromFront(d, more, n)
  <2> SUFFICES ASSUME NEW x \in 1..(m + 1), NEW y \in 1..(m + 1), n < y, y <= x, HasRow(d, more[x])
               PROVE  HasRow(d, more[y])
    BY <1>1 DEF FromFront
  <2>1. x \in 1..m
    BY <1>1, <1>3, <1>5
  <2>2. y \in 1..m
    BY <1>1, <2>1
  <2> QED BY <1>1, <2>1, <2>2 DEF FileOK, FromFront, m
<1>8. InOrder(d, more)
  <2> SUFFICES ASSUME NEW q \in 1..Len(d), \A p \in 1..(q - 1) : d[p] # d[q],
                      NEW p \in 1..(q - 1), NEW x \in 1..(m + 1), NEW y \in 1..(m + 1),
                      d[p] = more[x], d[q] = more[y]
               PROVE  x < y
    BY <1>1 DEF InOrder
  <2>1. p \in 1..Len(d)
    BY LenProperties
  <2>2. HasRow(d, more[x]) /\ HasRow(d, more[y])
    BY <2>1 DEF HasRow
  <2>3. x \in 1..m /\ y \in 1..m
    BY <1>1, <1>3, <1>5, <2>2
  <2> QED BY <1>1, <2>3 DEF FileOK, InOrder, m
<1> QED BY <1>4, <1>6, <1>7, <1>8 DEF FileOK, more

\* The files are left alone, or the first rows of b, all of them when b is counted, go
\* behind one of them.
DiskWrites(b) ==
  \/ disk' = disk
  \/ \E f \in Time, k \in 0..Len(b) : disk' = [disk EXCEPT ![f] = disk[f] \o SubSeq(b, 1, k)]

\* WriteRows does that.
LEMMA WriteRowsWrites ==
  ASSUME ~TornWrites, WholeRows, NEW f \in Time, NEW b \in Seq(Item), WriteRows(f, b)
  PROVE  DiskWrites(b)
<1>0. disk[f] \in Seq(Item) /\ Len(b) \in Nat
  BY LenProperties DEF WholeRows
<1>1. CASE disk' = [disk EXCEPT ![f] = Appended(disk[f], b)]
  <2>1. Appended(disk[f], b) = disk[f] \o b /\ b = SubSeq(b, 1, Len(b)) /\ Len(b) \in 0..Len(b)
    BY <1>0, AppendedWhole, SubSeqFull
  <2> QED BY <1>1, <2>1 DEF DiskWrites
<1>2. CASE \E c \in FailedWrites(disk[f], b) : disk' = [disk EXCEPT ![f] = c]
  <2>1. PICK c \in FailedWrites(disk[f], b) : disk' = [disk EXCEPT ![f] = c]
    BY <1>2
  <2>2. PICK k \in 0..(Len(b) - 1) : c = Appended(disk[f], SubSeq(b, 1, k))
    BY <2>1 DEF FailedWrites
  <2>3. SubSeq(b, 1, k) \in Seq(Item)
    BY RangeOfPrefix
  <2>4. c = disk[f] \o SubSeq(b, 1, k)
    BY <1>0, <2>2, <2>3, AppendedWhole
  <2>5. k \in 0..Len(b)
    BY <1>0
  <2> QED BY <2>1, <2>4, <2>5 DEF DiskWrites
<1> QED BY <1>1, <1>2 DEF WriteRows

\* So do a flush and a rotation.
LEMMA FlushWrites ==
  ASSUME ~TornWrites, OutputTypeOK, WholeRows, NEW b \in Seq(Item), NEW keepOpen, flush(b, keepOpen)
  PROVE  DiskWrites(b)
<1>1. CASE FlushNothing(b, keepOpen) \/ FlushCannotOpen(b)
  BY <1>1 DEF FlushNothing, FlushCannotOpen, DiskWrites
<1>2. CASE FlushRows(b, keepOpen)
  <2> DEFINE f == IF Expired THEN firstItemTime(b) ELSE file
  <2>1. f \in Time
    BY <1>2, FirstItemTimeIsTime DEF FlushRows, Expired, OutputTypeOK
  <2>2. WriteRows(f, b)
    BY <1>2 DEF FlushRows
  <2> HIDE DEF f
  <2> QED BY <2>1, <2>2, WriteRowsWrites
<1> QED BY <1>1, <1>2 DEF flush

LEMMA RotateWrites ==
  ASSUME ~TornWrites, OutputTypeOK, WholeRows, Rotate
  PROVE  DiskWrites(buffer)
<1>1. CASE RotateCannotOpen \/ RotateEmpty
  BY <1>1 DEF RotateCannotOpen, RotateEmpty, DiskWrites
<1>2. CASE RotateRows
  <2> DEFINE f == IF file = NoFile THEN firstItemTime(buffer) ELSE file
  <2>1. f \in Time
    BY <1>2, FirstItemTimeIsTime DEF RotateRows, OutputTypeOK
  <2>2. WriteRows(f, buffer)
    BY <1>2 DEF RotateRows
  <2> HIDE DEF f
  <2> QED BY <2>1, <2>2, WriteRowsWrites DEF OutputTypeOK
<1> QED BY <1>1, <1>2 DEF Rotate

\* Writing them, and counting b or keeping it, keeps every file in order.
LEMMA WritesKeepOrder ==
  ASSUME WholeRows, NEW b \in Seq(Item), NEW all \in Seq(Item), itemsWritten \in Nat,
         Unwritten(b, all, itemsWritten), IdsDiffer(all),
         \A f \in Time : FileOK(disk[f], all, itemsWritten),
         KeptOrCounted(b), DiskWrites(b)
  PROVE  WholeRows' /\ \A f \in Time : FileOK(disk'[f], all, itemsWritten')
<1>1. WholeRows' /\ \A f \in Time : FileOK(disk'[f], all, itemsWritten)
  <2>1. CASE disk' = disk
    BY <2>1 DEF WholeRows
  <2>2. CASE disk' # disk
    <3>1. PICK f \in Time, k \in 0..Len(b) : disk' = [disk EXCEPT ![f] = disk[f] \o SubSeq(b, 1, k)]
      BY <2>2 DEF DiskWrites
    <3> DEFINE e == disk[f] \o SubSeq(b, 1, k)
    <3>2. disk[f] \in Seq(Item) /\ FileOK(disk[f], all, itemsWritten)
      BY DEF WholeRows
    <3>3. e \in Seq(Item) /\ FileOK(e, all, itemsWritten)
      BY <3>2, PrefixBehind, PrefixInOrder
    <3>4. disk' = [disk EXCEPT ![f] = e]
      BY <3>1
    <3> HIDE DEF e
    <3> QED BY <3>3, <3>4 DEF WholeRows
  <2> QED BY <2>1, <2>2
<1>2. CASE itemsWritten' = itemsWritten
  BY <1>1, <1>2
<1>3. CASE itemsWritten' = itemsWritten + Len(b)
  <2>1. itemsWritten' = Len(all) /\ Len(all) \in Nat
    BY <1>3, LenProperties DEF Unwritten
  <2>2. \A d : FromFront(d, all, itemsWritten')
    BY <2>1 DEF FromFront
  <2> QED BY <1>1, <2>2 DEF FileOK
<1> QED BY <1>2, <1>3 DEF KeptOrCounted

\* A step of the writer that adds, if it does, an item that is new.
NewItemStep ==
  (\E item \in Item : IsNew(item) /\ Add(item)) \/ Tick \/ Finish \/ Rotate \/ Cancel \/ Elapse

\* One such step keeps OrderInv.
LEMMA WriterStepOrder ==
  ASSUME ~TornWrites, WriterTypeOK, BufferIsUnwritten, OrderInv, NewItemStep
  PROVE  OrderInv'
<1>0. /\ OutputTypeOK /\ WholeRows /\ IdsDiffer(added) /\ added \in Seq(Item)
      /\ buffer \in Seq(Item) /\ itemsWritten \in Nat
      /\ Unwritten(buffer, added, itemsWritten)
      /\ \A f \in Time : FileOK(disk[f], added, itemsWritten)
  BY DEF WriterTypeOK, OutputTypeOK, BufferIsUnwritten, Unwritten, OrderInv
<1>1. ASSUME NEW item \in Item, IsNew(item), Add(item)
      PROVE  OrderInv'
  <2> DEFINE b == Append(buffer, item)
             all == Append(added, item)
  <2>2. added' = all
    BY <1>1 DEF Add
  <2>3. b \in Seq(Item) /\ all \in Seq(Item) /\ Unwritten(b, all, itemsWritten)
    BY <1>0, AppendProperties, AppendKeepsUnwritten
  <2>4. IdsDiffer(all) /\ \A f \in Time : FileOK(disk[f], all, itemsWritten)
    <3>1. \A i \in 1..Len(added) : added[i].id # item.id
      BY <1>1 DEF IsNew
    <3>2. \A f \in Time : disk[f] \in Seq(Item)
      BY <1>0 DEF WholeRows
    <3>3. ASSUME NEW f \in Time
          PROVE  IdsDiffer(all) /\ FileOK(disk[f], all, itemsWritten)
      BY <1>0, <3>1, <3>2, NewItemInOrder
    <3>4. Time # {}
      BY WriterAssumption DEF Time
    <3> QED BY <3>3, <3>4
  <2>5. flush(b, TRUE) \/ (buffer' = b /\ itemsWritten' = itemsWritten /\ disk' = disk)
    BY <1>1 DEF Add
  <2> HIDE DEF b, all
  <2>6. KeptOrCounted(b) /\ DiskWrites(b)
    BY <1>0, <2>3, <2>5, FlushKeepsOrCounts, FlushWrites DEF KeptOrCounted, DiskWrites
  <2>7. WholeRows' /\ \A f \in Time : FileOK(disk'[f], all, itemsWritten')
    BY <1>0, <2>3, <2>4, <2>6, WritesKeepOrder
  <2> QED BY <2>2, <2>4, <2>7 DEF OrderInv
<1>2. CASE Tick \/ Finish \/ Rotate
  <2>1. KeptOrCounted(buffer) /\ DiskWrites(buffer)
    BY <1>0, <1>2, FlushKeepsOrCounts, RotateKeepsOrCounts, FlushWrites, RotateWrites
       DEF Tick, Finish
  <2>2. added' = added
    BY <1>2 DEF Tick, Finish, Rotate
  <2>3. WholeRows' /\ \A f \in Time : FileOK(disk'[f], added, itemsWritten')
    BY <1>0, <2>1, WritesKeepOrder
  <2> QED BY <1>0, <2>2, <2>3 DEF OrderInv
<1>3. CASE Cancel \/ Elapse
  BY <1>0, <1>3 DEF Cancel, Elapse, outputVars, OrderInv, WholeRows
<1> QED BY <1>1, <1>2, <1>3 DEF NewItemStep

\* A new writer and its empty files.
LEMMA WriterInitOrder == WriterInit => OrderInv
<1> SUFFICES ASSUME WriterInit
             PROVE  OrderInv
  OBVIOUS
<1>1. <<>> \in Seq(Item) /\ Len(<<>>) = 0
  BY EmptySeq
<1>2. IdsDiffer(<<>>) /\ FileOK(<<>>, <<>>, 0)
  BY <1>1 DEF IdsDiffer, FileOK, Known, FromFront, InOrder
<1> QED BY <1>1, <1>2 DEF WriterInit, OrderInv, WholeRows

\* Where no row was added twice, its place is its Position.
LEMMA OrderIsOfFirstCopies == OrderInv => FirstCopiesInOrder
<1> SUFFICES ASSUME OrderInv, NEW f \in Time, NEW q \in 1..Len(disk[f]),
                    \A p \in 1..(q - 1) : disk[f][p] # disk[f][q],
                    NEW p \in 1..(q - 1)
             PROVE  Position(disk[f][p]) < Position(disk[f][q])
  BY DEF FirstCopiesInOrder
<1>1. \A x, y \in 1..Len(added) : added[x] = added[y] => x = y
  BY DEF OrderInv, IdsDiffer
<1>2. \A x \in 1..Len(added) : Position(added[x]) = x
  BY <1>1 DEF Position
<1>3. p \in 1..Len(disk[f])
  BY LenProperties DEF OrderInv, WholeRows
<1>4. PICK x \in 1..Len(added), y \in 1..Len(added) : added[x] = disk[f][p] /\ added[y] = disk[f][q]
  BY <1>3 DEF OrderInv, FileOK, Known, HasRow
<1>5. x < y
  BY <1>4 DEF OrderInv, FileOK, InOrder
<1> QED BY <1>2, <1>4, <1>5

\* When a failing write stops at the end of a row, retries repeat rows but never
\* reorder them: in each file the first copies are in the order of ingestion.
THEOREM FirstCopiesAlwaysInOrder ==
  ASSUME ~TornWrites
  PROVE  WriterSpec => []FirstCopiesInOrder
<1>1. WriterTypeOK /\ BufferIsUnwritten /\ OrderInv /\ [WriterNext]_writerVars => OrderInv'
  <2>1. UNCHANGED writerVars /\ OrderInv => OrderInv'
    BY DEF OrderInv, WholeRows, writerVars, outputVars
  <2>2. WriterNext => NewItemStep
    BY DEF WriterNext, AddSome, RotateLive, NewItemStep
  <2> QED BY <2>1, <2>2, WriterStepOrder
<1> QED BY <1>1, WriterInitOrder, OrderIsOfFirstCopies, WriterTypeCorrect, BufferAlwaysUnwritten,
           PTL DEF WriterSpec

-----------------------------------------------------------------------------
(* Where writes may stop inside a row, a failed call costs one row.        *)

\* What a set with one element more has at most.
LEMMA OneMore ==
  ASSUME NEW S, IsFiniteSet(S), NEW x, NEW R, R \subseteq S \cup {x}
  PROVE  IsFiniteSet(R) /\ Cardinality(R) <= Cardinality(S) + 1
<1>1. IsFiniteSet(S \cup {x}) /\ Cardinality(S) \in Nat
  BY FS_AddElement, FS_CardinalityType
<1>2. Cardinality(S \cup {x}) <= Cardinality(S) + 1
  BY <1>1, FS_AddElement
<1>3. IsFiniteSet(R) /\ Cardinality(R) <= Cardinality(S \cup {x})
  BY <1>1, FS_Subset
<1>4. Cardinality(R) \in Nat /\ Cardinality(S \cup {x}) \in Nat
  BY <1>1, <1>3, FS_CardinalityType
<1> QED BY <1>1, <1>2, <1>3, <1>4

\* What one with an element less does.
LEMMA OneLess ==
  ASSUME NEW S, IsFiniteSet(S), NEW x \in S, NEW R, R \subseteq S \ {x}
  PROVE  IsFiniteSet(R) /\ Cardinality(R) + 1 <= Cardinality(S)
<1>1. IsFiniteSet(S \ {x}) /\ Cardinality(S \ {x}) = Cardinality(S) - 1
  BY FS_RemoveElement
<1>2. IsFiniteSet(R) /\ Cardinality(R) <= Cardinality(S \ {x})
  BY <1>1, FS_Subset
<1>3. Cardinality(R) \in Nat /\ Cardinality(S) \in Nat
  BY <1>2, FS_CardinalityType
<1> QED BY <1>1, <1>2, <1>3

\* The elements of a sequence are at its places.
LEMMA InRange ==
  ASSUME NEW T, NEW s \in Seq(T), NEW x
  PROVE  x \in Range(s) <=> \E i \in 1..Len(s) : s[i] = x
BY LenProperties DEF Range

\* What a write of rows behind a file's content c leaves: every row of c, and the
\* rows written, but for the first if c ends in half a row; and no half row.
LEMMA AppendedHolds ==
  ASSUME NEW c \in Seq(Line), NEW rows \in Seq(Item)
  PROVE  /\ \A item \in Item : item \in Range(c) => item \in Range(Appended(c, rows))
         /\ \A i \in 2..Len(rows) : rows[i] \in Range(Appended(c, rows))
         /\ ~IsTorn(c) => \A i \in 1..Len(rows) : rows[i] \in Range(Appended(c, rows))
         /\ rows # <<>> => ~IsTorn(Appended(c, rows))
<1>1. rows \in Seq(Line) /\ Len(rows) \in Nat
  BY SeqMonotonic, LenProperties DEF Line
<1>2. \A i \in 1..Len(rows) : rows[i] \in Item
  BY ElementOfSeq
<1>3. CASE rows # <<>> /\ IsTorn(c)
  <2> DEFINE front == Front(c)
             middle == <<Garbled>>
             tail == Tail(rows)
             left == front \o middle
             d == left \o tail
  <2>1. Appended(c, rows) = d
    BY <1>3 DEF Appended
  <2>2. /\ front \in Seq(Line) /\ Len(front) = Len(c) - 1
        /\ \A i \in 1..(Len(c) - 1) : front[i] = c[i]
    <3>1. Len(c) \in Nat /\ Len(c) # 0
      BY <1>3, LenProperties, EmptySeq DEF IsTorn
    <3>2. \A i \in 1..(Len(c) - 1) : c[i] \in Line
      BY <3>1, ElementOfSeq
    <3>3. Len(c) - 1 \in Nat /\ (Len(c) - 1) - 1 + 1 = Len(c) - 1
      BY <3>1
    <3> QED BY <3>1, <3>2, <3>3, SubSeqProperties DEF Front
  <2>3. middle \in Seq(Line) /\ Len(middle) = 1 /\ middle[1] = Garbled
    BY DEF Line
  <2>4. /\ tail \in Seq(Line) /\ tail \in Seq(Item) /\ Len(tail) = Len(rows) - 1
        /\ \A i \in 1..Len(tail) : tail[i] = rows[i + 1]
    BY <1>1, <1>3, HeadTailProperties
  <2> HIDE DEF front, middle, tail
  <2>5. /\ left \in Seq(Line) /\ Len(left) = Len(front) + 1 /\ left[Len(front) + 1] = Garbled
        /\ Range(left) = Range(front) \cup Range(middle)
    <3>1. left \in Seq(Line) /\ Len(left) = Len(front) + Len(middle) /\ Len(front) \in Nat
      BY <2>2, <2>3, ConcatProperties, LenProperties
    <3>2. \A i \in 1..(Len(front) + Len(middle)) : left[i] = IF i <= Len(front) THEN front[i] ELSE middle[i - Len(front)]
      BY <2>2, <2>3, ConcatProperties
    <3>3. left[Len(front) + 1] = middle[1]
      BY <2>3, <3>1, <3>2
    <3> QED BY <2>2, <2>3, <3>1, <3>3, RangeConcatenation
  <2> HIDE DEF left
  <2>6. /\ d \in Seq(Line) /\ Len(d) = Len(left) + Len(tail) /\ Range(d) = Range(left) \cup Range(tail)
        /\ \A i \in 1..(Len(left) + Len(tail)) : d[i] = IF i <= Len(left) THEN left[i] ELSE tail[i - Len(left)]
    <3>1. d \in Seq(Line) /\ Len(d) = Len(left) + Len(tail)
      BY <2>4, <2>5, ConcatProperties
    <3>2. \A i \in 1..(Len(left) + Len(tail)) : d[i] = IF i <= Len(left) THEN left[i] ELSE tail[i - Len(left)]
      BY <2>4, <2>5, ConcatProperties
    <3>3. Range(d) = Range(left) \cup Range(tail)
      BY <2>4, <2>5, RangeConcatenation
    <3> QED BY <3>1, <3>2, <3>3
  <2> HIDE DEF d
  <2>7. ASSUME NEW item \in Item, item \in Range(c)
        PROVE  item \in Range(d)
    <3>1. PICK i \in 1..Len(c) : c[i] = item
      BY <2>7, InRange
    <3>2. Len(c) \in Nat /\ c[Len(c)] = Fragment
      BY <1>3, LenProperties DEF IsTorn, Last
    <3>3. i \in 1..(Len(c) - 1)
      BY <3>1, <3>2, MarksAssumption
    <3>4. item \in Range(front)
      BY <2>2, <3>1, <3>3, InRange
    <3> QED BY <2>5, <2>6, <3>4
  <2>8. ASSUME NEW i \in 2..Len(rows)
        PROVE  rows[i] \in Range(d)
    <3>1. i - 1 \in 1..Len(tail) /\ (i - 1) + 1 = i
      BY <1>1, <2>4
    <3>2. tail[i - 1] = rows[i]
      BY <2>4, <3>1
    <3>3. rows[i] \in Range(tail)
      BY <2>4, <3>1, <3>2, InRange
    <3> QED BY <2>6, <3>3
  <2>9. ~IsTorn(d)
    <3>1. Len(left) \in Nat /\ Len(tail) \in Nat /\ Len(left) > 0
      BY <2>2, <2>4, <2>5, LenProperties
    <3>2. CASE Len(tail) = 0
      <4>1. d[Len(d)] = left[Len(left)]
        BY <2>6, <3>1, <3>2
      <4> QED BY <2>5, <4>1, MarksAssumption DEF IsTorn, Last
    <3>3. CASE Len(tail) # 0
      <4>1. d[Len(d)] = tail[Len(tail)] /\ Len(tail) \in 1..Len(tail)
        BY <2>6, <3>1, <3>3
      <4>2. tail[Len(tail)] \in Item
        BY <2>4, <4>1, ElementOfSeq
      <4> QED BY <4>1, <4>2, MarksAssumption DEF IsTorn, Last
    <3> QED BY <3>2, <3>3
  <2> QED BY <1>3, <2>1, <2>7, <2>8, <2>9
<1>4. CASE ~(rows # <<>> /\ IsTorn(c))
  <2> DEFINE d == c \o rows
  <2>1. Appended(c, rows) = d
    BY <1>4 DEF Appended
  <2>2. /\ d \in Seq(Line) /\ Len(d) = Len(c) + Len(rows) /\ Range(d) = Range(c) \cup Range(rows)
        /\ \A i \in 1..(Len(c) + Len(rows)) : d[i] = IF i <= Len(c) THEN c[i] ELSE rows[i - Len(c)]
    BY <1>1, ConcatProperties, RangeConcatenation
  <2> HIDE DEF d
  <2>3. \A i \in 1..Len(rows) : rows[i] \in Range(d)
    BY <1>1, <2>2, InRange
  <2>4. \A i \in 2..Len(rows) : rows[i] \in Range(d)
    BY <1>1, <2>3
  <2>5. ASSUME rows # <<>>
        PROVE  ~IsTorn(d)
    <3>1. Len(c) \in Nat /\ Len(rows) > 0
      BY <1>1, <2>5, LenProperties, EmptySeq
    <3>2. d[Len(d)] = rows[Len(rows)] /\ Len(rows) \in 1..Len(rows)
      BY <1>1, <2>2, <3>1
    <3> QED BY <1>2, <3>2, MarksAssumption DEF IsTorn, Last
  <2> QED BY <2>1, <2>2, <2>3, <2>4, <2>5
<1> QED BY <1>3, <1>4

-----------------------------------------------------------------------------
Torn(d) == {f \in Time : IsTorn(d[f])}
Lost(d, all, n) == {i \in 1..n : ~HeldIn(d, all[i])}

HeldStays == \A item \in Item : HeldIn(disk, item) => HeldIn(disk', item)

\* b stays in the buffer; a call that failed leaves one file more in half a row at most.
KeptAtCost(b) ==
  /\ buffer' = b /\ itemsWritten' = itemsWritten
  /\ \/ faults' = faults /\ Torn(disk') = Torn(disk)
     \/ faults' = faults + 1 /\ \E x : Torn(disk') \subseteq Torn(disk) \cup {x}

\* b is counted; where its first row is lost, the half row it is lost in is gone.
CountedAtCost(b) ==
  /\ itemsWritten' = itemsWritten + Len(b) /\ faults' = faults
  /\ \/ Torn(disk') \subseteq Torn(disk) /\ \A i \in 1..Len(b) : HeldIn(disk', b[i])
     \/ /\ \A i \in 2..Len(b) : HeldIn(disk', b[i])
        /\ \E f \in Torn(disk) : Torn(disk') \subseteq Torn(disk) \ {f}

Costs(b) == HeldStays /\ (KeptAtCost(b) \/ CountedAtCost(b))

\* A file that keeps its rows, and the others, hold what they held.
LEMMA OneFileKeeps ==
  ASSUME disk \in [Time -> Seq(Line)], NEW f \in Time, NEW d, disk' = [disk EXCEPT ![f] = d],
         \A item \in Item : item \in Range(disk[f]) => item \in Range(d)
  PROVE  /\ HeldStays
         /\ \A item \in Item : item \in Range(d) => HeldIn(disk', item)
         /\ Torn(disk') \subseteq Torn(disk) \cup {f}
         /\ ~IsTorn(d) => Torn(disk') \subseteq Torn(disk) \ {f}
<1>1. disk'[f] = d /\ \A g \in Time : g # f => disk'[g] = disk[g]
  OBVIOUS
<1>2. ASSUME NEW item \in Item, item \in Range(d)
      PROVE  HeldIn(disk', item)
  BY <1>1, <1>2 DEF HeldIn
<1>3. ASSUME NEW item \in Item, HeldIn(disk, item)
      PROVE  HeldIn(disk', item)
  <2>1. PICK g \in Time : item \in Range(disk[g])
    BY <1>3 DEF HeldIn
  <2>2. CASE g = f
    BY <1>2, <2>1, <2>2
  <2>3. CASE g # f
    <3>1. item \in Range(disk'[g])
      BY <1>1, <2>1, <2>3
    <3> QED BY <3>1 DEF HeldIn
  <2> QED BY <2>2, <2>3
<1>4. \A g \in Time : g # f /\ IsTorn(disk'[g]) => IsTorn(disk[g])
  BY <1>1
<1>5. Torn(disk') \subseteq Torn(disk) \cup {f}
  BY <1>4 DEF Torn
<1>6. ~IsTorn(d) => Torn(disk') \subseteq Torn(disk) \ {f}
  BY <1>1, <1>4 DEF Torn
<1> QED BY <1>2, <1>3, <1>5, <1>6 DEF HeldStays

\* A failed write keeps the rows of the file.
LEMMA FailedWritesHold ==
  ASSUME NEW c \in Seq(Line), NEW rows \in Seq(Item), NEW d \in FailedWrites(c, rows),
         NEW item \in Item, item \in Range(c)
  PROVE  item \in Range(d)
<1>1. PICK k \in 0..(Len(rows) - 1) :
        \/ d = Appended(c, SubSeq(rows, 1, k))
        \/ d = Append(Appended(c, SubSeq(rows, 1, k)), Fragment)
  BY DEF FailedWrites
<1> DEFINE w == Appended(c, SubSeq(rows, 1, k))
<1>2. SubSeq(rows, 1, k) \in Seq(Item)
  BY RangeOfPrefix
<1>3. w \in Seq(Line) /\ item \in Range(w)
  BY <1>2, AppendedLines, AppendedHolds
<1>4. d = w \/ d = Append(w, Fragment)
  BY <1>1
<1> HIDE DEF w
<1>5. CASE d = Append(w, Fragment)
  <2>1. PICK i \in 1..Len(w) : w[i] = item
    BY <1>3, InRange
  <2>2. Fragment \in Line
    BY DEF Line
  <2>3. Len(w) \in Nat /\ d \in Seq(Line) /\ Len(d) = Len(w) + 1 /\ d[i] = w[i]
    BY <1>3, <1>5, <2>1, <2>2, AppendProperties, LenProperties
  <2>4. i \in 1..Len(d)
    BY <2>1, <2>3
  <2> QED BY <2>1, <2>3, <2>4, InRange
<1> QED BY <1>3, <1>4, <1>5

\* What WriteRows costs.
LEMMA WriteRowsCosts ==
  ASSUME OutputTypeOK, NEW f \in Time, NEW b \in Seq(Item), b # <<>>, WriteRows(f, b)
  PROVE  Costs(b)
<1>0. disk[f] \in Seq(Line) /\ disk \in [Time -> Seq(Line)]
  BY DEF OutputTypeOK
<1>1. CASE /\ disk' = [disk EXCEPT ![f] = Appended(@, b)]
           /\ buffer' = <<>> /\ itemsWritten' = itemsWritten + Len(b) /\ UNCHANGED faults
  <2> DEFINE d == Appended(disk[f], b)
  <2>1. /\ \A item \in Item : item \in Range(disk[f]) => item \in Range(d)
        /\ \A i \in 2..Len(b) : b[i] \in Range(d)
        /\ ~IsTorn(disk[f]) => \A i \in 1..Len(b) : b[i] \in Range(d)
        /\ ~IsTorn(d)
    BY <1>0, AppendedHolds
  <2>2. disk' = [disk EXCEPT ![f] = d]
    BY <1>1
  <2> HIDE DEF d
  <2>3. /\ HeldStays
        /\ \A item \in Item : item \in Range(d) => HeldIn(disk', item)
        /\ Torn(disk') \subseteq Torn(disk) \ {f}
    BY <1>0, <2>1, <2>2, OneFileKeeps
  <2>4. Len(b) \in Nat /\ \A i \in 1..Len(b) : b[i] \in Item
    BY LenProperties, ElementOfSeq
  <2>5. \A i \in 2..Len(b) : HeldIn(disk', b[i])
    BY <2>1, <2>3, <2>4
  <2>6. CASE IsTorn(disk[f])
    <3>1. f \in Torn(disk)
      BY <2>6 DEF Torn
    <3>2. CountedAtCost(b)
      BY <1>1, <2>3, <2>5, <3>1 DEF CountedAtCost
    <3> QED BY <2>3, <3>2 DEF Costs
  <2>7. CASE ~IsTorn(disk[f])
    <3>1. \A i \in 1..Len(b) : HeldIn(disk', b[i])
      BY <2>1, <2>3, <2>4, <2>7
    <3>2. CountedAtCost(b)
      BY <1>1, <2>3, <3>1 DEF CountedAtCost
    <3> QED BY <2>3, <3>2 DEF Costs
  <2> QED BY <2>6, <2>7
<1>2. CASE /\ Fail /\ \E c \in FailedWrites(disk[f], b) : disk' = [disk EXCEPT ![f] = c]
           /\ buffer' = b /\ UNCHANGED itemsWritten
  <2>1. PICK d \in FailedWrites(disk[f], b) : disk' = [disk EXCEPT ![f] = d]
    BY <1>2
  <2>2. \A item \in Item : item \in Range(disk[f]) => item \in Range(d)
    BY <1>0, FailedWritesHold
  <2>3. HeldStays /\ Torn(disk') \subseteq Torn(disk) \cup {f}
    BY <1>0, <2>1, <2>2, OneFileKeeps
  <2>4. KeptAtCost(b)
    BY <1>2, <2>3 DEF KeptAtCost, Fail
  <2> QED BY <2>3, <2>4 DEF Costs
<1> QED BY <1>1, <1>2 DEF WriteRows

\* Where the files stay as they are and b is kept.
LEMMA NothingCosts ==
  ASSUME NEW b, buffer' = b, disk' = disk, itemsWritten' = itemsWritten,
         faults' = faults \/ faults' = faults + 1
  PROVE  Costs(b)
<1>1. HeldStays /\ Torn(disk') = Torn(disk)
  BY DEF HeldStays
<1>2. Torn(disk') \subseteq Torn(disk) \cup {0}
  BY <1>1
<1> QED BY <1>1, <1>2 DEF Costs, KeptAtCost

\* What a flush costs.
LEMMA FlushCosts ==
  ASSUME OutputTypeOK, NEW b \in Seq(Item), NEW keepOpen, flush(b, keepOpen)
  PROVE  Costs(b)
<1>1. CASE FlushNothing(b, keepOpen) \/ FlushCannotOpen(b)
  BY <1>1, NothingCosts DEF FlushNothing, FlushCannotOpen, Fail
<1>2. CASE FlushRows(b, keepOpen)
  <2> DEFINE f == IF Expired THEN firstItemTime(b) ELSE file
  <2>1. f \in Time
    BY <1>2, FirstItemTimeIsTime DEF FlushRows, Expired, OutputTypeOK
  <2>2. WriteRows(f, b) /\ b # <<>>
    BY <1>2 DEF FlushRows
  <2> HIDE DEF f
  <2> QED BY <2>1, <2>2, WriteRowsCosts
<1> QED BY <1>1, <1>2 DEF flush

\* What a rotation costs.
LEMMA RotateCosts ==
  ASSUME OutputTypeOK, Rotate
  PROVE  Costs(buffer)
<1>1. CASE RotateCannotOpen \/ RotateEmpty
  BY <1>1, NothingCosts DEF RotateCannotOpen, RotateEmpty, Fail
<1>2. CASE RotateRows
  <2> DEFINE f == IF file = NoFile THEN firstItemTime(buffer) ELSE file
  <2>1. f \in Time
    BY <1>2, FirstItemTimeIsTime DEF RotateRows, OutputTypeOK
  <2>2. WriteRows(f, buffer) /\ buffer # <<>>
    BY <1>2 DEF RotateRows
  <2> HIDE DEF f
  <2> QED BY <2>1, <2>2, WriteRowsCosts DEF OutputTypeOK
<1> QED BY <1>1, <1>2 DEF Rotate

\* The account of the failed calls, with the items and the count as parameters.
Accounted(d, all, n, k) == Cardinality(Lost(d, all, n)) + Cardinality(Torn(d)) <= k

\* The sets of the account are finite.
LEMMA AccountFinite ==
  ASSUME NEW d, NEW all, NEW n \in Nat
  PROVE  /\ IsFiniteSet(Lost(d, all, n)) /\ Cardinality(Lost(d, all, n)) \in Nat
         /\ IsFiniteSet(Torn(d)) /\ Cardinality(Torn(d)) \in Nat
<1>1. IsFiniteSet(1..n) /\ IsFiniteSet(Time)
  BY WriterAssumption, FS_Interval DEF Time
<1>2. Lost(d, all, n) \subseteq 1..n /\ Torn(d) \subseteq Time
  BY DEF Lost, Torn
<1>3. IsFiniteSet(Lost(d, all, n)) /\ IsFiniteSet(Torn(d))
  BY <1>1, <1>2, FS_Subset
<1> QED BY <1>3, FS_CardinalityType

\* The step from what a write costs to the account: all is the items added by the end
\* of the step, b those among them not counted before it.
LEMMA CostsKeepAccount ==
  ASSUME itemsWritten \in Nat, faults \in Nat, NEW all \in Seq(Item), NEW b \in Seq(Item),
         Unwritten(b, all, itemsWritten), Accounted(disk, all, itemsWritten, faults), Costs(b)
  PROVE  Accounted(disk', all, itemsWritten', faults')
<1> DEFINE lost == Lost(disk, all, itemsWritten)
           lostNow == Lost(disk', all, itemsWritten')
           torn == Torn(disk)
           tornNow == Torn(disk')
<1>1. /\ IsFiniteSet(lost) /\ Cardinality(lost) \in Nat
      /\ IsFiniteSet(torn) /\ Cardinality(torn) \in Nat
      /\ Cardinality(lost) + Cardinality(torn) <= faults
  BY AccountFinite DEF Accounted
<1>2. Len(b) \in Nat /\ Len(all) \in Nat /\ Len(all) = itemsWritten + Len(b)
  BY LenProperties DEF Unwritten
<1>3. itemsWritten' \in Nat /\ itemsWritten' <= Len(all) /\ itemsWritten <= itemsWritten'
  BY <1>2 DEF Costs, KeptAtCost, CountedAtCost
<1>4. /\ IsFiniteSet(lostNow) /\ Cardinality(lostNow) \in Nat
      /\ IsFiniteSet(tornNow) /\ Cardinality(tornNow) \in Nat
  BY <1>3, AccountFinite
<1>5. \A i \in lostNow : i \in 1..itemsWritten => i \in lost
  <2> SUFFICES ASSUME NEW i \in lostNow, i \in 1..itemsWritten
               PROVE  i \in lost
    OBVIOUS
  <2>1. i \in 1..Len(all)
    BY <1>2
  <2>2. all[i] \in Item /\ ~HeldIn(disk', all[i])
    BY <2>1, ElementOfSeq DEF Lost
  <2>3. ~HeldIn(disk, all[i])
    BY <2>2 DEF Costs, HeldStays
  <2> QED BY <2>3 DEF Lost
<1>6. \A i \in lostNow : i \in 1..itemsWritten'
  BY DEF Lost
<1>7. CASE KeptAtCost(b)
  <2>1. lostNow \subseteq lost
    BY <1>5, <1>6, <1>7 DEF KeptAtCost
  <2> HIDE DEF lost, lostNow, torn, tornNow
  <2>2. Cardinality(lostNow) <= Cardinality(lost)
    BY <1>1, <2>1, FS_Subset
  <2>3. CASE faults' = faults /\ tornNow = torn
    <3>1. Cardinality(lostNow) + Cardinality(tornNow) <= faults'
      BY <1>1, <1>4, <2>2, <2>3
    <3> QED BY <3>1 DEF Accounted, lostNow, tornNow
  <2>4. CASE faults' = faults + 1 /\ \E x : tornNow \subseteq torn \cup {x}
    <3>1. Cardinality(tornNow) <= Cardinality(torn) + 1
      BY <1>1, <2>4, OneMore
    <3>2. Cardinality(lostNow) + Cardinality(tornNow) <= faults'
      BY <1>1, <1>4, <2>2, <2>4, <3>1
    <3> QED BY <3>2 DEF Accounted, lostNow, tornNow
  <2> QED BY <1>7, <2>3, <2>4 DEF KeptAtCost, torn, tornNow
<1>8. CASE CountedAtCost(b)
  <2>1. \A i \in lostNow : i \in 1..itemsWritten \/ i - itemsWritten \in 1..Len(b)
    BY <1>2, <1>6, <1>8 DEF CountedAtCost
  <2>2. \A j \in 1..Len(b) : b[j] = all[itemsWritten + j]
    BY DEF Unwritten
  <2>3. \A i \in lostNow : i \in Int /\ itemsWritten + (i - itemsWritten) = i /\ ~HeldIn(disk', all[i])
    BY <1>3 DEF Lost
  <2>4. \A i \in lostNow : i \in lost \/ (i - itemsWritten \in 1..Len(b) /\ ~HeldIn(disk', b[i - itemsWritten]))
    BY <1>5, <2>1, <2>2, <2>3
  <2> HIDE DEF lost, lostNow
  <2>5. CASE tornNow \subseteq torn /\ \A i \in 1..Len(b) : HeldIn(disk', b[i])
    <3> HIDE DEF torn, tornNow
    <3>1. lostNow \subseteq lost
      BY <2>4, <2>5
    <3>2. Cardinality(lostNow) <= Cardinality(lost) /\ Cardinality(tornNow) <= Cardinality(torn)
      BY <1>1, <2>5, <3>1, FS_Subset
    <3>3. Cardinality(lostNow) + Cardinality(tornNow) <= faults'
      BY <1>1, <1>4, <1>8, <3>2 DEF CountedAtCost
    <3> QED BY <3>3 DEF Accounted, lostNow, tornNow
  <2>6. CASE /\ \A i \in 2..Len(b) : HeldIn(disk', b[i])
             /\ \E f \in torn : tornNow \subseteq torn \ {f}
    <3>1. \A i \in 1..Len(b) : i = 1 \/ i \in 2..Len(b)
      BY <1>2
    <3>2. lostNow \subseteq lost \cup {itemsWritten + 1}
      <4> SUFFICES ASSUME NEW i \in lostNow, i \notin lost
                   PROVE  i = itemsWritten + 1
        OBVIOUS
      <4>1. i - itemsWritten = 1
        BY <2>4, <2>6, <3>1
      <4> QED BY <2>3, <4>1
    <3>3. PICK f \in torn : tornNow \subseteq torn \ {f}
      BY <2>6
    <3> HIDE DEF torn, tornNow
    <3>4. Cardinality(lostNow) <= Cardinality(lost) + 1
      BY <1>1, <3>2, OneMore
    <3>5. Cardinality(tornNow) + 1 <= Cardinality(torn)
      BY <1>1, <3>3, OneLess
    <3>6. Cardinality(lostNow) + Cardinality(tornNow) <= faults'
      BY <1>1, <1>4, <1>8, <3>4, <3>5 DEF CountedAtCost
    <3> QED BY <3>6 DEF Accounted, lostNow, tornNow
  <2> QED BY <1>8, <2>5, <2>6 DEF CountedAtCost
<1> QED BY <1>7, <1>8 DEF Costs

\* FaultsCostOneRow is the account of the writer.
LEMMA FaultsAreAccounted ==
  FaultsCostOneRow <=> Accounted(disk, added, itemsWritten, faults)
<1>1. LostRows = Lost(disk, added, itemsWritten) /\ TornFiles = Torn(disk)
  BY DEF LostRows, TornFiles, Lost, Torn, OnDisk, HeldIn
<1> QED BY <1>1 DEF FaultsCostOneRow, Accounted

\* One step of the writer keeps it.
LEMMA WriterStepAccount ==
  ASSUME WriterTypeOK, BufferIsUnwritten, Accounted(disk, added, itemsWritten, faults), WriterStep
  PROVE  Accounted(disk', added', itemsWritten', faults')
<1>0. /\ OutputTypeOK
      /\ Unwritten(buffer, added, itemsWritten)
      /\ buffer \in Seq(Item) /\ added \in Seq(Item) /\ itemsWritten \in Nat /\ faults \in Nat
  BY DEF WriterTypeOK, OutputTypeOK, BufferIsUnwritten, Unwritten
<1>1. ASSUME NEW item \in Item, Add(item)
      PROVE  Accounted(disk', added', itemsWritten', faults')
  <2> DEFINE b == Append(buffer, item)
             all == Append(added, item)
  <2>1. added' = all
    BY <1>1 DEF Add
  <2>2. b \in Seq(Item) /\ all \in Seq(Item) /\ Unwritten(b, all, itemsWritten)
    BY <1>0, AppendProperties, AppendKeepsUnwritten
  <2>3. \A i \in 1..itemsWritten : all[i] = added[i]
    <3>1. \A i \in 1..itemsWritten : i \in 1..Len(added)
      BY <1>0, LenProperties DEF Unwritten
    <3> QED BY <1>0, <3>1, AppendProperties
  <2>4. Lost(disk, all, itemsWritten) = Lost(disk, added, itemsWritten)
    BY <2>3 DEF Lost
  <2>5. Accounted(disk, all, itemsWritten, faults)
    BY <2>4 DEF Accounted
  <2>6. \/ flush(b, TRUE)
        \/ buffer' = b /\ itemsWritten' = itemsWritten /\ disk' = disk /\ faults' = faults
    BY <1>1 DEF Add
  <2> HIDE DEF b, all
  <2>7. Costs(b)
    BY <1>0, <2>2, <2>6, FlushCosts, NothingCosts
  <2>8. Accounted(disk', all, itemsWritten', faults')
    BY <1>0, <2>2, <2>5, <2>7, CostsKeepAccount
  <2> QED BY <2>1, <2>8
<1>2. CASE Tick \/ Finish \/ Rotate
  <2>1. Costs(buffer)
    BY <1>0, <1>2, FlushCosts, RotateCosts DEF Tick, Finish
  <2>2. Accounted(disk', added, itemsWritten', faults')
    BY <1>0, <2>1, CostsKeepAccount
  <2>3. added' = added
    BY <1>2 DEF Tick, Finish, Rotate
  <2> QED BY <2>2, <2>3
<1>3. CASE Cancel \/ Elapse
  BY <1>3 DEF Cancel, Elapse, outputVars
<1> QED BY <1>1, <1>2, <1>3 DEF WriterStep

\* A new writer has nothing to account for.
LEMMA WriterInitAccount == WriterInit => FaultsCostOneRow
<1> SUFFICES ASSUME WriterInit
             PROVE  Accounted(disk, added, itemsWritten, faults)
  BY FaultsAreAccounted
<1>1. \A f \in Time : disk[f] = <<>>
  BY DEF WriterInit
<1>2. Torn(disk) = {} /\ Lost(disk, added, itemsWritten) = {}
  BY <1>1 DEF WriterInit, Torn, Lost, IsTorn
<1>3. Cardinality({}) = 0
  BY FS_EmptySet
<1>4. faults = 0
  BY DEF WriterInit
<1> QED BY <1>2, <1>3, <1>4 DEF Accounted

\* Each step, of the writer or of others, keeps the account.
LEMMA WriterStepFaults ==
  ASSUME WriterTypeOK, BufferIsUnwritten, FaultsCostOneRow, WriterStep \/ UNCHANGED writerVars
  PROVE  FaultsCostOneRow'
<1>1. Accounted(disk', added', itemsWritten', faults')
  <2>1. CASE WriterStep
    BY <2>1, WriterStepAccount, FaultsAreAccounted
  <2>2. CASE UNCHANGED writerVars
    BY <2>2, FaultsAreAccounted DEF writerVars, outputVars
  <2> QED BY <2>1, <2>2
<1>2. LostRows' = Lost(disk', added', itemsWritten') /\ TornFiles' = Torn(disk')
  BY DEF LostRows, TornFiles, Lost, Torn, OnDisk, HeldIn
<1> QED BY <1>1, <1>2 DEF FaultsCostOneRow, Accounted

\* Wherever a failing write stops, a failed open or write costs one row at most:
\* the rows counted that are in no file, and the files that end in half a row,
\* are never more than the calls that failed.
THEOREM FaultsAlwaysCostOneRow == WriterSpec => []FaultsCostOneRow
<1>1. WriterTypeOK /\ BufferIsUnwritten /\ FaultsCostOneRow /\ [WriterNext]_writerVars => FaultsCostOneRow'
  BY WriterStepFaults, WriterNextIsStep
<1> QED BY <1>1, WriterInitAccount, WriterTypeCorrect, BufferAlwaysUnwritten, PTL DEF WriterSpec
=============================================================================
