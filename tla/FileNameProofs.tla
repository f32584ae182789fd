--------------------------- MODULE FileNameProofs ---------------------------
(***************************************************************************)
(* The names of the files of a FileWriter, over every sequence of failing  *)
(* opens and writes (also writes that stop inside a row), rotations and    *)
(* retries by another handler.                                             *)
(***************************************************************************)
EXTENDS FileWriterProofs

-----------------------------------------------------------------------------
(* A file is named by its first row.                                       *)

\* The first line of a file, when it is a row, has the stamp in the name.
NamedBy(f, c) == c # <<>> /\ c[1] \in Item => c[1].at = f

\* Rows that may be written to file f: an empty file takes a first row of its stamp.
Fits(f, b) == disk[f] = <<>> => b[1].at = f

\* A file opened and still empty waits for the first row of the buffer.
EmptyFileAwaitsRow ==
  file # NoFile => disk[file] # <<>> \/ (buffer # <<>> /\ buffer[1].at = file)

NameInv == FileNamedByFirstRow /\ EmptyFileAwaitsRow

\* Appending rows to an empty file names it, to another leaves its first line
\* or glues the first row to the fragment that was there.
LEMMA AppendedNamed ==
  ASSUME NEW f \in Time, NEW c \in Seq(Line), NEW rows \in Seq(Item), NamedBy(f, c),
         c = <<>> /\ rows # <<>> => rows[1].at = f
  PROVE  NamedBy(f, Appended(c, rows)) /\ (rows # <<>> \/ c # <<>> => Appended(c, rows) # <<>>)
<1>1. rows \in Seq(Line)
  BY SeqMonotonic DEF Line
<1>2. CASE rows # <<>> /\ IsTorn(c)
  <2> DEFINE d == Front(c) \o <<Garbled>>
  <2>1. Len(c) \in Nat \ {0} /\ Front(c) = SubSeq(c, 1, Len(c) - 1)
    BY <1>2, EmptySeq, LenProperties DEF Front, IsTorn
  <2>2. Front(c) \in Seq(Line) /\ Len(Front(c)) = Len(c) - 1
    <3>1. PICK m \in Nat \ {0} : m = Len(c)
      BY <2>1
    <3>2. \A i \in 1..(m - 1) : c[i] \in Line
      BY <3>1, ElementOfSeq
    <3>3. SubSeq(c, 1, m - 1) \in Seq(Line) /\ Len(SubSeq(c, 1, m - 1)) = m - 1
      BY <3>2, SubSeqProperties
    <3> QED BY <2>1, <3>1, <3>3
  <2>3. <<Garbled>> \in Seq(Line) /\ Len(<<Garbled>>) = 1 /\ <<Garbled>>[1] = Garbled
    BY DEF Line
  <2>4. d \in Seq(Line) /\ Len(d) = Len(c)
    BY <2>1, <2>2, <2>3, ConcatProperties
  <2>5. d[1] = Garbled \/ d[1] = c[1]
    <3>1. CASE Len(c) = 1
      BY <2>2, <2>3, <3>1, ConcatProperties
    <3>2. CASE Len(c) > 1
      <4>1. 1 \in 1..Len(Front(c)) /\ d[1] = Front(c)[1]
        BY <2>1, <2>2, <2>3, <3>2, ConcatProperties
      <4> QED BY <2>1, <4>1, <3>2, SubSeqProperties
    <3> QED BY <2>1, <3>1, <3>2
  <2>6. Tail(rows) \in Seq(Line)
    BY <1>1, <1>2, HeadTailProperties
  <2> HIDE DEF d
  <2>7. Len(d \o Tail(rows)) >= 1 /\ (d \o Tail(rows))[1] = d[1]
    BY <2>1, <2>4, <2>6, ConcatProperties, LenProperties
  <2>8. Appended(c, rows) = d \o Tail(rows)
    BY <1>2 DEF Appended, d
  <2>9. Appended(c, rows) # <<>>
    <3>1. Len(<<>>) = 0
      BY EmptySeq
    <3> QED BY <2>7, <2>8, <3>1
  <2>10. c # <<>>
    BY <1>2 DEF IsTorn
  <2> QED BY <2>5, <2>7, <2>8, <2>9, <2>10, MarksAssumption DEF NamedBy
<1>3. CASE rows = <<>>
  <2>1. Appended(c, rows) = c
    BY <1>3, ConcatProperties DEF Appended
  <2> QED BY <1>3, <2>1
<1>4. CASE rows # <<>> /\ ~IsTorn(c)
  <2>1. Appended(c, rows) = c \o rows
    BY <1>4 DEF Appended
  <2>2. Len(rows) \in Nat \ {0} /\ Len(c) \in Nat
    BY <1>4, EmptySeq, LenProperties
  <2>3. Len(c \o rows) >= 1 /\ c \o rows # <<>>
    BY <1>1, <2>2, ConcatProperties
  <2>4. CASE c = <<>>
    <3>1. Len(c) = 0
      BY <2>4
    <3>2. (c \o rows)[1] = rows[1]
      BY <1>1, <2>2, <3>1, ConcatProperties
    <3> QED BY <1>4, <2>1, <2>3, <2>4, <3>2 DEF NamedBy
  <2>5. CASE c # <<>>
    <3>1. (c \o rows)[1] = c[1]
      BY <1>1, <2>2, <2>5, ConcatProperties, EmptySeq
    <3> QED BY <2>1, <2>3, <2>5, <3>1 DEF NamedBy
  <2> QED BY <2>4, <2>5
<1> QED BY <1>2, <1>3, <1>4

\* A failed write leaves the name right too, or nothing in an empty file.
LEMMA FailedWritesNamed ==
  ASSUME NEW f \in Time, NEW c \in Seq(Line), NEW rows \in Seq(Item), NamedBy(f, c),
         rows # <<>>, c = <<>> => rows[1].at = f,
         NEW d \in FailedWrites(c, rows)
  PROVE  NamedBy(f, d) /\ (c # <<>> => d # <<>>)
<1> DEFINE whole == {Appended(c, SubSeq(rows, 1, k)) : k \in 0..(Len(rows) - 1)}
<1>1. ASSUME NEW k \in 0..(Len(rows) - 1)
      PROVE  /\ Appended(c, SubSeq(rows, 1, k)) \in Seq(Line)
             /\ NamedBy(f, Appended(c, SubSeq(rows, 1, k)))
             /\ c # <<>> => Appended(c, SubSeq(rows, 1, k)) # <<>>
  <2>1. Len(rows) \in Nat
    BY LenProperties
  <2>2. SubSeq(rows, 1, k) \in Seq(Item) /\ Len(SubSeq(rows, 1, k)) = k
    BY <2>1, SubSeqProperties, ElementOfSeq
  <2>3. SubSeq(rows, 1, k) # <<>> => SubSeq(rows, 1, k)[1] = rows[1]
    <3> SUFFICES ASSUME SubSeq(rows, 1, k) # <<>>
                 PROVE  SubSeq(rows, 1, k)[1] = rows[1]
      OBVIOUS
    <3>1. k # 0
      BY <2>2, EmptySeq
    <3> QED BY <2>1, <3>1, SubSeqProperties
  <2> QED BY <2>2, <2>3, AppendedNamed, AppendedLines
<1>2. d \in whole \/ \E w \in whole : d = Append(w, Fragment)
  BY DEF FailedWrites
<1>3. \A w \in whole : w \in Seq(Line) /\ NamedBy(f, w) /\ (c # <<>> => w # <<>>)
  BY <1>1
<1> HIDE DEF whole
<1>4. CASE d \in whole
  BY <1>3, <1>4
<1>5. ASSUME NEW w \in whole, d = Append(w, Fragment)
      PROVE  NamedBy(f, d) /\ d # <<>>
  <2>1. w \in Seq(Line) /\ NamedBy(f, w) /\ Fragment \in Line
    BY <1>3 DEF Line
  <2>2. CASE w = <<>>
    <3>1. d[1] = Fragment /\ d # <<>>
      BY <1>5, <2>2
    <3> QED BY <3>1, MarksAssumption DEF NamedBy
  <2>3. CASE w # <<>>
    <3>1. d[1] = w[1] /\ d # <<>>
      BY <1>5, <2>1, <2>3, AppendProperties, EmptySeq
    <3> QED BY <2>1, <2>3, <3>1 DEF NamedBy
  <2> QED BY <2>2, <2>3
<1> QED BY <1>2, <1>4, <1>5

\* Writing rows that fit keeps every file named, and the rows stay where they
\* are while the file is empty.
LEMMA WriteRowsNamed ==
  ASSUME OutputTypeOK, FileNamedByFirstRow, NEW f \in Time, NEW b \in Seq(Item), b # <<>>,
         Fits(f, b), WriteRows(f, b)
  PROVE  FileNamedByFirstRow' /\ (disk'[f] # <<>> \/ (buffer' = b /\ b[1].at = f))
<1>1. disk \in [Time -> Seq(Line)] /\ disk[f] \in Seq(Line)
  BY DEF OutputTypeOK
<1>2. NamedBy(f, disk[f]) /\ (disk[f] = <<>> => b[1].at = f)
  BY DEF FileNamedByFirstRow, NamedBy, Fits
<1>3. ASSUME NEW d, NamedBy(f, d), disk' = [disk EXCEPT ![f] = d]
      PROVE  FileNamedByFirstRow' /\ disk'[f] = d
  BY <1>1, <1>3 DEF FileNamedByFirstRow, NamedBy
<1>4. CASE disk' = [disk EXCEPT ![f] = Appended(@, b)]
  <2>1. NamedBy(f, Appended(disk[f], b)) /\ Appended(disk[f], b) # <<>>
    BY <1>1, <1>2, AppendedNamed
  <2>2. disk' = [disk EXCEPT ![f] = Appended(disk[f], b)]
    BY <1>1, <1>4
  <2> QED BY <1>3, <2>1, <2>2
<1>5. CASE buffer' = b /\ \E c \in FailedWrites(disk[f], b) : disk' = [disk EXCEPT ![f] = c]
  <2>1. PICK c \in FailedWrites(disk[f], b) : disk' = [disk EXCEPT ![f] = c]
    BY <1>5
  <2>2. NamedBy(f, c) /\ (disk[f] # <<>> => c # <<>>)
    BY <1>1, <1>2, <2>1, FailedWritesNamed
  <2>3. FileNamedByFirstRow' /\ disk'[f] = c
    BY <1>3, <2>1, <2>2
  <2> QED BY <1>2, <1>5, <2>2, <2>3
<1> QED BY <1>4, <1>5 DEF WriteRows

\* A flush of the rows b, which start like the buffer.
LEMMA FlushNamed ==
  ASSUME OutputTypeOK, NameInv, NEW b \in Seq(Item), NEW keepOpen \in BOOLEAN,
         buffer # <<>> => b # <<>> /\ b[1] = buffer[1],
         flush(b, keepOpen)
  PROVE  NameInv'
<1>1. CASE FlushNothing(b, keepOpen)
  BY <1>1 DEF FlushNothing, KeptOpen, NameInv, FileNamedByFirstRow, EmptyFileAwaitsRow
<1>2. CASE FlushCannotOpen(b)
  BY <1>2 DEF FlushCannotOpen, NameInv, FileNamedByFirstRow, EmptyFileAwaitsRow
<1>3. CASE FlushRows(b, keepOpen)
  <2> DEFINE f == IF Expired THEN firstItemTime(b) ELSE file
  <2>1. b # <<>> /\ WriteRows(f, b) /\ file' \in {f, NoFile}
    BY <1>3 DEF FlushRows, KeptOpen
  <2>2. f \in Time
    BY <2>1, FirstItemTimeIsTime DEF Expired, OutputTypeOK
  <2>3. Fits(f, b)
    BY DEF Fits, firstItemTime, Expired, NameInv, EmptyFileAwaitsRow
  <2> HIDE DEF f
  <2>4. FileNamedByFirstRow' /\ (disk'[f] # <<>> \/ (buffer' = b /\ b[1].at = f))
    BY <2>1, <2>2, <2>3, WriteRowsNamed DEF NameInv
  <2> QED BY <2>1, <2>4 DEF NameInv, EmptyFileAwaitsRow
<1> QED BY <1>1, <1>2, <1>3 DEF flush

\* A rotation.
LEMMA RotateNamed ==
  ASSUME OutputTypeOK, NameInv, Rotate
  PROVE  NameInv'
<1>1. CASE RotateCannotOpen
  BY <1>1 DEF RotateCannotOpen, NameInv, FileNamedByFirstRow, EmptyFileAwaitsRow
<1>2. CASE RotateRows
  <2> DEFINE f == IF file = NoFile THEN firstItemTime(buffer) ELSE file
  <2>1. buffer # <<>> /\ WriteRows(f, buffer) /\ file' \in {f, NoFile}
    BY <1>2 DEF RotateRows, RotateClose
  <2>2. f \in Time /\ buffer \in Seq(Item)
    BY <2>1, FirstItemTimeIsTime DEF OutputTypeOK
  <2>3. Fits(f, buffer)
    BY DEF Fits, firstItemTime, NameInv, EmptyFileAwaitsRow
  <2> HIDE DEF f
  <2>4. FileNamedByFirstRow' /\ (disk'[f] # <<>> \/ (buffer' = buffer /\ buffer[1].at = f))
    BY <2>1, <2>2, <2>3, WriteRowsNamed DEF NameInv
  <2> QED BY <2>1, <2>4 DEF NameInv, EmptyFileAwaitsRow
<1>3. CASE RotateEmpty
  BY <1>3 DEF RotateEmpty, RotateClose, NameInv, FileNamedByFirstRow, EmptyFileAwaitsRow
<1> QED BY <1>1, <1>2, <1>3 DEF Rotate

\* Every step of the writer.
LEMMA WriterStepNamed ==
  ASSUME WriterTypeOK, NameInv, WriterStep
  PROVE  NameInv'
<1>0. OutputTypeOK
  BY DEF WriterTypeOK, OutputTypeOK
<1>1. ASSUME NEW item \in Item, Add(item)
      PROVE  NameInv'
  <2> DEFINE b == Append(buffer, item)
  <2>1. b \in Seq(Item) /\ b # <<>> /\ (buffer # <<>> => b[1] = buffer[1])
    BY <1>0, AppendProperties, EmptySeq DEF OutputTypeOK
  <2>2. \/ flush(b, TRUE)
        \/ buffer' = b /\ UNCHANGED <<file, fileStart, itemsWritten, disk, faults>>
    BY <1>1 DEF Add
  <2> HIDE DEF b
  <2>3. CASE flush(b, TRUE)
    BY <1>0, <2>1, <2>3, FlushNamed
  <2>4. CASE buffer' = b /\ UNCHANGED <<file, fileStart, itemsWritten, disk, faults>>
    BY <2>1, <2>4 DEF NameInv, FileNamedByFirstRow, EmptyFileAwaitsRow
  <2> QED BY <2>2, <2>3, <2>4
<1>2. CASE Tick \/ Finish
  BY <1>0, <1>2, FlushNamed DEF Tick, Finish, OutputTypeOK
<1>3. CASE Rotate
  BY <1>0, <1>3, RotateNamed
<1>4. CASE Cancel \/ Elapse
  BY <1>4 DEF Cancel, Elapse, outputVars, NameInv, FileNamedByFirstRow, EmptyFileAwaitsRow
<1> QED BY <1>1, <1>2, <1>3, <1>4 DEF WriterStep

\* The stamp in a file's name is that of the first row stored in it, whichever
\* handler opened the file and whichever wrote to it after failures.
THEOREM FilesNamedByFirstRow == WriterSpec => []FileNamedByFirstRow
<1>1. WriterInit => NameInv
  BY DEF WriterInit, NameInv, FileNamedByFirstRow, EmptyFileAwaitsRow
<1>2. WriterTypeOK /\ NameInv /\ [WriterNext]_writerVars => NameInv'
  <2>1. WriterTypeOK /\ NameInv /\ WriterNext => NameInv'
    BY WriterStepNamed, WriterNextIsStep
  <2>2. NameInv /\ UNCHANGED writerVars => NameInv'
    BY DEF NameInv, FileNamedByFirstRow, EmptyFileAwaitsRow, writerVars, outputVars
  <2> QED BY <2>1, <2>2
<1>3. NameInv => FileNamedByFirstRow
  BY DEF NameInv
<1> QED BY <1>1, <1>2, <1>3, WriterTypeCorrect, PTL DEF WriterSpec

-----------------------------------------------------------------------------
(* The age of a file is that of its name.                                  *)

\* While the goroutine of Start runs and no file is open, fileStart is what
\* a rotation left or what a failed open left, the stamp of the first row.
\* A Rotate that opens a file does not set fileStart and relies on this.
UnopenedStart ==
  loop = "running" /\ file = NoFile =>
    fileStart = Never \/ (buffer # <<>> /\ fileStart = buffer[1].at)

\* The goroutine exits in its ctx.Done branch only.
ExitedIsCancelled == loop = "exited" => cancelled

AgeInv == AgeMeasuredFromName /\ UnopenedStart /\ ExitedIsCancelled

\* A flush that leaves the file open.
LEMMA FlushAges ==
  ASSUME OutputTypeOK, AgeMeasuredFromName, UnopenedStart, NEW b \in Seq(Item),
         buffer # <<>> => b # <<>> /\ b[1] = buffer[1],
         flush(b, TRUE), UNCHANGED loop
  PROVE  AgeMeasuredFromName' /\ UnopenedStart'
<1>1. CASE FlushNothing(b, TRUE)
  BY <1>1 DEF FlushNothing, KeptOpen, AgeMeasuredFromName, UnopenedStart
<1>2. CASE FlushCannotOpen(b)
  BY <1>2 DEF FlushCannotOpen, firstItemTime, AgeMeasuredFromName, UnopenedStart
<1>3. CASE FlushRows(b, TRUE)
  <2>1. firstItemTime(b) \in Time
    BY <1>3, FirstItemTimeIsTime DEF FlushRows
  <2>2. file' = (IF Expired THEN firstItemTime(b) ELSE file)
    BY <1>3 DEF FlushRows, KeptOpen
  <2>3. fileStart' = (IF Expired THEN firstItemTime(b) ELSE fileStart)
    BY <1>3 DEF FlushRows
  <2>4. file' # NoFile
    BY <2>1, <2>2 DEF Expired, Time, NoFile
  <2> QED BY <2>2, <2>3, <2>4 DEF AgeMeasuredFromName, UnopenedStart
<1> QED BY <1>1, <1>2, <1>3 DEF flush

\* The last flush closes the file.
LEMMA FinishAges ==
  ASSUME Finish
  PROVE  AgeInv'
<1>1. file' = NoFile /\ loop' = "exited" /\ cancelled'
  BY DEF Finish, flush, FlushNothing, FlushCannotOpen, FlushRows, KeptOpen
<1> QED BY <1>1 DEF AgeInv, AgeMeasuredFromName, UnopenedStart, ExitedIsCancelled

\* A rotation before the goroutine has exited.
LEMMA RotateAges ==
  ASSUME OutputTypeOK, AgeMeasuredFromName, UnopenedStart, loop = "running", Rotate
  PROVE  AgeMeasuredFromName' /\ UnopenedStart'
<1>0. UNCHANGED loop
  BY DEF Rotate
<1>1. CASE RotateCannotOpen
  BY <1>0, <1>1 DEF RotateCannotOpen, AgeMeasuredFromName, UnopenedStart
<1>2. CASE RotateRows
  <2>1. firstItemTime(buffer) \in Time
    BY <1>2, FirstItemTimeIsTime DEF RotateRows, OutputTypeOK
  <2>2. CASE file' = NoFile /\ fileStart' = Never
    BY <2>2 DEF AgeMeasuredFromName, UnopenedStart
  <2>3. CASE /\ file' = (IF file = NoFile THEN firstItemTime(buffer) ELSE file)
             /\ UNCHANGED fileStart
    BY <2>1, <2>3 DEF AgeMeasuredFromName, UnopenedStart, firstItemTime, Time, NoFile
  <2> QED BY <1>2, <2>2, <2>3 DEF RotateRows, RotateClose
<1>3. CASE RotateEmpty
  BY <1>0, <1>3 DEF RotateEmpty, RotateClose, AgeMeasuredFromName, UnopenedStart
<1> QED BY <1>1, <1>2, <1>3 DEF Rotate

\* The age of an open file is counted from the stamp in its name, or the file
\* is taken as expired (fileStart zero), also where Rotate opened it.
THEOREM AgeAlwaysFromName == WriterSpec => []AgeMeasuredFromName
<1>1. WriterInit => AgeInv
  BY DEF WriterInit, AgeInv, AgeMeasuredFromName, UnopenedStart, ExitedIsCancelled
<1>2. WriterTypeOK /\ AgeInv /\ [WriterNext]_writerVars => AgeInv'
  <2> SUFFICES ASSUME WriterTypeOK, AgeInv, [WriterNext]_writerVars
               PROVE  AgeInv'
    OBVIOUS
  <2>0. OutputTypeOK /\ AgeMeasuredFromName /\ UnopenedStart /\ ExitedIsCancelled
    BY DEF WriterTypeOK, OutputTypeOK, AgeInv
  <2>1. ASSUME NEW item \in Item, Add(item)
        PROVE  AgeInv'
    <3> DEFINE b == Append(buffer, item)
    <3>1. b \in Seq(Item) /\ b # <<>> /\ (buffer # <<>> => b[1] = buffer[1])
      BY <2>0, AppendProperties, EmptySeq DEF OutputTypeOK
    <3>2. \/ flush(b, TRUE)
          \/ buffer' = b /\ UNCHANGED <<file, fileStart, itemsWritten, disk, faults>>
      BY <2>1 DEF Add
    <3>3. UNCHANGED <<loop, cancelled>>
      BY <2>1 DEF Add
    <3> HIDE DEF b
    <3>4. CASE flush(b, TRUE)
      BY <2>0, <3>1, <3>3, <3>4, FlushAges DEF AgeInv, ExitedIsCancelled
    <3>5. CASE buffer' = b /\ UNCHANGED <<file, fileStart, itemsWritten, disk, faults>>
      BY <2>0, <3>1, <3>3, <3>5 DEF AgeInv, AgeMeasuredFromName, UnopenedStart, ExitedIsCancelled
    <3> QED BY <3>2, <3>4, <3>5
  <2>2. CASE Tick
    BY <2>0, <2>2, FlushAges DEF Tick, OutputTypeOK, AgeInv, ExitedIsCancelled
  <2>3. CASE Finish
    BY <2>3, FinishAges
  <2>4. CASE RotateLive
    <3>1. loop = "running" /\ Rotate /\ UNCHANGED <<loop, cancelled>>
      BY <2>0, <2>4 DEF RotateLive, Rotate, ExitedIsCancelled, WriterTypeOK
    <3> QED BY <2>0, <3>1, RotateAges DEF AgeInv, ExitedIsCancelled
  <2>5. CASE Cancel \/ Elapse
    BY <2>0, <2>5 DEF Cancel, Elapse, outputVars, AgeInv, AgeMeasuredFromName, UnopenedStart,
                      ExitedIsCancelled
  <2>6. CASE UNCHANGED writerVars
    BY <2>0, <2>6 DEF writerVars, outputVars, AgeInv, AgeMeasuredFromName, UnopenedStart,
                      ExitedIsCancelled
  <2> QED BY <2>1, <2>2, <2>3, <2>4, <2>5, <2>6 DEF WriterNext, AddSome
<1>3. AgeInv => AgeMeasuredFromName
  BY DEF AgeInv
<1> QED BY <1>1, <1>2, <1>3, WriterTypeCorrect, PTL DEF WriterSpec
=============================================================================
