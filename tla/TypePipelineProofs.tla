------------------------- MODULE TypePipelineProofs -------------------------
(***************************************************************************)
(* What the pipeline of one type keeps for every number of requests and    *)
(* items, every queue size, batch size and latency, and however many calls *)
(* fail.  What the writer keeps is taken from FileWriterProofs, whose      *)
(* lemmas speak of one step of the writer, whoever takes it.               *)
(***************************************************************************)
EXTENDS TypePipeline, FileWriterProofs

\* The item that request r sends as its k-th.
ItemOf(r, k) == [id |-> <<r, k>>, at |-> stamp[r]]

Results == {"pending", "ingested", "rejected"}

-----------------------------------------------------------------------------
(* Steps.                                                                  *)

\* An item of a request is an item.
LEMMA ItemOfIsItem ==
  ASSUME PipelineTypeOK, NEW r \in Request, NEW k \in 1..PerRequest
  PROVE  ItemOf(r, k) \in Item
<1>1. <<r, k>> \in Id
  BY PipelineAssumption
<1>2. stamp[r] \in Time
  BY DEF PipelineTypeOK
<1> QED BY <1>1, <1>2 DEF ItemOf, Item

\* The item in the worker's hand is an item.
LEMMA HandIsItem ==
  ASSUME PipelineTypeOK, hand # <<>>
  PROVE  hand[1] \in Item /\ hand = <<hand[1]>>
BY DEF PipelineTypeOK

\* As a sequence, the hand holds at most one item.
LEMMA HandIsSeq == PipelineTypeOK => hand \in Seq(Item)
<1> SUFFICES ASSUME PipelineTypeOK
             PROVE  hand \in Seq(Item)
  OBVIOUS
<1>1. CASE hand = <<>>
  BY <1>1, EmptySeq
<1>2. ASSUME NEW item \in Item, hand = <<item>>
      PROVE  hand \in Seq(Item)
  <2>1. <<item>> \in Seq(Item)
    OBVIOUS
  <2> QED BY <1>2, <2>1
<1> QED BY <1>1, <1>2 DEF PipelineTypeOK

\* What settling one item changes and what it leaves.
LEMMA SettleOne ==
  ASSUME PipelineTypeOK, NEW r \in Request, NEW k \in 1..PerRequest,
         NEW result \in Results, Settle(r, k, result)
  PROVE  /\ outcome' \in [Request -> [1..PerRequest -> Results]]
         /\ outcome'[r][k] = result
         /\ \A q \in Request, j \in 1..PerRequest :
              q # r \/ j # k => outcome'[q][j] = outcome[q][j]
BY DEF PipelineTypeOK, Settle, Results

\* A send is an acceptance of a pending item or a rejection of it.
LEMMA SendCases ==
  ASSUME NEW r \in Request, IngestSend(r)
  PROVE  \E k \in 1..PerRequest :
           /\ outcome[r][k] = "pending"
           /\ \/ /\ HandOver(ItemOf(r, k)) \/ Enqueue(ItemOf(r, k))
                 /\ accepted' = Append(accepted, ItemOf(r, k))
                 /\ Settle(r, k, "ingested")
              \/ QueueFull /\ Settle(r, k, "rejected") /\ UNCHANGED accepted
BY DEF IngestSend, ItemOf, IsNext, Pending

\* The writer's part of every step of the pipeline is a step of the writer.
LEMMA NextIsWriterStep ==
  ASSUME PipelineTypeOK, Next
  PROVE  WriterStep \/ UNCHANGED writerVars
<1>1. CASE WorkerHandle
  <2>1. Add(hand[1]) /\ hand[1] \in Item
    BY <1>1, HandIsItem DEF WorkerHandle
  <2> QED BY <2>1 DEF WriterStep
<1>2. CASE WorkerTake \/ WorkerPark \/ WorkerSeesCancel \/ WorkerExit
  BY <1>2 DEF WorkerTake, WorkerPark, WorkerSeesCancel, WorkerExit
<1>3. ASSUME NEW r \in Request, Ingest(r)
      PROVE  UNCHANGED writerVars
  BY <1>3 DEF Ingest, IngestSnapshot, IngestStamp, IngestReject, IngestLookup, IngestSend,
              IngestReply
<1>4. CASE StopBegin \/ RemoveBegin \/ EndWait \/ EndReset
  BY <1>4 DEF StopBegin, RemoveBegin, EndWait, EndReset
<1>5. CASE EndCancel
  BY <1>5 DEF EndCancel, WriterStep
<1>6. CASE WriterTick \/ WriterFinish \/ RotateNow \/ ClockTick
  BY <1>6 DEF WriterTick, WriterFinish, RotateNow, ClockTick, WriterStep
<1> QED BY <1>1, <1>2, <1>3, <1>4, <1>5, <1>6 DEF Next, WorkerStep, EndStep

\* Only the worker's handler adds.
LEMMA OnlyHandleAdds ==
  ASSUME Next, ~WorkerHandle
  PROVE  added' = added
<1>1. CASE WorkerTake \/ WorkerPark \/ WorkerSeesCancel \/ WorkerExit
  BY <1>1 DEF WorkerTake, WorkerPark, WorkerSeesCancel, WorkerExit, writerVars
<1>2. ASSUME NEW r \in Request, Ingest(r)
      PROVE  added' = added
  BY <1>2 DEF Ingest, IngestSnapshot, IngestStamp, IngestReject, IngestLookup, IngestSend,
              IngestReply, writerVars
<1>3. CASE StopBegin \/ RemoveBegin \/ EndStep
  BY <1>3 DEF StopBegin, RemoveBegin, EndStep, EndCancel, EndWait, EndReset, Cancel, writerVars
<1>4. CASE WriterTick \/ WriterFinish \/ RotateNow \/ ClockTick
  BY <1>4 DEF WriterTick, WriterFinish, RotateNow, ClockTick, Tick, Finish, Rotate, Elapse
<1> QED BY <1>1, <1>2, <1>3, <1>4 DEF Next, WorkerStep

-----------------------------------------------------------------------------
(* Types.                                                                  *)

WorkerTypeOK ==
  /\ queue \in Seq(Item) /\ Len(queue) <= QueueSize
  /\ worker \in {"select", "parked", "drain", "gone"}
  /\ hand \in {<<>>} \cup {<<item>> : item \in Item}

EndTypeOK ==
  /\ running \in BOOLEAN /\ routed \in BOOLEAN
  /\ ender \in {"none", "stop", "remove"}
  /\ stage \in {"serving", "cancel", "wait", "reset", "done"}
  /\ atCancel \in Nat

RequestTypeOK ==
  /\ phase \in [Request -> {"new", "admitted", "lookup", "send", "replied"}]
  /\ stamp \in [Request -> Time]
  /\ outcome \in [Request -> [1..PerRequest -> Results]]
  /\ accepted \in Seq(Item)

\* PipelineTypeOK by the parts of the state.
LEMMA TypeParts ==
  PipelineTypeOK <=> WriterTypeOK /\ WorkerTypeOK /\ EndTypeOK /\ RequestTypeOK
BY DEF PipelineTypeOK, WorkerTypeOK, EndTypeOK, RequestTypeOK, Results

\* A step of the worker or of a request keeps the worker's types.
LEMMA WorkerStepType ==
  ASSUME PipelineTypeOK, Next
  PROVE  WorkerTypeOK'
<1> USE PipelineAssumption DEF WorkerTypeOK, PipelineTypeOK
<1>1. CASE WorkerTake
  <2>1. Head(queue) \in Item /\ Tail(queue) \in Seq(Item) /\ Len(Tail(queue)) = Len(queue) - 1
    BY <1>1, HeadTailProperties DEF WorkerTake
  <2>2. Len(queue) \in Nat
    BY LenProperties
  <2> QED BY <1>1, <2>1, <2>2 DEF WorkerTake
<1>2. CASE WorkerPark \/ WorkerHandle \/ WorkerSeesCancel \/ WorkerExit
  BY <1>2 DEF WorkerPark, WorkerHandle, WorkerSeesCancel, WorkerExit
<1>3. ASSUME NEW r \in Request, IngestSend(r)
      PROVE  WorkerTypeOK'
  <2>1. PICK k \in 1..PerRequest :
          HandOver(ItemOf(r, k)) \/ Enqueue(ItemOf(r, k)) \/ QueueFull
    BY <1>3, SendCases
  <2>2. ItemOf(r, k) \in Item
    BY ItemOfIsItem
  <2> DEFINE item == ItemOf(r, k)
  <2> HIDE DEF item
  <2>3. CASE HandOver(item)
    BY <2>2, <2>3 DEF HandOver, item
  <2>4. CASE Enqueue(item)
    <3>1. item \in Item
      BY <2>2 DEF item
    <3>2. Append(queue, item) \in Seq(Item) /\ Len(Append(queue, item)) = Len(queue) + 1
      BY <3>1, AppendProperties
    <3>3. Len(queue) \in Nat
      BY LenProperties
    <3> QED BY <2>4, <3>2, <3>3 DEF Enqueue
  <2>5. CASE QueueFull
    BY <2>5 DEF QueueFull, workerVars
  <2> QED BY <2>1, <2>3, <2>4, <2>5 DEF item
<1>4. ASSUME NEW r \in Request, Ingest(r), ~IngestSend(r)
      PROVE  WorkerTypeOK'
  BY <1>4 DEF Ingest, IngestSnapshot, IngestStamp, IngestReject, IngestLookup, IngestReply,
              workerVars
<1>5. CASE StopBegin \/ RemoveBegin \/ EndStep
  BY <1>5 DEF StopBegin, RemoveBegin, EndStep, EndCancel, EndWait, EndReset, workerVars
<1>6. CASE WriterTick \/ WriterFinish \/ RotateNow \/ ClockTick
  BY <1>6 DEF WriterTick, WriterFinish, RotateNow, ClockTick, workerVars
<1> QED BY <1>1, <1>2, <1>3, <1>4, <1>5, <1>6 DEF Next, WorkerStep

\* So does every step for what the end of the pipeline keeps.
LEMMA EndStepType ==
  ASSUME PipelineTypeOK, Next
  PROVE  EndTypeOK'
<1>0. EndTypeOK /\ Len(accepted) \in Nat
  BY TypeParts, LenProperties DEF RequestTypeOK
<1> USE DEF EndTypeOK
<1>1. CASE WorkerStep
  BY <1>0, <1>1 DEF WorkerStep, WorkerTake, WorkerPark, WorkerHandle, WorkerSeesCancel, WorkerExit,
              endVars
<1>2. ASSUME NEW r \in Request, Ingest(r)
      PROVE  EndTypeOK'
  BY <1>0, <1>2 DEF Ingest, IngestSnapshot, IngestStamp, IngestReject, IngestLookup, IngestSend,
              IngestReply, endVars
<1>3. CASE StopBegin \/ RemoveBegin \/ EndStep
  BY <1>0, <1>3 DEF StopBegin, RemoveBegin, EndStep, EndCancel, EndWait, EndReset
<1>4. CASE WriterTick \/ WriterFinish \/ RotateNow \/ ClockTick
  BY <1>0, <1>4 DEF WriterTick, WriterFinish, RotateNow, ClockTick, endVars
<1> QED BY <1>1, <1>2, <1>3, <1>4 DEF Next

\* And for the requests.
LEMMA RequestStepType ==
  ASSUME PipelineTypeOK, Next
  PROVE  RequestTypeOK'
<1>0. RequestTypeOK /\ now \in Time
  BY TypeParts DEF WriterTypeOK
<1> USE DEF RequestTypeOK
<1>1. CASE WorkerStep \/ StopBegin \/ RemoveBegin \/ EndStep
           \/ WriterTick \/ WriterFinish \/ RotateNow \/ ClockTick
  BY <1>0, <1>1 DEF WorkerStep, WorkerTake, WorkerPark, WorkerHandle, WorkerSeesCancel, WorkerExit,
              StopBegin, RemoveBegin, EndStep, EndCancel, EndWait, EndReset,
              WriterTick, WriterFinish, RotateNow, ClockTick, requestVars
<1>2. ASSUME NEW r \in Request, Ingest(r)
      PROVE  RequestTypeOK'
  <2>1. CASE IngestSnapshot(r)
    BY <1>0, <2>1 DEF IngestSnapshot, Results
  <2>2. CASE IngestStamp(r) \/ IngestLookup(r) \/ IngestReply(r)
    BY <1>0, <2>2 DEF IngestStamp, IngestLookup, IngestReply
  <2>3. CASE IngestReject(r)
    <3>1. PICK k \in 1..PerRequest : Settle(r, k, "rejected")
      BY <2>3 DEF IngestReject
    <3>2. outcome' \in [Request -> [1..PerRequest -> Results]]
      BY <3>1, SettleOne DEF Results
    <3> QED BY <1>0, <2>3, <3>2 DEF IngestReject
  <2>4. CASE IngestSend(r)
    <3>1. PICK k \in 1..PerRequest :
            \/ accepted' = Append(accepted, ItemOf(r, k)) /\ Settle(r, k, "ingested")
            \/ UNCHANGED accepted /\ Settle(r, k, "rejected")
      BY <2>4, SendCases
    <3>2. outcome' \in [Request -> [1..PerRequest -> Results]]
      BY <3>1, SettleOne DEF Results
    <3>3. accepted' \in Seq(Item)
      BY <1>0, <3>1, ItemOfIsItem, AppendProperties
    <3>4. phase' = [phase EXCEPT ![r] = "lookup"] /\ stamp' = stamp
      BY <2>4 DEF IngestSend
    <3> QED BY <1>0, <3>2, <3>3, <3>4
  <2> QED BY <1>2, <2>1, <2>2, <2>3, <2>4 DEF Ingest
<1> QED BY <1>1, <1>2 DEF Next

\* One step keeps all types.
LEMMA PipelineStepType ==
  ASSUME PipelineTypeOK, [Next]_vars
  PROVE  PipelineTypeOK'
<1>1. CASE Next
  <2>1. WriterTypeOK'
    <3>1. WriterTypeOK
      BY TypeParts
    <3>2. WriterStep \/ UNCHANGED writerVars
      BY <1>1, NextIsWriterStep
    <3>3. CASE UNCHANGED writerVars
      BY <3>1, <3>3 DEF writerVars, outputVars, WriterTypeOK
    <3> QED BY <3>1, <3>2, <3>3, WriterStepType
  <2> QED BY <1>1, <2>1, WorkerStepType, EndStepType, RequestStepType
             DEF PipelineTypeOK, WorkerTypeOK, EndTypeOK, RequestTypeOK, Results
<1>2. CASE UNCHANGED vars
  BY <1>2 DEF vars, writerVars, outputVars, workerVars, endVars, requestVars,
              PipelineTypeOK, WriterTypeOK
<1> QED BY <1>1, <1>2

\* Type correctness of the pipeline, with the channel never over its capacity.
THEOREM PipelineTypeCorrect == Spec => []PipelineTypeOK
<1>1. Init => PipelineTypeOK
  <2> SUFFICES ASSUME Init
               PROVE  PipelineTypeOK
    OBVIOUS
  <2>1. WriterTypeOK
    BY WriterInitType DEF Init
  <2>2. RequestTypeOK
    BY WriterAssumption DEF Init, RequestTypeOK, Results, Time
  <2>3. WorkerTypeOK /\ EndTypeOK
    BY PipelineAssumption DEF Init, WorkerTypeOK, EndTypeOK
  <2> QED BY <2>1, <2>2, <2>3, TypeParts
<1> QED BY <1>1, PipelineStepType, PTL DEF Spec

-----------------------------------------------------------------------------
(* The writer's invariants hold of it in the pipeline.                     *)

\* Every item added and not counted is in the buffer, in order, also while the
\* pipeline is being ended.
THEOREM PipelineBufferUnwritten == Spec => []BufferIsUnwritten
<1>1. Init => BufferIsUnwritten
  BY WriterInitDisk DEF Init
<1>2. PipelineTypeOK /\ BufferIsUnwritten /\ [Next]_vars => BufferIsUnwritten'
  <2> SUFFICES ASSUME PipelineTypeOK, BufferIsUnwritten, [Next]_vars
               PROVE  BufferIsUnwritten'
    OBVIOUS
  <2>1. WriterStep \/ UNCHANGED writerVars
    BY NextIsWriterStep DEF vars
  <2>2. CASE UNCHANGED writerVars
    BY <2>2 DEF writerVars, outputVars, BufferIsUnwritten
  <2> QED BY <2>1, <2>2, TypeParts, WriterStepUnwritten
<1> QED BY <1>1, <1>2, PipelineTypeCorrect, PTL DEF Spec

\* The files hold only whole rows of added items, and all that is counted.
LEMMA PipelineDisk ==
  ASSUME ~TornWrites
  PROVE  Spec => []DiskInv
<1>1. Init => DiskInv
  BY WriterInitDisk DEF Init
<1>2. PipelineTypeOK /\ BufferIsUnwritten /\ DiskInv /\ [Next]_vars => DiskInv'
  <2> SUFFICES ASSUME PipelineTypeOK, BufferIsUnwritten, DiskInv, [Next]_vars
               PROVE  DiskInv'
    OBVIOUS
  <2>1. WriterStep \/ UNCHANGED writerVars
    BY NextIsWriterStep DEF vars
  <2>2. CASE UNCHANGED writerVars
    BY <2>2 DEF writerVars, outputVars, DiskInv, WholeRows, WrittenRowsOnDisk, DiskIsAdded,
                OnDisk, HeldIn
  <2> QED BY <2>1, <2>2, TypeParts, WriterStepDisk
<1> QED BY <1>1, <1>2, PipelineTypeCorrect, PipelineBufferUnwritten, PTL DEF Spec

-----------------------------------------------------------------------------
(* First in, first out.                                                    *)

\* A worker blocked in its select has nothing to do.
ParkedIsEmpty == worker = "parked" => hand = <<>> /\ queue = <<>>

\* Hand and queue as one sequence of items.
LEMMA InFlightItems ==
  ASSUME PipelineTypeOK
  PROVE  /\ InFlight \in Seq(Item)
         /\ Len(InFlight) = Len(hand) + Len(queue)
         /\ hand = <<>> => InFlight = queue
         /\ \A i \in 1..Len(queue) : InFlight[Len(hand) + i] = queue[i]
<1>1. hand \in Seq(Item) /\ queue \in Seq(Item)
  BY HandIsSeq DEF PipelineTypeOK
<1> DEFINE h == Len(hand)
           q == Len(queue)
<1>2. h \in Nat /\ q \in Nat
  BY <1>1, LenProperties
<1>3. /\ InFlight \in Seq(Item) /\ Len(InFlight) = h + q
      /\ \A j \in 1..(h + q) : InFlight[j] = IF j <= h THEN hand[j] ELSE queue[j - h]
  BY <1>1, ConcatProperties DEF InFlight
<1>4. hand = <<>> => InFlight = queue
  BY <1>1, ConcatEmptySeq DEF InFlight
<1> HIDE DEF h, q
<1>5. ASSUME NEW i \in 1..q
      PROVE  InFlight[h + i] = queue[i]
  <2>1. h + i \in 1..(h + q) /\ ~(h + i <= h) /\ (h + i) - h = i
    BY <1>2
  <2> QED BY <1>3, <2>1
<1> QED BY <1>3, <1>4, <1>5 DEF h, q

\* Taking the head of the queue leaves the sequence as it is.
LEMMA TakeKeepsInFlight ==
  ASSUME PipelineTypeOK, WorkerTake
  PROVE  InFlight' = InFlight
<1>1. hand' = <<Head(queue)>> /\ queue' = Tail(queue) /\ hand = <<>> /\ queue # <<>>
  BY DEF WorkerTake
<1>2. queue \in Seq(Item)
  BY DEF PipelineTypeOK
<1>3. <<Head(queue)>> \o Tail(queue) = queue
  BY <1>1, <1>2
<1> QED BY <1>1, <1>2, <1>3 DEF InFlight

\* What was sent is what was added followed by what is in flight.
Delivered(all, done, flight) ==
  /\ Len(all) = Len(done) + Len(flight)
  /\ \A i \in 1..Len(done) : done[i] = all[i]
  /\ \A i \in 1..Len(flight) : flight[i] = all[Len(done) + i]

\* A send puts one more item behind both.
LEMMA SendDelivers ==
  ASSUME NEW all \in Seq(Item), NEW done \in Seq(Item), NEW flight \in Seq(Item),
         NEW item \in Item, Delivered(all, done, flight)
  PROVE  Delivered(Append(all, item), done, Append(flight, item))
<1> DEFINE n == Len(all)
           d == Len(done)
           f == Len(flight)
<1>1. n \in Nat /\ d \in Nat /\ f \in Nat /\ n = d + f
  BY LenProperties DEF Delivered
<1>2. /\ Len(Append(all, item)) = n + 1 /\ Len(Append(flight, item)) = f + 1
      /\ \A i \in 1..n : Append(all, item)[i] = all[i]
      /\ \A i \in 1..f : Append(flight, item)[i] = flight[i]
      /\ Append(all, item)[n + 1] = item /\ Append(flight, item)[f + 1] = item
  BY AppendProperties
<1>3. /\ \A i \in 1..d : done[i] = all[i]
      /\ \A i \in 1..f : flight[i] = all[d + i]
  BY DEF Delivered
<1> HIDE DEF n, d, f
<1>4. \A i \in 1..d : done[i] = Append(all, item)[i]
  BY <1>1, <1>2, <1>3
<1>5. ASSUME NEW i \in 1..(f + 1)
      PROVE  Append(flight, item)[i] = Append(all, item)[d + i]
  <2>1. CASE i \in 1..f
    BY <1>1, <1>2, <1>3, <2>1
  <2>2. CASE i = f + 1
    <3>1. d + i = n + 1
      BY <1>1, <2>2
    <3> QED BY <1>2, <2>2, <3>1
  <2>3. i \in 1..f \/ i = f + 1
    BY <1>1
  <2> QED BY <2>1, <2>2, <2>3
<1>6. n + 1 = d + (f + 1)
  BY <1>1
<1>7. Len(done) = d
  BY DEF d
<1> QED BY <1>2, <1>4, <1>5, <1>6, <1>7 DEF Delivered

\* The handler moves the first item in flight behind those added.
LEMMA HandleDelivers ==
  ASSUME NEW all \in Seq(Item), NEW done \in Seq(Item), NEW rest \in Seq(Item),
         NEW flight \in Seq(Item), NEW item \in Item,
         Len(flight) = Len(rest) + 1, flight[1] = item,
         \A i \in 1..Len(rest) : flight[1 + i] = rest[i],
         Delivered(all, done, flight)
  PROVE  Delivered(all, Append(done, item), rest)
<1> DEFINE n == Len(all)
           d == Len(done)
           e == Len(rest)
<1>1. n \in Nat /\ d \in Nat /\ e \in Nat /\ n = d + (e + 1)
  BY LenProperties DEF Delivered
<1>2. /\ Len(Append(done, item)) = d + 1
      /\ \A i \in 1..d : Append(done, item)[i] = done[i]
      /\ Append(done, item)[d + 1] = item
  BY AppendProperties
<1>3. /\ \A i \in 1..d : done[i] = all[i]
      /\ \A i \in 1..(e + 1) : flight[i] = all[d + i]
      /\ \A i \in 1..e : flight[1 + i] = rest[i]
  BY DEF Delivered
<1> HIDE DEF n, d, e
<1>4. ASSUME NEW i \in 1..(d + 1)
      PROVE  Append(done, item)[i] = all[i]
  <2>1. CASE i \in 1..d
    BY <1>1, <1>2, <1>3, <2>1
  <2>2. CASE i = d + 1
    <3>1. 1 \in 1..(e + 1)
      BY <1>1
    <3>2. flight[1] = all[d + 1]
      BY <1>3, <3>1
    <3> QED BY <1>2, <2>2, <3>2
  <2>3. i \in 1..d \/ i = d + 1
    BY <1>1
  <2> QED BY <2>1, <2>2, <2>3
<1>5. ASSUME NEW i \in 1..e
      PROVE  rest[i] = all[(d + 1) + i]
  <2>1. 1 + i \in 1..(e + 1) /\ d + (1 + i) = (d + 1) + i
    BY <1>1
  <2> QED BY <1>3, <2>1
<1>6. n = (d + 1) + e
  BY <1>1
<1>7. Len(all) = n /\ Len(rest) = e
  BY DEF n, e
<1> QED BY <1>2, <1>4, <1>5, <1>6, <1>7 DEF Delivered

FifoInv == ParkedIsEmpty /\ FifoConservation

\* One step of the pipeline keeps it.
LEMMA FifoStep ==
  ASSUME PipelineTypeOK, FifoInv, Next
  PROVE  FifoInv'
<1>0. /\ Delivered(accepted, added, InFlight)
      /\ accepted \in Seq(Item) /\ added \in Seq(Item) /\ queue \in Seq(Item)
      /\ InFlight \in Seq(Item)
  BY InFlightItems DEF FifoInv, FifoConservation, Delivered, PipelineTypeOK, WriterTypeOK
<1> SUFFICES Delivered(accepted', added', InFlight') /\ ParkedIsEmpty'
  BY DEF FifoInv, FifoConservation, Delivered
<1>1. CASE WorkerTake
  <2>1. InFlight' = InFlight /\ UNCHANGED <<accepted, added>> /\ worker' # "parked"
    BY <1>1, TakeKeepsInFlight DEF WorkerTake, writerVars, requestVars
  <2> QED BY <1>0, <2>1 DEF ParkedIsEmpty
<1>2. CASE WorkerHandle
  <2>1. hand[1] \in Item /\ hand = <<hand[1]>> /\ Len(hand) = 1
    BY <1>2, HandIsItem DEF WorkerHandle
  <2>2. added' = Append(added, hand[1]) /\ accepted' = accepted
    BY <1>2 DEF WorkerHandle, Add, requestVars
  <2>3. hand' = <<>> /\ queue' = queue /\ worker' = worker
    BY <1>2 DEF WorkerHandle
  <2>4. InFlight' = queue
    BY <1>0, <2>3 DEF InFlight
  <2>5. /\ Len(InFlight) = Len(queue) + 1
        /\ \A i \in 1..Len(queue) : InFlight[1 + i] = queue[i]
    BY <2>1, InFlightItems, LenProperties, <1>0
  <2>6. InFlight[1] = hand[1]
    <3>1. hand \in Seq(Item)
      BY HandIsSeq
    <3>2. 1 \in 1..(Len(hand) + Len(queue)) /\ 1 <= Len(hand)
      BY <1>0, <2>1, LenProperties
    <3> QED BY <1>0, <3>1, <3>2, ConcatProperties DEF InFlight
  <2>7. Delivered(accepted, Append(added, hand[1]), queue)
    BY <1>0, <2>1, <2>5, <2>6, HandleDelivers
  <2>8. worker # "parked"
    BY <1>2 DEF WorkerHandle, FifoInv, ParkedIsEmpty
  <2> QED BY <2>2, <2>3, <2>4, <2>7, <2>8 DEF ParkedIsEmpty
<1>3. CASE WorkerPark \/ WorkerSeesCancel \/ WorkerExit
  BY <1>0, <1>3 DEF WorkerPark, WorkerSeesCancel, WorkerExit, writerVars, requestVars, InFlight,
                    ParkedIsEmpty
<1>4. ASSUME NEW r \in Request, IngestSend(r)
      PROVE  Delivered(accepted', added', InFlight') /\ ParkedIsEmpty'
  <2>1. PICK k \in 1..PerRequest :
          \/ /\ HandOver(ItemOf(r, k)) \/ Enqueue(ItemOf(r, k))
             /\ accepted' = Append(accepted, ItemOf(r, k))
          \/ QueueFull /\ UNCHANGED accepted
    BY <1>4, SendCases
  <2>2. ItemOf(r, k) \in Item
    BY ItemOfIsItem
  <2> DEFINE item == ItemOf(r, k)
  <2> HIDE DEF item
  <2>3. added' = added /\ item \in Item
    BY <1>4, <2>2 DEF IngestSend, writerVars, item
  <2>4. CASE HandOver(item) /\ accepted' = Append(accepted, item)
    <3>1. hand = <<>> /\ queue = <<>> /\ hand' = <<item>> /\ queue' = <<>> /\ worker' = "select"
      BY <2>4 DEF HandOver, FifoInv, ParkedIsEmpty
    <3>2. InFlight = <<>> /\ InFlight' = <<item>>
      BY <2>3, <3>1 DEF InFlight
    <3>3. <<item>> = Append(<<>>, item) /\ <<>> \in Seq(Item)
      BY <2>3
    <3>4. Delivered(Append(accepted, item), added, Append(InFlight, item))
      BY <1>0, <2>3, SendDelivers
    <3> QED BY <2>3, <2>4, <3>1, <3>2, <3>3, <3>4 DEF ParkedIsEmpty
  <2>5. CASE Enqueue(item) /\ accepted' = Append(accepted, item)
    <3>1. hand' = hand /\ queue' = Append(queue, item) /\ worker' = worker /\ worker # "parked"
      BY <2>5 DEF Enqueue
    <3>2. hand \in Seq(Item)
      BY HandIsSeq
    <3>3. hand \o Append(queue, item) = Append(hand \o queue, item)
      BY <1>0, <2>3, <3>2
    <3>4. InFlight' = Append(InFlight, item)
      BY <3>1, <3>3 DEF InFlight
    <3>5. Delivered(Append(accepted, item), added, Append(InFlight, item))
      BY <1>0, <2>3, SendDelivers
    <3> QED BY <2>3, <2>5, <3>1, <3>4, <3>5 DEF ParkedIsEmpty
  <2>6. CASE QueueFull /\ UNCHANGED accepted
    BY <1>0, <2>3, <2>6 DEF QueueFull, workerVars, InFlight, FifoInv, ParkedIsEmpty
  <2> QED BY <2>1, <2>4, <2>5, <2>6 DEF item
<1>5. ASSUME NEW r \in Request, Ingest(r), ~IngestSend(r)
      PROVE  Delivered(accepted', added', InFlight') /\ ParkedIsEmpty'
  BY <1>0, <1>5 DEF Ingest, IngestSnapshot, IngestStamp, IngestReject, IngestLookup, IngestReply,
              workerVars, writerVars, InFlight, FifoInv, ParkedIsEmpty
<1>6. CASE StopBegin \/ RemoveBegin \/ EndStep
  BY <1>0, <1>6 DEF StopBegin, RemoveBegin, EndStep, EndCancel, EndWait, EndReset, Cancel,
              workerVars, writerVars, requestVars, InFlight, FifoInv, ParkedIsEmpty
<1>7. CASE WriterTick \/ WriterFinish \/ RotateNow \/ ClockTick
  <2>1. UNCHANGED <<accepted, added, queue, hand, worker>>
    BY <1>7 DEF WriterTick, WriterFinish, RotateNow, ClockTick, Tick, Finish, Rotate, Elapse,
                workerVars, requestVars
  <2> QED BY <1>0, <2>1 DEF InFlight, FifoInv, ParkedIsEmpty
<1> QED BY <1>1, <1>2, <1>3, <1>4, <1>5, <1>6, <1>7 DEF Next, WorkerStep

\* Over every interleaving of senders, worker and shutdown, no accepted item is
\* lost, repeated or overtaken between the send and Add.
THEOREM DeliveredInOrder == Spec => [](ParkedIsEmpty /\ FifoConservation)
<1>1. Init => FifoInv
  <2> SUFFICES ASSUME Init
               PROVE  FifoInv
    OBVIOUS
  <2>1. accepted = <<>> /\ added = <<>> /\ InFlight = <<>> /\ worker = "select"
    BY DEF Init, WriterInit, InFlight
  <2> QED BY <2>1 DEF FifoInv, FifoConservation, ParkedIsEmpty
<1>2. PipelineTypeOK /\ FifoInv /\ [Next]_vars => FifoInv'
  <2>1. FifoInv /\ UNCHANGED vars => FifoInv'
    BY DEF vars, writerVars, workerVars, requestVars, FifoInv, FifoConservation, ParkedIsEmpty,
           InFlight
  <2> QED BY <2>1, FifoStep
<1>3. FifoInv <=> ParkedIsEmpty /\ FifoConservation
  BY DEF FifoInv
<1> QED BY <1>1, <1>2, <1>3, PipelineTypeCorrect, PTL DEF Spec

-----------------------------------------------------------------------------
(* The end of the pipeline.                                                *)

\* The worker leaves only after the cancellation, with nothing in its hand and
\* all that was accepted by then added; the handlers that end the pipeline
\* wait for it.
EndInv ==
  /\ worker = "gone" => hand = <<>> /\ atCancel <= Len(added)
  /\ worker \in {"drain", "gone"} => cancelled
  /\ cancelled => stage \in {"wait", "reset", "done"}
  /\ stage \in {"reset", "done"} => worker = "gone"
  /\ atCancel <= Len(accepted)

\* One step of the pipeline keeps it.
LEMMA EndInvStep ==
  ASSUME PipelineTypeOK, FifoConservation, EndInv, Next
  PROVE  EndInv'
<1>0. /\ Len(accepted) \in Nat /\ Len(added) \in Nat /\ atCancel \in Nat /\ Len(queue) \in Nat
      /\ accepted \in Seq(Item) /\ added \in Seq(Item)
      /\ worker \in {"select", "parked", "drain", "gone"}
      /\ stage \in {"serving", "cancel", "wait", "reset", "done"}
  BY LenProperties DEF PipelineTypeOK, WriterTypeOK
<1> USE DEF EndInv
<1>1. CASE WorkerTake \/ WorkerPark \/ WorkerSeesCancel
  BY <1>1 DEF WorkerTake, WorkerPark, WorkerSeesCancel, writerVars, endVars, requestVars
<1>2. CASE WorkerHandle
  BY <1>2 DEF WorkerHandle, Add, endVars, requestVars
<1>3. CASE WorkerExit
  <2>1. hand = <<>> /\ queue = <<>>
    BY <1>3 DEF WorkerExit
  <2>2. Len(InFlight) = 0
    BY <2>1, InFlightItems
  <2>3. atCancel <= Len(added)
    BY <1>0, <2>2 DEF FifoConservation
  <2> QED BY <1>3, <2>3 DEF WorkerExit, writerVars, endVars, requestVars
<1>4. ASSUME NEW r \in Request, IngestSend(r)
      PROVE  EndInv'
  <2>1. PICK k \in 1..PerRequest :
          \/ /\ HandOver(ItemOf(r, k)) \/ Enqueue(ItemOf(r, k))
             /\ accepted' = Append(accepted, ItemOf(r, k))
          \/ QueueFull /\ UNCHANGED accepted
    BY <1>4, SendCases
  <2>2. atCancel <= Len(accepted')
    BY <1>0, <2>1, ItemOfIsItem, AppendProperties
  <2>3. UNCHANGED <<added, cancelled, stage, atCancel>>
    BY <1>4 DEF IngestSend, writerVars, endVars
  <2>4. UNCHANGED <<worker, hand>> \/ (worker = "parked" /\ worker' = "select")
    BY <2>1 DEF HandOver, Enqueue, QueueFull, workerVars
  <2> QED BY <2>2, <2>3, <2>4
<1>5. ASSUME NEW r \in Request, Ingest(r), ~IngestSend(r)
      PROVE  EndInv'
  BY <1>5 DEF Ingest, IngestSnapshot, IngestStamp, IngestReject, IngestLookup, IngestReply,
              workerVars, writerVars, endVars
<1>6. CASE StopBegin \/ RemoveBegin \/ EndWait \/ EndReset
  BY <1>0, <1>6 DEF StopBegin, RemoveBegin, EndWait, EndReset, workerVars, writerVars, requestVars
<1>7. CASE EndCancel
  BY <1>0, <1>7 DEF EndCancel, Cancel, requestVars
<1>8. CASE WriterTick \/ WriterFinish \/ RotateNow \/ ClockTick
  <2>1. UNCHANGED <<added, cancelled>>
    BY <1>8 DEF WriterTick, WriterFinish, RotateNow, ClockTick, Tick, Finish, Rotate, Elapse
  <2>2. UNCHANGED <<worker, hand, stage, atCancel, accepted>>
    BY <1>8 DEF WriterTick, WriterFinish, RotateNow, ClockTick, workerVars, endVars, requestVars
  <2> QED BY <2>1, <2>2
<1> QED BY <1>1, <1>2, <1>3, <1>4, <1>5, <1>6, <1>7, <1>8 DEF Next, WorkerStep, EndStep

\* It holds of every state.
LEMMA EndAlways == Spec => []EndInv
<1>1. Init => EndInv
  <2> SUFFICES ASSUME Init
               PROVE  EndInv
    OBVIOUS
  <2>1. Len(<<>>) = 0
    OBVIOUS
  <2> QED BY <2>1 DEF Init, WriterInit, EndInv
<1>2. PipelineTypeOK /\ FifoConservation /\ EndInv /\ [Next]_vars => EndInv'
  <2>1. EndInv /\ UNCHANGED vars => EndInv'
    BY DEF vars, writerVars, workerVars, endVars, requestVars, EndInv
  <2> QED BY <2>1, EndInvStep
<1> QED BY <1>1, <1>2, PipelineTypeCorrect, DeliveredInOrder, PTL DEF Spec

\* When stop or remove has waited, the writer has been handed every item that
\* was accepted before the cancellation.
THEOREM DrainsBeforeReturning == Spec => []DrainedBeforeReturn
<1>1. PipelineTypeOK /\ EndInv => DrainedBeforeReturn
  <2> SUFFICES ASSUME PipelineTypeOK, EndInv
               PROVE  DrainedBeforeReturn
    OBVIOUS
  <2>1. Len(added) \in Nat /\ atCancel \in Nat
    BY LenProperties DEF PipelineTypeOK, WriterTypeOK
  <2> QED BY <2>1 DEF EndInv, DrainedBeforeReturn
<1> QED BY <1>1, PipelineTypeCorrect, EndAlways, PTL

\* An ended pipeline leaves at most a channel's capacity of accepted items behind,
\* so none where the channel is unbuffered.
THEOREM AtMostAQueueStranded == Spec => []StrandedFitQueue
<1>1. PipelineTypeOK /\ FifoConservation /\ EndInv => StrandedFitQueue
  <2> SUFFICES ASSUME PipelineTypeOK, FifoConservation, EndInv, stage = "done"
               PROVE  Len(accepted) - Len(added) <= QueueSize
    BY DEF StrandedFitQueue
  <2>1. hand = <<>>
    BY DEF EndInv
  <2>2. Len(InFlight) = Len(queue)
    BY <2>1, InFlightItems
  <2>3. Len(added) \in Nat /\ Len(queue) \in Nat
    BY LenProperties DEF PipelineTypeOK, WriterTypeOK
  <2> QED BY <2>2, <2>3, PipelineAssumption DEF FifoConservation, PipelineTypeOK
<1> QED BY <1>1, PipelineTypeCorrect, DeliveredInOrder, EndAlways, PTL

-----------------------------------------------------------------------------
(* No silent drops.                                                        *)

\* Until a request looks up its first item it has settled none.
NewArePending ==
  \A r \in Request, k \in 1..PerRequest :
    phase[r] \in {"new", "admitted"} => outcome[r][k] = "pending"

RepliedAreSettled ==
  \A r \in Request, k \in 1..PerRequest : phase[r] = "replied" => outcome[r][k] # "pending"

\* The acceptances the answers speak of are those of the channel.
Occurs(all, x) == \E i \in 1..Len(all) : all[i].id = x
AnswersAreTrue ==
  \A r \in Request, k \in 1..PerRequest :
    (outcome[r][k] = "ingested") <=> Occurs(accepted, <<r, k>>)

Distinct(all) == \A i, j \in 1..Len(all) : all[i].id = all[j].id => i = j

AnswerInv == NewArePending /\ RepliedAreSettled /\ AnswersAreTrue /\ Distinct(accepted)

\* One more item, of an identity not seen before.
LEMMA AppendNew ==
  ASSUME NEW all \in Seq(Item), NEW item \in Item, Distinct(all), ~Occurs(all, item.id)
  PROVE  /\ Distinct(Append(all, item))
         /\ \A x : Occurs(Append(all, item), x) <=> Occurs(all, x) \/ x = item.id
<1> DEFINE n == Len(all)
           new == Append(all, item)
<1>1. n \in Nat
  BY LenProperties
<1>2. Len(new) = n + 1 /\ new[n + 1] = item /\ \A i \in 1..n : new[i] = all[i]
  BY AppendProperties
<1>3. /\ \A i, j \in 1..n : all[i].id = all[j].id => i = j
      /\ \A i \in 1..n : all[i].id # item.id
  BY DEF Distinct, Occurs
<1>4. /\ \A x : Occurs(all, x) <=> \E i \in 1..n : all[i].id = x
      /\ \A x : Occurs(new, x) <=> \E i \in 1..(n + 1) : new[i].id = x
      /\ Distinct(new) <=> \A i, j \in 1..(n + 1) : new[i].id = new[j].id => i = j
  BY <1>2 DEF Distinct, Occurs
<1> HIDE DEF n, new
<1>5. \A i \in 1..(n + 1) : i \in 1..n \/ i = n + 1
  BY <1>1
<1>6. \A i \in 1..n : i \in 1..(n + 1)
  BY <1>1
<1>7. n + 1 \in 1..(n + 1)
  BY <1>1
<1>8. Distinct(new)
  BY <1>2, <1>3, <1>4, <1>5
<1>9. \A x : Occurs(new, x) <=> Occurs(all, x) \/ x = item.id
  BY <1>2, <1>4, <1>5, <1>6, <1>7
<1> QED BY <1>8, <1>9 DEF new

\* A send accepts only an item that was not accepted before.
LEMMA AcceptsNew ==
  ASSUME AnswerInv, NEW r \in Request, NEW k \in 1..PerRequest, outcome[r][k] = "pending"
  PROVE  ~Occurs(accepted, ItemOf(r, k).id)
BY DEF AnswerInv, AnswersAreTrue, ItemOf

\* Steps that concern no request leave the answers alone.
LEMMA AnswersLeftAlone ==
  ASSUME AnswerInv, UNCHANGED requestVars
  PROVE  AnswerInv'
<1>1. phase' = phase /\ outcome' = outcome /\ accepted' = accepted
  BY DEF requestVars
<1>2. NewArePending' /\ RepliedAreSettled'
  BY <1>1 DEF AnswerInv, NewArePending, RepliedAreSettled
<1>3. AnswersAreTrue'
  BY <1>1 DEF AnswerInv, AnswersAreTrue, Occurs
<1>4. Distinct(accepted')
  BY <1>1 DEF AnswerInv
<1> QED BY <1>2, <1>3, <1>4 DEF AnswerInv

\* One step of the pipeline keeps the answers true.
LEMMA AnswerStep ==
  ASSUME PipelineTypeOK, AnswerInv, Next
  PROVE  AnswerInv'
<1>0. /\ phase \in [Request -> {"new", "admitted", "lookup", "send", "replied"}]
      /\ outcome \in [Request -> [1..PerRequest -> Results]]
      /\ accepted \in Seq(Item)
  BY DEF PipelineTypeOK, Results
<1>1. CASE UNCHANGED requestVars
  BY <1>1, AnswersLeftAlone
<1>2. ASSUME NEW r \in Request, Ingest(r)
      PROVE  AnswerInv'
  <2>1. CASE IngestSnapshot(r)
    <3>1. /\ accepted' = accepted
          /\ \A q \in Request : q # r => outcome'[q] = outcome[q] /\ phase'[q] = phase[q]
      BY <1>0, <2>1 DEF IngestSnapshot
    <3>2. \A k \in 1..PerRequest : outcome[r][k] = "pending"
      BY <2>1 DEF IngestSnapshot, AnswerInv, NewArePending
    <3>3. \/ phase'[r] = "admitted" /\ outcome' = outcome
          \/ phase'[r] = "replied" /\ \A k \in 1..PerRequest : outcome'[r][k] = "rejected"
      BY <1>0, <2>1 DEF IngestSnapshot
    <3>4. NewArePending' /\ RepliedAreSettled'
      BY <3>1, <3>2, <3>3 DEF AnswerInv, NewArePending, RepliedAreSettled
    <3>5. \A k \in 1..PerRequest : ~Occurs(accepted, <<r, k>>) /\ outcome'[r][k] # "ingested"
      BY <3>2, <3>3 DEF AnswerInv, AnswersAreTrue
    <3>6. AnswersAreTrue'
      <4> SUFFICES ASSUME NEW q \in Request, NEW j \in 1..PerRequest
                   PROVE  (outcome'[q][j] = "ingested") <=> Occurs(accepted', <<q, j>>)
        BY DEF AnswersAreTrue
      <4>1. CASE q = r
        BY <3>1, <3>5, <4>1
      <4>2. CASE q # r
        BY <3>1, <4>2 DEF AnswerInv, AnswersAreTrue
      <4> QED BY <4>1, <4>2
    <3> QED BY <3>1, <3>4, <3>6 DEF AnswerInv, Distinct
  <2>2. CASE IngestStamp(r) \/ IngestLookup(r) \/ IngestReply(r)
    <3>1. /\ accepted' = accepted /\ outcome' = outcome
          /\ \A q \in Request : q # r => phase'[q] = phase[q]
      BY <1>0, <2>2 DEF IngestStamp, IngestLookup, IngestReply
    <3>2. \/ phase'[r] \in {"lookup", "send"}
          \/ phase'[r] = "replied" /\ \A k \in 1..PerRequest : outcome[r][k] # "pending"
      BY <1>0, <2>2 DEF IngestStamp, IngestLookup, IngestReply, Pending
    <3>3. NewArePending' /\ RepliedAreSettled'
      BY <3>1, <3>2 DEF AnswerInv, NewArePending, RepliedAreSettled
    <3>4. AnswersAreTrue'
      BY <3>1 DEF AnswerInv, AnswersAreTrue, Occurs
    <3> QED BY <3>1, <3>3, <3>4 DEF AnswerInv, Distinct
  <2>3. CASE IngestReject(r) \/ IngestSend(r)
    <3>1. PICK k \in 1..PerRequest :
            /\ outcome[r][k] = "pending"
            /\ \/ accepted' = Append(accepted, ItemOf(r, k)) /\ Settle(r, k, "ingested")
               \/ UNCHANGED accepted /\ Settle(r, k, "rejected")
      <4>1. CASE IngestReject(r)
        BY <4>1 DEF IngestReject, IsNext, Pending
      <4>2. CASE IngestSend(r)
        BY <4>2, SendCases
      <4> QED BY <2>3, <4>1, <4>2
    <3>2. \A q \in Request, j \in 1..PerRequest :
            q # r \/ j # k => outcome'[q][j] = outcome[q][j]
      BY <3>1, SettleOne DEF Results
    <3>3. /\ phase'[r] = "lookup"
          /\ \A q \in Request : q # r => phase'[q] = phase[q]
      BY <1>0, <2>3 DEF IngestReject, IngestSend
    <3>4. NewArePending' /\ RepliedAreSettled'
      BY <3>2, <3>3 DEF AnswerInv, NewArePending, RepliedAreSettled
    <3>5. ItemOf(r, k) \in Item /\ ItemOf(r, k).id = <<r, k>>
      BY ItemOfIsItem DEF ItemOf
    <3>6. ~Occurs(accepted, <<r, k>>)
      BY <3>1 DEF AnswerInv, AnswersAreTrue
    <3>7. CASE accepted' = Append(accepted, ItemOf(r, k)) /\ Settle(r, k, "ingested")
      <4>1. outcome'[r][k] = "ingested"
        BY <3>7, SettleOne DEF Results
      <4>2. /\ Distinct(accepted')
            /\ \A x : Occurs(accepted', x) <=> Occurs(accepted, x) \/ x = <<r, k>>
        <5> DEFINE item == ItemOf(r, k)
        <5>1. item \in Item /\ item.id = <<r, k>> /\ accepted' = Append(accepted, item)
          BY <3>5, <3>7
        <5> HIDE DEF item
        <5>2. accepted \in Seq(Item) /\ Distinct(accepted) /\ ~Occurs(accepted, item.id)
          BY <1>0, <3>6, <5>1 DEF AnswerInv
        <5>3. /\ Distinct(Append(accepted, item))
              /\ \A x : Occurs(Append(accepted, item), x) <=> Occurs(accepted, x) \/ x = item.id
          BY <5>1, <5>2, AppendNew
        <5> QED BY <5>1, <5>3
      <4>3. AnswersAreTrue'
        <5> SUFFICES ASSUME NEW q \in Request, NEW j \in 1..PerRequest
                     PROVE  (outcome'[q][j] = "ingested") <=> Occurs(accepted', <<q, j>>)
          BY DEF AnswersAreTrue
        <5>1. CASE q = r /\ j = k
          BY <4>1, <4>2, <5>1
        <5>2. CASE q # r \/ j # k
          <6>1. <<q, j>> # <<r, k>>
            BY <5>2
          <6> QED BY <3>2, <4>2, <5>2, <6>1 DEF AnswerInv, AnswersAreTrue
        <5> QED BY <5>1, <5>2
      <4> QED BY <3>4, <4>2, <4>3 DEF AnswerInv
    <3>8. CASE UNCHANGED accepted /\ Settle(r, k, "rejected")
      <4>1. outcome'[r][k] = "rejected"
        BY <3>8, SettleOne DEF Results
      <4>2. AnswersAreTrue'
        <5> SUFFICES ASSUME NEW q \in Request, NEW j \in 1..PerRequest
                     PROVE  (outcome'[q][j] = "ingested") <=> Occurs(accepted', <<q, j>>)
          BY DEF AnswersAreTrue
        <5>1. CASE q = r /\ j = k
          BY <3>6, <3>8, <4>1, <5>1
        <5>2. CASE q # r \/ j # k
          BY <3>2, <3>8, <5>2 DEF AnswerInv, AnswersAreTrue
        <5> QED BY <5>1, <5>2
      <4> QED BY <3>4, <3>8, <4>2 DEF AnswerInv, Distinct
    <3> QED BY <3>1, <3>7, <3>8
  <2> QED BY <1>2, <2>1, <2>2, <2>3 DEF Ingest
<1>3. CASE WorkerStep \/ StopBegin \/ RemoveBegin \/ EndStep
           \/ WriterTick \/ WriterFinish \/ RotateNow \/ ClockTick
  <2>1. UNCHANGED requestVars
    BY <1>3 DEF WorkerStep, WorkerTake, WorkerPark, WorkerHandle, WorkerSeesCancel, WorkerExit,
                StopBegin, RemoveBegin, EndStep, EndCancel, EndWait, EndReset,
                WriterTick, WriterFinish, RotateNow, ClockTick
  <2> QED BY <1>1, <2>1
<1> QED BY <1>2, <1>3 DEF Next

\* It holds of every state.
LEMMA AnswersAlways == Spec => []AnswerInv
<1>1. Init => AnswerInv
  <2> SUFFICES ASSUME Init
               PROVE  AnswerInv
    OBVIOUS
  <2>1. /\ accepted = <<>>
        /\ \A r \in Request : phase[r] = "new" /\ \A k \in 1..PerRequest : outcome[r][k] = "pending"
    BY DEF Init
  <2>2. 1..Len(<<>>) = {}
    OBVIOUS
  <2> QED BY <2>1, <2>2 DEF AnswerInv, NewArePending, RepliedAreSettled, AnswersAreTrue,
                            Distinct, Occurs
<1>2. PipelineTypeOK /\ AnswerInv /\ [Next]_vars => AnswerInv'
  <2>1. AnswerInv /\ UNCHANGED vars => AnswerInv'
    BY AnswersLeftAlone DEF vars
  <2> QED BY <2>1, AnswerStep
<1> QED BY <1>1, <1>2, PipelineTypeCorrect, PTL DEF Spec

\* An item counted as ingested was accepted by the channel, once; every item
\* that was not is reported rejected when the request is answered.
THEOREM NothingDroppedSilently == Spec => []NoSilentDrops
<1>1. AnswerInv => NoSilentDrops
  BY DEF AnswerInv, RepliedAreSettled, AnswersAreTrue, Distinct, Occurs, NoSilentDrops
<1> QED BY <1>1, AnswersAlways, PTL

-----------------------------------------------------------------------------
(* What reaches the disk through the pipeline.                             *)

\* When a failing write stops at the end of a row, what a writer driven by its
\* worker has counted is whole in a file.
THEOREM PipelineRowsOnDisk ==
  ASSUME ~TornWrites
  PROVE  Spec => []WrittenRowsOnDisk
<1>1. DiskInv => WrittenRowsOnDisk
  BY DEF DiskInv
<1> QED BY <1>1, PipelineDisk, PTL

\* What the worker hands to Add was accepted once, so it is new.
LEMMA HandIsNew ==
  ASSUME PipelineTypeOK, FifoConservation, AnswerInv, hand # <<>>
  PROVE  IsNew(hand[1])
<1>1. /\ Len(added) \in Nat /\ Len(accepted) \in Nat /\ Len(queue) \in Nat
      /\ hand \in Seq(Item) /\ queue \in Seq(Item) /\ Len(hand) = 1
  BY HandIsSeq, HandIsItem, LenProperties DEF PipelineTypeOK, WriterTypeOK
<1>2. Len(InFlight) = 1 + Len(queue) /\ InFlight[1] = hand[1]
  <2>1. /\ Len(InFlight) = Len(hand) + Len(queue)
        /\ \A i \in 1..(Len(hand) + Len(queue)) :
             InFlight[i] = IF i <= Len(hand) THEN hand[i] ELSE queue[i - Len(hand)]
    BY <1>1, ConcatProperties DEF InFlight
  <2>2. 1 \in 1..(Len(hand) + Len(queue)) /\ 1 <= Len(hand)
    BY <1>1
  <2> QED BY <1>1, <2>1, <2>2
<1>3. /\ Len(accepted) = Len(added) + (1 + Len(queue))
      /\ \A i \in 1..Len(added) : added[i] = accepted[i]
      /\ hand[1] = accepted[Len(added) + 1]
  BY <1>1, <1>2 DEF FifoConservation
<1>4. Len(added) + 1 \in 1..Len(accepted) /\ \A i \in 1..Len(added) : i \in 1..Len(accepted) /\ i # Len(added) + 1
  BY <1>1, <1>3
<1>5. \A i \in 1..Len(added) : added[i].id # hand[1].id
  BY <1>3, <1>4 DEF AnswerInv, Distinct
<1> QED BY <1>5 DEF IsNew

\* The order of requests that overtake each other is settled at the channel: as
\* each file's first copies were added, so they were accepted. Retries keep that.
THEOREM PipelineFilesInOrder ==
  ASSUME ~TornWrites
  PROVE  Spec => []FirstCopiesInOrder
<1>1. Init => OrderInv
  BY WriterInitOrder DEF Init
<1>2. /\ PipelineTypeOK /\ BufferIsUnwritten /\ FifoConservation /\ AnswerInv /\ OrderInv
      /\ [Next]_vars
      => OrderInv'
  <2> SUFFICES ASSUME PipelineTypeOK, BufferIsUnwritten, FifoConservation, AnswerInv, OrderInv,
                      [Next]_vars
               PROVE  OrderInv'
    OBVIOUS
  <2>1. NewItemStep \/ UNCHANGED writerVars
    <3>1. CASE WorkerHandle
      <4>1. hand # <<>> /\ Add(hand[1])
        BY <3>1 DEF WorkerHandle
      <4>2. hand[1] \in Item /\ IsNew(hand[1])
        BY <4>1, HandIsItem, HandIsNew
      <4> QED BY <4>1, <4>2 DEF NewItemStep
    <3>2. CASE Next /\ ~WorkerHandle
      <4>1. WriterStep \/ UNCHANGED writerVars
        BY <3>2, NextIsWriterStep
      <4>2. added' = added
        BY <3>2, OnlyHandleAdds
      <4>3. ASSUME NEW item \in Item, Add(item)
            PROVE  FALSE
        <5>1. added' = Append(added, item) /\ added \in Seq(Item)
          BY <4>3 DEF Add, PipelineTypeOK, WriterTypeOK
        <5>2. Len(added') = Len(added) + 1 /\ Len(added) \in Nat
          BY <5>1, AppendProperties, LenProperties
        <5> QED BY <4>2, <5>2
      <4> QED BY <4>1, <4>3 DEF WriterStep, NewItemStep
    <3>3. CASE UNCHANGED vars
      BY <3>3 DEF vars
    <3> QED BY <3>1, <3>2, <3>3
  <2>2. CASE UNCHANGED writerVars
    BY <2>2 DEF OrderInv, WholeRows, writerVars, outputVars
  <2> QED BY <2>1, <2>2, TypeParts, WriterStepOrder
<1> QED BY <1>1, <1>2, OrderIsOfFirstCopies, PipelineTypeCorrect, PipelineBufferUnwritten,
           DeliveredInOrder, AnswersAlways, PTL DEF Spec

\* Wherever a failing write stops, an open or write that fails costs an accepted
\* item at most, if its worker drives the writer.
THEOREM PipelineFaultsCostOneRow == Spec => []FaultsCostOneRow
<1>1. Init => FaultsCostOneRow
  BY WriterInitAccount DEF Init
<1>2. PipelineTypeOK /\ BufferIsUnwritten /\ FaultsCostOneRow /\ [Next]_vars => FaultsCostOneRow'
  <2> SUFFICES ASSUME PipelineTypeOK, BufferIsUnwritten, FaultsCostOneRow, [Next]_vars
               PROVE  FaultsCostOneRow'
    OBVIOUS
  <2>1. WriterStep \/ UNCHANGED writerVars
    BY NextIsWriterStep DEF vars
  <2> QED BY <2>1, TypeParts, WriterStepFaults
<1> QED BY <1>1, <1>2, PipelineTypeCorrect, PipelineBufferUnwritten, PTL DEF Spec

-----------------------------------------------------------------------------
(* The pipeline implements ItemStore.                                      *)

\* What a state of the pipeline has to do with its log.
LogInv == PipelineTypeOK /\ BufferIsUnwritten /\ FifoConservation /\ DiskInv

\* The counter is within the log, visible items are in it, and what is counted is visible.
StoreInv ==
  /\ itemsWritten \in 0..Len(accepted)
  /\ Visible \subseteq Promise!Logged
  /\ \A i \in 1..itemsWritten : accepted[i] \in Visible

\* It follows from the invariants of the pipeline's parts.
LEMMA LogHoldsAll ==
  ASSUME LogInv
  PROVE  StoreInv
<1>1. /\ Len(added) \in Nat /\ Len(buffer) \in Nat /\ Len(accepted) \in Nat /\ Len(InFlight) \in Nat
      /\ itemsWritten \in Nat /\ added \in Seq(Item) /\ accepted \in Seq(Item)
  BY InFlightItems, LenProperties DEF LogInv, PipelineTypeOK, WriterTypeOK
<1>2. itemsWritten <= Len(added) /\ Len(added) <= Len(accepted)
  BY <1>1 DEF LogInv, BufferIsUnwritten, FifoConservation
<1>3. \A i \in 1..Len(added) : added[i] = accepted[i] /\ i \in 1..Len(accepted)
  BY <1>1, <1>2 DEF LogInv, FifoConservation
<1>4. ASSUME NEW item \in Item, OnDisk(item)
      PROVE  item \in Promise!Logged
  <2>1. item \in Range(added)
    BY <1>4 DEF LogInv, DiskInv, DiskIsAdded, OnDisk, HeldIn
  <2>2. PICK i \in 1..Len(added) : item = added[i]
    BY <1>1, <2>1, LenProperties DEF Range
  <2> QED BY <1>3, <2>2 DEF Promise!Logged
<1>5. ASSUME NEW i \in 1..itemsWritten
      PROVE  accepted[i] \in Visible
  <2>1. i \in 1..Len(added)
    BY <1>1, <1>2
  <2>2. added[i] \in Item /\ OnDisk(added[i])
    BY <1>1, <2>1, ElementOfSeq DEF LogInv, DiskInv, WrittenRowsOnDisk
  <2> QED BY <1>3, <2>1, <2>2 DEF Visible
<1> QED BY <1>1, <1>2, <1>4, <1>5 DEF StoreInv, Visible

\* A step that sends nothing stores, or leaves things as they are.
LEMMA StoreStep ==
  ASSUME StoreInv', accepted' = accepted, itemsWritten <= itemsWritten',
         itemsWritten \in Nat, Visible \subseteq Visible'
  PROVE  Promise!Store
<1>1. /\ itemsWritten' \in 0..Len(accepted')
      /\ Visible' \subseteq Promise!Logged'
      /\ \A i \in 1..itemsWritten' : accepted'[i] \in Visible'
  BY DEF StoreInv
<1>2. itemsWritten' \in itemsWritten..Len(accepted)
  BY <1>1
<1>3. Visible' \in SUBSET Promise!Logged
  BY <1>1 DEF Promise!Logged
<1> QED BY <1>1, <1>2, <1>3 DEF Promise!Store

\* A step of the pipeline is a step of ItemStore.
LEMMA StepIsPromised ==
  ASSUME ~TornWrites, LogInv, StoreInv', AnswerInv, [Next]_vars
  PROVE  [Promise!Next]_Promise!storeVars
<1>0. /\ PipelineTypeOK /\ WriterTypeOK /\ itemsWritten \in Nat /\ WholeRows
  BY DEF LogInv, PipelineTypeOK, WriterTypeOK, DiskInv
<1>1. WriterStep \/ UNCHANGED writerVars
  BY <1>0, NextIsWriterStep DEF vars
<1>2. Visible \subseteq Visible' /\ itemsWritten <= itemsWritten'
  <2>1. CASE WriterStep
    BY <1>0, <2>1, WriterStepGrows DEF Visible, OnDisk, HeldIn
  <2>2. CASE UNCHANGED writerVars
    BY <1>0, <2>2 DEF writerVars, outputVars, Visible, OnDisk
  <2> QED BY <1>1, <2>1, <2>2
<1>3. CASE accepted' = accepted
  BY <1>0, <1>2, <1>3, StoreStep DEF Promise!Next
<1>4. CASE accepted' # accepted
  <2>1. PICK r \in Request : IngestSend(r)
    BY <1>4 DEF vars, requestVars, Next, WorkerStep, WorkerTake, WorkerPark, WorkerHandle,
       WorkerSeesCancel, WorkerExit, Ingest, IngestSnapshot, IngestStamp, IngestReject,
       IngestLookup, IngestReply, StopBegin, RemoveBegin, EndStep, EndCancel, EndWait, EndReset,
       WriterTick, WriterFinish, RotateNow, ClockTick
  <2>2. PICK k \in 1..PerRequest :
          outcome[r][k] = "pending" /\ accepted' = Append(accepted, ItemOf(r, k))
    BY <1>4, <2>1, SendCases
  <2>3. ItemOf(r, k) \in Item
    BY <1>0, ItemOfIsItem
  <2>4. ItemOf(r, k) \notin Promise!Logged
    BY <2>2, AcceptsNew DEF Promise!Logged, Occurs
  <2>5. UNCHANGED writerVars
    BY <2>1 DEF IngestSend
  <2>6. UNCHANGED <<itemsWritten, Visible>>
    BY <2>5 DEF writerVars, outputVars, Visible, OnDisk
  <2>7. Promise!Accept
    BY <2>2, <2>3, <2>4, <2>6 DEF Promise!Accept
  <2> QED BY <2>7 DEF Promise!Next
<1> QED BY <1>3, <1>4

\* The pipeline of one type, whatever its sizes and faults, is an ItemStore where
\* failing writes stop at the end of a row: accepted items form a log, a prefix
\* of it is counted, the prefix is visible, and nothing visible is taken back.
THEOREM PipelineImplementsItemStore ==
  ASSUME ~TornWrites
  PROVE  Spec => ImplementsItemStore
<1>1. Init => Promise!Init
  <2> SUFFICES ASSUME Init
               PROVE  Promise!Init
    OBVIOUS
  <2>1. accepted = <<>> /\ itemsWritten = 0 /\ \A f \in Time : disk[f] = <<>>
    BY DEF Init, WriterInit
  <2>2. \A item \in Item : ~OnDisk(item)
    BY <2>1 DEF OnDisk, Range
  <2> QED BY <2>1, <2>2 DEF Promise!Init, Visible
<1>2. LogInv /\ StoreInv' /\ AnswerInv /\ [Next]_vars => [Promise!Next]_Promise!storeVars
  BY StepIsPromised
<1>3. Spec => []LogInv
  <2>1. Spec => []DiskInv
    BY PipelineDisk
  <2>2. PipelineTypeOK /\ BufferIsUnwritten /\ FifoConservation /\ DiskInv => LogInv
    BY DEF LogInv
  <2> QED BY <2>1, <2>2, PipelineTypeCorrect, PipelineBufferUnwritten, DeliveredInOrder, PTL
<1>4. LogInv => StoreInv
  BY LogHoldsAll
<1> QED BY <1>1, <1>2, <1>3, <1>4, AnswersAlways, PTL DEF Spec, ImplementsItemStore, Promise!Spec
=============================================================================
