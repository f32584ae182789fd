---------------------------- MODULE TypePipeline ----------------------------
(***************************************************************************)
(* One item type of a running server, from the ingest handlers that accept *)
(* its items to the file they are written to: the bounded queue and        *)
(* goroutine of pipeline/worker.go, the writer of FileWriter, and the two  *)
(* requests that end them, pipeline/stop and definition/remove.            *)
(*                                                                         *)
(* Each ingest request carries PerRequest items of this type.  It reads    *)
(* the server's state under s.mu and then goes on without it, so between   *)
(* any two of its steps the pipeline may be cancelled, drained or gone.    *)
(***************************************************************************)
EXTENDS FileWriter

CONSTANTS Request,     \* bound: the ingest requests of a behaviour
          PerRequest,  \* bound: items of this type in each
          QueueSize    \* writerQueueSize; 0 is an unbuffered channel

ASSUME PipelineAssumption ==
  /\ PerRequest \in Nat \ {0} /\ QueueSize \in Nat
  /\ Id = Request \X (1..PerRequest)

VARIABLES queue,     \* contents of the worker's channel
          worker,    \* its goroutine: at the outer select, blocked in it ("parked"), draining, gone
          hand,      \* the item its handler is being called with, if any
          running,   \* s.running
          routed,    \* is the type in the routing table?
          ender,     \* who ends the pipeline: "none", "stop" or "remove"
          stage,     \* how far that handler is: "serving", "cancel", "wait", "reset", "done"
          phase,     \* of each request: "new", "admitted", "lookup", "send", "replied"
          stamp,     \* of each request: the ingest time of all its items
          outcome,   \* of each item of each request: "pending", "ingested" or "rejected"
          accepted,  \* history: the items sent to the channel, in order
          atCancel   \* history: how many of them before the cancellation

workerVars  == <<queue, worker, hand>>
endVars     == <<running, routed, ender, stage, atCancel>>
requestVars == <<phase, stamp, outcome, accepted>>
vars        == <<writerVars, workerVars, endVars, requestVars>>

PipelineTypeOK ==
  /\ WriterTypeOK
  /\ queue \in Seq(Item) /\ Len(queue) <= QueueSize
  /\ worker \in {"select", "parked", "drain", "gone"}
  /\ hand \in {<<>>} \cup {<<item>> : item \in Item}
  /\ running \in BOOLEAN /\ routed \in BOOLEAN
  /\ ender \in {"none", "stop", "remove"}
  /\ stage \in {"serving", "cancel", "wait", "reset", "done"}
  /\ phase \in [Request -> {"new", "admitted", "lookup", "send", "replied"}]
  /\ stamp \in [Request -> Time]
  /\ outcome \in [Request -> [1..PerRequest -> {"pending", "ingested", "rejected"}]]
  /\ accepted \in Seq(Item) /\ atCancel \in Nat

\* After startType returned and the start handler set s.running.
Init ==
  /\ WriterInit
  /\ queue = <<>> /\ worker = "select" /\ hand = <<>>
  /\ running = TRUE /\ routed = TRUE
  /\ ender = "none" /\ stage = "serving" /\ atCancel = 0
  /\ phase = [r \in Request |-> "new"]
  /\ stamp = [r \in Request |-> 0]
  /\ outcome = [r \in Request |-> [k \in 1..PerRequest |-> "pending"]]
  /\ accepted = <<>>

-----------------------------------------------------------------------------
(* The worker's goroutine.                                                 *)

\* Both selects take the next item from the channel when there is one.
WorkerTake ==
  /\ worker \in {"select", "drain"} /\ hand = <<>> /\ queue # <<>>
  /\ hand' = <<Head(queue)>>
  /\ queue' = Tail(queue)
  /\ UNCHANGED <<writerVars, worker, endVars, requestVars>>

WorkerPark ==
  /\ worker = "select" /\ hand = <<>> /\ queue = <<>> /\ ~cancelled
  /\ worker' = "parked"
  /\ UNCHANGED <<writerVars, queue, hand, endVars, requestVars>>

\* handler(item), which is the writer's Add.
WorkerHandle ==
  /\ hand # <<>>
  /\ Add(hand[1])
  /\ hand' = <<>>
  /\ UNCHANGED <<queue, worker, endVars, requestVars>>

\* Mutant: the goroutine returns without draining its queue.
WorkerLeavesAtOnce ==
  /\ worker = "select" /\ hand = <<>> /\ cancelled
  /\ worker' = "gone"
  /\ UNCHANGED <<writerVars, queue, hand, endVars, requestVars>>

\* With items still queued, the select may choose ctx.Done.
WorkerSeesCancel ==
  /\ worker = "select" /\ hand = <<>> /\ cancelled
  /\ worker' = "drain"
  /\ UNCHANGED <<writerVars, queue, hand, endVars, requestVars>>

\* The default branch of the drain loop.
WorkerExit ==
  /\ worker = "drain" /\ hand = <<>> /\ queue = <<>>
  /\ worker' = "gone"
  /\ UNCHANGED <<writerVars, queue, hand, endVars, requestVars>>

WorkerStep == WorkerTake \/ WorkerPark \/ WorkerHandle \/ WorkerSeesCancel \/ WorkerExit

-----------------------------------------------------------------------------
(* handleIngest.                                                           *)

Pending(r) == {k \in 1..PerRequest : outcome[r][k] = "pending"}

\* The item the loop has come to.
IsNext(r, k) == k \in Pending(r) /\ \A j \in Pending(r) : k <= j

Settle(r, k, result) == outcome' = [outcome EXCEPT ![r][k] = result]

\* The RLock section: a stopped pipeline answers 409.  After definition/remove
\* the copied definitions lack the type and no item converts.
IngestSnapshot(r) ==
  /\ phase[r] = "new"
  /\ IF running /\ ender # "remove"
     THEN phase' = [phase EXCEPT ![r] = "admitted"] /\ UNCHANGED outcome
     ELSE /\ phase' = [phase EXCEPT ![r] = "replied"]
          /\ outcome' = [outcome EXCEPT ![r] = [k \in 1..PerRequest |-> "rejected"]]
  /\ UNCHANGED <<writerVars, workerVars, endVars, stamp, accepted>>

\* One time stamp for the whole request.
IngestStamp(r) ==
  /\ phase[r] = "admitted"
  /\ stamp' = [stamp EXCEPT ![r] = now]
  /\ phase' = [phase EXCEPT ![r] = "lookup"]
  /\ UNCHANGED <<writerVars, workerVars, endVars, outcome, accepted>>

\* ConvertItem rejects the item, or LookupType returns nil.
IngestReject(r) ==
  /\ phase[r] = "lookup"
  /\ \E k \in 1..PerRequest : IsNext(r, k) /\ Settle(r, k, "rejected")
  /\ UNCHANGED <<writerVars, workerVars, endVars, phase, stamp, accepted>>

\* LookupType returns the descriptor that holds the worker's channel.
IngestLookup(r) ==
  /\ phase[r] = "lookup" /\ Pending(r) # {} /\ routed
  /\ phase' = [phase EXCEPT ![r] = "send"]
  /\ UNCHANGED <<writerVars, workerVars, endVars, stamp, outcome, accepted>>

\* Mutant: an item overtakes those queued, into the hands of a busy worker.
HandOverAnyTime(item) == hand' = <<item>> /\ worker' = "select" /\ UNCHANGED queue

\* Mutant: the queue takes one item more.
EnqueueOneMore(item) ==
  /\ worker # "parked" /\ Len(queue) <= QueueSize
  /\ queue' = Append(queue, item)
  /\ UNCHANGED <<worker, hand>>

\* The non-blocking send: to a worker blocked in its select, else into the
\* channel's buffer, else the default branch, "worker queue full".
HandOver(item) == worker = "parked" /\ hand' = <<item>> /\ worker' = "select" /\ UNCHANGED queue

Enqueue(item) ==
  /\ worker # "parked" /\ Len(queue) < QueueSize
  /\ queue' = Append(queue, item)
  /\ UNCHANGED <<worker, hand>>

QueueFull == worker # "parked" /\ Len(queue) >= QueueSize /\ UNCHANGED workerVars

\* Mutant: an item turned away from a full queue is counted as ingested.
IngestSendDrops(r) ==
  /\ phase[r] = "send"
  /\ \E k \in 1..PerRequest :
       LET item == [id |-> <<r, k>>, at |-> stamp[r]]
       IN  /\ IsNext(r, k)
           /\ \/ (HandOver(item) \/ Enqueue(item)) /\ accepted' = Append(accepted, item)
              \/ QueueFull /\ UNCHANGED accepted
           /\ Settle(r, k, "ingested")
  /\ phase' = [phase EXCEPT ![r] = "lookup"]
  /\ UNCHANGED <<writerVars, endVars, stamp>>

IngestSend(r) ==
  /\ phase[r] = "send"
  /\ \E k \in 1..PerRequest :
       LET item == [id |-> <<r, k>>, at |-> stamp[r]]
       IN  /\ IsNext(r, k)
           /\ \/ /\ HandOver(item) \/ Enqueue(item)
                 /\ accepted' = Append(accepted, item)
                 /\ Settle(r, k, "ingested")
              \/ QueueFull /\ Settle(r, k, "rejected") /\ UNCHANGED accepted
  /\ phase' = [phase EXCEPT ![r] = "lookup"]
  /\ UNCHANGED <<writerVars, endVars, stamp>>

IngestReply(r) ==
  /\ phase[r] = "lookup" /\ Pending(r) = {}
  /\ phase' = [phase EXCEPT ![r] = "replied"]
  /\ UNCHANGED <<writerVars, workerVars, endVars, stamp, outcome, accepted>>

Ingest(r) ==
  \/ IngestSnapshot(r) \/ IngestStamp(r) \/ IngestReject(r)
  \/ IngestLookup(r) \/ IngestSend(r) \/ IngestReply(r)

-----------------------------------------------------------------------------
(* The end of the pipeline.                                                *)

\* handlePipelineStop under s.mu.
StopBegin ==
  /\ stage = "serving"
  /\ running' = FALSE
  /\ ender' = "stop" /\ stage' = "cancel"
  /\ UNCHANGED <<writerVars, workerVars, routed, atCancel, requestVars>>

\* handleDefinitionRemove under s.mu: RemoveItemType comes first.
RemoveBegin ==
  /\ stage = "serving"
  /\ routed' = FALSE
  /\ ender' = "remove" /\ stage' = "cancel"
  /\ UNCHANGED <<writerVars, workerVars, running, atCancel, requestVars>>

\* Mutant: a worker blocked in its select does not notice the cancellation.
EndCancelUnnoticed ==
  /\ stage = "cancel"
  /\ Cancel
  /\ atCancel' = Len(accepted)
  /\ stage' = "wait"
  /\ UNCHANGED <<workerVars, running, routed, ender, requestVars>>

\* cancel(), with s.mu released; it wakes a worker blocked in its select.
EndCancel ==
  /\ stage = "cancel"
  /\ Cancel
  /\ worker' = IF worker = "parked" THEN "drain" ELSE worker
  /\ atCancel' = Len(accepted)
  /\ stage' = "wait"
  /\ UNCHANGED <<queue, hand, running, routed, ender, requestVars>>

\* entry.wg.Wait() returns once both goroutines have exited.
EndWait ==
  /\ stage = "wait" /\ loop = "exited" /\ worker = "gone"
  /\ stage' = IF ender = "stop" THEN "reset" ELSE "done"
  /\ UNCHANGED <<writerVars, workerVars, running, routed, ender, atCancel, requestVars>>

\* pipeline.Reset(), which only the stop handler calls.
EndReset ==
  /\ stage = "reset"
  /\ routed' = FALSE
  /\ stage' = "done"
  /\ UNCHANGED <<writerVars, workerVars, running, ender, atCancel, requestVars>>

EndStep == EndCancel \/ EndWait \/ EndReset

-----------------------------------------------------------------------------
(* The steps of the writer alone.  pipeline/rotate holds s.mu for reading  *)
(* and finds the writer in s.types, so it comes before StopBegin or        *)
(* RemoveBegin.                                                            *)

WriterTick   == Tick /\ UNCHANGED <<workerVars, endVars, requestVars>>
WriterFinish == Finish /\ UNCHANGED <<workerVars, endVars, requestVars>>
RotateNow    == stage = "serving" /\ Rotate /\ UNCHANGED <<workerVars, endVars, requestVars>>
ClockTick    == Elapse /\ UNCHANGED <<workerVars, endVars, requestVars>>

Next ==
  \/ WorkerStep
  \/ \E r \in Request : Ingest(r)
  \/ StopBegin \/ RemoveBegin \/ EndStep
  \/ WriterTick \/ WriterFinish \/ RotateNow \/ ClockTick

Spec == Init /\ [][Next]_vars

\* Goroutines that can run do run: the worker, the ticker of the writer, its
\* final flush, and the handler that ends the pipeline.  An ingest request,
\* a rotation or the passing of time is never owed.
Fairness ==
  /\ WF_vars(WorkerStep) /\ WF_vars(WriterTick) /\ WF_vars(WriterFinish)
  /\ WF_vars(EndStep)

FairSpec == Spec /\ Fairness

-----------------------------------------------------------------------------
(* Properties.                                                             *)

\* What was sent to the channel and what has reached Add, is being handled or
\* is queued are one sequence: over every interleaving of senders, worker and
\* shutdown no accepted item is lost, repeated or overtaken on the way.
InFlight == hand \o queue
FifoConservation ==
  /\ Len(accepted) = Len(added) + Len(InFlight)
  /\ \A i \in 1..Len(added) : added[i] = accepted[i]
  /\ \A i \in 1..Len(InFlight) : InFlight[i] = accepted[Len(added) + i]

\* README "no silent drops": an item is counted as ingested in the answer
\* exactly when it is accepted, once; every other item is reported rejected.
NoSilentDrops ==
  /\ \A i, j \in 1..Len(accepted) : accepted[i].id = accepted[j].id => i = j
  /\ \A r \in Request, k \in 1..PerRequest :
       /\ phase[r] = "replied" => outcome[r][k] # "pending"
       /\ (outcome[r][k] = "ingested") <=> \E i \in 1..Len(accepted) : accepted[i].id = <<r, k>>

\* Worker's comment (worker.go:31): once the wait is over "the writer's
\* buffer receives everything enqueued before shutdown".
DrainedBeforeReturn == stage \in {"reset", "done"} => Len(added) >= atCancel

\* A send may come after the worker has drained and gone, but only into the
\* channel's buffer: once the pipeline has ended at most a queue of accepted
\* items never reaches Add, and none with an unbuffered channel (queue size 0).
StrandedFitQueue == stage = "done" => Len(accepted) - Len(added) <= QueueSize

\* The detailed pipeline implements ItemStore: accepted items are the log, the
\* writer's itemsWritten its counted prefix, whole rows in files what is visible.
Visible == {item \in Item : OnDisk(item)}
Promise == INSTANCE ItemStore WITH log <- accepted, counted <- itemsWritten, visible <- Visible
ImplementsItemStore == Promise!Spec

\* A cancelled pipeline comes to its end: the drain loop terminates, both
\* goroutines leave their wait group and the stop or remove request answers.
EndReturns == stage = "cancel" ~> stage = "done"

\* While nobody ends the pipeline, every accepted item is eventually counted
\* as written, whatever the batch size: the ticker flushes what Add left, and
\* a failed open or write is retried.
AcceptedIsWritten ==
  \A n \in 1..Cardinality(Id) :
    Len(accepted) >= n ~> itemsWritten >= n \/ stage # "serving"

-----------------------------------------------------------------------------
(* What the documentation promises and the code does not keep.             *)

\* REST-commands, pipeline/stop: "causes every writer to flush its buffer and
\* close its current output file/blob".  The writer's goroutine may see the
\* cancellation, flush and exit before the worker has drained its queue.
StopFlushesAndCloses == ender = "stop" /\ stage = "done" => buffer = <<>> /\ file = NoFile

=============================================================================
