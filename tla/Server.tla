------------------------------- MODULE Server -------------------------------
(***************************************************************************)
(* The server's lifecycle (server/*.go, pipeline/dispatch.go): management  *)
(* requests from several administrators, the lock s.mu they share, the     *)
(* definitions, the pipelines of the types (one "entry" is the writer and  *)
(* the worker of one type, typeEntry in the code), the global routing      *)
(* table and the self-logger; and ingest requests that read them.          *)
(*                                                                         *)
(* A request is one step where it holds s.mu throughout and nobody else    *)
(* can tell its parts apart.  It is several where it starts goroutines or  *)
(* loads and stores the routing table, because pipeline/stop cancels,      *)
(* waits, resets the table and replaces the logger after releasing s.mu.   *)
(* Answers that leave the state alone (400, 404, 409) are not steps.       *)
(*                                                                         *)
(* Tokens (entries, contexts, logger clients) that nothing refers to any   *)
(* more are used again, so behaviours are not bounded in length.           *)
(***************************************************************************)
EXTENDS Integers, FiniteSets, Functions, TLC

CONSTANTS Admin,       \* bound: management requests in progress at a time
          Ingester,    \* bound: ingest requests in progress at a time
          Type, Schema,\* item types; the columns and folder a definition may give one
          Entry, Ctx, Client, \* bounds: entries, pipeline contexts, logger clients in use
          Configs,     \* the configurations that configure requests carry
          None

ASSUME ServerAssumption ==
  /\ Configs \subseteq [queueSize : Int, endpoint : BOOLEAN]
  /\ None \notin Type \cup Schema \cup Entry \cup Ctx \cup Client \cup Configs \cup Admin

VARIABLES
  lock,             \* the writer of s.mu, or None
  config,           \* s.config, None before the first configure
  running,          \* s.running
  definitions,      \* s.definitions: the schema of each registered type
  types,            \* s.types: the entry of each type
  pipelineCtx,      \* s.pipelineCtx and s.cancel
  routing,          \* the routing table: the entry whose queue is used
  entry,            \* of each entry: its type, schema, context, logger and goroutines
  logger,           \* s.logger, None is Nop
  closed,           \* the clients that have been closed
  loggerConfigured, \* s.loggerConfigured
  loggerErr,        \* s.loggerErr # ""
  job,              \* what each administrator's request is doing
  ingest            \* what each ingest request is doing

serverVars == <<config, running, definitions, types, pipelineCtx>>
loggerVars == <<logger, closed, loggerConfigured, loggerErr>>
vars == <<lock, serverVars, routing, entry, loggerVars, job, ingest>>

Opt(S)   == S \cup {None}
NoRoutes == [t \in Type |-> None]
Unused   == [type |-> None, schema |-> None, ctx |-> None, logger |-> None,
             alive |-> FALSE, cancelled |-> FALSE, worker |-> FALSE]
NoJob    == [at |-> "idle", op |-> "none", todo |-> {}, type |-> None, entry |-> None,
             table |-> NoRoutes, ctx |-> None, waits |-> {}]
NoItem   == [at |-> "idle", type |-> None, schema |-> None, entry |-> None]

JobStages == {"idle", "startType", "publish", "rollback", "started", "startLogger",
              "unlink", "cancel", "wait", "reset", "closeLogger", "clearLogger"}

TypeOK ==
  /\ lock \in Opt(Admin) /\ config \in Opt(Configs) /\ running \in BOOLEAN
  /\ definitions \in [Type -> Opt(Schema)]
  /\ types \in [Type -> Opt(Entry)] /\ routing \in [Type -> Opt(Entry)]
  /\ pipelineCtx \in Opt(Ctx)
  /\ entry \in [Entry -> [type : Opt(Type), schema : Opt(Schema), ctx : Opt(Ctx),
                          logger : Opt(Client), alive : BOOLEAN, cancelled : BOOLEAN, worker : BOOLEAN]]
  /\ logger \in Opt(Client) /\ closed \subseteq Client
  /\ loggerConfigured \in BOOLEAN /\ loggerErr \in BOOLEAN
  /\ job \in [Admin -> [at : JobStages, op : {"none", "start", "add", "stop", "remove"},
                        todo : SUBSET Type, type : Opt(Type), entry : Opt(Entry),
                        table : [Type -> Opt(Entry)], ctx : Opt(Ctx), waits : SUBSET Entry]]
  /\ ingest \in [Ingester -> [at : {"idle", "lookup", "send"}, type : Opt(Type),
                              schema : Opt(Schema), entry : Opt(Entry)]]

\* New(), called once.
Init ==
  /\ lock = None /\ config = None /\ running = FALSE
  /\ definitions = [t \in Type |-> None] /\ types = NoRoutes /\ routing = NoRoutes
  /\ pipelineCtx = None
  /\ entry = [e \in Entry |-> Unused]
  /\ logger = None /\ closed = {} /\ loggerConfigured = FALSE /\ loggerErr = FALSE
  /\ job = [a \in Admin |-> NoJob]
  /\ ingest = [i \in Ingester |-> NoItem]

Defined == {t \in Type : definitions[t] # None}

FreshEntry(e) ==
  /\ ~entry[e].alive
  /\ \A t \in Type : types[t] # e /\ routing[t] # e
  /\ \A a \in Admin : /\ e \notin job[a].waits /\ job[a].entry # e
                      /\ \A t \in Type : job[a].table[t] # e
  /\ \A i \in Ingester : ingest[i].entry # e

FreshCtx(c) ==
  /\ pipelineCtx # c
  /\ \A e \in Entry : entry[e].ctx = c => ~entry[e].alive
  /\ \A a \in Admin : job[a].ctx # c

FreshClient(k) == logger # k /\ \A e \in Entry : entry[e].logger = k => ~entry[e].alive

Lock(a)   == lock = None /\ lock' = a
Unlock(a) == lock = a /\ lock' = None
At(a, stage) == job[a].at = stage
Goto(a, stage) == job' = [job EXCEPT ![a].at = stage]
Done(a)   == job' = [job EXCEPT ![a] = NoJob]

\* cancel() of a pipeline context reaches every entry started under it.
CancelCtx(c) ==
  entry' = [e \in Entry |-> IF entry[e].ctx = c THEN [entry[e] EXCEPT !.cancelled = TRUE]
                                                ELSE entry[e]]

AllGone(E) == \A e \in E : ~entry[e].alive

-----------------------------------------------------------------------------
(* pipeline/configure                                                      *)

Configure(a) ==
  /\ At(a, "idle") /\ lock = None /\ ~running
  /\ config' \in Configs
  /\ UNCHANGED <<lock, running, definitions, types, pipelineCtx, routing, entry,
                 loggerVars, job, ingest>>

-----------------------------------------------------------------------------
(* pipeline/start and definition/add: both run startType with s.mu held.   *)

StartBegin(a) ==
  /\ At(a, "idle") /\ config # None /\ ~running /\ Defined # {}
  /\ Lock(a)
  /\ \E c \in Ctx : FreshCtx(c) /\ pipelineCtx' = c
  /\ job' = [job EXCEPT ![a] = [NoJob EXCEPT !.at = "startType", !.op = "start", !.todo = Defined]]
  /\ UNCHANGED <<config, running, definitions, types, routing, entry, loggerVars, ingest>>

AddDefinition(a) ==
  /\ At(a, "idle") /\ lock = None
  /\ \E t \in Type \ Defined, s \in Schema :
       /\ definitions' = [definitions EXCEPT ![t] = s]
       /\ IF running
          THEN /\ Lock(a)
               /\ job' = [job EXCEPT ![a] = [NoJob EXCEPT !.at = "startType", !.op = "add",
                                                          !.todo = {t}]]
          ELSE UNCHANGED <<lock, job>>
  /\ UNCHANGED <<config, running, types, pipelineCtx, routing, entry, loggerVars, ingest>>

\* Mutant: a failed start waits for goroutines it has not cancelled.
StartTypeFailsUncancelled(a, t) ==
  /\ At(a, "startType") /\ t \in job[a].todo
  /\ IF job[a].op = "start"
     THEN Goto(a, "rollback") /\ UNCHANGED <<lock, definitions>>
     ELSE definitions' = [definitions EXCEPT ![t] = None] /\ Unlock(a) /\ Done(a)
  /\ UNCHANGED <<config, running, types, pipelineCtx, routing, entry, loggerVars, ingest>>

\* NewFileWriter or NewBlobWriter returns an error: start cancels what it
\* started, add takes the definition back.
StartTypeFails(a, t) ==
  /\ At(a, "startType") /\ t \in job[a].todo
  /\ IF job[a].op = "start"
     THEN /\ CancelCtx(pipelineCtx)
          /\ Goto(a, "rollback")
          /\ UNCHANGED <<lock, definitions>>
     ELSE /\ definitions' = [definitions EXCEPT ![t] = None]
          /\ Unlock(a) /\ Done(a)
          /\ UNCHANGED entry
  /\ UNCHANGED <<config, running, types, pipelineCtx, routing, loggerVars, ingest>>

NewEntry(t) ==
  [type |-> t, schema |-> definitions[t], ctx |-> pipelineCtx, logger |-> logger,
   alive |-> TRUE, cancelled |-> FALSE, worker |-> TRUE]
WriterOnly(t) == [NewEntry(t) EXCEPT !.worker = FALSE]

\* Mutant: the panic leaves s.mu locked.
StartTypePanicsLocked(a, t) ==
  /\ At(a, "startType") /\ t \in job[a].todo /\ config.queueSize < 0
  /\ \E e \in Entry : FreshEntry(e) /\ entry' = [entry EXCEPT ![e] = WriterOnly(t)]
  /\ Done(a)
  /\ UNCHANGED <<lock, serverVars, routing, loggerVars, ingest>>

\* w.Start has launched the writer's goroutine when make(chan T, queueSize)
\* panics; the deferred Unlock runs, the rollback does not, and the router's
\* Recoverer answers 500.
StartTypePanics(a, t) ==
  /\ At(a, "startType") /\ t \in job[a].todo /\ config.queueSize < 0
  /\ \E e \in Entry : FreshEntry(e) /\ entry' = [entry EXCEPT ![e] = WriterOnly(t)]
  /\ Unlock(a) /\ Done(a)
  /\ UNCHANGED <<serverVars, routing, loggerVars, ingest>>

\* Writer and worker run, s.types has the entry, AddItemType has loaded the table.
StartTypeRuns(a, t) ==
  /\ At(a, "startType") /\ t \in job[a].todo /\ config.queueSize >= 0
  /\ \E e \in Entry :
       /\ FreshEntry(e)
       /\ entry' = [entry EXCEPT ![e] = NewEntry(t)]
       /\ types' = [types EXCEPT ![t] = e]
       /\ job' = [job EXCEPT ![a] = [job[a] EXCEPT !.at = "publish", !.todo = job[a].todo \ {t}, !.type = t,
                                              !.entry = e, !.table = routing]]
  /\ UNCHANGED <<lock, config, running, definitions, pipelineCtx, routing, loggerVars, ingest>>

\* Mutant: AddItemType keeps a route that is there.
PublishKeeps(a) ==
  /\ At(a, "publish")
  /\ routing' = [job[a].table EXCEPT ![job[a].type] = IF @ = None THEN job[a].entry ELSE @]
  /\ IF job[a].op = "add"
     THEN Unlock(a) /\ Done(a)
     ELSE /\ job' = [job EXCEPT ![a] =
               [NoJob EXCEPT !.op = "start", !.todo = job[a].todo,
                             !.at = IF job[a].todo = {} THEN "started" ELSE "startType"]]
          /\ UNCHANGED lock
  /\ UNCHANGED <<serverVars, entry, loggerVars, ingest>>

\* AddItemType stores the copy it made of the table it loaded.
Publish(a) ==
  /\ At(a, "publish")
  /\ routing' = [job[a].table EXCEPT ![job[a].type] = job[a].entry]
  /\ IF job[a].op = "add"
     THEN Unlock(a) /\ Done(a)
     ELSE /\ job' = [job EXCEPT ![a] =
               [NoJob EXCEPT !.op = "start", !.todo = job[a].todo,
                             !.at = IF job[a].todo = {} THEN "started" ELSE "startType"]]
          /\ UNCHANGED lock
  /\ UNCHANGED <<serverVars, entry, loggerVars, ingest>>

Rollback(a) ==
  /\ At(a, "rollback") /\ AllGone(Range(types) \ {None})
  /\ routing' = NoRoutes /\ pipelineCtx' = None /\ types' = NoRoutes
  /\ Unlock(a) /\ Done(a)
  /\ UNCHANGED <<config, running, definitions, entry, loggerVars, ingest>>

Started(a) ==
  /\ At(a, "started")
  /\ running' = TRUE
  /\ loggerConfigured' = config.endpoint
  /\ IF config.endpoint THEN Goto(a, "startLogger") /\ UNCHANGED lock
                        ELSE Unlock(a) /\ Done(a)
  /\ UNCHANGED <<config, definitions, types, pipelineCtx, routing, entry,
                 logger, closed, loggerErr, ingest>>

\* gobblerclient.New connects, or fails and leaves Nop and the error.
StartLogger(a) ==
  /\ At(a, "startLogger")
  /\ \/ \E k \in Client : /\ FreshClient(k) /\ logger' = k
                          /\ closed' = closed \ {k} /\ loggerErr' = FALSE
     \/ logger' = None /\ loggerErr' = TRUE /\ UNCHANGED closed
  /\ Unlock(a) /\ Done(a)
  /\ UNCHANGED <<serverVars, routing, entry, loggerConfigured, ingest>>

-----------------------------------------------------------------------------
(* pipeline/stop and definition/remove: s.mu is released before the        *)
(* goroutines are cancelled and waited for.                                *)

\* Mutant: stop leaves s.types as it is.
StopBeginKeepsTypes(a) ==
  /\ At(a, "idle") /\ lock = None /\ running
  /\ running' = FALSE /\ pipelineCtx' = None
  /\ job' = [job EXCEPT ![a] = [NoJob EXCEPT !.at = "cancel", !.op = "stop", !.ctx = pipelineCtx,
                                             !.waits = Range(types) \ {None}]]
  /\ UNCHANGED <<lock, config, definitions, types, routing, entry, loggerVars, ingest>>

StopBegin(a) ==
  /\ At(a, "idle") /\ lock = None /\ running
  /\ running' = FALSE /\ pipelineCtx' = None /\ types' = NoRoutes
  /\ job' = [job EXCEPT ![a] = [NoJob EXCEPT !.at = "cancel", !.op = "stop", !.ctx = pipelineCtx,
                                             !.waits = Range(types) \ {None}]]
  /\ UNCHANGED <<lock, config, definitions, routing, entry, loggerVars, ingest>>

\* RemoveItemType loads the table; without a running entry only the
\* definition goes.
RemoveBegin(a) ==
  /\ At(a, "idle") /\ lock = None
  /\ \E t \in Defined :
       IF running /\ types[t] # None
       THEN /\ Lock(a)
            /\ job' = [job EXCEPT ![a] = [NoJob EXCEPT !.at = "unlink", !.op = "remove",
                                                       !.type = t, !.table = routing]]
            /\ UNCHANGED definitions
       ELSE /\ definitions' = [definitions EXCEPT ![t] = None]
            /\ UNCHANGED <<lock, job>>
  /\ UNCHANGED <<config, running, types, pipelineCtx, routing, entry, loggerVars, ingest>>

\* Mutant: the entry is looked up after it has left s.types.
UnlinkLate(a) ==
  /\ At(a, "unlink")
  /\ LET t == job[a].type
     IN  /\ routing' = [job[a].table EXCEPT ![t] = None]
         /\ types' = [types EXCEPT ![t] = None]
         /\ definitions' = [definitions EXCEPT ![t] = None]
         /\ job' = [job EXCEPT ![a] = [NoJob EXCEPT !.at = "cancel", !.op = "remove",
                                                    !.waits = {types'[t]}]]
  /\ Unlock(a)
  /\ UNCHANGED <<config, running, pipelineCtx, entry, loggerVars, ingest>>

\* RemoveItemType stores its copy; the entry leaves s.types.
Unlink(a) ==
  /\ At(a, "unlink")
  /\ LET t == job[a].type
     IN  /\ routing' = [job[a].table EXCEPT ![t] = None]
         /\ types' = [types EXCEPT ![t] = None]
         /\ definitions' = [definitions EXCEPT ![t] = None]
         /\ job' = [job EXCEPT ![a] = [NoJob EXCEPT !.at = "cancel", !.op = "remove",
                                                    !.waits = {types[t]}]]
  /\ Unlock(a)
  /\ UNCHANGED <<config, running, pipelineCtx, entry, loggerVars, ingest>>

\* Mutant: stop cancels the context that s.pipelineCtx holds by then.
CancelCurrent(a) ==
  /\ At(a, "cancel")
  /\ IF job[a].op = "stop"
     THEN IF pipelineCtx = None THEN UNCHANGED entry ELSE CancelCtx(pipelineCtx)
     ELSE entry' = [e \in Entry |-> IF e \in job[a].waits THEN [entry[e] EXCEPT !.cancelled = TRUE]
                                                          ELSE entry[e]]
  /\ Goto(a, "wait")
  /\ UNCHANGED <<lock, serverVars, routing, loggerVars, ingest>>

Cancel(a) ==
  /\ At(a, "cancel")
  /\ IF job[a].op = "stop"
     THEN CancelCtx(job[a].ctx)
     ELSE entry' = [e \in Entry |-> IF e \in job[a].waits THEN [entry[e] EXCEPT !.cancelled = TRUE]
                                                          ELSE entry[e]]
  /\ Goto(a, "wait")
  /\ UNCHANGED <<lock, serverVars, routing, loggerVars, ingest>>

\* Mutant: nobody waits for the goroutines.
WaitForNone(a) ==
  /\ At(a, "wait")
  /\ IF job[a].op = "stop" THEN Goto(a, "reset") ELSE Done(a)
  /\ UNCHANGED <<lock, serverVars, routing, entry, loggerVars, ingest>>

Wait(a) ==
  /\ At(a, "wait") /\ AllGone(job[a].waits)
  /\ IF job[a].op = "stop" THEN Goto(a, "reset") ELSE Done(a)
  /\ UNCHANGED <<lock, serverVars, routing, entry, loggerVars, ingest>>

\* Mutant: the routing table outlives the pipeline.
ResetNothing(a) ==
  /\ At(a, "reset")
  /\ Goto(a, "closeLogger")
  /\ UNCHANGED <<lock, serverVars, routing, entry, loggerVars, ingest>>

\* pipeline.Reset()
Reset(a) ==
  /\ At(a, "reset")
  /\ routing' = NoRoutes
  /\ Goto(a, "closeLogger")
  /\ UNCHANGED <<lock, serverVars, entry, loggerVars, ingest>>

CloseLogger(a) ==
  /\ At(a, "closeLogger")
  /\ closed' = closed \cup ({logger} \ {None})
  /\ Goto(a, "clearLogger")
  /\ UNCHANGED <<lock, serverVars, routing, entry, logger, loggerConfigured, loggerErr, ingest>>

\* Mutant: the closed client stays in place.
ClearLoggerFlags(a) ==
  /\ At(a, "clearLogger")
  /\ loggerConfigured' = FALSE /\ loggerErr' = FALSE
  /\ Done(a)
  /\ UNCHANGED <<lock, serverVars, routing, entry, logger, closed, ingest>>

ClearLogger(a) ==
  /\ At(a, "clearLogger")
  /\ logger' = None /\ loggerConfigured' = FALSE /\ loggerErr' = FALSE
  /\ Done(a)
  /\ UNCHANGED <<lock, serverVars, routing, entry, closed, ingest>>

-----------------------------------------------------------------------------
(* A cancelled entry: its worker drains and exits, its writer flushes and  *)
(* exits (TypePipeline shows that they do).                                *)

EntryExits(e) ==
  /\ entry[e].alive /\ entry[e].cancelled
  /\ entry' = [entry EXCEPT ![e].alive = FALSE]
  /\ UNCHANGED <<lock, serverVars, routing, loggerVars, job, ingest>>

-----------------------------------------------------------------------------
(* An item of an ingest request: its definition is copied under RLock and  *)
(* converts it, the routing table names the queue it is sent to.           *)

IngestSnapshot(i) ==
  /\ ingest[i].at = "idle" /\ lock = None /\ running
  /\ \E t \in Defined :
       ingest' = [ingest EXCEPT ![i] = [NoItem EXCEPT !.at = "lookup", !.type = t,
                                                      !.schema = definitions[t]]]
  /\ UNCHANGED <<lock, serverVars, routing, entry, loggerVars, job>>

IngestLookup(i) ==
  /\ ingest[i].at = "lookup"
  /\ LET e == routing[ingest[i].type]
     IN  ingest' = [ingest EXCEPT ![i] = IF e = None THEN NoItem
                                         ELSE [@ EXCEPT !.at = "send", !.entry = e]]
  /\ UNCHANGED <<lock, serverVars, routing, entry, loggerVars, job>>

IngestSend(i) ==
  /\ ingest[i].at = "send"
  /\ ingest' = [ingest EXCEPT ![i] = NoItem]
  /\ UNCHANGED <<lock, serverVars, routing, entry, loggerVars, job>>

-----------------------------------------------------------------------------

\* What handlePipelineStatus answers whenever it gets the read lock.
Status ==
  [configured |-> config # None, running |-> running,
   registeredDefinitions |-> Cardinality(Defined),
   logger |-> IF config = None THEN "absent"
              ELSE IF ~config.endpoint /\ ~loggerConfigured THEN "absent"
              ELSE IF ~running THEN "configured"
              ELSE IF loggerErr THEN "error" ELSE "running",
   writers |-> IF running THEN {t \in Type : types[t] # None} ELSE {}]

Request(a) == Configure(a) \/ StartBegin(a) \/ AddDefinition(a) \/ StopBegin(a) \/ RemoveBegin(a)

Continue(a) ==
  \/ \E t \in Type : StartTypeFails(a, t) \/ StartTypePanics(a, t) \/ StartTypeRuns(a, t)
  \/ Publish(a) \/ Rollback(a) \/ Started(a) \/ StartLogger(a)
  \/ Unlink(a) \/ Cancel(a) \/ Wait(a) \/ Reset(a) \/ CloseLogger(a) \/ ClearLogger(a)

IngestStep(i) == IngestSnapshot(i) \/ IngestLookup(i) \/ IngestSend(i)

Next ==
  \/ \E a \in Admin : Request(a) \/ Continue(a)
  \/ \E e \in Entry : EntryExits(e)
  \/ \E i \in Ingester : IngestStep(i)

Spec == Init /\ [][Next]_vars

\* A request that has begun goes on whenever it can, and a cancelled entry
\* comes to its end.  No administrator owes a request.
Fairness ==
  /\ \A a \in Admin : WF_vars(Continue(a))
  /\ \A e \in Entry : WF_vars(EntryExits(e))

FairSpec == Spec /\ Fairness

-----------------------------------------------------------------------------
(* Properties.                                                             *)

\* Entries whose goroutines run, but for the lone writer of a start that panicked:
\* it is in no table, is never cancelled and never gets a row.
Alive == {e \in Entry : entry[e].alive /\ entry[e].worker}
Used  == Range(types) \ {None}

\* server.go: types and definitions change together under s.mu.  Whenever a
\* reader can look, a running server has exactly one entry for each defined
\* type, started from the definition that is registered now.
TypesMatchDefinitions ==
  lock = None /\ running =>
    \A t \in Type : IF definitions[t] = None THEN types[t] = None
                    ELSE types[t] # None /\ entry[types[t]].schema = definitions[t]

\* An entry that nobody has cancelled is in s.types, or a request that has
\* taken it out is about to cancel it: no failing start, hot add or
\* remove leaves goroutines behind that no later stop would end.
NoLeakedEntry ==
  \A e \in Alive : \/ entry[e].cancelled \/ e \in Used
                   \/ \E a \in Admin : At(a, "cancel") /\ e \in job[a].waits

\* A request that is not answered yet will wait for e to end.
Awaited(e) == \E a \in Admin : job[a].at \in {"cancel", "wait"} /\ e \in job[a].waits

\* Remove gives up s.mu before the writer of the type has ended, and an add or start
\* may make the next one: of the live writers of a type all but one are
\* awaited by a request not yet answered.
OneWriterPerType ==
  \A e, f \in Alive : entry[e].type = entry[f].type => e = f \/ Awaited(e) \/ Awaited(f)

\* stop, remove and a rolled back start answer only after what they ended has
\* exited, whoever else has begun or finished a request meanwhile: what lives is in
\* s.types or awaited.  And no late cancellation reaches what others have
\* started: whenever a reader can look, all that s.types holds lives, and of the
\* writers of a type all but one are awaited.
EndIsAwaited ==
  /\ \A e \in Alive : e \in Used \/ Awaited(e)
  /\ lock = None => Used \subseteq Alive
  /\ OneWriterPerType

\* AddItemType and RemoveItemType load the table, copy it and store the copy, a Reset
\* of a stop between the two: however these overlap, a type that is in s.types is
\* routed to its own entry or, wiped, nowhere, and never to the entry of an
\* earlier start or add, whose queue nobody empties.  (While AddItemType has
\* yet to store, what the stop before has left may still be there.)
RoutesLeadHome ==
  \A t \in Type : types[t] # None =>
    \/ routing[t] \in {None, types[t]}
    \/ \E a \in Admin : At(a, "publish") /\ job[a].type = t

\* pipeline.Reset's comment and REST-commands "resets routing state": whenever a
\* reader can look, a running server routes each type to its entry's queue.
RoutingMatchesTypes == lock = None /\ running => routing = types

\* REST-commands, pipeline/status: what it says of the self-logger is what the last
\* start found: "running" means that there is a client and nobody has closed
\* it, and a server without an endpoint has none. It lists as many writers as
\* there are definitions.
StatusIsTrue ==
  lock = None /\ running =>
    /\ loggerConfigured = config.endpoint
    /\ Status.logger = "running" <=> logger # None
    /\ logger \notin closed
    /\ Cardinality(Status.writers) = Status.registeredDefinitions

\* Nobody goes away with s.mu: it is held by a request in progress, also after
\* the panic that a negative queue size causes behind an accepted configure.
LockHasOwner == lock # None => ~At(lock, "idle")

\* Every management request that has begun is answered (with LockHasOwner: s.mu
\* comes free for those that wait for it), whatever the others do, also when
\* a failing start waits for its goroutines with s.mu held.
RequestsAnswered == \A a \in Admin : ~At(a, "idle") ~> At(a, "idle")

-----------------------------------------------------------------------------
(* What the documentation promises and the code does not keep.             *)

\* pipeline.Reset's comment (dispatch.go:46): it runs when the pipeline "has been
\* fully stopped".  A start that comes between the release of s.mu in stop
\* and its Reset has its routes wiped, and every item is rejected as not
\* registered while the server is running.
RunningTypesAreRouted ==
  lock = None /\ running => \A t \in Type : types[t] # None => routing[t] = types[t]

\* README "Item type definition file": the file with a type's columns describes
\* the CSV data stored alongside it.  An item is converted with the
\* definition its request copied and sent to a writer started from the one
\* registered since.
RowFitsItsWriter ==
  \A i \in Ingester : ingest[i].at = "send" => entry[ingest[i].entry].schema = ingest[i].schema

=============================================================================
