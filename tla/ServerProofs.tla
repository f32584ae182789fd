---------------------------- MODULE ServerProofs ----------------------------
(***************************************************************************)
(* What Server keeps for any number of administrators, ingest requests,    *)
(* types, definitions and entries, and any configurations.                 *)
(***************************************************************************)
EXTENDS Server, TLAPS

-----------------------------------------------------------------------------
(* Types.                                                                  *)

JobRecord == [at : JobStages, op : {"none", "start", "add", "stop", "remove"},
              todo : SUBSET Type, type : Opt(Type), entry : Opt(Entry),
              table : [Type -> Opt(Entry)], ctx : Opt(Ctx), waits : SUBSET Entry]

EntryRecord == [type : Opt(Type), schema : Opt(Schema), ctx : Opt(Ctx),
                logger : Opt(Client), alive : BOOLEAN, cancelled : BOOLEAN, worker : BOOLEAN]

\* The request of a, on its way, keeps its type when it becomes j.
LEMMA JobUpdate ==
  ASSUME TypeOK, NEW a \in Admin, NEW j \in JobRecord
  PROVE  [job EXCEPT ![a] = j] \in [Admin -> JobRecord]
BY DEF TypeOK, JobRecord

\* An idle administrator.
LEMMA NoJobType == NoJob \in JobRecord /\ NoRoutes \in [Type -> Opt(Entry)]
<1>1. NoRoutes \in [Type -> Opt(Entry)]
  BY DEF NoRoutes, Opt
<1> QED BY <1>1 DEF NoJob, JobRecord, JobStages, Opt

\* Going to a stage, or answering.
LEMMA GotoType ==
  ASSUME TypeOK, NEW a \in Admin
  PROVE  /\ \A stage \in JobStages : Goto(a, stage) => job' \in [Admin -> JobRecord]
         /\ Done(a) => job' \in [Admin -> JobRecord]
<1>1. job \in [Admin -> JobRecord]
  BY DEF TypeOK, JobRecord
<1>2. ASSUME NEW stage \in JobStages, Goto(a, stage)
      PROVE  job' \in [Admin -> JobRecord]
  <2>1. [job[a] EXCEPT !.at = stage] \in JobRecord
    BY <1>1 DEF JobRecord
  <2>2. job' = [job EXCEPT ![a] = [job[a] EXCEPT !.at = stage]]
    BY <1>2 DEF Goto
  <2> QED BY <1>1, <2>1, <2>2
<1>3. Done(a) => job' \in [Admin -> JobRecord]
  BY NoJobType, JobUpdate DEF Done
<1> QED BY <1>2, <1>3

\* Cancelling leaves entries in their type.
LEMMA CancelCtxType ==
  ASSUME TypeOK, NEW c, CancelCtx(c)
  PROVE  entry' \in [Entry -> EntryRecord]
<1>1. entry \in [Entry -> EntryRecord]
  BY DEF TypeOK, EntryRecord
<1>2. \A e \in Entry : [entry[e] EXCEPT !.cancelled = TRUE] \in EntryRecord
  BY <1>1 DEF EntryRecord
<1> QED BY <1>1, <1>2 DEF CancelCtx

\* What a type is started with.
LEMMA NewEntryType ==
  ASSUME TypeOK, NEW t \in Type
  PROVE  NewEntry(t) \in EntryRecord /\ WriterOnly(t) \in EntryRecord
BY DEF TypeOK, NewEntry, WriterOnly, EntryRecord, Opt

\* What stop and rollback wait for are entries.
LEMMA UsedAreEntries == TypeOK => Range(types) \ {None} \in SUBSET Entry
BY DEF TypeOK, Range, Opt

\* Requests begin in their types.
LEMMA RequestType ==
  ASSUME TypeOK, NEW a \in Admin, Request(a)
  PROVE  TypeOK'
<1> USE DEF Opt
<1>1. CASE Configure(a)
  BY <1>1 DEF TypeOK, Configure, loggerVars
<1>2. CASE StartBegin(a)
  <2>1. [NoJob EXCEPT !.at = "startType", !.op = "start", !.todo = Defined] \in JobRecord
    BY NoJobType DEF JobRecord, JobStages, Defined
  <2>2. job' \in [Admin -> JobRecord]
    BY <1>2, <2>1, JobUpdate DEF StartBegin
  <2> QED BY <1>2, <2>2 DEF TypeOK, JobRecord, StartBegin, Lock, loggerVars
<1>3. CASE AddDefinition(a)
  <2>1. \A t \in Type : [NoJob EXCEPT !.at = "startType", !.op = "add", !.todo = {t}] \in JobRecord
    BY NoJobType DEF JobRecord, JobStages
  <2> DEFINE j(t) == [NoJob EXCEPT !.at = "startType", !.op = "add", !.todo = {t}]
  <2>2. job' \in [Admin -> JobRecord]
    <3>1. job' = job \/ \E t \in Type : job' = [job EXCEPT ![a] = j(t)]
      BY <1>3 DEF AddDefinition
    <3>2. job \in [Admin -> JobRecord]
      BY DEF TypeOK, JobRecord
    <3> HIDE DEF j
    <3> QED BY <2>1, <3>1, <3>2, JobUpdate DEF j
  <2>3. lock' \in Opt(Admin) /\ definitions' \in [Type -> Opt(Schema)]
    BY <1>3 DEF AddDefinition, TypeOK, Lock
  <2> QED BY <1>3, <2>2, <2>3 DEF TypeOK, JobRecord, AddDefinition, loggerVars
<1>4. CASE StopBegin(a)
  <2>1. [NoJob EXCEPT !.at = "cancel", !.op = "stop", !.ctx = pipelineCtx,
                      !.waits = Range(types) \ {None}] \in JobRecord
    BY NoJobType, UsedAreEntries DEF JobRecord, JobStages, TypeOK
  <2>2. job' \in [Admin -> JobRecord]
    BY <1>4, <2>1, JobUpdate DEF StopBegin
  <2> QED BY <1>4, <2>2, NoJobType DEF TypeOK, JobRecord, StopBegin, loggerVars
<1>5. CASE RemoveBegin(a)
  <2>1. \A t \in Type : [NoJob EXCEPT !.at = "unlink", !.op = "remove", !.type = t, !.table = routing] \in JobRecord
    BY NoJobType DEF JobRecord, JobStages, TypeOK
  <2> DEFINE j(t) == [NoJob EXCEPT !.at = "unlink", !.op = "remove", !.type = t, !.table = routing]
  <2>2. job' \in [Admin -> JobRecord]
    <3>1. job' = job \/ \E t \in Type : job' = [job EXCEPT ![a] = j(t)]
      BY <1>5 DEF RemoveBegin, Defined
    <3>2. job \in [Admin -> JobRecord]
      BY DEF TypeOK, JobRecord
    <3> HIDE DEF j
    <3> QED BY <2>1, <3>1, <3>2, JobUpdate DEF j
  <2>3. lock' \in Opt(Admin) /\ definitions' \in [Type -> Opt(Schema)]
    BY <1>5 DEF RemoveBegin, TypeOK, Lock
  <2> QED BY <1>5, <2>2, <2>3 DEF TypeOK, JobRecord, RemoveBegin, loggerVars
<1> QED BY <1>1, <1>2, <1>3, <1>4, <1>5 DEF Request

\* Starting a type keeps the types.
LEMMA StartTypeType ==
  ASSUME TypeOK, NEW a \in Admin, NEW t \in Type,
         StartTypeFails(a, t) \/ StartTypePanics(a, t) \/ StartTypeRuns(a, t)
  PROVE  TypeOK'
<1> USE DEF Opt
<1>1. CASE StartTypeFails(a, t)
  <2>1. "rollback" \in JobStages
    BY DEF JobStages
  <2>2. job' \in [Admin -> JobRecord]
    BY <1>1, <2>1, GotoType DEF StartTypeFails
  <2>3. entry' \in [Entry -> EntryRecord]
    BY <1>1, CancelCtxType DEF StartTypeFails, TypeOK, EntryRecord
  <2>4. lock' \in Opt(Admin) /\ definitions' \in [Type -> Opt(Schema)]
    BY <1>1 DEF StartTypeFails, TypeOK, Unlock
  <2> QED BY <1>1, <2>2, <2>3, <2>4 DEF TypeOK, JobRecord, EntryRecord, StartTypeFails, loggerVars
<1>2. CASE StartTypePanics(a, t)
  <2>1. job' \in [Admin -> JobRecord]
    BY <1>2, GotoType DEF StartTypePanics
  <2>2. entry' \in [Entry -> EntryRecord]
    BY <1>2, NewEntryType DEF StartTypePanics, TypeOK, EntryRecord
  <2> QED BY <1>2, <2>1, <2>2 DEF TypeOK, JobRecord, EntryRecord, StartTypePanics, Unlock, serverVars, loggerVars
<1>3. CASE StartTypeRuns(a, t)
  <2>1. PICK e \in Entry :
          /\ entry' = [entry EXCEPT ![e] = NewEntry(t)]
          /\ types' = [types EXCEPT ![t] = e]
          /\ job' = [job EXCEPT ![a] = [job[a] EXCEPT !.at = "publish", !.todo = job[a].todo \ {t}, !.type = t,
                                                 !.entry = e, !.table = routing]]
    BY <1>3 DEF StartTypeRuns
  <2>2. entry' \in [Entry -> EntryRecord]
    BY <2>1, NewEntryType DEF TypeOK, EntryRecord
  <2> DEFINE j == [job[a] EXCEPT !.at = "publish", !.todo = job[a].todo \ {t}, !.type = t, !.entry = e, !.table = routing]
  <2>3. j \in JobRecord
    <3>1. job[a] \in JobRecord /\ routing \in [Type -> Opt(Entry)]
      BY DEF TypeOK, JobRecord
    <3>2. job[a].todo \ {t} \in SUBSET Type
      BY <3>1 DEF JobRecord
    <3> QED BY <3>1, <3>2 DEF JobRecord, JobStages
  <2>4. job' \in [Admin -> JobRecord]
    <3>1. job' = [job EXCEPT ![a] = j]
      BY <2>1
    <3> HIDE DEF j
    <3> QED BY <2>3, <3>1, JobUpdate
  <2>5. types' \in [Type -> Opt(Entry)]
    BY <2>1 DEF TypeOK
  <2> QED BY <1>3, <2>2, <2>4, <2>5 DEF TypeOK, JobRecord, EntryRecord, StartTypeRuns, loggerVars
<1> QED BY <1>1, <1>2, <1>3

\* So does the rest of start and add.
LEMMA StartRestType ==
  ASSUME TypeOK, NEW a \in Admin, Started(a) => config # None,
         Publish(a) \/ Rollback(a) \/ Started(a) \/ StartLogger(a)
  PROVE  TypeOK'
<1> USE DEF Opt
<1>1. CASE Publish(a)
  <2>1. [NoJob EXCEPT !.op = "start", !.todo = job[a].todo,
                      !.at = IF job[a].todo = {} THEN "started" ELSE "startType"] \in JobRecord
    <3>1. job[a].todo \in SUBSET Type
      BY DEF TypeOK
    <3> QED BY <3>1, NoJobType DEF JobRecord, JobStages
  <2>2. job' \in [Admin -> JobRecord]
    BY <1>1, <2>1, JobUpdate, GotoType DEF Publish
  <2>3. routing' \in [Type -> Opt(Entry)]
    BY <1>1 DEF Publish, TypeOK
  <2>4. lock' \in Opt(Admin)
    BY <1>1 DEF Publish, TypeOK, Unlock
  <2> QED BY <1>1, <2>2, <2>3, <2>4 DEF TypeOK, JobRecord, Publish, serverVars, loggerVars
<1>2. CASE Rollback(a)
  <2>1. job' \in [Admin -> JobRecord]
    BY <1>2, GotoType DEF Rollback
  <2> QED BY <1>2, <2>1, NoJobType DEF TypeOK, JobRecord, Rollback, Unlock, loggerVars
<1>3. CASE Started(a)
  <2>1. "startLogger" \in JobStages
    BY DEF JobStages
  <2>2. job' \in [Admin -> JobRecord]
    BY <1>3, <2>1, GotoType DEF Started
  <2>3. lock' \in Opt(Admin)
    BY <1>3 DEF Started, TypeOK, Unlock
  <2>4. loggerConfigured' \in BOOLEAN
    <3>1. config \in Configs
      BY <1>3 DEF TypeOK
    <3> QED BY <1>3, <3>1, ServerAssumption DEF Started
  <2> QED BY <1>3, <2>2, <2>3, <2>4 DEF TypeOK, JobRecord, Started
<1>4. CASE StartLogger(a)
  <2>1. job' \in [Admin -> JobRecord]
    BY <1>4, GotoType DEF StartLogger
  <2> QED BY <1>4, <2>1 DEF TypeOK, JobRecord, StartLogger, Unlock, serverVars
<1> QED BY <1>1, <1>2, <1>3, <1>4

\* So does the way of a stop or a remove.
LEMMA EndType ==
  ASSUME TypeOK, NEW a \in Admin, At(a, "unlink") => types[job[a].type] # None /\ job[a].type \in Type,
         Unlink(a) \/ Cancel(a) \/ Wait(a) \/ Reset(a) \/ CloseLogger(a) \/ ClearLogger(a)
  PROVE  TypeOK'
<1> USE DEF Opt
<1>0. {"wait", "reset", "closeLogger", "clearLogger"} \subseteq JobStages
  BY DEF JobStages
<1>1. CASE Unlink(a)
  <2> DEFINE t == job[a].type
             j == [NoJob EXCEPT !.at = "cancel", !.op = "remove", !.waits = {types[t]}]
  <2>1. types[t] \in Entry /\ t \in Type
    BY <1>1 DEF Unlink, TypeOK
  <2>2. j \in JobRecord
    BY <2>1, NoJobType DEF JobRecord, JobStages
  <2>3. job' = [job EXCEPT ![a] = j]
    BY <1>1 DEF Unlink
  <2> HIDE DEF j
  <2>4. job' \in [Admin -> JobRecord]
    BY <2>2, <2>3, JobUpdate
  <2>5. /\ definitions' \in [Type -> Opt(Schema)]
        /\ types' \in [Type -> Opt(Entry)] /\ routing' \in [Type -> Opt(Entry)]
    BY <1>1, <2>1 DEF Unlink, TypeOK
  <2> QED BY <1>1, <2>4, <2>5 DEF TypeOK, JobRecord, Unlink, Unlock, loggerVars
<1>2. CASE Cancel(a)
  <2>1. job' \in [Admin -> JobRecord]
    BY <1>0, <1>2, GotoType DEF Cancel
  <2>2. entry' \in [Entry -> EntryRecord]
    <3>1. CASE CancelCtx(job[a].ctx)
      BY <3>1, CancelCtxType
    <3>2. CASE entry' = [e \in Entry |-> IF e \in job[a].waits THEN [entry[e] EXCEPT !.cancelled = TRUE]
                                                                ELSE entry[e]]
      <4>1. entry \in [Entry -> EntryRecord]
        BY DEF TypeOK, EntryRecord
      <4>2. \A e \in Entry : [entry[e] EXCEPT !.cancelled = TRUE] \in EntryRecord
        BY <4>1 DEF EntryRecord
      <4> QED BY <3>2, <4>1, <4>2
    <3> QED BY <1>2, <3>1, <3>2 DEF Cancel
  <2> QED BY <1>2, <2>1, <2>2 DEF TypeOK, JobRecord, EntryRecord, Cancel, serverVars, loggerVars
<1>3. CASE Wait(a)
  <2>1. job' \in [Admin -> JobRecord]
    BY <1>0, <1>3, GotoType DEF Wait
  <2> QED BY <1>3, <2>1 DEF TypeOK, JobRecord, Wait, serverVars, loggerVars
<1>4. CASE Reset(a)
  <2>1. job' \in [Admin -> JobRecord]
    BY <1>0, <1>4, GotoType DEF Reset
  <2> QED BY <1>4, <2>1, NoJobType DEF TypeOK, JobRecord, Reset, serverVars, loggerVars
<1>5. CASE CloseLogger(a)
  <2>1. job' \in [Admin -> JobRecord]
    BY <1>0, <1>5, GotoType DEF CloseLogger
  <2> QED BY <1>5, <2>1 DEF TypeOK, JobRecord, CloseLogger, serverVars
<1>6. CASE ClearLogger(a)
  <2>1. job' \in [Admin -> JobRecord]
    BY <1>6, GotoType DEF ClearLogger
  <2> QED BY <1>6, <2>1 DEF TypeOK, JobRecord, ClearLogger, serverVars
<1> QED BY <1>1, <1>2, <1>3, <1>4, <1>5, <1>6

\* The type that an ingest request will look up is one.
LookupInv == \A i \in Ingester : ingest[i].at = "lookup" => ingest[i].type \in Type

\* So do the entries that end and the ingest requests.
LEMMA OtherType ==
  ASSUME TypeOK, LookupInv, (\E e \in Entry : EntryExits(e)) \/ (\E i \in Ingester : IngestStep(i))
  PROVE  TypeOK'
<1> USE DEF Opt
<1>1. ASSUME NEW e \in Entry, EntryExits(e)
      PROVE  TypeOK'
  <2>1. entry' \in [Entry -> EntryRecord]
    <3>1. entry \in [Entry -> EntryRecord]
      BY DEF TypeOK, EntryRecord
    <3>2. [entry[e] EXCEPT !.alive = FALSE] \in EntryRecord
      BY <3>1 DEF EntryRecord
    <3>3. entry' = [entry EXCEPT ![e] = [entry[e] EXCEPT !.alive = FALSE]]
      BY <1>1 DEF EntryExits
    <3> QED BY <3>1, <3>2, <3>3
  <2> QED BY <1>1, <2>1 DEF TypeOK, EntryRecord, EntryExits, serverVars, loggerVars
<1>2. ASSUME NEW i \in Ingester, IngestStep(i)
      PROVE  TypeOK'
  <2> DEFINE ItemRecord == [at : {"idle", "lookup", "send"}, type : Opt(Type),
                            schema : Opt(Schema), entry : Opt(Entry)]
  <2>1. ingest \in [Ingester -> ItemRecord] /\ NoItem \in ItemRecord
    BY DEF TypeOK, NoItem
  <2>2. ingest' \in [Ingester -> ItemRecord]
    <3>1. CASE IngestSnapshot(i)
      <4>1. \A t \in Defined : [NoItem EXCEPT !.at = "lookup", !.type = t, !.schema = definitions[t]] \in ItemRecord
        BY <2>1 DEF TypeOK, Defined
      <4>2. \E t \in Defined : ingest' = [ingest EXCEPT ![i] = [NoItem EXCEPT !.at = "lookup", !.type = t,
                                                                              !.schema = definitions[t]]]
        BY <3>1 DEF IngestSnapshot
      <4> HIDE DEF ItemRecord
      <4> QED BY <2>1, <4>1, <4>2
    <3>2. CASE IngestLookup(i)
      <4> DEFINE e == routing[ingest[i].type]
      <4>1. \/ ingest' = [ingest EXCEPT ![i] = NoItem]
            \/ e # None /\ ingest' = [ingest EXCEPT ![i] = [ingest[i] EXCEPT !.at = "send", !.entry = e]]
        BY <3>2 DEF IngestLookup
      <4>2. e \in Opt(Entry)
        BY <3>2 DEF IngestLookup, LookupInv, TypeOK
      <4> HIDE DEF e
      <4>3. e # None => [ingest[i] EXCEPT !.at = "send", !.entry = e] \in ItemRecord
        BY <2>1, <4>2
      <4> HIDE DEF ItemRecord
      <4> QED BY <2>1, <4>1, <4>3
    <3>3. CASE IngestSend(i)
      BY <2>1, <3>3 DEF IngestSend
    <3> QED BY <1>2, <3>1, <3>2, <3>3 DEF IngestStep
  <2>3. UNCHANGED <<lock, serverVars, routing, entry, loggerVars, job>>
    BY <1>2 DEF IngestStep, IngestSnapshot, IngestLookup, IngestSend
  <2> QED BY <2>2, <2>3 DEF TypeOK, serverVars, loggerVars
<1> QED BY <1>1, <1>2

-----------------------------------------------------------------------------
(* Who holds s.mu, and what it protects.                                   *)

Starting == {"startType", "publish", "rollback", "started", "startLogger"}
Holding == Starting \cup {"unlink"}

\* s.mu is held by the request that is at one of these stages, and by no other.
LockInv == \A a \in Admin : job[a].at \in Holding <=> lock = a

\* A server runs only with a configuration that let it start.
RunInv == running => config # None /\ config.queueSize >= 0

\* The entry of t and its definition agree.
Match(t) ==
  IF definitions[t] = None THEN types[t] = None
                           ELSE types[t] # None /\ entry[types[t]].schema = definitions[t]

\* A type that is still to be started, or has been.
ToDoOrMatch(t, todo) ==
  IF t \in todo THEN types[t] = None /\ definitions[t] # None ELSE Match(t)

\* What is true while the request of a holds s.mu. A negative queue size does not
\* get past the first type, and a type is added only to a running server.
JobOK(a) ==
  LET at == job[a].at
      op == job[a].op
      todo == job[a].todo
  IN  /\ at \in Starting => config # None
      /\ at \in {"publish", "started", "startLogger"} => config.queueSize >= 0
      /\ at \in {"startType", "publish", "started", "startLogger"} => \A t \in Type : ToDoOrMatch(t, todo)
      /\ at \in {"startType", "publish"} => IF running THEN op = "add" ELSE op = "start"
      /\ at = "startType" /\ op = "add" => \E t \in Type : todo = {t}
      /\ at = "startType" /\ op = "start" => types = NoRoutes \/ config.queueSize >= 0
      /\ at = "publish" /\ op = "add" => todo = {}
      /\ at \in {"started", "startLogger"} => todo = {}
      /\ at \in {"rollback", "started"} => ~running
      /\ at = "startLogger" => running
      /\ at = "unlink" => /\ running /\ \A t \in Type : Match(t)
                          /\ job[a].type \in Type /\ types[job[a].type] # None

\* What is true of s.types whenever nobody holds s.mu.
FreeInv == lock = None => IF running THEN \A t \in Type : Match(t) ELSE types = NoRoutes

LockedInv == LockInv /\ RunInv /\ FreeInv /\ \A a \in Admin : JobOK(a)

Inv == TypeOK /\ LookupInv /\ LockedInv

\* A step of the request that holds s.mu before or after it, or finds it free,
\* need be looked at only for that request.
LEMMA HolderStep ==
  ASSUME Inv, NEW a \in Admin, lock \in {None, a}, lock' \in {None, a},
         \A b \in Admin \ {a} : job'[b] = job[b],
         job'[a].at \in Holding <=> lock' = a,
         JobOK(a)', RunInv', FreeInv'
  PROVE  LockedInv'
<1>1. None \notin Admin
  BY ServerAssumption
<1>2. ASSUME NEW b \in Admin \ {a}
      PROVE  job'[b].at \notin Holding /\ lock' # b
  BY <1>1, <1>2 DEF Inv, LockedInv, LockInv
<1>3. LockInv'
  BY <1>2 DEF LockInv
<1>4. ASSUME NEW b \in Admin \ {a}
      PROVE  JobOK(b)'
  BY <1>2, <1>4 DEF JobOK, Holding, Starting
<1> QED BY <1>3, <1>4 DEF LockedInv

\* A step that touches nothing that s.mu protects, by a request that does
\* not hold it, or by an entry or an ingest request.
LEMMA OutsideStep ==
  ASSUME Inv, UNCHANGED <<lock, config, running, definitions, types>>,
         \A e \in Entry : entry'[e].schema = entry[e].schema,
         \A b \in Admin : job'[b] = job[b] \/ (job[b].at \notin Holding /\ job'[b].at \notin Holding)
  PROVE  LockedInv'
<1>1. \A t \in Type : Match(t) => Match(t)'
  BY DEF Match, Inv, TypeOK, Opt
<1>2. LockInv'
  BY DEF Inv, LockedInv, LockInv
<1>3. RunInv' /\ FreeInv'
  BY <1>1 DEF Inv, LockedInv, RunInv, FreeInv
<1>4. ASSUME NEW b \in Admin
      PROVE  JobOK(b)'
  <2>1. CASE job'[b] = job[b]
    <3>1. JobOK(b)
      BY DEF Inv, LockedInv
    <3> QED BY <1>1, <2>1, <3>1 DEF JobOK, ToDoOrMatch
  <2>2. CASE job'[b].at \notin Holding
    BY <2>2 DEF JobOK, Holding, Starting
  <2> QED BY <2>1, <2>2
<1> QED BY <1>2, <1>3, <1>4 DEF LockedInv

\* The job of one administrator changes.
LEMMA OneJob ==
  ASSUME TypeOK, NEW a \in Admin, NEW j, job' = [job EXCEPT ![a] = j]
  PROVE  job'[a] = j /\ \A b \in Admin \ {a} : job'[b] = job[b]
BY DEF TypeOK

\* Requests begin in the invariant.
LEMMA RequestLocked ==
  ASSUME Inv, NEW a \in Admin, Request(a)
  PROVE  LockedInv'
<1>0. TypeOK /\ LockInv /\ RunInv /\ FreeInv /\ lock = None
  BY DEF Inv, LockedInv, Request, Configure, StartBegin, Lock, AddDefinition, StopBegin, RemoveBegin
<1>1. None \notin Admin /\ job[a].at \notin Holding
  BY <1>0, ServerAssumption DEF LockInv
<1>2. CASE Configure(a)
  <2>1. JobOK(a)'
    BY <1>1, <1>2 DEF Configure, JobOK, Holding, Starting
  <2>2. RunInv' /\ FreeInv'
    BY <1>0, <1>2 DEF Configure, RunInv, FreeInv
  <2> QED BY <1>0, <1>1, <1>2, <2>1, <2>2, HolderStep DEF Configure
<1>3. CASE StartBegin(a)
  <2> DEFINE j == [NoJob EXCEPT !.at = "startType", !.op = "start", !.todo = Defined]
  <2>1. job'[a] = j /\ \A b \in Admin \ {a} : job'[b] = job[b]
    BY <1>0, <1>3, OneJob DEF StartBegin
  <2>2. j.at = "startType" /\ j.op = "start" /\ j.todo = Defined
    BY DEF NoJob
  <2>3. types = NoRoutes /\ ~running /\ config # None /\ lock' = a
        /\ UNCHANGED <<config, running, definitions, types, entry>>
    BY <1>0, <1>3 DEF StartBegin, FreeInv, Lock
  <2> HIDE DEF j
  <2>4. \A t \in Type : ToDoOrMatch(t, Defined)'
    BY <2>3 DEF ToDoOrMatch, Match, Defined, NoRoutes
  <2>5. JobOK(a)'
    BY <2>1, <2>2, <2>3, <2>4 DEF JobOK, ToDoOrMatch, Match, Defined
  <2>6. RunInv' /\ FreeInv'
    BY <1>1, <2>3 DEF RunInv, FreeInv
  <2> QED BY <1>0, <2>1, <2>2, <2>3, <2>5, <2>6, HolderStep DEF Holding, Starting
<1>4. CASE AddDefinition(a)
  <2>1. PICK t \in Type \ Defined, s \in Schema :
          /\ definitions' = [definitions EXCEPT ![t] = s]
          /\ IF running
             THEN /\ Lock(a)
                  /\ job' = [job EXCEPT ![a] = [NoJob EXCEPT !.at = "startType", !.op = "add", !.todo = {t}]]
             ELSE UNCHANGED <<lock, job>>
    BY <1>4 DEF AddDefinition
  <2>2. UNCHANGED <<config, running, types, entry>>
    BY <1>4 DEF AddDefinition
  <2>3. definitions'[t] # None /\ \A u \in Type : u # t => definitions'[u] = definitions[u]
    BY <1>0, <2>1, ServerAssumption DEF TypeOK
  <2>4. CASE running
    <3> DEFINE j == [NoJob EXCEPT !.at = "startType", !.op = "add", !.todo = {t}]
    <3>1. job'[a] = j /\ \A b \in Admin \ {a} : job'[b] = job[b]
      BY <1>0, <2>1, <2>4, OneJob
    <3>2. j.at = "startType" /\ j.op = "add" /\ j.todo = {t} /\ lock' = a
      BY <2>1, <2>4 DEF NoJob, Lock
    <3>3. \A u \in Type : Match(u)
      BY <1>0, <2>4 DEF FreeInv
    <3> HIDE DEF j
    <3>4. \A u \in Type : ToDoOrMatch(u, {t})'
      BY <2>1, <2>2, <2>3, <3>3 DEF ToDoOrMatch, Match, Defined
    <3>5. JobOK(a)'
      BY <1>0, <2>1, <2>2, <2>4, <3>1, <3>2, <3>4 DEF JobOK, ToDoOrMatch, Match, RunInv, Starting
    <3>6. RunInv' /\ FreeInv'
      BY <1>0, <1>1, <2>2, <3>2 DEF RunInv, FreeInv
    <3> QED BY <1>0, <3>1, <3>2, <3>5, <3>6, HolderStep DEF Holding, Starting
  <2>5. CASE ~running
    <3>1. JobOK(a)'
      BY <1>1, <2>1, <2>5 DEF JobOK, Holding, Starting
    <3>2. RunInv' /\ FreeInv'
      BY <1>0, <2>2, <2>5 DEF RunInv, FreeInv
    <3> QED BY <1>0, <1>1, <2>1, <2>5, <3>1, <3>2, HolderStep
  <2> QED BY <2>4, <2>5
<1>5. CASE StopBegin(a)
  <2> DEFINE j == [NoJob EXCEPT !.at = "cancel", !.op = "stop", !.ctx = pipelineCtx,
                                !.waits = Range(types) \ {None}]
  <2>1. job'[a] = j /\ \A b \in Admin \ {a} : job'[b] = job[b]
    BY <1>0, <1>5, OneJob DEF StopBegin
  <2>2. j.at = "cancel"
    BY DEF NoJob
  <2> HIDE DEF j
  <2>3. JobOK(a)'
    BY <2>1, <2>2 DEF JobOK, Starting
  <2>4. RunInv' /\ FreeInv' /\ lock' = None
    BY <1>0, <1>5 DEF StopBegin, RunInv, FreeInv
  <2> QED BY <1>0, <1>1, <2>1, <2>2, <2>3, <2>4, HolderStep DEF Holding, Starting
<1>6. CASE RemoveBegin(a)
  <2>1. PICK t \in Defined :
          IF running /\ types[t] # None
          THEN /\ Lock(a)
               /\ job' = [job EXCEPT ![a] = [NoJob EXCEPT !.at = "unlink", !.op = "remove",
                                                          !.type = t, !.table = routing]]
               /\ UNCHANGED definitions
          ELSE definitions' = [definitions EXCEPT ![t] = None] /\ UNCHANGED <<lock, job>>
    BY <1>6 DEF RemoveBegin
  <2>2. UNCHANGED <<config, running, types, entry>> /\ t \in Type
    BY <1>6 DEF RemoveBegin, Defined
  <2>3. CASE running /\ types[t] # None
    <3> DEFINE j == [NoJob EXCEPT !.at = "unlink", !.op = "remove", !.type = t, !.table = routing]
    <3>1. job'[a] = j /\ \A b \in Admin \ {a} : job'[b] = job[b]
      BY <1>0, <2>1, <2>3, OneJob
    <3>2. j.at = "unlink" /\ j.type = t /\ lock' = a /\ definitions' = definitions
      BY <2>1, <2>3 DEF NoJob, Lock
    <3> HIDE DEF j
    <3>3. \A u \in Type : Match(u)'
      BY <1>0, <2>2, <2>3, <3>2 DEF FreeInv, Match
    <3>4. JobOK(a)'
      BY <2>2, <2>3, <3>1, <3>2, <3>3 DEF JobOK, Match, Starting
    <3>5. RunInv' /\ FreeInv'
      BY <1>0, <1>1, <2>2, <3>2 DEF RunInv, FreeInv
    <3> QED BY <1>0, <3>1, <3>2, <3>4, <3>5, HolderStep DEF Holding
  <2>4. CASE ~(running /\ types[t] # None)
    <3>1. definitions' = [definitions EXCEPT ![t] = None] /\ UNCHANGED <<lock, job>>
      BY <2>1, <2>4
    <3>2. JobOK(a)'
      BY <1>1, <3>1 DEF JobOK, Holding, Starting
    <3>3. RunInv' /\ FreeInv'
      BY <1>0, <2>2, <2>4, <3>1 DEF RunInv, FreeInv, Match, TypeOK
    <3> QED BY <1>0, <1>1, <3>1, <3>2, <3>3, HolderStep
  <2> QED BY <2>3, <2>4
<1> QED BY <1>2, <1>3, <1>4, <1>5, <1>6 DEF Request

\* What is known of a request that holds s.mu.
LEMMA AtHolding ==
  ASSUME Inv, NEW a \in Admin, job[a].at \in Holding
  PROVE  /\ TypeOK /\ JobOK(a) /\ RunInv /\ lock = a /\ a # None
         /\ job[a].todo \in SUBSET Type
BY ServerAssumption DEF Inv, LockedInv, LockInv, TypeOK

\* Starting a type keeps the invariant: the new entry is nobody else's.
LEMMA StartTypeLocked ==
  ASSUME Inv, NEW a \in Admin, NEW t \in Type,
         StartTypeFails(a, t) \/ StartTypePanics(a, t) \/ StartTypeRuns(a, t)
  PROVE  LockedInv'
<1> DEFINE todo == job[a].todo
<1>1. job[a].at = "startType" /\ t \in todo
  BY DEF StartTypeFails, StartTypePanics, StartTypeRuns, At
<1>2. TypeOK /\ JobOK(a) /\ RunInv /\ lock = a /\ a # None /\ todo \in SUBSET Type
  BY <1>1, AtHolding DEF Holding, Starting
<1>3. /\ config # None /\ types[t] = None /\ definitions[t] # None
      /\ \A u \in Type : ToDoOrMatch(u, todo)
      /\ IF running THEN job[a].op = "add" ELSE job[a].op = "start"
      /\ job[a].op = "add" => todo = {t}
      /\ job[a].op = "start" => types = NoRoutes \/ config.queueSize >= 0
  BY <1>1, <1>2 DEF JobOK, ToDoOrMatch, Starting
<1>4. CASE StartTypeFails(a, t)
  <2>1. CASE job[a].op = "start"
    <3>1. job' = [job EXCEPT ![a] = [job[a] EXCEPT !.at = "rollback"]] /\ UNCHANGED <<lock, config, running>>
      BY <1>4, <2>1 DEF StartTypeFails, Goto
    <3>2. job'[a].at = "rollback" /\ \A b \in Admin \ {a} : job'[b] = job[b]
      BY <1>2, <3>1 DEF TypeOK
    <3>3. JobOK(a)' /\ RunInv' /\ FreeInv'
      BY <1>2, <1>3, <2>1, <3>1, <3>2 DEF JobOK, RunInv, FreeInv
    <3> QED BY <1>2, <3>1, <3>2, <3>3, HolderStep DEF Holding, Starting
  <2>2. CASE job[a].op # "start"
    <3>1. /\ definitions' = [definitions EXCEPT ![t] = None] /\ lock' = None
          /\ job' = [job EXCEPT ![a] = NoJob] /\ UNCHANGED <<config, running, types, entry>>
      BY <1>4, <2>2 DEF StartTypeFails, Unlock, Done
    <3>2. job'[a].at = "idle" /\ \A b \in Admin \ {a} : job'[b] = job[b]
      BY <1>2, <3>1 DEF TypeOK, NoJob
    <3>3. running /\ todo = {t}
      BY <1>3, <2>2
    <3>4. \A u \in Type : Match(u)'
      BY <1>2, <1>3, <3>1, <3>3 DEF Match, ToDoOrMatch, TypeOK
    <3>5. JobOK(a)' /\ RunInv' /\ FreeInv'
      BY <1>2, <3>1, <3>2, <3>3, <3>4 DEF JobOK, RunInv, FreeInv, Starting, Match
    <3> QED BY <1>2, <3>1, <3>2, <3>5, HolderStep DEF Holding, Starting
  <2> QED BY <2>1, <2>2
<1>5. CASE StartTypePanics(a, t)
  <2>1. /\ config.queueSize < 0 /\ lock' = None /\ job' = [job EXCEPT ![a] = NoJob]
        /\ UNCHANGED <<config, running, definitions, types>>
    BY <1>5 DEF StartTypePanics, Unlock, Done, serverVars
  <2>2. job'[a].at = "idle" /\ \A b \in Admin \ {a} : job'[b] = job[b]
    BY <1>2, <2>1 DEF TypeOK, NoJob
  <2>3. config.queueSize \in Int
    BY <1>2, <1>3, ServerAssumption DEF TypeOK, Opt
  <2>4. ~running /\ types = NoRoutes
    BY <1>2, <1>3, <2>1, <2>3 DEF RunInv
  <2>5. JobOK(a)' /\ RunInv' /\ FreeInv'
    BY <2>1, <2>2, <2>4 DEF JobOK, RunInv, FreeInv, Starting, NoRoutes
  <2> QED BY <1>2, <2>1, <2>2, <2>5, HolderStep DEF Holding, Starting
<1>6. CASE StartTypeRuns(a, t)
  <2>1. PICK e \in Entry :
          /\ FreshEntry(e)
          /\ entry' = [entry EXCEPT ![e] = NewEntry(t)]
          /\ types' = [types EXCEPT ![t] = e]
          /\ job' = [job EXCEPT ![a] = [job[a] EXCEPT !.at = "publish", !.todo = todo \ {t}, !.type = t,
                                                 !.entry = e, !.table = routing]]
    BY <1>6 DEF StartTypeRuns
  <2>2. config.queueSize >= 0 /\ UNCHANGED <<lock, config, running, definitions>>
    BY <1>6 DEF StartTypeRuns
  <2> DEFINE j == [job[a] EXCEPT !.at = "publish", !.todo = todo \ {t}, !.type = t,
                                 !.entry = e, !.table = routing]
  <2>3. job'[a] = j /\ \A b \in Admin \ {a} : job'[b] = job[b]
    BY <1>2, <2>1, OneJob
  <2>4. j.at = "publish" /\ j.todo = todo \ {t} /\ j.op = job[a].op
    BY <1>2 DEF TypeOK
  <2> HIDE DEF j
  <2>5. e # None /\ \A u \in Type : types[u] # e
    BY <2>1, ServerAssumption DEF FreshEntry
  <2>6. types'[t] = e /\ entry'[e].schema = definitions[t]
    BY <1>2, <2>1 DEF TypeOK, NewEntry
  <2>7. ASSUME NEW u \in Type, u # t
        PROVE  types'[u] = types[u] /\ (types[u] # None => entry'[types[u]] = entry[types[u]])
    BY <1>2, <2>1, <2>5, <2>7 DEF TypeOK, Opt
  <2>8. \A u \in Type : ToDoOrMatch(u, job[a].todo)'
    BY <1>3, <2>2, <2>3, <2>4, <2>5, <2>6, <2>7 DEF ToDoOrMatch, Match
  <2>9. JobOK(a)' /\ RunInv' /\ FreeInv'
    <3>1. JobOK(a)'
      BY <1>3, <2>2, <2>3, <2>4, <2>8 DEF JobOK
    <3> QED BY <1>2, <2>2, <3>1 DEF RunInv, FreeInv
  <2> QED BY <1>2, <2>2, <2>3, <2>4, <2>9, HolderStep DEF Holding, Starting
<1> QED BY <1>4, <1>5, <1>6

\* So does the rest of start and add.
LEMMA StartRestLocked ==
  ASSUME Inv, NEW a \in Admin, Publish(a) \/ Rollback(a) \/ Started(a) \/ StartLogger(a)
  PROVE  LockedInv'
<1> DEFINE todo == job[a].todo
<1>1. job[a].at \in {"publish", "rollback", "started", "startLogger"}
  BY DEF Publish, Rollback, Started, StartLogger, At
<1>2. TypeOK /\ JobOK(a) /\ RunInv /\ lock = a /\ a # None
  BY <1>1, AtHolding DEF Holding, Starting
<1>3. config # None
  BY <1>1, <1>2 DEF JobOK, Starting
<1>4. CASE Publish(a)
  <2>1. /\ config.queueSize >= 0 /\ \A t \in Type : ToDoOrMatch(t, todo)
        /\ IF running THEN job[a].op = "add" ELSE job[a].op = "start"
        /\ job[a].op = "add" => todo = {}
        /\ UNCHANGED <<config, running, definitions, types, entry>>
    BY <1>2, <1>4 DEF Publish, JobOK, At, serverVars
  <2>2. CASE job[a].op = "add"
    <3>1. lock' = None /\ job' = [job EXCEPT ![a] = NoJob]
      BY <1>4, <2>2 DEF Publish, Unlock, Done
    <3>2. job'[a].at = "idle" /\ \A b \in Admin \ {a} : job'[b] = job[b]
      BY <1>2, <3>1 DEF TypeOK, NoJob
    <3>3. JobOK(a)' /\ RunInv' /\ FreeInv'
      BY <1>2, <2>1, <2>2, <3>1, <3>2 DEF JobOK, RunInv, FreeInv, Starting, ToDoOrMatch, Match
    <3> QED BY <1>2, <3>1, <3>2, <3>3, HolderStep DEF Holding, Starting
  <2>3. CASE job[a].op # "add"
    <3> DEFINE j == [NoJob EXCEPT !.op = "start", !.todo = todo,
                                  !.at = IF todo = {} THEN "started" ELSE "startType"]
    <3>1. job' = [job EXCEPT ![a] = j] /\ lock' = lock
      BY <1>4, <2>3 DEF Publish
    <3>2. j.op = "start" /\ j.todo = todo /\ j.at = IF todo = {} THEN "started" ELSE "startType"
      BY DEF NoJob
    <3> HIDE DEF j
    <3>3. job'[a] = j /\ \A b \in Admin \ {a} : job'[b] = job[b]
      BY <1>2, <3>1, OneJob
    <3>4. \A t \in Type : ToDoOrMatch(t, job[a].todo)'
      BY <2>1, <3>2, <3>3 DEF ToDoOrMatch, Match
    <3>5. JobOK(a)'
      BY <1>3, <2>1, <2>3, <3>2, <3>3, <3>4 DEF JobOK
    <3>6. RunInv' /\ FreeInv'
      BY <1>2, <2>1, <3>1 DEF RunInv, FreeInv
    <3> QED BY <1>2, <3>1, <3>2, <3>3, <3>5, <3>6, HolderStep DEF Holding, Starting
  <2> QED BY <2>2, <2>3
<1>5. CASE Rollback(a)
  <2>1. ~running /\ types' = NoRoutes /\ lock' = None /\ job' = [job EXCEPT ![a] = NoJob]
        /\ UNCHANGED <<config, running>>
    BY <1>2, <1>5 DEF Rollback, JobOK, At, Unlock, Done
  <2>2. job'[a].at = "idle" /\ \A b \in Admin \ {a} : job'[b] = job[b]
    BY <1>2, <2>1 DEF TypeOK, NoJob
  <2>3. JobOK(a)' /\ RunInv' /\ FreeInv'
    BY <2>1, <2>2 DEF JobOK, RunInv, FreeInv, Starting, NoRoutes
  <2> QED BY <1>2, <2>1, <2>2, <2>3, HolderStep DEF Holding, Starting
<1>6. CASE Started(a)
  <2>1. /\ config.queueSize >= 0 /\ todo = {} /\ running'
        /\ \A t \in Type : ToDoOrMatch(t, todo)
        /\ UNCHANGED <<config, definitions, types, entry>>
    BY <1>2, <1>6 DEF Started, JobOK, At
  <2>2. RunInv' /\ \A t \in Type : Match(t)'
    BY <1>3, <2>1 DEF RunInv, ToDoOrMatch, Match
  <2>3. CASE config.endpoint
    <3>1. lock' = lock /\ job' = [job EXCEPT ![a] = [job[a] EXCEPT !.at = "startLogger"]]
      BY <1>6, <2>3 DEF Started, Goto
    <3>2. job'[a].at = "startLogger" /\ job'[a].todo = {} /\ \A b \in Admin \ {a} : job'[b] = job[b]
      BY <1>2, <2>1, <3>1 DEF TypeOK
    <3>3. FreeInv'
      BY <1>2, <3>1 DEF FreeInv
    <3>4. \A t \in Type : ToDoOrMatch(t, job[a].todo)'
      BY <2>2, <3>2 DEF ToDoOrMatch
    <3>5. JobOK(a)'
      BY <1>3, <2>1, <3>2, <3>4 DEF JobOK
    <3> QED BY <3>5, <1>2, <2>2, <3>1, <3>2, <3>3, HolderStep DEF Holding, Starting
  <2>4. CASE ~config.endpoint
    <3>1. lock' = None /\ job' = [job EXCEPT ![a] = NoJob]
      BY <1>6, <2>4 DEF Started, Unlock, Done
    <3>2. job'[a].at = "idle" /\ \A b \in Admin \ {a} : job'[b] = job[b]
      BY <1>2, <3>1 DEF TypeOK, NoJob
    <3>3. FreeInv'
      BY <2>1, <2>2 DEF FreeInv
    <3>4. JobOK(a)'
      BY <3>2 DEF JobOK, Starting
    <3> QED BY <3>4, <1>2, <2>2, <3>1, <3>2, <3>3, HolderStep DEF Holding, Starting
  <2> QED BY <2>3, <2>4
<1>7. CASE StartLogger(a)
  <2>1. /\ running /\ todo = {} /\ \A t \in Type : ToDoOrMatch(t, todo)
        /\ lock' = None /\ job' = [job EXCEPT ![a] = NoJob]
        /\ UNCHANGED <<config, running, definitions, types, entry>>
    BY <1>2, <1>7 DEF StartLogger, JobOK, At, Unlock, Done, serverVars
  <2>2. job'[a].at = "idle" /\ \A b \in Admin \ {a} : job'[b] = job[b]
    BY <1>2, <2>1 DEF TypeOK, NoJob
  <2>3. JobOK(a)' /\ RunInv' /\ FreeInv'
    BY <1>2, <2>1, <2>2 DEF JobOK, RunInv, FreeInv, Starting, ToDoOrMatch, Match
  <2> QED BY <1>2, <2>1, <2>2, <2>3, HolderStep DEF Holding, Starting
<1> QED BY <1>4, <1>5, <1>6, <1>7

\* So does the way of a stop or a remove: only the step that takes the entry
\* out of s.types holds s.mu.
LEMMA EndLocked ==
  ASSUME Inv, NEW a \in Admin,
         Unlink(a) \/ Cancel(a) \/ Wait(a) \/ Reset(a) \/ CloseLogger(a) \/ ClearLogger(a)
  PROVE  LockedInv'
<1>0. TypeOK
  BY DEF Inv
<1>1. CASE Unlink(a)
  <2> DEFINE t == job[a].type
             j == [NoJob EXCEPT !.at = "cancel", !.op = "remove", !.waits = {types[t]}]
  <2>1. job[a].at = "unlink"
    BY <1>1 DEF Unlink, At
  <2>2. JobOK(a) /\ RunInv /\ lock = a /\ a # None
    BY <2>1, AtHolding DEF Holding
  <2>3. running /\ t \in Type /\ \A u \in Type : Match(u)
    BY <2>1, <2>2 DEF JobOK
  <2>4. /\ types' = [types EXCEPT ![t] = None] /\ definitions' = [definitions EXCEPT ![t] = None]
        /\ job' = [job EXCEPT ![a] = j] /\ lock' = None
        /\ UNCHANGED <<config, running, entry>>
    BY <1>1 DEF Unlink, Unlock
  <2>5. j.at = "cancel"
    BY DEF NoJob
  <2> HIDE DEF j
  <2>6. job'[a] = j /\ \A b \in Admin \ {a} : job'[b] = job[b]
    BY <1>0, <2>4, OneJob
  <2>7. \A u \in Type : Match(u)'
    BY <1>0, <2>3, <2>4 DEF Match, TypeOK
  <2>8. JobOK(a)' /\ RunInv' /\ FreeInv'
    BY <2>2, <2>3, <2>4, <2>5, <2>6, <2>7 DEF JobOK, RunInv, FreeInv, Starting, Match
  <2> QED BY <2>2, <2>4, <2>5, <2>6, <2>8, HolderStep DEF Holding, Starting
<1>2. CASE Cancel(a) \/ Wait(a) \/ Reset(a) \/ CloseLogger(a) \/ ClearLogger(a)
  <2>1. job[a].at \notin Holding
    BY <1>2 DEF Cancel, Wait, Reset, CloseLogger, ClearLogger, At, Holding, Starting
  <2>2. /\ \A b \in Admin \ {a} : job'[b] = job[b]
        /\ job'[a].at \in {"wait", "reset", "closeLogger", "clearLogger", "idle"}
    <3>1. \A stage : Goto(a, stage) => job'[a].at = stage /\ \A b \in Admin \ {a} : job'[b] = job[b]
      BY <1>0 DEF Goto, TypeOK
    <3>2. Done(a) => job'[a].at = "idle" /\ \A b \in Admin \ {a} : job'[b] = job[b]
      BY <1>0 DEF Done, TypeOK, NoJob
    <3> QED BY <1>2, <3>1, <3>2 DEF Cancel, Wait, Reset, CloseLogger, ClearLogger
  <2>3. UNCHANGED <<lock, config, running, definitions, types>>
    BY <1>2 DEF Cancel, Wait, Reset, CloseLogger, ClearLogger, serverVars
  <2>4. \A e \in Entry : entry'[e].schema = entry[e].schema
    <3>1. \A e \in Entry : [entry[e] EXCEPT !.cancelled = TRUE].schema = entry[e].schema
      BY <1>0 DEF TypeOK
    <3> QED BY <1>2, <3>1 DEF Cancel, CancelCtx, Wait, Reset, CloseLogger, ClearLogger
  <2> QED BY <2>1, <2>2, <2>3, <2>4, OutsideStep DEF Holding, Starting
<1> QED BY <1>1, <1>2

\* So do entries and ingest requests.
LEMMA OtherLocked ==
  ASSUME Inv, (\E e \in Entry : EntryExits(e)) \/ (\E i \in Ingester : IngestStep(i))
  PROVE  LockedInv'
<1>1. UNCHANGED <<lock, config, running, definitions, types, job>>
  BY DEF EntryExits, IngestStep, IngestSnapshot, IngestLookup, IngestSend, serverVars
<1>2. \A e \in Entry : entry'[e].schema = entry[e].schema
  <2>1. ASSUME NEW f \in Entry, EntryExits(f)
        PROVE  \A e \in Entry : entry'[e].schema = entry[e].schema
    <3>1. entry' = [entry EXCEPT ![f] = [entry[f] EXCEPT !.alive = FALSE]]
      BY <2>1 DEF EntryExits
    <3>2. [entry[f] EXCEPT !.alive = FALSE].schema = entry[f].schema
      BY DEF Inv, TypeOK
    <3> QED BY <3>1, <3>2 DEF Inv, TypeOK
  <2> QED BY <2>1 DEF IngestStep, IngestSnapshot, IngestLookup, IngestSend
<1> QED BY <1>1, <1>2, OutsideStep

\* Only a request that copies a definition starts to look its type up.
LEMMA LookupStep ==
  ASSUME Inv, Next
  PROVE  LookupInv'
<1>1. CASE UNCHANGED ingest
  BY <1>1 DEF Inv, LookupInv
<1>2. ASSUME NEW i \in Ingester, IngestStep(i)
      PROVE  LookupInv'
  <2>1. \A k \in Ingester \ {i} : ingest'[k] = ingest[k]
    BY <1>2 DEF IngestStep, IngestSnapshot, IngestLookup, IngestSend, Inv, TypeOK
  <2>2. ingest'[i].at = "lookup" => ingest'[i].type \in Type
    <3>1. CASE IngestSnapshot(i)
      BY <3>1 DEF IngestSnapshot, NoItem, Defined, Inv, TypeOK
    <3>2. CASE IngestLookup(i)
      BY <3>2 DEF IngestLookup, NoItem, Inv, TypeOK
    <3>3. CASE IngestSend(i)
      BY <3>3 DEF IngestSend, NoItem, Inv, TypeOK
    <3> QED BY <1>2, <3>1, <3>2, <3>3 DEF IngestStep
  <2> QED BY <2>1, <2>2 DEF Inv, LookupInv
<1>3. UNCHANGED ingest \/ \E i \in Ingester : IngestStep(i)
  BY DEF Next, Request, Configure, StartBegin, AddDefinition, StopBegin, RemoveBegin,
         Continue, StartTypeFails, StartTypePanics, StartTypeRuns, Publish, Rollback, Started, StartLogger,
         Unlink, Cancel, Wait, Reset, CloseLogger, ClearLogger, EntryExits
<1> QED BY <1>1, <1>2, <1>3

\* The invariant holds at first.
LEMMA InitInv == Init => Inv
<1> SUFFICES ASSUME Init PROVE Inv
  OBVIOUS
<1>1. TypeOK
  BY NoJobType DEF Init, TypeOK, JobRecord, Opt, Unused, NoItem, NoRoutes
<1>2. LookupInv
  BY DEF Init, LookupInv, NoItem
<1>3. \A a \in Admin : job[a].at = "idle" /\ lock # a
  BY ServerAssumption DEF Init, NoJob
<1>4. LockedInv
  BY <1>3 DEF Init, LockedInv, LockInv, RunInv, FreeInv, JobOK, Holding, Starting
<1> QED BY <1>1, <1>2, <1>4 DEF Inv

\* Every step keeps it.
LEMMA StepInv == Inv /\ [Next]_vars => Inv'
<1> SUFFICES ASSUME Inv, [Next]_vars PROVE Inv'
  OBVIOUS
<1>0. TypeOK /\ LookupInv
  BY DEF Inv
<1>1. ASSUME NEW a \in Admin, Request(a)
      PROVE  TypeOK' /\ LockedInv'
  BY <1>0, <1>1, RequestType, RequestLocked
<1>2. ASSUME NEW a \in Admin, Continue(a)
      PROVE  TypeOK' /\ LockedInv'
  <2>1. ASSUME NEW t \in Type, StartTypeFails(a, t) \/ StartTypePanics(a, t) \/ StartTypeRuns(a, t)
        PROVE  TypeOK' /\ LockedInv'
    BY <1>0, <2>1, StartTypeType, StartTypeLocked
  <2>2. CASE Publish(a) \/ Rollback(a) \/ Started(a) \/ StartLogger(a)
    <3>1. Started(a) => config # None
      BY DEF Started, At, Inv, LockedInv, JobOK, Starting
    <3> QED BY <1>0, <2>2, <3>1, StartRestType, StartRestLocked
  <2>3. CASE Unlink(a) \/ Cancel(a) \/ Wait(a) \/ Reset(a) \/ CloseLogger(a) \/ ClearLogger(a)
    <3>1. At(a, "unlink") => types[job[a].type] # None /\ job[a].type \in Type
      BY DEF At, Inv, LockedInv, JobOK
    <3> QED BY <1>0, <2>3, <3>1, EndType, EndLocked
  <2> QED BY <1>2, <2>1, <2>2, <2>3 DEF Continue
<1>3. CASE (\E e \in Entry : EntryExits(e)) \/ (\E i \in Ingester : IngestStep(i))
  BY <1>0, <1>3, OtherType, OtherLocked, LookupStep DEF Inv, Next
<1>4. CASE Next
  BY <1>1, <1>2, <1>3, <1>4, LookupStep DEF Next, Inv
<1>5. CASE UNCHANGED vars
  <2>1. TypeOK' /\ LookupInv'
    BY <1>0, <1>5 DEF vars, serverVars, loggerVars, TypeOK, LookupInv
  <2>2. LockedInv'
    BY <1>5, OutsideStep DEF vars, serverVars
  <2> QED BY <2>1, <2>2 DEF Inv
<1> QED BY <1>4, <1>5

\* It holds in every reachable state.
LEMMA AlwaysInv == Spec => []Inv
BY InitInv, StepInv, PTL DEF Spec

-----------------------------------------------------------------------------
(* What follows.                                                           *)

\* Every variable of the server keeps its type: no request that goes on after
\* s.mu changed hands works with a type, an entry or a configuration that
\* is not one any more.
THEOREM ServerTypeCorrect == Spec => []TypeOK
BY AlwaysInv, PTL DEF Inv

\* s.mu is always held by a request in progress: no return, failing start or panic
\* goes away with it.
THEOREM LockAlwaysOwned == Spec => []LockHasOwner
<1>1. Inv => LockHasOwner
  <2> SUFFICES ASSUME Inv, lock # None PROVE ~At(lock, "idle")
    BY DEF LockHasOwner
  <2>1. lock \in Admin
    BY DEF Inv, TypeOK, Opt
  <2>2. job[lock].at \in Holding
    BY <2>1 DEF Inv, LockedInv, LockInv
  <2> QED BY <2>2 DEF At, Holding, Starting
<1> QED BY <1>1, AlwaysInv, PTL

\* Whenever s.mu is free, a running server has exactly one entry for each defined
\* type, started from the definition registered now, however many requests
\* start, stop, add and remove.
THEOREM DefinitionsAlwaysMatch == Spec => []TypesMatchDefinitions
<1>1. Inv => TypesMatchDefinitions
  BY DEF Inv, LockedInv, FreeInv, Match, TypesMatchDefinitions
<1> QED BY <1>1, AlwaysInv, PTL

=============================================================================
