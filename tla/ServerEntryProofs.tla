-------------------------- MODULE ServerEntryProofs --------------------------
(***************************************************************************)
(* What Server keeps of the goroutines of its entries, its routing table   *)
(* and its logger: nothing is leaked, what is ended is awaited and each    *)
(* route leads to the entry of its type, however many administrators there *)
(* are; and the table and the status are right as long as management       *)
(* requests come one at a time.                                            *)
(***************************************************************************)
EXTENDS ServerProofs

-----------------------------------------------------------------------------
(* Any number of administrators: no entry is leaked.                       *)

\* What s.types holds was started under the context that s.cancel cancels.
UsedCtx == \A t \in Type : types[t] # None => entry[types[t]].ctx = pipelineCtx

\* A stop cancels the context of everything it will wait for.
StopCtx ==
  \A a \in Admin : At(a, "cancel") /\ job[a].op = "stop" =>
    \A e \in job[a].waits : entry[e].ctx = job[a].ctx

LeakInv == Inv /\ UsedCtx /\ StopCtx /\ NoLeakedEntry

\* Nothing is started, and nothing cancelled comes back.
Steady ==
  \A e \in Entry : /\ entry'[e].ctx = entry[e].ctx /\ entry'[e].type = entry[e].type
                   /\ entry'[e].worker = entry[e].worker
                   /\ entry'[e].alive => entry[e].alive
                   /\ entry[e].cancelled => entry'[e].cancelled

\* Cancelling a set of entries, which is what stop, remove and a failed start do.
LEMMA CancelSome ==
  ASSUME TypeOK, NEW C \in SUBSET Entry,
         entry' = [e \in Entry |-> IF e \in C THEN [entry[e] EXCEPT !.cancelled = TRUE] ELSE entry[e]]
  PROVE  /\ Steady
         /\ \A e \in C : entry'[e].cancelled
         /\ \A e \in Entry \ C : entry'[e] = entry[e]
<1>1. \A e \in Entry : LET n == [entry[e] EXCEPT !.cancelled = TRUE]
                       IN  /\ n.ctx = entry[e].ctx /\ n.type = entry[e].type /\ n.worker = entry[e].worker
                           /\ n.alive = entry[e].alive /\ n.cancelled
  BY DEF TypeOK
<1> QED BY <1>1 DEF Steady

LEMMA CancelCtxSome ==
  ASSUME TypeOK, NEW c, CancelCtx(c)
  PROVE  /\ Steady
         /\ \A e \in Entry : IF entry[e].ctx = c THEN entry'[e].cancelled ELSE entry'[e] = entry[e]
<1> DEFINE C == {e \in Entry : entry[e].ctx = c}
<1>1. entry' = [e \in Entry |-> IF e \in C THEN [entry[e] EXCEPT !.cancelled = TRUE] ELSE entry[e]]
  BY DEF CancelCtx
<1>2. /\ Steady
      /\ \A e \in C : entry'[e].cancelled
      /\ \A e \in Entry \ C : entry'[e] = entry[e]
  <2> HIDE DEF C
  <2>1. C \in SUBSET Entry
    BY DEF C
  <2> QED BY <1>1, <2>1, CancelSome
<1> QED BY <1>2

\* An entry that comes to its end.
LEMMA ExitSteady ==
  ASSUME TypeOK, NEW e \in Entry, EntryExits(e)
  PROVE  Steady /\ entry[e].cancelled /\ \A f \in Entry \ {e} : entry'[f] = entry[f]
<1>1. entry' = [entry EXCEPT ![e] = [entry[e] EXCEPT !.alive = FALSE]] /\ entry[e].cancelled
  BY DEF EntryExits
<1>2. LET n == [entry[e] EXCEPT !.alive = FALSE]
      IN  /\ n.ctx = entry[e].ctx /\ n.type = entry[e].type /\ n.worker = entry[e].worker
          /\ ~n.alive /\ n.cancelled = entry[e].cancelled
  BY DEF TypeOK
<1>3. entry'[e] = [entry[e] EXCEPT !.alive = FALSE] /\ \A f \in Entry \ {e} : entry'[f] = entry[f]
  BY <1>1 DEF TypeOK
<1> QED BY <1>1, <1>2, <1>3 DEF Steady

LEMMA SameSteady == UNCHANGED entry => Steady
BY DEF Steady

\* Steps that start nothing and keep s.types: a request that was about to cancel
\* has done so, or still is.
LEMMA LeakKept ==
  ASSUME LeakInv, Steady, UNCHANGED <<types, pipelineCtx>>,
         \A b \in Admin : job'[b].at = "cancel" => job'[b] = job[b],
         \A b \in Admin : job[b].at = "cancel" =>
           job'[b] = job[b] \/ \A e \in job[b].waits : entry'[e].cancelled
  PROVE  UsedCtx' /\ StopCtx' /\ NoLeakedEntry'
<1>1. TypeOK
  BY DEF LeakInv, Inv
<1>2. UsedCtx'
  BY <1>1 DEF UsedCtx, LeakInv, Steady, TypeOK, Opt
<1>3. StopCtx'
  <2>1. SUFFICES ASSUME NEW b \in Admin, job'[b].at = "cancel", job'[b].op = "stop", NEW e \in job'[b].waits
                 PROVE  entry'[e].ctx = job'[b].ctx
    BY DEF StopCtx, At
  <2>2. job'[b] = job[b] /\ e \in Entry
    BY <1>1, <2>1 DEF TypeOK
  <2>3. entry[e].ctx = job[b].ctx
    BY <2>1, <2>2 DEF LeakInv, StopCtx, At
  <2> QED BY <2>2, <2>3 DEF Steady
<1>4. NoLeakedEntry'
  <2>1. SUFFICES ASSUME NEW e \in Entry, entry'[e].alive, entry'[e].worker
                 PROVE  \/ entry'[e].cancelled \/ e \in Used'
                        \/ \E b \in Admin : job'[b].at = "cancel" /\ e \in job'[b].waits
    BY DEF NoLeakedEntry, Alive, At
  <2>2. e \in Alive
    BY <2>1 DEF Alive, Steady
  <2>3. \/ entry[e].cancelled \/ e \in Used
        \/ \E b \in Admin : job[b].at = "cancel" /\ e \in job[b].waits
    BY <2>2 DEF LeakInv, NoLeakedEntry, At
  <2>4. Used' = Used
    BY DEF Used
  <2> QED BY <2>3, <2>4 DEF Steady
<1> QED BY <1>2, <1>3, <1>4

\* A fresh entry is nobody else's.
LEMMA FreshIsNew ==
  ASSUME Inv, NEW e \in Entry, FreshEntry(e), NEW n, entry' = [entry EXCEPT ![e] = n]
  PROVE  /\ e \notin Used /\ \A b \in Admin : e \notin job[b].waits
         /\ entry'[e] = n /\ \A f \in Entry \ {e} : entry'[f] = entry[f]
<1>1. \A t \in Type : types[t] # e
  BY DEF FreshEntry
<1>2. e \notin Used
  BY <1>1 DEF Used, Range, Inv, TypeOK
<1> QED BY <1>2 DEF FreshEntry, Inv, TypeOK

\* What is in s.types.
LEMMA UsedIs ==
  ASSUME TypeOK
  PROVE  Used = {types[t] : t \in {u \in Type : types[u] # None}}
BY DEF Used, Range, TypeOK

\* Starting a type leaks nothing.
LEMMA StartTypeLeaks ==
  ASSUME LeakInv, NEW a \in Admin, NEW t \in Type,
         StartTypeFails(a, t) \/ StartTypePanics(a, t) \/ StartTypeRuns(a, t)
  PROVE  UsedCtx' /\ StopCtx' /\ NoLeakedEntry'
<1>0. Inv /\ TypeOK /\ None \notin Entry
  BY ServerAssumption DEF LeakInv, Inv
<1>1. job[a].at = "startType" /\ t \in job[a].todo
  BY DEF StartTypeFails, StartTypePanics, StartTypeRuns, At
<1>2. CASE StartTypeFails(a, t)
  <2>1. Steady /\ UNCHANGED <<types, pipelineCtx>>
    BY <1>0, <1>2, CancelCtxSome, SameSteady DEF StartTypeFails
  <2>2. job'[a].at # "cancel" /\ \A b \in Admin \ {a} : job'[b] = job[b]
    BY <1>0, <1>2 DEF StartTypeFails, Goto, Done, NoJob, TypeOK
  <2> QED BY <1>1, <2>1, <2>2, LeakKept
<1>3. CASE StartTypePanics(a, t)
  <2>1. PICK e \in Entry : FreshEntry(e) /\ entry' = [entry EXCEPT ![e] = WriterOnly(t)]
    BY <1>3 DEF StartTypePanics
  <2>2. /\ e \notin Used /\ \A b \in Admin : e \notin job[b].waits
        /\ entry'[e] = WriterOnly(t) /\ \A f \in Entry \ {e} : entry'[f] = entry[f]
    BY <1>0, <2>1, FreshIsNew
  <2>3. ~WriterOnly(t).worker
    BY DEF WriterOnly, NewEntry
  <2>4. UNCHANGED <<types, pipelineCtx>> /\ Used' = Used
    BY <1>3 DEF StartTypePanics, serverVars, Used
  <2>5. job'[a].at = "idle" /\ \A b \in Admin \ {a} : job'[b] = job[b]
    BY <1>0, <1>3 DEF StartTypePanics, Done, NoJob, TypeOK
  <2>6. UsedCtx'
    <3>1. \A u \in Type : types[u] # None => types[u] \in Entry \ {e}
      BY <1>0, <2>2, UsedIs DEF TypeOK, Opt
    <3> QED BY <2>2, <2>4, <3>1 DEF LeakInv, UsedCtx
  <2>7. StopCtx'
    <3>1. \A b \in Admin : \A f \in job[b].waits : f \in Entry \ {e}
      BY <1>0, <2>2 DEF TypeOK
    <3> QED BY <2>2, <2>5, <3>1 DEF LeakInv, StopCtx, At
  <2>8. NoLeakedEntry'
    <3>1. \A f \in Entry : f \in Alive' => f # e /\ f \in Alive /\ entry'[f] = entry[f]
      BY <2>2, <2>3 DEF Alive
    <3>2. Alive' \subseteq Entry
      BY DEF Alive
    <3> QED BY <1>1, <2>4, <2>5, <3>1, <3>2 DEF LeakInv, NoLeakedEntry, At
  <2> QED BY <2>6, <2>7, <2>8
<1>4. CASE StartTypeRuns(a, t)
  <2>1. PICK e \in Entry :
          /\ FreshEntry(e)
          /\ entry' = [entry EXCEPT ![e] = NewEntry(t)]
          /\ types' = [types EXCEPT ![t] = e]
          /\ job' = [job EXCEPT ![a] = [job[a] EXCEPT !.at = "publish", !.todo = job[a].todo \ {t}, !.type = t,
                                                 !.entry = e, !.table = routing]]
    BY <1>4 DEF StartTypeRuns
  <2>2. /\ e \notin Used /\ \A b \in Admin : e \notin job[b].waits
        /\ entry'[e] = NewEntry(t) /\ \A f \in Entry \ {e} : entry'[f] = entry[f]
    BY <1>0, <2>1, FreshIsNew
  <2>3. NewEntry(t).ctx = pipelineCtx /\ pipelineCtx' = pipelineCtx
    BY <1>4 DEF NewEntry, StartTypeRuns
  <2>4. types[t] = None
    <3>1. JobOK(a)
      BY <1>0 DEF Inv, LockedInv
    <3> QED BY <1>1, <3>1 DEF JobOK, ToDoOrMatch
  <2>5. job'[a].at = "publish" /\ \A b \in Admin \ {a} : job'[b] = job[b]
    BY <1>0, <2>1 DEF TypeOK
  <2>6. types'[t] = e /\ \A u \in Type \ {t} : types'[u] = types[u]
    BY <1>0, <2>1 DEF TypeOK
  <2>7. UsedCtx'
    <3>1. \A u \in Type : types[u] # None => types[u] \in Entry \ {e}
      BY <1>0, <2>2, UsedIs DEF TypeOK, Opt
    <3> QED BY <2>2, <2>3, <2>6, <3>1 DEF LeakInv, UsedCtx
  <2>8. StopCtx'
    <3>1. \A b \in Admin : \A f \in job[b].waits : f \in Entry \ {e}
      BY <1>0, <2>2 DEF TypeOK
    <3> QED BY <2>2, <2>5, <3>1 DEF LeakInv, StopCtx, At
  <2>9. Used \cup {e} \subseteq Used'
    <3>1. types' \in [Type -> Opt(Entry)]
      BY <1>0, <2>1 DEF TypeOK, Opt
    <3>2. \A u \in Type : types'[u] # None => types'[u] \in Used'
      BY <3>1 DEF Used, Range
    <3>3. \A f \in Used : \E u \in Type : types[u] = f /\ f # None
      BY <1>0, UsedIs
    <3> QED BY <1>0, <2>4, <2>6, <3>2, <3>3
  <2>10. NoLeakedEntry'
    <3>1. \A f \in Entry : f \in Alive' => f = e \/ (f \in Alive /\ entry'[f] = entry[f])
      BY <2>2 DEF Alive
    <3>2. Alive' \subseteq Entry
      BY DEF Alive
    <3> QED BY <1>1, <2>5, <2>9, <3>1, <3>2 DEF LeakInv, NoLeakedEntry, At
  <2> QED BY <2>7, <2>8, <2>10
<1> QED BY <1>2, <1>3, <1>4

\* A request that begins or goes on without s.types, s.cancel or its waits changing.
LEMMA OtherStepsLeak ==
  ASSUME LeakInv, NEW a \in Admin,
         \/ Configure(a) \/ AddDefinition(a) \/ RemoveBegin(a)
         \/ Publish(a) \/ Started(a) \/ StartLogger(a)
         \/ Wait(a) \/ Reset(a) \/ CloseLogger(a) \/ ClearLogger(a)
  PROVE  UsedCtx' /\ StopCtx' /\ NoLeakedEntry'
<1>0. TypeOK
  BY DEF LeakInv, Inv
<1>1. UNCHANGED <<types, pipelineCtx, entry>>
  BY DEF Configure, AddDefinition, RemoveBegin, Publish, Started, StartLogger, Wait, Reset,
         CloseLogger, ClearLogger, serverVars
<1>2. \A b \in Admin \ {a} : job'[b] = job[b]
  BY <1>0 DEF Configure, AddDefinition, RemoveBegin, Publish, Started, StartLogger, Wait, Reset,
              CloseLogger, ClearLogger, Goto, Done, TypeOK
<1>3. job[a].at # "cancel"
  BY DEF Configure, AddDefinition, RemoveBegin, Publish, Started, StartLogger, Wait, Reset,
         CloseLogger, ClearLogger, At
<1>4. job'[a].at # "cancel"
  <2>1. CASE Configure(a)
    BY <1>3, <2>1 DEF Configure
  <2>2. CASE AddDefinition(a)
    <3> DEFINE j(t) == [NoJob EXCEPT !.at = "startType", !.op = "add", !.todo = {t}]
    <3>1. job' = job \/ \E t \in Type : job' = [job EXCEPT ![a] = j(t)]
      BY <2>2 DEF AddDefinition
    <3>2. \A t \in Type : j(t).at = "startType"
      BY DEF NoJob
    <3> HIDE DEF j
    <3> QED BY <1>0, <1>3, <3>1, <3>2, OneJob
  <2>3. CASE RemoveBegin(a)
    <3> DEFINE j(t) == [NoJob EXCEPT !.at = "unlink", !.op = "remove", !.type = t, !.table = routing]
    <3>1. job' = job \/ \E t \in Type : job' = [job EXCEPT ![a] = j(t)]
      BY <2>3 DEF RemoveBegin, Defined
    <3>2. \A t \in Type : j(t).at = "unlink"
      BY DEF NoJob
    <3> HIDE DEF j
    <3> QED BY <1>0, <1>3, <3>1, <3>2, OneJob
  <2>4. CASE Publish(a)
    <3> DEFINE j == [NoJob EXCEPT !.op = "start", !.todo = job[a].todo,
                                  !.at = IF job[a].todo = {} THEN "started" ELSE "startType"]
    <3>1. job' = [job EXCEPT ![a] = NoJob] \/ job' = [job EXCEPT ![a] = j]
      BY <2>4 DEF Publish, Done
    <3>2. NoJob.at = "idle" /\ j.at \in {"started", "startType"}
      BY DEF NoJob
    <3> HIDE DEF j
    <3> QED BY <1>0, <3>1, <3>2, OneJob
  <2>5. CASE \/ Started(a) \/ StartLogger(a)
             \/ Wait(a) \/ Reset(a) \/ CloseLogger(a) \/ ClearLogger(a)
    <3>1. \A stage : Goto(a, stage) => job'[a].at = stage
      BY <1>0 DEF Goto, TypeOK
    <3>2. Done(a) => job'[a].at = "idle"
      BY <1>0 DEF Done, TypeOK, NoJob
    <3> QED BY <2>5, <3>1, <3>2 DEF Started, StartLogger, Wait, Reset, CloseLogger, ClearLogger
  <2> QED BY <2>1, <2>2, <2>3, <2>4, <2>5
<1> QED BY <1>1, <1>2, <1>3, <1>4, SameSteady, LeakKept

\* A stop, a remove or a rollback leaves nothing that nobody cancels.
LEMMA EndLeaks ==
  ASSUME LeakInv, NEW a \in Admin, StartBegin(a) \/ StopBegin(a) \/ Rollback(a) \/ Unlink(a) \/ Cancel(a)
  PROVE  UsedCtx' /\ StopCtx' /\ NoLeakedEntry'
<1>0. Inv /\ TypeOK /\ None \notin Entry
  BY ServerAssumption DEF LeakInv, Inv
<1>1. CASE StartBegin(a)
  <2>1. types = NoRoutes /\ UNCHANGED <<types, entry>> /\ job[a].at = "idle"
    BY <1>0, <1>1 DEF StartBegin, Lock, Inv, LockedInv, FreeInv, At
  <2>2. job'[a].at = "startType" /\ \A b \in Admin \ {a} : job'[b] = job[b]
    BY <1>0, <1>1 DEF StartBegin, TypeOK, NoJob
  <2>3. UsedCtx'
    BY <2>1 DEF UsedCtx, NoRoutes
  <2>4. StopCtx'
    BY <2>1, <2>2 DEF LeakInv, StopCtx, At
  <2>5. NoLeakedEntry'
    BY <2>1, <2>2 DEF LeakInv, NoLeakedEntry, At, Alive, Used
  <2> QED BY <2>3, <2>4, <2>5
<1>2. CASE StopBegin(a)
  <2> DEFINE j == [NoJob EXCEPT !.at = "cancel", !.op = "stop", !.ctx = pipelineCtx, !.waits = Range(types) \ {None}]
  <2>1. types' = NoRoutes /\ UNCHANGED entry /\ job[a].at = "idle"
    BY <1>2 DEF StopBegin, At
  <2>2. job'[a] = j /\ \A b \in Admin \ {a} : job'[b] = job[b]
    BY <1>0, <1>2, OneJob DEF StopBegin
  <2>3. j.at = "cancel" /\ j.ctx = pipelineCtx /\ j.waits = Used
    BY DEF NoJob, Used
  <2> HIDE DEF j
  <2>4. UsedCtx'
    BY <2>1 DEF UsedCtx, NoRoutes
  <2>5. \A e \in Used : entry[e].ctx = pipelineCtx
    BY <1>0, UsedIs DEF LeakInv, UsedCtx
  <2>6. StopCtx'
    BY <2>1, <2>2, <2>3, <2>5 DEF LeakInv, StopCtx, At
  <2>7. NoLeakedEntry'
    BY <2>1, <2>2, <2>3 DEF LeakInv, NoLeakedEntry, At, Alive
  <2> QED BY <2>4, <2>6, <2>7
<1>3. CASE Rollback(a)
  <2>1. types' = NoRoutes /\ UNCHANGED entry /\ job[a].at = "rollback" /\ \A e \in Used : ~entry[e].alive
    BY <1>3 DEF Rollback, At, AllGone, Used
  <2>2. job'[a].at = "idle" /\ \A b \in Admin \ {a} : job'[b] = job[b]
    BY <1>0, <1>3 DEF Rollback, Done, TypeOK, NoJob
  <2>3. UsedCtx'
    BY <2>1 DEF UsedCtx, NoRoutes
  <2>4. StopCtx'
    BY <2>1, <2>2 DEF LeakInv, StopCtx, At
  <2>5. NoLeakedEntry'
    BY <2>1, <2>2 DEF LeakInv, NoLeakedEntry, At, Alive
  <2> QED BY <2>3, <2>4, <2>5
<1>4. CASE Unlink(a)
  <2> DEFINE t == job[a].type
             j == [NoJob EXCEPT !.at = "cancel", !.op = "remove", !.waits = {types[t]}]
  <2>1. job[a].at = "unlink" /\ UNCHANGED <<entry, pipelineCtx>>
    BY <1>4 DEF Unlink, At
  <2>2. t \in Type
    BY <1>0, <2>1 DEF Inv, LockedInv, JobOK
  <2>3. job'[a] = j /\ \A b \in Admin \ {a} : job'[b] = job[b]
    BY <1>0, <1>4, OneJob DEF Unlink
  <2>4. j.at = "cancel" /\ j.op = "remove" /\ j.waits = {types[t]}
    BY DEF NoJob
  <2>5. types' = [types EXCEPT ![t] = None]
    BY <1>4 DEF Unlink
  <2> HIDE DEF j, t
  <2>6. types'[t] = None /\ \A u \in Type \ {t} : types'[u] = types[u]
    BY <1>0, <2>2, <2>5 DEF TypeOK
  <2>7. UsedCtx'
    BY <2>1, <2>6 DEF LeakInv, UsedCtx
  <2>8. StopCtx'
    BY <2>1, <2>3, <2>4 DEF LeakInv, StopCtx, At
  <2>9. Used \subseteq Used' \cup {types[t]}
    <3>1. types' \in [Type -> Opt(Entry)]
      BY <1>0, <2>2, <2>5 DEF TypeOK, Opt
    <3>2. \A u \in Type : types'[u] # None => types'[u] \in Used'
      BY <3>1 DEF Used, Range
    <3>3. \A f \in Used : \E u \in Type : types[u] = f /\ f # None
      BY <1>0, UsedIs
    <3> QED BY <2>6, <3>2, <3>3
  <2>10. NoLeakedEntry'
    <3>1. SUFFICES ASSUME NEW e \in Alive, ~entry[e].cancelled
                   PROVE  e \in Used' \/ \E b \in Admin : job'[b].at = "cancel" /\ e \in job'[b].waits
      BY <2>1 DEF NoLeakedEntry, Alive, At
    <3>2. e \in Used \/ \E b \in Admin : job[b].at = "cancel" /\ e \in job[b].waits
      BY <3>1 DEF LeakInv, NoLeakedEntry, At
    <3> QED BY <2>1, <2>3, <2>4, <2>9, <3>2
  <2> QED BY <2>7, <2>8, <2>10
<1>5. CASE Cancel(a)
  <2>1. job[a].at = "cancel" /\ UNCHANGED <<types, pipelineCtx>>
    BY <1>5 DEF Cancel, At, serverVars
  <2>2. job'[a].at = "wait" /\ \A b \in Admin \ {a} : job'[b] = job[b]
    BY <1>0, <1>5 DEF Cancel, Goto, TypeOK
  <2>3. job[a].waits \in SUBSET Entry
    BY <1>0 DEF TypeOK
  <2>4. Steady /\ \A e \in job[a].waits : entry'[e].cancelled
    <3>1. CASE job[a].op = "stop"
      <4>1. CancelCtx(job[a].ctx)
        BY <1>5, <3>1 DEF Cancel
      <4>2. \A e \in job[a].waits : entry[e].ctx = job[a].ctx
        BY <2>1, <3>1 DEF LeakInv, StopCtx, At
      <4> QED BY <1>0, <2>3, <4>1, <4>2, CancelCtxSome
    <3>2. CASE job[a].op # "stop"
      BY <1>0, <1>5, <2>3, <3>2, CancelSome DEF Cancel
    <3> QED BY <3>1, <3>2
  <2> QED BY <2>1, <2>2, <2>4, LeakKept
<1> QED BY <1>1, <1>2, <1>3, <1>4, <1>5

\* Every step keeps the invariant.
LEMMA LeakStep == LeakInv /\ [Next]_vars => LeakInv'
<1> SUFFICES ASSUME LeakInv, [Next]_vars
             PROVE  LeakInv'
  OBVIOUS
<1>0. Inv' /\ TypeOK
  BY StepInv DEF LeakInv, Inv
<1>1. ASSUME NEW a \in Admin, Request(a) \/ Continue(a)
      PROVE  UsedCtx' /\ StopCtx' /\ NoLeakedEntry'
  <2>1. ASSUME NEW t \in Type, StartTypeFails(a, t) \/ StartTypePanics(a, t) \/ StartTypeRuns(a, t)
        PROVE  UsedCtx' /\ StopCtx' /\ NoLeakedEntry'
    BY <2>1, StartTypeLeaks
  <2>2. ASSUME StartBegin(a) \/ StopBegin(a) \/ Rollback(a) \/ Unlink(a) \/ Cancel(a)
        PROVE  UsedCtx' /\ StopCtx' /\ NoLeakedEntry'
    BY <2>2, EndLeaks
  <2>3. ASSUME \/ Configure(a) \/ AddDefinition(a) \/ RemoveBegin(a)
               \/ Publish(a) \/ Started(a) \/ StartLogger(a)
               \/ Wait(a) \/ Reset(a) \/ CloseLogger(a) \/ ClearLogger(a)
        PROVE  UsedCtx' /\ StopCtx' /\ NoLeakedEntry'
    BY <2>3, OtherStepsLeak
  <2> QED BY <1>1, <2>1, <2>2, <2>3 DEF Request, Continue
<1>2. ASSUME NEW e \in Entry, EntryExits(e)
      PROVE  UsedCtx' /\ StopCtx' /\ NoLeakedEntry'
  <2>1. UNCHANGED <<types, pipelineCtx, job>>
    BY <1>2 DEF EntryExits, serverVars
  <2> QED BY <1>0, <1>2, <2>1, ExitSteady, LeakKept
<1>3. ASSUME (\E i \in Ingester : IngestStep(i)) \/ UNCHANGED vars
      PROVE  UsedCtx' /\ StopCtx' /\ NoLeakedEntry'
  <2>1. UNCHANGED <<types, pipelineCtx, job, entry>>
    BY <1>3 DEF IngestStep, IngestSnapshot, IngestLookup, IngestSend, serverVars, vars
  <2> QED BY <2>1, SameSteady, LeakKept
<1> QED BY <1>0, <1>1, <1>2, <1>3 DEF Next, LeakInv

\* No failing start, hot add, stop or remove leaves goroutines behind that nobody
\* cancels, however many administrators there are: what runs is in s.types, or
\* is cancelled, or a request that took it out is about to cancel it.
THEOREM NothingLeaks == Spec => []NoLeakedEntry
<1>1. Init => LeakInv
  <2> SUFFICES ASSUME Init
               PROVE  LeakInv
    OBVIOUS
  <2>1. \A t \in Type : types[t] = None
    BY DEF Init, NoRoutes
  <2>2. \A a \in Admin : job[a].at = "idle"
    BY DEF Init, NoJob
  <2>3. Alive = {}
    BY DEF Init, Alive, Unused
  <2> QED BY <2>1, <2>2, <2>3, InitInv DEF LeakInv, UsedCtx, StopCtx, NoLeakedEntry, At
<1>2. LeakInv => NoLeakedEntry
  BY DEF LeakInv
<1> QED BY <1>1, <1>2, LeakStep, PTL DEF Spec

-----------------------------------------------------------------------------
(* Any number of administrators: what is ended is awaited, and nothing     *)
(* that others have started is ended with it.                              *)

Works(e) == entry[e].alive /\ entry[e].worker /\ ~entry[e].cancelled

\* Whoever starts a type, or has started all of them, has a context to do it under.
Opening == {"startType", "publish", "started"}
CtxKnown == /\ running => pipelineCtx # None
            /\ \A a \in Admin : job[a].at \in Opening => pipelineCtx # None

\* What a stop is about to cancel is not the context of a later start.
CtxApart ==
  \A a \in Admin : job[a].at = "cancel" /\ job[a].op = "stop" => job[a].ctx \notin {None, pipelineCtx}

\* No entry is that of two types, and nobody waits for one that is in s.types.
Keyed == \A t \in Type : types[t] # None => entry[types[t]].type = t
WaitsApart == \A a \in Admin : job[a].waits \cap Used = {}

LiveAwaited == \A e \in Alive : e \in Used \/ Awaited(e)

\* But for a start that is rolled back, what s.types holds works.
NobodyRolls == \A a \in Admin : job[a].at # "rollback"
UsedWork == NobodyRolls => \A e \in Used : Works(e)

Ends == Keyed /\ WaitsApart /\ LiveAwaited /\ UsedWork
AwaitInv == LeakInv /\ CtxKnown /\ CtxApart /\ Ends

\* Who is at none of the stages under s.mu when somebody is, or when it is free.
LEMMA Excluded ==
  ASSUME Inv
  PROVE  /\ lock = None => \A b \in Admin : job[b].at \notin Holding
         /\ \A a \in Admin : job[a].at \in Holding => \A b \in Admin \ {a} : job[b].at \notin Holding
BY ServerAssumption DEF Inv, LockedInv, LockInv

\* Nothing is started, and what is no longer awaited is gone.
LEMMA EndsKept ==
  ASSUME TypeOK, Ends, Steady, types' = types,
         \A b \in Admin : job'[b].waits \subseteq job[b].waits,
         \A e \in Entry : Awaited(e) => Awaited(e)' \/ ~entry'[e].alive,
         NobodyRolls' => NobodyRolls /\ \A e \in Used : entry'[e] = entry[e]
  PROVE  Ends'
<1>1. Used' = Used
  BY DEF Used
<1>2. Keyed'
  BY DEF Ends, Keyed, Steady, TypeOK, Opt
<1>3. WaitsApart'
  BY <1>1 DEF Ends, WaitsApart
<1>4. LiveAwaited'
  <2>1. SUFFICES ASSUME NEW e \in Entry, e \in Alive'
                 PROVE  e \in Used' \/ Awaited(e)'
    BY DEF LiveAwaited, Alive
  <2>2. e \in Alive /\ entry'[e].alive
    BY <2>1 DEF Alive, Steady
  <2> QED BY <1>1, <2>2 DEF Ends, LiveAwaited
<1>5. UsedWork'
  BY <1>1 DEF Ends, UsedWork, Works
<1> QED BY <1>2, <1>3, <1>4, <1>5 DEF Ends

\* What the steps do that neither start nor end an entry.
LEMMA CalmEffect ==
  ASSUME LeakInv, NEW a \in Admin,
         \/ Configure(a) \/ AddDefinition(a) \/ RemoveBegin(a)
         \/ Publish(a) \/ Started(a) \/ StartLogger(a)
         \/ Reset(a) \/ CloseLogger(a) \/ ClearLogger(a)
  PROVE  /\ UNCHANGED <<types, pipelineCtx, entry>>
         /\ \A b \in Admin \ {a} : job'[b] = job[b]
         /\ job[a].at \notin {"cancel", "wait", "rollback"}
         /\ job'[a].at \notin {"cancel", "wait", "rollback"}
         /\ job'[a].waits \subseteq job[a].waits
         /\ job'[a].at \in Opening => running \/ job[a].at \in Opening
         /\ running' => running \/ job[a].at \in Opening
<1>0. TypeOK
  BY DEF LeakInv, Inv
<1>1. UNCHANGED <<types, pipelineCtx, entry>> /\ (running' = running \/ job[a].at = "started")
  <2>1. CASE Started(a)
    BY <2>1 DEF Started, At
  <2>2. CASE \/ Configure(a) \/ AddDefinition(a) \/ RemoveBegin(a)
             \/ Publish(a) \/ StartLogger(a) \/ Reset(a) \/ CloseLogger(a) \/ ClearLogger(a)
    BY <2>2 DEF Configure, AddDefinition, RemoveBegin, Publish, StartLogger, Reset,
                CloseLogger, ClearLogger, serverVars
  <2> QED BY <2>1, <2>2
<1>2. \A b \in Admin \ {a} : job'[b] = job[b]
  BY <1>0 DEF Configure, AddDefinition, RemoveBegin, Publish, Started, StartLogger, Reset,
              CloseLogger, ClearLogger, Goto, Done, TypeOK
<1>3. job[a].at \in {"idle", "publish", "started", "startLogger", "reset", "closeLogger", "clearLogger"}
  BY DEF Configure, AddDefinition, RemoveBegin, Publish, Started, StartLogger, Reset,
         CloseLogger, ClearLogger, At
<1>4. ASSUME NEW j, job' = [job EXCEPT ![a] = j]
      PROVE  job'[a] = j
  BY <1>0, <1>4, OneJob
<1>5. NoJob.at = "idle" /\ NoJob.waits = {}
  BY DEF NoJob
<1>6. /\ job'[a].at \notin {"cancel", "wait", "rollback"}
      /\ job'[a].waits \subseteq job[a].waits
      /\ job'[a].at \in Opening => running \/ job[a].at \in Opening
  <2>1. CASE Configure(a)
    BY <1>3, <2>1 DEF Configure
  <2>2. CASE AddDefinition(a)
    <3> DEFINE j(t) == [NoJob EXCEPT !.at = "startType", !.op = "add", !.todo = {t}]
    <3>1. job' = job \/ (running /\ \E t \in Type : job' = [job EXCEPT ![a] = j(t)])
      BY <2>2 DEF AddDefinition
    <3>2. \A t \in Type : j(t).at = "startType" /\ j(t).waits = {}
      BY DEF NoJob
    <3> HIDE DEF j
    <3> QED BY <1>3, <1>4, <3>1, <3>2
  <2>3. CASE RemoveBegin(a)
    <3> DEFINE j(t) == [NoJob EXCEPT !.at = "unlink", !.op = "remove", !.type = t, !.table = routing]
    <3>1. job' = job \/ \E t \in Type : job' = [job EXCEPT ![a] = j(t)]
      BY <2>3 DEF RemoveBegin, Defined
    <3>2. \A t \in Type : j(t).at = "unlink" /\ j(t).waits = {}
      BY DEF NoJob
    <3> HIDE DEF j
    <3> QED BY <1>3, <1>4, <3>1, <3>2 DEF Opening
  <2>4. CASE Publish(a)
    <3> DEFINE j == [NoJob EXCEPT !.op = "start", !.todo = job[a].todo,
                                  !.at = IF job[a].todo = {} THEN "started" ELSE "startType"]
    <3>1. job[a].at = "publish" /\ (job' = [job EXCEPT ![a] = NoJob] \/ job' = [job EXCEPT ![a] = j])
      BY <2>4 DEF Publish, Done, At
    <3>2. j.at \in {"started", "startType"} /\ j.waits = {}
      BY DEF NoJob
    <3> HIDE DEF j
    <3> QED BY <1>4, <1>5, <3>1, <3>2 DEF Opening
  <2>5. CASE Started(a) \/ StartLogger(a) \/ Reset(a) \/ CloseLogger(a) \/ ClearLogger(a)
    <3>1. \A stage : Goto(a, stage) => job'[a].at = stage /\ job'[a].waits = job[a].waits
      BY <1>0 DEF Goto, TypeOK
    <3>2. Done(a) => job'[a].at = "idle" /\ job'[a].waits = {}
      BY <1>4, <1>5 DEF Done
    <3> QED BY <2>5, <3>1, <3>2 DEF Started, StartLogger, Reset, CloseLogger, ClearLogger, Opening
  <2> QED BY <2>1, <2>2, <2>3, <2>4, <2>5
<1> QED BY <1>1, <1>2, <1>3, <1>6 DEF Opening

\* So they keep what is awaited.
LEMMA CalmStep ==
  ASSUME AwaitInv, NEW a \in Admin,
         \/ Configure(a) \/ AddDefinition(a) \/ RemoveBegin(a)
         \/ Publish(a) \/ Started(a) \/ StartLogger(a)
         \/ Reset(a) \/ CloseLogger(a) \/ ClearLogger(a)
  PROVE  CtxKnown' /\ CtxApart' /\ Ends'
<1>0. TypeOK /\ LeakInv /\ Ends /\ CtxKnown /\ CtxApart
  BY DEF AwaitInv, LeakInv, Inv
<1>1. /\ UNCHANGED <<types, pipelineCtx, entry>>
      /\ \A b \in Admin \ {a} : job'[b] = job[b]
      /\ job[a].at \notin {"cancel", "wait", "rollback"}
      /\ job'[a].at \notin {"cancel", "wait", "rollback"}
      /\ job'[a].waits \subseteq job[a].waits
      /\ job'[a].at \in Opening => running \/ job[a].at \in Opening
      /\ running' => running \/ job[a].at \in Opening
  BY <1>0, CalmEffect
<1>2. CtxKnown'
  BY <1>0, <1>1 DEF CtxKnown
<1>3. CtxApart'
  BY <1>0, <1>1 DEF CtxApart
<1>4. Ends'
  <2>1. Steady
    BY <1>1, SameSteady
  <2>2. \A b \in Admin : job'[b].waits \subseteq job[b].waits
    BY <1>1
  <2>3. \A e \in Entry : Awaited(e) => Awaited(e)'
    BY <1>1 DEF Awaited
  <2>4. NobodyRolls' => NobodyRolls /\ \A e \in Used : entry'[e] = entry[e]
    BY <1>1 DEF NobodyRolls
  <2> QED BY <1>0, <1>1, <2>1, <2>2, <2>3, <2>4, EndsKept
<1> QED BY <1>2, <1>3, <1>4

\* A type is started, or not.
LEMMA StartTypeStep ==
  ASSUME AwaitInv, NEW a \in Admin, NEW t \in Type,
         StartTypeFails(a, t) \/ StartTypePanics(a, t) \/ StartTypeRuns(a, t)
  PROVE  CtxKnown' /\ CtxApart' /\ Ends'
<1>0. Inv /\ TypeOK /\ LeakInv /\ Ends /\ CtxKnown /\ CtxApart
  BY DEF AwaitInv, LeakInv, Inv
<1>1. job[a].at = "startType" /\ t \in job[a].todo
  BY DEF StartTypeFails, StartTypePanics, StartTypeRuns, At
<1>2. /\ pipelineCtx' = pipelineCtx /\ running' = running
      /\ \A b \in Admin \ {a} : job'[b] = job[b]
  BY <1>0 DEF StartTypeFails, StartTypePanics, StartTypeRuns, Goto, Done, TypeOK, serverVars
<1>3. NobodyRolls
  BY <1>0, <1>1, Excluded DEF Holding, Starting, NobodyRolls
<1>4. ASSUME job'[a].at # "cancel"
      PROVE  CtxKnown' /\ CtxApart'
  <2>1. pipelineCtx # None
    BY <1>0, <1>1 DEF CtxKnown, Opening
  <2> QED BY <1>0, <1>2, <1>4, <2>1 DEF CtxKnown, CtxApart
<1>5. CASE StartTypeFails(a, t)
  <2>1. Steady /\ types' = types
    BY <1>0, <1>5, CancelCtxSome, SameSteady DEF StartTypeFails
  <2>2. \/ job'[a].at = "rollback" /\ job'[a].waits = job[a].waits
        \/ job'[a].at = "idle" /\ job'[a].waits = {} /\ entry' = entry
    BY <1>0, <1>5 DEF StartTypeFails, Goto, Done, NoJob, TypeOK
  <2>3. \A b \in Admin : job'[b].waits \subseteq job[b].waits
    BY <1>2, <2>2
  <2>4. \A e \in Entry : Awaited(e) => Awaited(e)'
    BY <1>1, <1>2 DEF Awaited
  <2>5. NobodyRolls' => NobodyRolls /\ \A e \in Used : entry'[e] = entry[e]
    BY <1>3, <2>2 DEF NobodyRolls
  <2> QED BY <1>0, <1>4, <2>1, <2>2, <2>3, <2>4, <2>5, EndsKept
<1>6. CASE StartTypePanics(a, t)
  <2>1. PICK e \in Entry : FreshEntry(e) /\ entry' = [entry EXCEPT ![e] = WriterOnly(t)]
    BY <1>6 DEF StartTypePanics
  <2>2. /\ e \notin Used /\ \A b \in Admin : e \notin job[b].waits
        /\ entry'[e] = WriterOnly(t) /\ \A f \in Entry \ {e} : entry'[f] = entry[f]
    BY <1>0, <2>1, FreshIsNew
  <2>3. ~WriterOnly(t).worker
    BY DEF WriterOnly, NewEntry
  <2>4. types' = types /\ Used' = Used /\ Used \subseteq Entry \ {e}
    BY <1>0, <1>6, <2>2, UsedIs DEF StartTypePanics, serverVars, Used, TypeOK, Opt
  <2>5. job'[a].at = "idle" /\ job'[a].waits = {}
    BY <1>0, <1>6 DEF StartTypePanics, Done, NoJob, TypeOK
  <2>6. Keyed'
    <3>1. \A u \in Type : types[u] # None => types[u] \in Entry \ {e}
      BY <1>0, <2>2, UsedIs DEF TypeOK, Opt
    <3> QED BY <1>0, <2>2, <2>4, <3>1 DEF Ends, Keyed
  <2>7. WaitsApart'
    BY <1>0, <1>2, <2>4, <2>5 DEF Ends, WaitsApart
  <2>8. LiveAwaited'
    <3>1. \A f \in Alive' : f \in Alive /\ f \in Entry
      BY <2>2, <2>3 DEF Alive
    <3> QED BY <1>0, <1>1, <1>2, <2>4, <3>1 DEF Ends, LiveAwaited, Awaited
  <2>9. UsedWork'
    BY <1>0, <1>3, <2>2, <2>4 DEF Ends, UsedWork, Works
  <2> QED BY <1>4, <2>5, <2>6, <2>7, <2>8, <2>9 DEF Ends
<1>7. CASE StartTypeRuns(a, t)
  <2>1. PICK e \in Entry :
          /\ FreshEntry(e)
          /\ entry' = [entry EXCEPT ![e] = NewEntry(t)]
          /\ types' = [types EXCEPT ![t] = e]
          /\ job' = [job EXCEPT ![a] = [job[a] EXCEPT !.at = "publish", !.todo = job[a].todo \ {t}, !.type = t,
                                                 !.entry = e, !.table = routing]]
    BY <1>7 DEF StartTypeRuns
  <2>2. /\ e \notin Used /\ \A b \in Admin : e \notin job[b].waits
        /\ entry'[e] = NewEntry(t) /\ \A f \in Entry \ {e} : entry'[f] = entry[f]
    BY <1>0, <2>1, FreshIsNew
  <2>3. LET n == NewEntry(t) IN n.type = t /\ n.alive /\ n.worker /\ ~n.cancelled
    BY DEF NewEntry
  <2>4. types[t] = None /\ None \notin Entry
    <3>1. JobOK(a)
      BY <1>0 DEF Inv, LockedInv
    <3> QED BY <1>1, <3>1, ServerAssumption DEF JobOK, ToDoOrMatch
  <2>5. job'[a].at = "publish" /\ job'[a].waits = job[a].waits
    BY <1>0, <2>1 DEF TypeOK
  <2>6. types'[t] = e /\ \A u \in Type \ {t} : types'[u] = types[u]
    BY <1>0, <2>1 DEF TypeOK
  <2>7. Used \subseteq Entry \ {e}
    BY <1>0, <2>2, UsedIs DEF TypeOK, Opt
  <2>8. Used' = Used \cup {e}
    <3>1. Used' = {types'[u] : u \in {v \in Type : types'[v] # None}}
      BY <1>0, <2>1 DEF Used, Range, TypeOK
    <3> QED BY <1>0, <2>4, <2>6, <3>1, UsedIs
  <2>9. Keyed'
    <3>1. \A u \in Type : types[u] # None => types[u] \in Entry \ {e}
      BY <1>0, <2>2, UsedIs DEF TypeOK, Opt
    <3> QED BY <1>0, <2>2, <2>3, <2>6, <3>1 DEF Ends, Keyed
  <2>10. WaitsApart'
    BY <1>0, <1>2, <2>2, <2>5, <2>8 DEF Ends, WaitsApart
  <2>11. LiveAwaited'
    <3>1. \A f \in Alive' : f = e \/ f \in Alive
      BY <2>2 DEF Alive
    <3> QED BY <1>0, <1>1, <1>2, <2>8, <3>1 DEF Ends, LiveAwaited, Awaited
  <2>12. UsedWork'
    BY <1>0, <1>3, <2>2, <2>3, <2>7, <2>8 DEF Ends, UsedWork, Works
  <2> QED BY <1>4, <2>5, <2>9, <2>10, <2>11, <2>12 DEF Ends
<1> QED BY <1>5, <1>6, <1>7

\* Starts and stops that begin, and a start that is rolled back.
LEMMA WholeStep ==
  ASSUME AwaitInv, NEW a \in Admin, StartBegin(a) \/ StopBegin(a) \/ Rollback(a)
  PROVE  CtxKnown' /\ CtxApart' /\ Ends'
<1>0. Inv /\ TypeOK /\ LeakInv /\ Ends /\ CtxKnown /\ CtxApart
  BY DEF AwaitInv, LeakInv, Inv
<1>1. CASE StartBegin(a)
  <2> DEFINE j == [NoJob EXCEPT !.at = "startType", !.op = "start", !.todo = Defined]
  <2>1. /\ UNCHANGED <<types, entry, running>> /\ job[a].at = "idle" /\ lock = None
        /\ job' = [job EXCEPT ![a] = j]
    BY <1>1 DEF StartBegin, Lock, At
  <2>2. j.at = "startType" /\ j.waits = {}
    BY DEF NoJob
  <2>3. \E c \in Ctx : pipelineCtx' = c /\ \A b \in Admin : job[b].ctx # c
    BY <1>1 DEF StartBegin, FreshCtx
  <2> HIDE DEF j
  <2>4. job'[a] = j /\ \A b \in Admin \ {a} : job'[b] = job[b]
    BY <1>0, <2>1, OneJob
  <2>5. pipelineCtx' # None
    BY <2>3, ServerAssumption
  <2>6. CtxKnown' /\ CtxApart'
    BY <1>0, <2>2, <2>3, <2>4, <2>5 DEF CtxKnown, CtxApart
  <2>7. Ends'
    <3>1. \A b \in Admin : job'[b].waits \subseteq job[b].waits
      BY <2>2, <2>4
    <3>2. \A e \in Entry : Awaited(e) => Awaited(e)'
      BY <2>1, <2>4 DEF Awaited
    <3>3. NobodyRolls' => NobodyRolls /\ \A e \in Used : entry'[e] = entry[e]
      BY <2>1, <2>4 DEF NobodyRolls
    <3> QED BY <1>0, <2>1, <3>1, <3>2, <3>3, SameSteady, EndsKept
  <2> QED BY <2>6, <2>7
<1>2. ASSUME types' = NoRoutes, UNCHANGED entry, ~running', pipelineCtx' = None,
             \A b \in Admin \ {a} : job'[b] = job[b], job'[a].at \notin Opening,
             \A b \in Admin \ {a} : job[b].at \notin Opening,
             job'[a].at = "cancel" => job'[a].ctx # None,
             \A e \in Alive : e \in Used => Awaited(e)', job[a].at \notin {"cancel", "wait"}
      PROVE  CtxKnown' /\ CtxApart' /\ Ends'
  <2>1. CtxKnown' /\ CtxApart'
    BY <1>0, <1>2 DEF CtxKnown, CtxApart
  <2>2. Used' = {}
    BY <1>2 DEF Used, Range, NoRoutes
  <2>3. Keyed' /\ WaitsApart' /\ UsedWork'
    BY <1>2, <2>2 DEF Keyed, WaitsApart, UsedWork, NoRoutes
  <2>4. LiveAwaited'
    BY <1>0, <1>2 DEF Ends, LiveAwaited, Awaited, Alive
  <2> QED BY <2>1, <2>3, <2>4 DEF Ends
<1>3. CASE StopBegin(a)
  <2> DEFINE j == [NoJob EXCEPT !.at = "cancel", !.op = "stop", !.ctx = pipelineCtx, !.waits = Range(types) \ {None}]
  <2>1. /\ types' = NoRoutes /\ UNCHANGED entry /\ ~running' /\ running /\ pipelineCtx' = None
        /\ job[a].at = "idle" /\ lock = None /\ job' = [job EXCEPT ![a] = j]
    BY <1>3 DEF StopBegin, At
  <2>2. j.at = "cancel" /\ j.ctx = pipelineCtx /\ j.waits = Used
    BY DEF NoJob, Used
  <2> HIDE DEF j
  <2>3. job'[a] = j /\ \A b \in Admin \ {a} : job'[b] = job[b]
    BY <1>0, <2>1, OneJob
  <2>4. pipelineCtx # None
    BY <1>0, <2>1 DEF CtxKnown
  <2>5. \A b \in Admin \ {a} : job[b].at \notin Opening
    BY <1>0, <2>1, Excluded DEF Holding, Starting, Opening
  <2>6. \A e \in Alive : e \in Used => Awaited(e)'
    BY <2>2, <2>3 DEF Awaited
  <2> QED BY <1>2, <2>1, <2>2, <2>3, <2>4, <2>5, <2>6 DEF Opening
<1>4. CASE Rollback(a)
  <2>1. /\ types' = NoRoutes /\ UNCHANGED <<entry, running>> /\ pipelineCtx' = None
        /\ job[a].at = "rollback" /\ job' = [job EXCEPT ![a] = NoJob] /\ \A e \in Used : ~entry[e].alive
    BY <1>4 DEF Rollback, At, Done, AllGone, Used
  <2>2. ~running
    BY <1>0, <2>1 DEF Inv, LockedInv, JobOK
  <2>3. job'[a].at = "idle" /\ \A b \in Admin \ {a} : job'[b] = job[b]
    <3>1. NoJob.at = "idle"
      BY DEF NoJob
    <3> QED BY <1>0, <2>1, <3>1, OneJob
  <2>4. \A b \in Admin \ {a} : job[b].at \notin Opening
    BY <1>0, <2>1, Excluded DEF Holding, Starting, Opening
  <2>5. \A e \in Alive : e \in Used => Awaited(e)'
    BY <2>1 DEF Alive
  <2> QED BY <1>2, <2>1, <2>2, <2>3, <2>4, <2>5 DEF Opening
<1> QED BY <1>1, <1>3, <1>4

\* An entry leaves s.types, is cancelled and waited for, alone or with all of a stop.
LEMMA EndStep ==
  ASSUME AwaitInv, NEW a \in Admin, Unlink(a) \/ Cancel(a) \/ Wait(a)
  PROVE  CtxKnown' /\ CtxApart' /\ Ends'
<1>0. Inv /\ TypeOK /\ LeakInv /\ Ends /\ CtxKnown /\ CtxApart
  BY DEF AwaitInv, LeakInv, Inv
<1>1. UNCHANGED <<pipelineCtx, running>>
  BY DEF Unlink, Cancel, Wait, serverVars
<1>2. ASSUME \A b \in Admin \ {a} : job'[b] = job[b], job'[a].at \notin Opening,
             job'[a].at # "cancel" \/ job'[a].op # "stop"
      PROVE  CtxKnown' /\ CtxApart'
  BY <1>0, <1>1, <1>2 DEF CtxKnown, CtxApart
<1>3. CASE Unlink(a)
  <2> DEFINE t == job[a].type
             j == [NoJob EXCEPT !.at = "cancel", !.op = "remove", !.waits = {types[t]}]
  <2>1. /\ job[a].at = "unlink" /\ UNCHANGED entry
        /\ types' = [types EXCEPT ![t] = None] /\ job' = [job EXCEPT ![a] = j]
    BY <1>3 DEF Unlink, At
  <2>2. t \in Type /\ types[t] # None
    BY <1>0, <2>1 DEF Inv, LockedInv, JobOK
  <2>3. j.at = "cancel" /\ j.op = "remove" /\ j.waits = {types[t]}
    BY DEF NoJob
  <2> HIDE DEF j, t
  <2>4. job'[a] = j /\ \A b \in Admin \ {a} : job'[b] = job[b]
    BY <1>0, <2>1, OneJob
  <2>5. types'[t] = None /\ \A u \in Type \ {t} : types'[u] = types[u]
    BY <1>0, <2>1, <2>2 DEF TypeOK
  <2>6. Used' = Used \ {types[t]}
    <3>1. Used' = {types'[u] : u \in {v \in Type : types'[v] # None}}
      BY <1>0, <2>1 DEF Used, Range, TypeOK
    <3>2. Used = {types[u] : u \in {v \in Type : types[v] # None}}
      BY <1>0, UsedIs
    <3>3. \A u \in Type : types[u] = types[t] => u = t
      BY <1>0, <2>2 DEF Ends, Keyed
    <3>4. \A f \in Used' : f \in Used /\ f # types[t]
      BY <2>5, <3>1, <3>2, <3>3
    <3>5. \A f \in Used : f # types[t] => f \in Used'
      BY <2>5, <3>1, <3>2
    <3> QED BY <3>4, <3>5
  <2>7. CtxKnown' /\ CtxApart'
    BY <1>2, <2>3, <2>4 DEF Opening
  <2>8. Keyed'
    BY <1>0, <2>1, <2>5 DEF Ends, Keyed
  <2>9. WaitsApart'
    BY <1>0, <2>3, <2>4, <2>6 DEF Ends, WaitsApart
  <2>10. LiveAwaited'
    BY <1>0, <2>1, <2>3, <2>4, <2>6 DEF Ends, LiveAwaited, Awaited, Alive
  <2>11. UsedWork'
    <3>1. NobodyRolls
      BY <1>0, <2>1, Excluded DEF Holding, Starting, NobodyRolls
    <3> QED BY <1>0, <2>1, <2>6, <3>1 DEF Ends, UsedWork, Works
  <2> QED BY <2>7, <2>8, <2>9, <2>10, <2>11 DEF Ends
<1>4. ASSUME NEW stage, Goto(a, stage)
      PROVE  job'[a] = [job[a] EXCEPT !.at = stage] /\ \A b \in Admin \ {a} : job'[b] = job[b]
  BY <1>0, <1>4 DEF Goto, TypeOK
<1>5. \A stage : LET j == [job[a] EXCEPT !.at = stage] IN j.at = stage /\ j.waits = job[a].waits
  BY <1>0 DEF TypeOK
<1>6. CASE Cancel(a)
  <2>1. job[a].at = "cancel" /\ types' = types
    BY <1>6 DEF Cancel, At, serverVars
  <2>2. job'[a].at = "wait" /\ job'[a].waits = job[a].waits /\ \A b \in Admin \ {a} : job'[b] = job[b]
    BY <1>4, <1>5, <1>6 DEF Cancel
  <2>3. Steady /\ \A e \in Used : entry'[e] = entry[e]
    <3>1. Used \subseteq Entry /\ \A e \in Used : entry[e].ctx = pipelineCtx
      BY <1>0, UsedIs DEF LeakInv, UsedCtx, TypeOK, Opt
    <3>2. CASE job[a].op = "stop"
      <4>1. CancelCtx(job[a].ctx) /\ job[a].ctx # pipelineCtx
        BY <1>0, <1>6, <2>1, <3>2 DEF Cancel, CtxApart
      <4> QED BY <1>0, <3>1, <4>1, CancelCtxSome
    <3>3. CASE job[a].op # "stop"
      <4>1. job[a].waits \in SUBSET Entry /\ Used \subseteq Entry \ job[a].waits
        BY <1>0, <3>1 DEF Ends, WaitsApart, TypeOK
      <4> QED BY <1>0, <1>6, <3>3, <4>1, CancelSome DEF Cancel
    <3> QED BY <3>2, <3>3
  <2>4. CtxKnown' /\ CtxApart'
    BY <1>2, <2>2 DEF Opening
  <2>5. Ends'
    <3>1. \A b \in Admin : job'[b].waits \subseteq job[b].waits
      BY <2>2
    <3>2. \A e \in Entry : Awaited(e) => Awaited(e)'
      BY <2>2 DEF Awaited
    <3>3. NobodyRolls' => NobodyRolls /\ \A e \in Used : entry'[e] = entry[e]
      BY <2>1, <2>2, <2>3 DEF NobodyRolls
    <3> QED BY <1>0, <2>1, <2>3, <3>1, <3>2, <3>3, EndsKept
  <2> QED BY <2>4, <2>5
<1>7. CASE Wait(a)
  <2>1. job[a].at = "wait" /\ UNCHANGED <<types, entry>> /\ \A e \in job[a].waits : ~entry[e].alive
    BY <1>7 DEF Wait, At, AllGone, serverVars
  <2>2. /\ job'[a].at \in {"reset", "idle"} /\ job'[a].waits \subseteq job[a].waits
        /\ \A b \in Admin \ {a} : job'[b] = job[b]
    <3>1. Done(a) => job'[a] = NoJob /\ \A b \in Admin \ {a} : job'[b] = job[b]
      BY <1>0, OneJob DEF Done
    <3>2. NoJob.at = "idle" /\ NoJob.waits = {}
      BY DEF NoJob
    <3>3. Goto(a, "reset") \/ Done(a)
      BY <1>7 DEF Wait
    <3>4. CASE Goto(a, "reset")
      <4> DEFINE j == [job[a] EXCEPT !.at = "reset"]
      <4>1. job'[a] = j /\ \A b \in Admin \ {a} : job'[b] = job[b]
        BY <1>4, <3>4
      <4>2. j.at = "reset" /\ j.waits = job[a].waits
        BY <1>5
      <4> HIDE DEF j
      <4> QED BY <4>1, <4>2
    <3> QED BY <3>1, <3>2, <3>3, <3>4
  <2>3. CtxKnown' /\ CtxApart'
    BY <1>2, <2>2 DEF Opening
  <2>4. Ends'
    <3>1. \A b \in Admin : job'[b].waits \subseteq job[b].waits
      BY <2>2
    <3>2. \A e \in Entry : Awaited(e) => Awaited(e)' \/ ~entry'[e].alive
      BY <2>1, <2>2 DEF Awaited
    <3>3. NobodyRolls' => NobodyRolls /\ \A e \in Used : entry'[e] = entry[e]
      BY <2>1, <2>2 DEF NobodyRolls
    <3> QED BY <1>0, <2>1, <3>1, <3>2, <3>3, SameSteady, EndsKept
  <2> QED BY <2>3, <2>4
<1> QED BY <1>3, <1>6, <1>7

\* Entries come to their end, items come in.
LEMMA OutsideEnds ==
  ASSUME AwaitInv,
         \/ \E e \in Entry : EntryExits(e)
         \/ \E i \in Ingester : IngestStep(i)
         \/ UNCHANGED vars
  PROVE  CtxKnown' /\ CtxApart' /\ Ends'
<1>0. TypeOK /\ Ends /\ CtxKnown /\ CtxApart
  BY DEF AwaitInv, LeakInv, Inv
<1>1. UNCHANGED <<types, pipelineCtx, running, job>>
  BY DEF EntryExits, IngestStep, IngestSnapshot, IngestLookup, IngestSend, serverVars, vars
<1>2. CtxKnown' /\ CtxApart'
  BY <1>0, <1>1 DEF CtxKnown, CtxApart
<1>3. Steady /\ (NobodyRolls => \A e \in Used : entry'[e] = entry[e])
  <2>1. CASE UNCHANGED entry
    BY <2>1, SameSteady
  <2>2. ASSUME NEW e \in Entry, EntryExits(e)
        PROVE  Steady /\ (NobodyRolls => \A f \in Used : entry'[f] = entry[f])
    <3>1. Steady /\ entry[e].cancelled /\ \A f \in Entry \ {e} : entry'[f] = entry[f]
      BY <1>0, <2>2, ExitSteady
    <3>2. Used \subseteq Entry
      BY <1>0, UsedIs DEF TypeOK, Opt
    <3> QED BY <1>0, <3>1, <3>2 DEF Ends, UsedWork, Works
  <2> QED BY <2>1, <2>2 DEF IngestStep, IngestSnapshot, IngestLookup, IngestSend, vars
<1>4. Ends'
  <2>1. \A e \in Entry : Awaited(e) => Awaited(e)'
    BY <1>1 DEF Awaited
  <2>2. NobodyRolls' => NobodyRolls /\ \A e \in Used : entry'[e] = entry[e]
    BY <1>1, <1>3 DEF NobodyRolls
  <2>3. \A b \in Admin : job'[b].waits \subseteq job[b].waits
    BY <1>1
  <2> QED BY <1>0, <1>1, <1>3, <2>1, <2>2, <2>3, EndsKept
<1> QED BY <1>2, <1>4

LEMMA AwaitStep == AwaitInv /\ [Next]_vars => AwaitInv'
<1> SUFFICES ASSUME AwaitInv, [Next]_vars
             PROVE  AwaitInv'
  OBVIOUS
<1>1. LeakInv'
  BY LeakStep DEF AwaitInv
<1>2. ASSUME NEW a \in Admin, Request(a) \/ Continue(a)
      PROVE  CtxKnown' /\ CtxApart' /\ Ends'
  <2>1. ASSUME NEW t \in Type, StartTypeFails(a, t) \/ StartTypePanics(a, t) \/ StartTypeRuns(a, t)
        PROVE  CtxKnown' /\ CtxApart' /\ Ends'
    BY <2>1, StartTypeStep
  <2>2. CASE StartBegin(a) \/ StopBegin(a) \/ Rollback(a)
    BY <2>2, WholeStep
  <2>3. CASE Unlink(a) \/ Cancel(a) \/ Wait(a)
    BY <2>3, EndStep
  <2>4. CASE \/ Configure(a) \/ AddDefinition(a) \/ RemoveBegin(a)
             \/ Publish(a) \/ Started(a) \/ StartLogger(a)
             \/ Reset(a) \/ CloseLogger(a) \/ ClearLogger(a)
    BY <2>4, CalmStep
  <2> QED BY <1>2, <2>1, <2>2, <2>3, <2>4 DEF Request, Continue
<1>3. ASSUME \/ \E e \in Entry : EntryExits(e)
             \/ \E i \in Ingester : IngestStep(i)
             \/ UNCHANGED vars
      PROVE  CtxKnown' /\ CtxApart' /\ Ends'
  BY <1>3, OutsideEnds
<1> QED BY <1>1, <1>2, <1>3 DEF Next, AwaitInv

LEMMA AlwaysAwait == Spec => []AwaitInv
<1>1. Init => AwaitInv
  <2> SUFFICES ASSUME Init
               PROVE  AwaitInv
    OBVIOUS
  <2>1. Used = {} /\ Alive = {} /\ \A t \in Type : types[t] = None
    BY DEF Init, Used, Range, NoRoutes, Alive, Unused
  <2>2. ~running /\ \A a \in Admin : job[a].at = "idle"
    BY DEF Init, NoJob
  <2>3. LeakInv
    BY <2>1, <2>2, InitInv DEF LeakInv, UsedCtx, StopCtx, NoLeakedEntry, At
  <2>4. CtxKnown /\ CtxApart
    BY <2>2 DEF CtxKnown, CtxApart, Opening
  <2>5. Ends
    BY <2>1 DEF Ends, Keyed, WaitsApart, LiveAwaited, UsedWork
  <2> QED BY <2>3, <2>4, <2>5 DEF AwaitInv
<1> QED BY <1>1, AwaitStep, PTL DEF Spec

\* Of the live writers of a type all but one are awaited by a request not yet
\* answered: an add or a start during an unfinished remove or stop makes the only
\* one that stays.
LEMMA OneWriterStays ==
  ASSUME AwaitInv
  PROVE  OneWriterPerType
<1> SUFFICES ASSUME NEW e \in Alive, NEW f \in Alive, entry[e].type = entry[f].type,
                    ~Awaited(e), ~Awaited(f)
             PROVE  e = f
  BY DEF OneWriterPerType
<1>1. TypeOK /\ Ends
  BY DEF AwaitInv, LeakInv, Inv
<1>2. e \in Used /\ f \in Used
  BY <1>1 DEF Ends, LiveAwaited
<1>3. PICK t \in Type, u \in Type : types[t] = e /\ types[t] # None /\ types[u] = f /\ types[u] # None
  BY <1>1, <1>2, UsedIs
<1> QED BY <1>1, <1>3 DEF Ends, Keyed

\* However many requests overlap, what lives is in s.types or awaited by a request
\* not yet answered, and what s.types holds lives: stop, remove and a rolled back
\* start answer only after what they ended has exited, and end nothing else, and
\* a type has a second writer only while such a request waits for one of the two.
THEOREM EndsAwaited == Spec => []EndIsAwaited
<1>1. AwaitInv => EndIsAwaited
  <2> SUFFICES ASSUME AwaitInv
               PROVE  EndIsAwaited
    OBVIOUS
  <2>1. Inv /\ TypeOK /\ Ends
    BY DEF AwaitInv, LeakInv, Inv
  <2>2. ASSUME lock = None
        PROVE  Used \subseteq Alive
    <3>1. NobodyRolls
      BY <2>1, <2>2, Excluded DEF NobodyRolls, Holding, Starting
    <3>2. Used \subseteq Entry
      BY <2>1, UsedIs DEF TypeOK, Opt
    <3> QED BY <2>1, <3>1, <3>2 DEF Ends, UsedWork, Works, Alive
  <2> QED BY <2>1, <2>2, OneWriterStays DEF EndIsAwaited, Ends, LiveAwaited
<1> QED BY <1>1, AlwaysAwait, PTL

-----------------------------------------------------------------------------
(* Any number of administrators: where the routes lead.                    *)

\* A type that is in s.types is routed, in table, to its entry or nowhere.
Home(table, t) == types[t] # None => table[t] \in {None, types[t]}

\* The table that a request has loaded, and will store with its own change.
Loaded(a) ==
  /\ job[a].at = "publish" => /\ job[a].type \in Type /\ types[job[a].type] = job[a].entry
                              /\ \A t \in Type \ {job[a].type} : Home(job[a].table, t)
  /\ job[a].at = "unlink" => \A t \in Type \ {job[a].type} : Home(job[a].table, t)

RouteInv == Inv /\ RoutesLeadHome /\ \A a \in Admin : Loaded(a)

\* Nobody is about to store a table.
LEMMA AllHome ==
  ASSUME RouteInv, \A b \in Admin : job[b].at # "publish"
  PROVE  \A t \in Type : Home(routing, t)
BY DEF RouteInv, RoutesLeadHome, Home, At

\* Steps of a request that leave s.types alone and at most wipe the table in use.
LEMMA RoutesKept ==
  ASSUME RouteInv, NEW a \in Admin, types' = types, routing' \in {routing, NoRoutes},
         \A b \in Admin \ {a} : job'[b] = job[b],
         job[a].at # "publish", job'[a].at # "publish",
         job'[a].at = "unlink" => job'[a].table = routing /\ \A b \in Admin : job[b].at # "publish"
  PROVE  RoutesLeadHome' /\ \A b \in Admin : Loaded(b)'
<1>1. RoutesLeadHome'
  BY DEF RouteInv, RoutesLeadHome, NoRoutes, At
<1>2. job'[a].at = "unlink" => \A t \in Type : Home(routing, t)
  BY AllHome
<1>3. Loaded(a)'
  BY <1>2 DEF Loaded, Home
<1>4. \A b \in Admin \ {a} : Loaded(b)'
  BY DEF RouteInv, Loaded, Home
<1> QED BY <1>1, <1>3, <1>4

\* Most steps are of this kind.
LEMMA PlainRoutes ==
  ASSUME RouteInv, NEW a \in Admin,
         \/ Configure(a) \/ StartBegin(a) \/ AddDefinition(a) \/ RemoveBegin(a)
         \/ \E t \in Type : StartTypeFails(a, t) \/ StartTypePanics(a, t)
         \/ Started(a) \/ StartLogger(a)
         \/ Cancel(a) \/ Wait(a) \/ Reset(a) \/ CloseLogger(a) \/ ClearLogger(a)
  PROVE  RoutesLeadHome' /\ \A b \in Admin : Loaded(b)'
<1>0. Inv /\ TypeOK
  BY DEF RouteInv, Inv
<1>1. types' = types /\ routing' \in {routing, NoRoutes}
  BY DEF Configure, StartBegin, AddDefinition, RemoveBegin, StartTypeFails, StartTypePanics,
         Started, StartLogger, Cancel, Wait, Reset, CloseLogger, ClearLogger, serverVars
<1>2. \A b \in Admin \ {a} : job'[b] = job[b]
  BY <1>0 DEF Configure, StartBegin, AddDefinition, RemoveBegin, StartTypeFails, StartTypePanics,
              Started, StartLogger, Cancel, Wait, Reset, CloseLogger, ClearLogger, Goto, Done, TypeOK
<1>3. ASSUME NEW j, job' = [job EXCEPT ![a] = j]
      PROVE  job'[a] = j
  BY <1>0, <1>3, OneJob
<1>4. job[a].at \notin {"publish", "unlink"}
  BY DEF Configure, StartBegin, AddDefinition, RemoveBegin, StartTypeFails, StartTypePanics,
         Started, StartLogger, Cancel, Wait, Reset, CloseLogger, ClearLogger, At
<1>5. /\ job'[a].at # "publish"
      /\ job'[a].at = "unlink" => job'[a].table = routing /\ \A b \in Admin : job[b].at # "publish"
  <2>1. CASE Configure(a)
    BY <1>4, <2>1 DEF Configure
  <2>2. CASE StartBegin(a) \/ AddDefinition(a)
    <3> DEFINE j(op, d) == [NoJob EXCEPT !.at = "startType", !.op = op, !.todo = d]
    <3>1. job' = job \/ \E op, d : job' = [job EXCEPT ![a] = j(op, d)]
      BY <2>2 DEF StartBegin, AddDefinition
    <3>2. \A op, d : j(op, d).at = "startType"
      BY DEF NoJob
    <3> HIDE DEF j
    <3> QED BY <1>3, <1>4, <3>1, <3>2
  <2>3. CASE RemoveBegin(a)
    <3> DEFINE j(t) == [NoJob EXCEPT !.at = "unlink", !.op = "remove", !.type = t, !.table = routing]
    <3>1. lock = None /\ (job' = job \/ \E t \in Type : job' = [job EXCEPT ![a] = j(t)])
      BY <2>3 DEF RemoveBegin, Defined
    <3>2. \A t \in Type : j(t).at = "unlink" /\ j(t).table = routing
      BY DEF NoJob
    <3>3. \A b \in Admin : job[b].at # "publish"
      BY <1>0, <3>1, Excluded DEF Holding, Starting
    <3> HIDE DEF j
    <3> QED BY <1>3, <1>4, <3>1, <3>2, <3>3
  <2>4. CASE \/ \E t \in Type : StartTypeFails(a, t) \/ StartTypePanics(a, t)
             \/ Started(a) \/ StartLogger(a)
             \/ Cancel(a) \/ Wait(a) \/ Reset(a) \/ CloseLogger(a) \/ ClearLogger(a)
    <3>1. \A stage : Goto(a, stage) => job'[a].at = stage
      BY <1>0 DEF Goto, TypeOK
    <3>2. NoJob.at = "idle"
      BY DEF NoJob
    <3>3. Done(a) => job'[a].at = "idle"
      BY <1>3, <3>2 DEF Done
    <3> QED BY <2>4, <3>1, <3>3 DEF StartTypeFails, StartTypePanics, Started, StartLogger,
                                    Cancel, Wait, Reset, CloseLogger, ClearLogger
  <2> QED BY <2>1, <2>2, <2>3, <2>4
<1> QED BY <1>1, <1>2, <1>4, <1>5, RoutesKept

\* A step of the request that holds s.mu, or finds it free, after which it is at none of
\* the two stages and leaves the table right.
LEMMA RoutesRight ==
  ASSUME RouteInv, NEW a \in Admin, \A b \in Admin \ {a} : job[b].at \notin Holding,
         \A b \in Admin \ {a} : job'[b] = job[b], job'[a].at \notin {"publish", "unlink"},
         \A t \in Type : Home(routing, t)'
  PROVE  RoutesLeadHome' /\ \A b \in Admin : Loaded(b)'
<1>1. RoutesLeadHome'
  BY DEF RoutesLeadHome, Home
<1>2. \A b \in Admin : Loaded(b)'
  BY DEF Loaded, Holding, Starting
<1> QED BY <1>1, <1>2

\* Steps that change s.types or store a table.
LEMMA TableRoutes ==
  ASSUME RouteInv, NEW a \in Admin,
         \/ \E t \in Type : StartTypeRuns(a, t)
         \/ Publish(a) \/ Rollback(a) \/ StopBegin(a) \/ Unlink(a)
  PROVE  RoutesLeadHome' /\ \A b \in Admin : Loaded(b)'
<1>0. Inv /\ TypeOK /\ None \notin Entry /\ Loaded(a) /\ JobOK(a)
  BY ServerAssumption DEF RouteInv, Inv, LockedInv
<1>1. \A b \in Admin \ {a} : job[b].at \notin Holding
  <2>1. lock = None \/ job[a].at \in Holding
    BY DEF StartTypeRuns, Publish, Rollback, StopBegin, Unlink, At, Holding, Starting
  <2> QED BY <1>0, <2>1, Excluded
<1>2. ASSUME NEW j, job' = [job EXCEPT ![a] = j]
      PROVE  job'[a] = j /\ \A b \in Admin \ {a} : job'[b] = job[b]
  BY <1>0, <1>2, OneJob
<1>3. ASSUME types' = NoRoutes
      PROVE  \A t \in Type : Home(routing, t)'
  BY <1>3 DEF Home, NoRoutes
<1>4. CASE StopBegin(a)
  <2> DEFINE j == [NoJob EXCEPT !.at = "cancel", !.op = "stop", !.ctx = pipelineCtx, !.waits = Range(types) \ {None}]
  <2>1. job' = [job EXCEPT ![a] = j] /\ types' = NoRoutes
    BY <1>4 DEF StopBegin
  <2>2. j.at = "cancel"
    BY DEF NoJob
  <2> HIDE DEF j
  <2> QED BY <1>1, <1>2, <1>3, <2>1, <2>2, RoutesRight
<1>5. CASE Rollback(a)
  <2>1. job' = [job EXCEPT ![a] = NoJob] /\ types' = NoRoutes
    BY <1>5 DEF Rollback, Done
  <2>2. NoJob.at = "idle"
    BY DEF NoJob
  <2> QED BY <1>1, <1>2, <1>3, <2>1, <2>2, RoutesRight
<1>6. CASE Publish(a)
  <2> DEFINE j == [NoJob EXCEPT !.op = "start", !.todo = job[a].todo,
                                !.at = IF job[a].todo = {} THEN "started" ELSE "startType"]
  <2>1. /\ job[a].at = "publish" /\ types' = types
        /\ routing' = [job[a].table EXCEPT ![job[a].type] = job[a].entry]
        /\ job' = [job EXCEPT ![a] = NoJob] \/ job' = [job EXCEPT ![a] = j]
    BY <1>6 DEF Publish, Done, At, serverVars
  <2>2. NoJob.at = "idle" /\ j.at \in {"started", "startType"}
    BY DEF NoJob
  <2> HIDE DEF j
  <2>3. job'[a].at \notin {"publish", "unlink"} /\ \A b \in Admin \ {a} : job'[b] = job[b]
    BY <1>2, <2>1, <2>2
  <2>4. job[a].table \in [Type -> Opt(Entry)]
    BY <1>0 DEF TypeOK
  <2>5. \A t \in Type : Home(routing, t)'
    BY <1>0, <2>1, <2>4 DEF Loaded, Home
  <2> QED BY <1>1, <2>3, <2>5, RoutesRight
<1>7. CASE Unlink(a)
  <2> DEFINE t == job[a].type
             j == [NoJob EXCEPT !.at = "cancel", !.op = "remove", !.waits = {types[t]}]
  <2>1. /\ job[a].at = "unlink" /\ routing' = [job[a].table EXCEPT ![t] = None]
        /\ types' = [types EXCEPT ![t] = None] /\ job' = [job EXCEPT ![a] = j]
    BY <1>7 DEF Unlink, At
  <2>2. j.at = "cancel"
    BY DEF NoJob
  <2>3. \A u \in Type \ {t} : Home(job[a].table, u)
    BY <1>0, <2>1 DEF Loaded
  <2>4. job[a].table \in [Type -> Opt(Entry)] /\ types \in [Type -> Opt(Entry)]
    BY <1>0 DEF TypeOK
  <2> HIDE DEF j, t
  <2>5. \A u \in Type : Home(routing, u)'
    BY <2>1, <2>3, <2>4 DEF Home
  <2> QED BY <1>1, <1>2, <2>1, <2>2, <2>5, RoutesRight
<1>8. ASSUME NEW t \in Type, StartTypeRuns(a, t)
      PROVE  RoutesLeadHome' /\ \A b \in Admin : Loaded(b)'
  <2>1. PICK e \in Entry :
          /\ types' = [types EXCEPT ![t] = e]
          /\ job' = [job EXCEPT ![a] = [job[a] EXCEPT !.at = "publish", !.todo = job[a].todo \ {t}, !.type = t,
                                                 !.entry = e, !.table = routing]]
    BY <1>8 DEF StartTypeRuns
  <2> DEFINE j == [job[a] EXCEPT !.at = "publish", !.todo = job[a].todo \ {t}, !.type = t,
                                 !.entry = e, !.table = routing]
  <2>2. j.at = "publish" /\ j.type = t /\ j.entry = e /\ j.table = routing
    BY <1>0 DEF TypeOK
  <2>3. job' = [job EXCEPT ![a] = j] /\ job[a].at = "startType" /\ routing' = routing
    BY <1>8, <2>1 DEF StartTypeRuns, At
  <2> HIDE DEF j
  <2>4. job'[a] = j /\ \A b \in Admin \ {a} : job'[b] = job[b]
    BY <1>2, <2>3
  <2>5. types'[t] = e /\ \A u \in Type \ {t} : types'[u] = types[u]
    BY <1>0, <2>1 DEF TypeOK
  <2>6. \A u \in Type : Home(routing, u)
    BY <1>1, <2>3, AllHome DEF Holding, Starting
  <2>7. RoutesLeadHome'
    BY <2>2, <2>3, <2>4, <2>5, <2>6 DEF RoutesLeadHome, Home, At
  <2>8. Loaded(a)'
    BY <2>2, <2>4, <2>5, <2>6 DEF Loaded, Home
  <2>9. \A b \in Admin \ {a} : Loaded(b)'
    BY <1>1, <2>4 DEF Loaded, Holding, Starting
  <2> QED BY <2>7, <2>8, <2>9
<1> QED BY <1>4, <1>5, <1>6, <1>7, <1>8

\* However starts, stops, hot adds and removes overlap, and whenever stop wipes the
\* table, a type that is in s.types is routed to its own entry or nowhere, never to
\* the entry of an earlier start or add.
THEOREM RoutesAlwaysLeadHome == Spec => []RoutesLeadHome
<1>1. Init => RouteInv
  <2> SUFFICES ASSUME Init
               PROVE  RouteInv
    OBVIOUS
  <2>1. \A a \in Admin : job[a].at = "idle"
    BY DEF Init, NoJob
  <2> QED BY <2>1, InitInv DEF Init, RouteInv, RoutesLeadHome, Loaded, NoRoutes
<1>2. RouteInv /\ [Next]_vars => RouteInv'
  <2> SUFFICES ASSUME RouteInv, [Next]_vars
               PROVE  RouteInv'
    OBVIOUS
  <2>1. Inv'
    BY StepInv DEF RouteInv
  <2>2. ASSUME NEW a \in Admin, Request(a) \/ Continue(a)
        PROVE  RoutesLeadHome' /\ \A b \in Admin : Loaded(b)'
    BY <2>2, PlainRoutes, TableRoutes DEF Request, Continue
  <2>3. ASSUME \/ \E e \in Entry : EntryExits(e)
               \/ \E i \in Ingester : IngestStep(i)
               \/ UNCHANGED vars
        PROVE  RoutesLeadHome' /\ \A b \in Admin : Loaded(b)'
    <3>1. UNCHANGED <<types, routing, job>>
      BY <2>3 DEF EntryExits, IngestStep, IngestSnapshot, IngestLookup, IngestSend, serverVars, vars
    <3> QED BY <3>1 DEF RouteInv, RoutesLeadHome, Loaded, Home, At
  <2> QED BY <2>1, <2>2, <2>3 DEF Next, RouteInv
<1>3. RouteInv => RoutesLeadHome
  BY DEF RouteInv
<1> QED BY <1>1, <1>2, <1>3, PTL DEF Spec

-----------------------------------------------------------------------------
(* One administrator: what its request keeps.                              *)

\* Its kind fits its stage; the way of a stop begins when the server no longer runs.
OpFits(a) ==
  LET at == job[a].at
      op == job[a].op
  IN  /\ at = "idle" => op = "none"
      /\ at \in {"startType", "publish"} => op \in {"start", "add"}
      /\ at \in {"rollback", "started", "startLogger"} => op = "start"
      /\ at = "unlink" => op = "remove"
      /\ at \in {"cancel", "wait"} => op \in {"stop", "remove"}
      /\ at \in {"reset", "closeLogger", "clearLogger"} => op = "stop"
      /\ op = "stop" => ~running

\* The routing table is that of s.types, but until the request that changes one
\* has changed the other; what it loaded is what it will store over.
Apart(a) == job[a].at = "publish" \/ (job[a].at \in {"cancel", "wait", "reset"} /\ job[a].op = "stop")
Routed(a) ==
  /\ ~Apart(a) => routing = types
  /\ job[a].at = "publish" => /\ job[a].type \in Type /\ job[a].table = routing
                              /\ types = [routing EXCEPT ![job[a].type] = job[a].entry]
  /\ job[a].at = "unlink" => job[a].table = routing

\* A running server has the logger that its last start left it.
LoggerFits ==
  /\ loggerConfigured = config.endpoint
  /\ IF config.endpoint THEN loggerErr <=> logger = None ELSE logger = None
  /\ logger \notin closed
LoggerKnown(a) ==
  /\ running /\ job[a].at # "startLogger" => LoggerFits
  /\ job[a].at = "startLogger" => config.endpoint /\ loggerConfigured = config.endpoint
  /\ ~running /\ job[a].op # "stop" => logger = None

Parts(a) == OpFits(a) /\ Routed(a) /\ LoggerKnown(a)

\* The logger is left alone.
LEMMA LoggerKept ==
  ASSUME NEW a \in Admin, LoggerKnown(a), UNCHANGED running, UNCHANGED loggerVars,
         running => config' = config,
         job[a].at # "startLogger", job'[a].at # "startLogger",
         job'[a].op # "stop" /\ ~running => job[a].op # "stop"
  PROVE  LoggerKnown(a)'
BY DEF LoggerKnown, LoggerFits, loggerVars

\* Steps between these stages leave s.types and the table together.
LEMMA PlainStep ==
  ASSUME TypeOK, NEW a \in Admin, Parts(a), UNCHANGED <<running, types, routing>>,
         UNCHANGED loggerVars, running => config' = config,
         job[a].at \in {"idle", "startType"}, job'[a].at \in {"idle", "startType", "unlink"},
         job'[a].at = "unlink" => job'[a].table = routing,
         OpFits(a)'
  PROVE  Parts(a)'
<1>1. job'[a].op # "stop" /\ job[a].op # "stop"
  BY DEF Parts, OpFits
<1>2. Routed(a)'
  BY DEF Parts, Routed, Apart
<1>3. LoggerKnown(a)'
  BY <1>1, LoggerKept DEF Parts
<1> QED BY <1>2, <1>3 DEF Parts

\* Requests begin.
LEMMA OneRequest ==
  ASSUME Inv, NEW a \in Admin, Parts(a), Request(a)
  PROVE  Parts(a)'
<1>0. TypeOK /\ FreeInv /\ lock = None /\ job[a].at = "idle"
  BY DEF Inv, LockedInv, Request, Configure, StartBegin, Lock, AddDefinition, StopBegin, RemoveBegin, At
<1>1. job[a].op = "none" /\ routing = types
  BY <1>0 DEF Parts, OpFits, Routed, Apart
<1>2. CASE Configure(a)
  <2>1. /\ UNCHANGED <<running, types, routing>> /\ UNCHANGED loggerVars /\ job' = job /\ ~running
    BY <1>2 DEF Configure
  <2>2. OpFits(a)'
    BY <2>1 DEF Parts, OpFits
  <2> QED BY <1>0, <2>1, <2>2, PlainStep
<1>3. CASE StartBegin(a)
  <2> DEFINE j == [NoJob EXCEPT !.at = "startType", !.op = "start", !.todo = Defined]
  <2>1. /\ UNCHANGED <<running, types, routing>> /\ UNCHANGED loggerVars /\ config' = config
    BY <1>3 DEF StartBegin
  <2>2. job'[a] = j
    BY <1>0, <1>3, OneJob DEF StartBegin
  <2>3. j.at = "startType" /\ j.op = "start"
    BY DEF NoJob
  <2> HIDE DEF j
  <2>4. OpFits(a)'
    BY <2>2, <2>3 DEF OpFits
  <2> QED BY <1>0, <2>1, <2>2, <2>3, <2>4, PlainStep
<1>4. CASE AddDefinition(a)
  <2> DEFINE j(t) == [NoJob EXCEPT !.at = "startType", !.op = "add", !.todo = {t}]
  <2>1. /\ UNCHANGED <<running, types, routing>> /\ UNCHANGED loggerVars /\ config' = config
    BY <1>4 DEF AddDefinition
  <2>2. job' = job \/ \E t \in Type : job' = [job EXCEPT ![a] = j(t)]
    BY <1>4 DEF AddDefinition
  <2>3. \A t \in Type : j(t).at = "startType" /\ j(t).op = "add"
    BY DEF NoJob
  <2> HIDE DEF j
  <2>4. job'[a] = job[a] \/ (job'[a].at = "startType" /\ job'[a].op = "add")
    BY <1>0, <2>2, <2>3, OneJob
  <2>5. OpFits(a)'
    BY <2>1, <2>4 DEF Parts, OpFits
  <2> QED BY <1>0, <2>1, <2>4, <2>5, PlainStep
<1>5. CASE RemoveBegin(a)
  <2> DEFINE j(t) == [NoJob EXCEPT !.at = "unlink", !.op = "remove", !.type = t, !.table = routing]
  <2>1. /\ UNCHANGED <<running, types, routing>> /\ UNCHANGED loggerVars /\ config' = config
    BY <1>5 DEF RemoveBegin
  <2>2. job' = job \/ \E t \in Type : job' = [job EXCEPT ![a] = j(t)]
    BY <1>5 DEF RemoveBegin, Defined
  <2>3. \A t \in Type : j(t).at = "unlink" /\ j(t).op = "remove" /\ j(t).table = routing
    BY DEF NoJob
  <2> HIDE DEF j
  <2>4. job'[a] = job[a] \/ (job'[a].at = "unlink" /\ job'[a].op = "remove" /\ job'[a].table = routing)
    BY <1>0, <2>2, <2>3, OneJob
  <2>5. OpFits(a)'
    BY <2>1, <2>4 DEF Parts, OpFits
  <2> QED BY <1>0, <2>1, <2>4, <2>5, PlainStep
<1>6. CASE StopBegin(a)
  <2> DEFINE j == [NoJob EXCEPT !.at = "cancel", !.op = "stop", !.ctx = pipelineCtx, !.waits = Range(types) \ {None}]
  <2>1. /\ running' = FALSE /\ types' = NoRoutes /\ UNCHANGED routing /\ UNCHANGED loggerVars
    BY <1>6 DEF StopBegin
  <2>2. job'[a] = j
    BY <1>0, <1>6, OneJob DEF StopBegin
  <2>3. j.at = "cancel" /\ j.op = "stop"
    BY DEF NoJob
  <2> HIDE DEF j
  <2> QED BY <2>1, <2>2, <2>3 DEF Parts, OpFits, Routed, Apart, LoggerKnown
<1> QED BY <1>2, <1>3, <1>4, <1>5, <1>6 DEF Request

\* A type is started.
LEMMA OneStartType ==
  ASSUME Inv, NEW a \in Admin, Parts(a), NEW t \in Type,
         StartTypeFails(a, t) \/ StartTypePanics(a, t) \/ StartTypeRuns(a, t)
  PROVE  Parts(a)'
<1>0. TypeOK /\ JobOK(a)
  BY DEF Inv, LockedInv
<1>1. /\ job[a].at = "startType" /\ t \in job[a].todo
      /\ UNCHANGED <<config, running, routing>> /\ UNCHANGED loggerVars
  BY DEF StartTypeFails, StartTypePanics, StartTypeRuns, At, serverVars
<1>2. routing = types /\ IF running THEN job[a].op = "add" ELSE job[a].op = "start"
  BY <1>0, <1>1 DEF JobOK, Parts, Routed, Apart
<1>3. ASSUME types' = types,
             \/ job'[a].at = "rollback" /\ job'[a].op = "start" /\ job[a].op = "start"
             \/ job'[a].at = "idle" /\ job'[a].op = "none"
      PROVE  Parts(a)'
  <2>1. OpFits(a)' /\ Routed(a)'
    BY <1>1, <1>2, <1>3 DEF OpFits, Routed, Apart
  <2>2. LoggerKnown(a)'
    BY <1>1, <1>2, <1>3, LoggerKept DEF Parts
  <2> QED BY <2>1, <2>2 DEF Parts
<1>4. CASE StartTypeFails(a, t)
  <2>1. types' = types
    BY <1>4 DEF StartTypeFails
  <2>2. \/ job'[a].at = "rollback" /\ job'[a].op = "start" /\ job[a].op = "start"
        \/ job'[a].at = "idle" /\ job'[a].op = "none"
    BY <1>0, <1>4 DEF StartTypeFails, Goto, Done, NoJob, TypeOK
  <2> QED BY <1>3, <2>1, <2>2
<1>5. CASE StartTypePanics(a, t)
  <2>1. types' = types
    BY <1>5 DEF StartTypePanics, serverVars
  <2>2. job'[a].at = "idle" /\ job'[a].op = "none"
    BY <1>0, <1>5 DEF StartTypePanics, Done, TypeOK, NoJob
  <2> QED BY <1>3, <2>1, <2>2
<1>6. CASE StartTypeRuns(a, t)
  <2>1. PICK e \in Entry :
          /\ types' = [types EXCEPT ![t] = e]
          /\ job' = [job EXCEPT ![a] = [job[a] EXCEPT !.at = "publish", !.todo = job[a].todo \ {t}, !.type = t,
                                                 !.entry = e, !.table = routing]]
    BY <1>6 DEF StartTypeRuns
  <2> DEFINE j == [job[a] EXCEPT !.at = "publish", !.todo = job[a].todo \ {t}, !.type = t,
                                 !.entry = e, !.table = routing]
  <2>2. job'[a] = j
    BY <1>0, <2>1, OneJob
  <2>3. j.at = "publish" /\ j.op = job[a].op /\ j.type = t /\ j.entry = e /\ j.table = routing
    BY <1>0 DEF TypeOK
  <2> HIDE DEF j
  <2>4. OpFits(a)'
    BY <1>1, <1>2, <2>2, <2>3 DEF OpFits
  <2>5. Routed(a)'
    BY <1>1, <1>2, <2>1, <2>2, <2>3 DEF Routed, Apart
  <2>6. LoggerKnown(a)'
    BY <1>1, <1>2, <2>2, <2>3, LoggerKept DEF Parts
  <2> QED BY <2>4, <2>5, <2>6 DEF Parts
<1> QED BY <1>4, <1>5, <1>6

\* A start goes on, and ends.
LEMMA OneStartRest ==
  ASSUME Inv, NEW a \in Admin, Parts(a),
         Publish(a) \/ Rollback(a) \/ Started(a) \/ StartLogger(a)
  PROVE  Parts(a)'
<1>0. TypeOK /\ JobOK(a)
  BY DEF Inv, LockedInv
<1>1. CASE Publish(a)
  <2> DEFINE j == [NoJob EXCEPT !.op = "start", !.todo = job[a].todo,
                                !.at = IF job[a].todo = {} THEN "started" ELSE "startType"]
  <2>1. /\ job[a].at = "publish" /\ routing' = [job[a].table EXCEPT ![job[a].type] = job[a].entry]
        /\ UNCHANGED <<config, running, types>> /\ UNCHANGED loggerVars
    BY <1>1 DEF Publish, At, serverVars
  <2>2. routing' = types'
    BY <2>1 DEF Parts, Routed
  <2>3. job' = [job EXCEPT ![a] = NoJob] \/ job' = [job EXCEPT ![a] = j]
    BY <1>1 DEF Publish, Done
  <2>4. NoJob.at = "idle" /\ NoJob.op = "none" /\ j.at \in {"started", "startType"} /\ j.op = "start"
    BY DEF NoJob
  <2> HIDE DEF j
  <2>5. \/ job'[a].at = "idle" /\ job'[a].op = "none"
        \/ job'[a].at \in {"started", "startType"} /\ job'[a].op = "start"
    BY <1>0, <2>3, <2>4, OneJob
  <2>6. OpFits(a)' /\ Routed(a)'
    BY <2>2, <2>5 DEF OpFits, Routed, Apart
  <2>7. LoggerKnown(a)'
    <3>1. job[a].op # "stop"
      BY <2>1 DEF Parts, OpFits
    <3> QED BY <2>1, <2>5, <3>1, LoggerKept DEF Parts
  <2> QED BY <2>6, <2>7 DEF Parts
<1>2. CASE Rollback(a)
  <2>1. /\ job[a].at = "rollback" /\ routing' = NoRoutes /\ types' = NoRoutes
        /\ UNCHANGED <<config, running>> /\ UNCHANGED loggerVars
    BY <1>2 DEF Rollback, At
  <2>2. job'[a].at = "idle" /\ job'[a].op = "none"
    BY <1>0, <1>2 DEF Rollback, Done, TypeOK, NoJob
  <2>3. OpFits(a)' /\ Routed(a)'
    BY <2>1, <2>2 DEF OpFits, Routed, Apart
  <2>4. LoggerKnown(a)'
    <3>1. job[a].op = "start"
      BY <2>1 DEF Parts, OpFits
    <3> QED BY <2>1, <2>2, <3>1, LoggerKept DEF Parts
  <2> QED BY <2>3, <2>4 DEF Parts
<1>3. CASE Started(a)
  <2>1. /\ job[a].at = "started" /\ running' = TRUE /\ loggerConfigured' = config.endpoint
        /\ UNCHANGED <<config, types, routing, logger, closed, loggerErr>>
    BY <1>3 DEF Started, At
  <2>2. ~running /\ job[a].op = "start" /\ logger = None /\ None \notin closed /\ routing = types
    BY <1>0, <2>1, ServerAssumption DEF JobOK, Parts, OpFits, LoggerKnown, TypeOK, Routed, Apart
  <2>3. CASE config.endpoint
    <3>1. job'[a].at = "startLogger" /\ job'[a].op = "start"
      BY <1>0, <1>3, <2>2, <2>3 DEF Started, Goto, TypeOK
    <3> QED BY <2>1, <2>2, <2>3, <3>1 DEF Parts, OpFits, Routed, Apart, LoggerKnown
  <2>4. CASE ~config.endpoint
    <3>1. job'[a].at = "idle" /\ job'[a].op = "none"
      BY <1>0, <1>3, <2>4 DEF Started, Done, TypeOK, NoJob
    <3> QED BY <2>1, <2>2, <2>4, <3>1 DEF Parts, OpFits, Routed, Apart, LoggerKnown, LoggerFits
  <2> QED BY <2>3, <2>4
<1>4. CASE StartLogger(a)
  <2>1. /\ job[a].at = "startLogger" /\ UNCHANGED <<config, running, types>>
        /\ UNCHANGED <<routing, loggerConfigured>>
    BY <1>4 DEF StartLogger, At, serverVars
  <2>2. /\ running /\ config.endpoint /\ loggerConfigured = config.endpoint /\ routing = types
        /\ None \notin closed /\ None \notin Client
    BY <1>0, <2>1, ServerAssumption DEF JobOK, Parts, LoggerKnown, TypeOK, Routed, Apart
  <2>3. job'[a].at = "idle" /\ job'[a].op = "none"
    BY <1>0, <1>4 DEF StartLogger, Done, TypeOK, NoJob
  <2>4. /\ loggerErr' <=> logger' = None
        /\ logger' \notin closed'
    BY <1>4, <2>2 DEF StartLogger
  <2> QED BY <2>1, <2>2, <2>3, <2>4 DEF Parts, OpFits, Routed, Apart, LoggerKnown, LoggerFits
<1> QED BY <1>1, <1>2, <1>3, <1>4

\* Between its stages, a request that does not hold s.mu leaves it free when there
\* is no other; of a stop, nothing is left in s.types.
LEMMA AloneIsFree ==
  ASSUME Inv, NEW a \in Admin, Admin = {a}, Parts(a), job[a].at \notin Holding
  PROVE  lock = None /\ (job[a].op = "stop" => types = NoRoutes /\ ~running)
<1>1. lock = None
  BY DEF Inv, LockedInv, LockInv, TypeOK, Opt
<1>2. job[a].op = "stop" => types = NoRoutes /\ ~running
  BY <1>1 DEF Inv, LockedInv, FreeInv, Parts, OpFits
<1> QED BY <1>1, <1>2

\* An entry leaves s.types and the table.
LEMMA OneUnlink ==
  ASSUME Inv, NEW a \in Admin, Parts(a), Unlink(a)
  PROVE  Parts(a)'
<1> DEFINE t == job[a].type
           j == [NoJob EXCEPT !.at = "cancel", !.op = "remove", !.waits = {types[t]}]
<1>1. TypeOK /\ None \notin Entry
  BY ServerAssumption DEF Inv
<1>2. /\ job[a].at = "unlink" /\ routing' = [job[a].table EXCEPT ![t] = None]
      /\ types' = [types EXCEPT ![t] = None]
      /\ UNCHANGED <<config, running>> /\ UNCHANGED loggerVars
  BY DEF Unlink, At
<1>3. t \in Type /\ types[t] # None /\ job[a].op = "remove" /\ job[a].table = types /\ routing = types
  BY <1>2 DEF Inv, LockedInv, JobOK, Parts, OpFits, Routed, Apart
<1>4. job'[a] = j
  BY <1>1, OneJob DEF Unlink
<1>5. j.at = "cancel" /\ j.op = "remove"
  BY DEF NoJob
<1> HIDE DEF j, t
<1>6. OpFits(a)' /\ Routed(a)'
  BY <1>2, <1>3, <1>4, <1>5 DEF OpFits, Routed, Apart
<1>7. LoggerKnown(a)'
  BY <1>2, <1>3, <1>4, <1>5, LoggerKept DEF Parts
<1> QED BY <1>6, <1>7 DEF Parts

\* What a stop or a remove does after it has released s.mu.
LEMMA OneEnd ==
  ASSUME Inv, NEW a \in Admin, Admin = {a}, Parts(a),
         Cancel(a) \/ Wait(a) \/ Reset(a) \/ CloseLogger(a) \/ ClearLogger(a)
  PROVE  Parts(a)'
<1>0. TypeOK
  BY DEF Inv
<1>1. job[a].at \in {"cancel", "wait", "reset", "closeLogger", "clearLogger"}
  BY DEF Cancel, Wait, Reset, CloseLogger, ClearLogger, At
<1>2. job[a].op = "stop" => types = NoRoutes /\ ~running
  BY <1>1, AloneIsFree DEF Holding, Starting
<1>3. ASSUME NEW stage, Goto(a, stage)
      PROVE  job'[a].at = stage /\ job'[a].op = job[a].op
  BY <1>0, <1>3 DEF Goto, TypeOK
<1>4. Done(a) => job'[a].at = "idle" /\ job'[a].op = "none"
  BY <1>0 DEF Done, TypeOK, NoJob
<1>5. CASE Cancel(a)
  <2>1. job[a].at = "cancel" /\ job'[a].at = "wait" /\ job'[a].op = job[a].op
    BY <1>3, <1>5 DEF Cancel, At
  <2>2. UNCHANGED <<config, running, types, routing>> /\ UNCHANGED loggerVars
    BY <1>5 DEF Cancel, serverVars
  <2>3. OpFits(a)' /\ Routed(a)'
    BY <2>1, <2>2 DEF Parts, OpFits, Routed, Apart
  <2>4. LoggerKnown(a)'
    BY <2>1, <2>2, LoggerKept DEF Parts
  <2> QED BY <2>3, <2>4 DEF Parts
<1>6. CASE Wait(a)
  <2>1. job[a].at = "wait"
    BY <1>6 DEF Wait, At
  <2>2. UNCHANGED <<config, running, types, routing>> /\ UNCHANGED loggerVars
    BY <1>6 DEF Wait, serverVars
  <2>3. IF job[a].op = "stop" THEN job'[a].at = "reset" /\ job'[a].op = "stop"
                              ELSE job'[a].at = "idle" /\ job'[a].op = "none"
    BY <1>3, <1>4, <1>6 DEF Wait
  <2>4. OpFits(a)' /\ Routed(a)'
    BY <2>1, <2>2, <2>3 DEF Parts, OpFits, Routed, Apart
  <2>5. LoggerKnown(a)'
    BY <2>1, <2>2, <2>3, LoggerKept DEF Parts
  <2> QED BY <2>4, <2>5 DEF Parts
<1>7. CASE Reset(a) \/ CloseLogger(a) \/ ClearLogger(a)
  <2>1. /\ job[a].at \in {"reset", "closeLogger", "clearLogger"} /\ job[a].op = "stop"
        /\ UNCHANGED <<config, running, types>>
    BY <1>7 DEF Reset, CloseLogger, ClearLogger, At, serverVars, Parts, OpFits
  <2>2. IF ClearLogger(a) THEN job'[a].at = "idle" /\ job'[a].op = "none"
                          ELSE job'[a].at \in {"closeLogger", "clearLogger"} /\ job'[a].op = "stop"
    BY <1>3, <1>4, <1>7, <2>1 DEF Reset, CloseLogger, ClearLogger
  <2>3. routing' = types'
    BY <1>2, <1>7, <2>1 DEF Reset, CloseLogger, ClearLogger, Parts, Routed, Apart, At
  <2>4. OpFits(a)' /\ Routed(a)'
    BY <1>2, <2>1, <2>2, <2>3 DEF OpFits, Routed, Apart
  <2>5. LoggerKnown(a)'
    BY <1>2, <2>1, <2>2 DEF LoggerKnown, ClearLogger
  <2> QED BY <2>4, <2>5 DEF Parts
<1> QED BY <1>5, <1>6, <1>7

\* Entries come to their end, items come in.
LEMMA OneOther ==
  ASSUME NEW a \in Admin, Parts(a),
         \/ \E e \in Entry : EntryExits(e)
         \/ \E i \in Ingester : IngestStep(i)
         \/ UNCHANGED vars
  PROVE  Parts(a)'
<1>1. UNCHANGED <<config, running, types, routing, job>> /\ UNCHANGED loggerVars
  BY DEF EntryExits, IngestStep, IngestSnapshot, IngestLookup, IngestSend, serverVars, vars
<1> QED BY <1>1 DEF Parts, OpFits, Routed, Apart, LoggerKnown, LoggerFits, loggerVars

\* The invariant of one administrator's requests.
OneInv(a) == Inv /\ Parts(a)

LEMMA OneInit ==
  ASSUME NEW a \in Admin, Init
  PROVE  OneInv(a)
<1>1. job[a] = NoJob /\ NoJob.at = "idle" /\ NoJob.op = "none"
  BY DEF Init, NoJob
<1>2. OpFits(a) /\ Routed(a) /\ LoggerKnown(a)
  BY <1>1 DEF Init, OpFits, Routed, Apart, LoggerKnown
<1> QED BY <1>2, InitInv DEF OneInv, Parts

LEMMA OneStep ==
  ASSUME NEW a \in Admin, Admin = {a}, OneInv(a), [Next]_vars
  PROVE  OneInv(a)'
<1>1. Inv' /\ Inv /\ Parts(a)
  BY StepInv DEF OneInv
<1>2. ASSUME NEW b \in Admin, Request(b) \/ Continue(b)
      PROVE  Parts(a)'
  <2>1. b = a
    OBVIOUS
  <2>2. ASSUME NEW t \in Type, StartTypeFails(a, t) \/ StartTypePanics(a, t) \/ StartTypeRuns(a, t)
        PROVE  Parts(a)'
    BY <1>1, <2>2, OneStartType
  <2>3. CASE Publish(a) \/ Rollback(a) \/ Started(a) \/ StartLogger(a)
    BY <1>1, <2>3, OneStartRest
  <2>4. CASE Unlink(a)
    BY <1>1, <2>4, OneUnlink
  <2>5. CASE Cancel(a) \/ Wait(a) \/ Reset(a) \/ CloseLogger(a) \/ ClearLogger(a)
    BY <1>1, <2>5, OneEnd
  <2>6. CASE Request(a)
    BY <1>1, <2>6, OneRequest
  <2> QED BY <1>2, <2>1, <2>2, <2>3, <2>4, <2>5, <2>6 DEF Continue
<1>3. CASE (\E e \in Entry : EntryExits(e)) \/ (\E i \in Ingester : IngestStep(i)) \/ UNCHANGED vars
  BY <1>1, <1>3, OneOther DEF OneInv
<1> QED BY <1>1, <1>2, <1>3 DEF Next, OneInv

LEMMA OneAlways ==
  ASSUME NEW a \in Admin, Admin = {a}
  PROVE  Spec => []OneInv(a)
<1>1. Init => OneInv(a)
  BY OneInit
<1>2. OneInv(a) /\ [Next]_vars => OneInv(a)'
  BY OneStep
<1> QED BY <1>1, <1>2, PTL DEF Spec

\* With one administrator, a running server routes each type to its entry's queue
\* whenever a reader can look.
THEOREM OneAdminRoutes ==
  ASSUME NEW a \in Admin, Admin = {a}
  PROVE  Spec => []RoutingMatchesTypes
<1>1. OneInv(a) => RoutingMatchesTypes
  <2> SUFFICES ASSUME OneInv(a), lock = None, running
               PROVE  routing = types
    BY DEF RoutingMatchesTypes
  <2>1. job[a].at \notin Holding
    BY ServerAssumption DEF OneInv, Inv, LockedInv, LockInv
  <2> QED BY <2>1 DEF OneInv, Parts, OpFits, Routed, Apart, Holding, Starting
<1> QED BY <1>1, OneAlways, PTL

\* With one administrator, what pipeline/status says of the self-logger is what the
\* last start found, and it lists a writer for each definition.
THEOREM OneAdminStatus ==
  ASSUME NEW a \in Admin, Admin = {a}
  PROVE  Spec => []StatusIsTrue
<1>1. OneInv(a) => StatusIsTrue
  <2> SUFFICES ASSUME OneInv(a), lock = None, running
               PROVE  /\ loggerConfigured = config.endpoint
                      /\ Status.logger = "running" <=> logger # None
                      /\ logger \notin closed
                      /\ Cardinality(Status.writers) = Status.registeredDefinitions
    BY DEF StatusIsTrue
  <2>1. job[a].at # "startLogger" /\ config # None
    BY ServerAssumption DEF OneInv, Inv, LockedInv, LockInv, RunInv, Holding, Starting
  <2>2. LoggerFits
    BY <2>1 DEF OneInv, Parts, LoggerKnown
  <2>3. Status.logger = "running" <=> config.endpoint /\ ~loggerErr
    BY <2>1, <2>2 DEF Status, LoggerFits
  <2>4. Status.writers = Defined /\ Status.registeredDefinitions = Cardinality(Defined)
    BY DEF OneInv, Inv, LockedInv, FreeInv, Match, Status, Defined
  <2> QED BY <2>2, <2>3, <2>4 DEF LoggerFits
<1> QED BY <1>1, OneAlways, PTL

=============================================================================
