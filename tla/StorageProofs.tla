---------------------------- MODULE StorageProofs ----------------------------
(***************************************************************************)
(* What Storage keeps of the schema files of file mode, and what its       *)
(* catalog shows of them, for every set of locations, folders, types and   *)
(* definitions, and any number of failed calls and crashes.                *)
(***************************************************************************)
EXTENDS Storage, SequenceTheorems, FiniteSetTheorems, TLAPS

Stored == {StoredItemDefinition(c) : c \in Columns}

\* The part of the state that the schema files depend on.
MemoryOK ==
  /\ definitions \in [Type -> Definition \cup {None}]
  /\ \A t \in Type : definitions[t] # None => definitions[t].type = t
  /\ job \in [kind : {"idle", "start", "add"}, types : SUBSET Type, todo : SUBSET Type, writing : Type \cup {None}]
  /\ job.todo \subseteq job.types
  /\ \A t \in job.types : definitions[t] \in Definition
  /\ job.writing # None => job.writing \in job.todo

FilesOK ==
  /\ schemas \in [Place -> {None, Torn} \cup Stored]
  /\ first \in [FilePlace -> {None} \cup Stored]

\* A place that has no file has never had one.
MissingIsNew == \A p \in FilePlace : schemas[p] = None => first[p] = None

\* The file that is being written was compared before it was truncated.
WritingWasCompared ==
  job.writing # None =>
    /\ config \in Dir
    /\ first[PlaceOf(job.writing)] \in {None, StoredItemDefinition(definitions[job.writing].columns)}

Inv == MemoryOK /\ FilesOK /\ MissingIsNew /\ StoredSchemaIsKept /\ WritingWasCompared

\* What is stored is a file, and its columns can be told from it.
LEMMA StoredColumns ==
  ASSUME NEW c \in Columns
  PROVE  /\ StoredItemDefinition(c) \in Stored
         /\ validateSchema(StoredItemDefinition(c))
         /\ UserColumns(StoredItemDefinition(c)) = c
<1> DEFINE s == StoredItemDefinition(c)
<1>1. PICK d \in Definition : c = d.columns
  BY DEF Columns
<1>2. c \in Seq(STRING) /\ <<IngestTime>> \in Seq(STRING) /\ Len(<<IngestTime>>) = 1
  BY <1>1, StorageAssumption
<1>3. s \in Seq(STRING) /\ Len(s) = 1 + Len(c) /\ s # <<>> /\ s[1] = IngestTime
  BY <1>2, ConcatProperties, LenProperties, EmptySeq DEF StoredItemDefinition
<1>4. Head(s) = IngestTime /\ Tail(s) = c
  <2>1. Head(s) = s[1]
    BY <1>3, HeadTailProperties
  <2>2. /\ Tail(s) \in Seq(STRING) /\ Len(Tail(s)) = Len(c)
        /\ \A i \in 1..Len(c) : Tail(s)[i] = s[i + 1]
    BY <1>2, <1>3, HeadTailProperties, LenProperties
  <2>3. \A i \in 1..Len(c) : s[i + 1] = c[i]
    BY <1>2, ConcatProperties, LenProperties DEF StoredItemDefinition
  <2>4. Tail(s) = c
    BY <1>2, <2>2, <2>3, SeqEqual
  <2> QED BY <1>3, <2>1, <2>4
<1>5. s # None /\ s # Torn
  BY <1>1, <1>3, StorageAssumption DEF StoredItemDefinition, Torn
<1> QED BY <1>4, <1>5 DEF Stored, UserColumns, validateSchema

\* A definition in a directory has a place there.
LEMMA PlaceOfIsPlace ==
  ASSUME MemoryOK, NEW t \in job.types
  PROVE  /\ definitions[t].columns \in Columns
         /\ config \in Dir => PlaceOf(t) \in FilePlace
         /\ config \in Location => PlaceOf(t) \in Place
<1>1. definitions[t] \in Definition /\ t \in Type
  BY DEF MemoryOK
<1> QED BY <1>1, StorageAssumption DEF PlaceOf, FilePlace, Place, Columns

\* checkSchemaConsistency passes exactly what was stored there first, or
\* what is first there.
LEMMA ConsistentIsFirst ==
  ASSUME Inv, NEW t \in job.types, config \in Dir
  PROVE  LET wanted == StoredItemDefinition(definitions[t].columns)
         IN  /\ checkSchemaConsistency(t) => first[PlaceOf(t)] \in {None, wanted}
             /\ ~checkSchemaConsistency(t) => schemas[PlaceOf(t)] = Torn \/ first[PlaceOf(t)] # wanted
<1> DEFINE wanted == StoredItemDefinition(definitions[t].columns)
           p == PlaceOf(t)
<1>1. p \in FilePlace /\ p \in Place /\ definitions[t].columns \in Columns
  BY PlaceOfIsPlace DEF Inv, Location
<1>2. UserColumns(wanted) = definitions[t].columns /\ validateSchema(wanted)
  BY <1>1, StoredColumns
<1>3. schemas[p] \in {None, Torn, first[p]} /\ first[p] \in {None} \cup Stored
  BY <1>1 DEF Inv, StoredSchemaIsKept, FilesOK
<1>4. schemas[p] = None => first[p] = None
  BY <1>1 DEF Inv, MissingIsNew
<1>5. Torn # None
  BY StorageAssumption DEF Torn
<1>6. CASE validateSchema(schemas[p])
  <2>1. schemas[p] = first[p] /\ first[p] \in Stored
    BY <1>3, <1>6 DEF validateSchema
  <2>2. PICK c \in Columns : first[p] = StoredItemDefinition(c)
    BY <2>1 DEF Stored
  <2>3. UserColumns(schemas[p]) = c
    BY <2>1, <2>2, StoredColumns
  <2>4. checkSchemaConsistency(t) <=> c = definitions[t].columns
    BY <1>6, <2>3 DEF checkSchemaConsistency
  <2> QED BY <1>2, <2>1, <2>2, <2>3, <2>4
<1>7. CASE ~validateSchema(schemas[p])
  <2>1. checkSchemaConsistency(t) <=> schemas[p] = None
    BY <1>7 DEF checkSchemaConsistency
  <2> QED BY <1>3, <1>4, <1>7, <2>1 DEF validateSchema
<1> QED BY <1>6, <1>7

-----------------------------------------------------------------------------
(* The steps.                                                              *)

\* Steps that leave the files alone and no file half written.
LEMMA QuietStep ==
  ASSUME Inv, UNCHANGED storage, MemoryOK', job'.writing = None
  PROVE  Inv'
BY DEF Inv, storage, FilesOK, MissingIsNew, StoredSchemaIsKept, WritingWasCompared

\* An idle server has no file half written.
LEMMA IdleType ==
  /\ Idle \in [kind : {"idle", "start", "add"}, types : SUBSET Type, todo : SUBSET Type, writing : Type \cup {None}]
  /\ Idle.writing = None /\ Idle.todo = {} /\ Idle.types = {}
BY DEF Idle

\* A handler begins with no file half written.
LEMMA BeginType ==
  ASSUME NEW kind \in {"start", "add"}, NEW types \in SUBSET Type
  PROVE  /\ Begin(kind, types) \in [kind : {"idle", "start", "add"}, types : SUBSET Type, todo : SUBSET Type, writing : Type \cup {None}]
         /\ Begin(kind, types).writing = None /\ Begin(kind, types).todo = types /\ Begin(kind, types).types = types
BY DEF Begin

\* Requests that do not touch the storage.
LEMMA RequestStep ==
  ASSUME Inv,
         \/ \E l \in Location : Configure(l)
         \/ \E d \in Definition : AddDefinition(d)
         \/ \E t \in Type : RemoveDefinition(t)
         \/ StartBegin \/ Stop
  PROVE  Inv'
<1>0. Unlocked /\ UNCHANGED storage /\ MemoryOK
  BY DEF Configure, AddDefinition, RemoveDefinition, StartBegin, Stop, Inv
<1>1. CASE (\E l \in Location : Configure(l)) \/ Stop
  <2>1. UNCHANGED <<definitions, job>>
    BY <1>1 DEF Configure, Stop
  <2>2. MemoryOK'
    BY <1>0, <2>1 DEF MemoryOK
  <2> QED BY <1>0, <2>1, <2>2, IdleType, QuietStep DEF Unlocked
<1>2. ASSUME NEW d \in Definition, AddDefinition(d)
      PROVE  Inv'
  <2>1. d.type \in Type
    BY StorageAssumption
  <2>2. definitions' = [definitions EXCEPT ![d.type] = d] /\ (job' = Begin("add", {d.type}) \/ job' = Idle)
    BY <1>0, <1>2 DEF AddDefinition, Unlocked
  <2>3. /\ definitions' \in [Type -> Definition \cup {None}]
        /\ \A t \in Type : definitions'[t] # None => definitions'[t].type = t
    BY <1>0, <2>1, <2>2 DEF MemoryOK
  <2>4. definitions'[d.type] = d
    BY <1>0, <2>1, <2>2 DEF MemoryOK
  <2>5. CASE job' = Begin("add", {d.type})
    <3>1. /\ job' \in [kind : {"idle", "start", "add"}, types : SUBSET Type, todo : SUBSET Type, writing : Type \cup {None}]
          /\ job'.writing = None /\ job'.todo = {d.type} /\ job'.types = {d.type}
      BY <2>1, <2>5, BeginType
    <3>2. MemoryOK'
      BY <2>3, <2>4, <3>1 DEF MemoryOK
    <3> QED BY <1>0, <3>1, <3>2, QuietStep
  <2>6. CASE job' = Idle
    <3>1. MemoryOK'
      BY <2>3, <2>6, IdleType DEF MemoryOK
    <3> QED BY <1>0, <2>6, <3>1, IdleType, QuietStep
  <2> QED BY <2>2, <2>5, <2>6
<1>3. ASSUME NEW t \in Type, RemoveDefinition(t)
      PROVE  Inv'
  <2>1. definitions' = [definitions EXCEPT ![t] = None] /\ job' = Idle
    BY <1>0, <1>3 DEF RemoveDefinition, Unlocked
  <2>2. /\ definitions' \in [Type -> Definition \cup {None}]
        /\ \A u \in Type : definitions'[u] # None => definitions'[u].type = u
    BY <1>0, <2>1 DEF MemoryOK
  <2>3. MemoryOK'
    BY <2>1, <2>2, IdleType DEF MemoryOK
  <2> QED BY <1>0, <2>1, <2>3, IdleType, QuietStep
<1>4. CASE StartBegin
  <2>1. job' = Begin("start", Registered) /\ definitions' = definitions /\ Registered \in SUBSET Type
    BY <1>4 DEF StartBegin, Registered
  <2>2. /\ job' \in [kind : {"idle", "start", "add"}, types : SUBSET Type, todo : SUBSET Type, writing : Type \cup {None}]
        /\ job'.writing = None /\ job'.todo = Registered /\ job'.types = Registered
    BY <2>1, BeginType
  <2>3. \A t \in Registered : definitions[t] \in Definition
    BY <1>0 DEF Registered, MemoryOK
  <2>4. MemoryOK'
    BY <1>0, <2>1, <2>2, <2>3 DEF MemoryOK
  <2> QED BY <1>0, <2>2, <2>4, QuietStep
<1> QED BY <1>1, <1>2, <1>3, <1>4

\* A handler that gives up forgets at most definitions.
LEMMA GiveUpType ==
  ASSUME MemoryOK, GiveUp
  PROVE  MemoryOK' /\ job'.writing = None
<1>1. /\ job' = Idle
      /\ definitions' = [t \in Type |-> IF job.kind = "add" /\ t \in job.types THEN None ELSE definitions[t]]
  BY DEF GiveUp
<1>2. /\ definitions' \in [Type -> Definition \cup {None}]
      /\ \A t \in Type : definitions'[t] # None => definitions'[t].type = t
  BY <1>1 DEF MemoryOK
<1> QED BY <1>1, <1>2, IdleType DEF MemoryOK

\* Storing the columns of t where nothing else came first.
LEMMA StoreKeepsFiles ==
  ASSUME Inv, NEW t \in job.types, config \in Location, Store(t),
         config \in Dir => first[PlaceOf(t)] \in {None, StoredItemDefinition(definitions[t].columns)}
  PROVE  FilesOK' /\ MissingIsNew' /\ StoredSchemaIsKept'
<1> DEFINE p == PlaceOf(t)
           stored == StoredItemDefinition(definitions[t].columns)
<1>1. p \in Place /\ (config \in Dir => p \in FilePlace) /\ stored \in Stored /\ stored # None
  BY PlaceOfIsPlace, StoredColumns DEF Inv, validateSchema
<1>2. p \in FilePlace => config \in Dir
  BY DEF PlaceOf, FilePlace
<1>3. /\ schemas' = [schemas EXCEPT ![p] = stored]
      /\ first' = [q \in FilePlace |-> IF q = p /\ first[q] = None THEN stored ELSE first[q]]
  BY DEF Store
<1> HIDE DEF p, stored
<1>4. FilesOK'
  BY <1>1, <1>3 DEF Inv, FilesOK
<1>5. FilePlace \subseteq Place
  BY DEF FilePlace, Place, Location
<1>6. ASSUME NEW q \in FilePlace
      PROVE  (schemas'[q] = None => first'[q] = None) /\ schemas'[q] \in {None, Torn, first'[q]}
  <2>1. CASE q = p
    <3>1. first[p] \in {None, stored}
      BY <1>2, <2>1 DEF p, stored
    <3>2. schemas'[q] = stored
      BY <1>1, <1>3, <2>1 DEF Inv, FilesOK
    <3>3. first'[q] = stored
      BY <1>3, <2>1, <3>1
    <3> QED BY <1>1, <3>2, <3>3
  <2>2. CASE q # p
    <3>1. schemas'[q] = schemas[q] /\ first'[q] = first[q]
      BY <1>3, <1>5, <2>2 DEF Inv, FilesOK
    <3> QED BY <3>1 DEF Inv, MissingIsNew, StoredSchemaIsKept
  <2> QED BY <2>1, <2>2
<1> QED BY <1>4, <1>6 DEF MissingIsNew, StoredSchemaIsKept

\* The steps of making a writer.
LEMMA MakeWriterStep ==
  ASSUME Inv, MakeWriter
  PROVE  Inv'
<1> USE DEF Inv
<1>1. ASSUME NEW t \in Type, OpenSchemaFile(t)
      PROVE  Inv'
  <2> DEFINE p == PlaceOf(t)
  <2>1. t \in job.todo /\ t \in job.types /\ config \in Dir /\ checkSchemaConsistency(t)
    BY <1>1 DEF OpenSchemaFile, Due, MemoryOK
  <2>2. /\ schemas' = [schemas EXCEPT ![p] = Torn] /\ job' = [job EXCEPT !.writing = t]
        /\ UNCHANGED <<config, definitions, first>>
    BY <1>1 DEF OpenSchemaFile, Progress
  <2>3. first[p] \in {None, StoredItemDefinition(definitions[t].columns)}
    BY <2>1, ConsistentIsFirst
  <2>4. p \in Place
    BY <2>1, PlaceOfIsPlace DEF Location
  <2>5. MemoryOK' /\ job'.writing = t
    BY <2>1, <2>2 DEF MemoryOK
  <2>6. WritingWasCompared'
    BY <2>1, <2>2, <2>3, <2>5 DEF WritingWasCompared, PlaceOf
  <2> HIDE DEF p
  <2>7. FilesOK'
    BY <2>2, <2>4 DEF FilesOK
  <2>8. FilePlace \subseteq Place /\ Torn # None
    BY StorageAssumption DEF FilePlace, Place, Location, Torn
  <2>9. \A q \in FilePlace : IF q = p THEN schemas'[q] = Torn ELSE schemas'[q] = schemas[q]
    BY <2>2, <2>8 DEF FilesOK
  <2>10. MissingIsNew' /\ StoredSchemaIsKept'
    BY <2>2, <2>8, <2>9 DEF MissingIsNew, StoredSchemaIsKept
  <2> QED BY <2>5, <2>6, <2>7, <2>10
<1>2. ASSUME NEW t \in Type, WriteSchemaFile(t)
      PROVE  Inv'
  <2>1. job.writing = t /\ Store(t) /\ job' = [job EXCEPT !.todo = @ \ {t}, !.writing = None]
        /\ UNCHANGED <<config, definitions>>
    BY <1>2 DEF WriteSchemaFile, Progress
  <2>2. job.writing # None
    BY <2>1, StorageAssumption
  <2>3. t \in job.types /\ config \in Dir /\ first[PlaceOf(t)] \in {None, StoredItemDefinition(definitions[t].columns)}
    BY <2>1, <2>2 DEF MemoryOK, WritingWasCompared
  <2>4. FilesOK' /\ MissingIsNew' /\ StoredSchemaIsKept'
    BY <2>1, <2>3, StoreKeepsFiles DEF Location
  <2>5. MemoryOK' /\ job'.writing = None
    BY <2>1 DEF MemoryOK
  <2> QED BY <2>4, <2>5 DEF WritingWasCompared
<1>3. ASSUME NEW t \in Type, UploadSchema(t) \/ UploadAnswerLost(t)
      PROVE  Inv'
  <2>1. t \in job.types /\ job.writing = None /\ config \in Account /\ Store(t)
    BY <1>3 DEF UploadSchema, UploadAnswerLost, Due, MemoryOK
  <2>2. config \notin Dir
    BY <2>1, StorageAssumption
  <2>3. FilesOK' /\ MissingIsNew' /\ StoredSchemaIsKept'
    BY <2>1, <2>2, StoreKeepsFiles DEF Location
  <2>4. MemoryOK' /\ job'.writing = None
    <3>1. CASE UploadSchema(t)
      <4>1. job' = [job EXCEPT !.todo = @ \ {t}] /\ UNCHANGED definitions
        BY <3>1 DEF UploadSchema, Progress
      <4> QED BY <2>1, <4>1 DEF MemoryOK
    <3>2. CASE UploadAnswerLost(t)
      BY <3>2, GiveUpType DEF UploadAnswerLost
    <3> QED BY <1>3, <3>1, <3>2
  <2> QED BY <2>3, <2>4 DEF WritingWasCompared
<1>4. ASSUME NEW t \in Type, RefuseSchema(t) \/ CallFails(t) \/ WriteSchemaFails(t)
      PROVE  Inv'
  <2>1. GiveUp /\ UNCHANGED <<schemas, first>>
    BY <1>4 DEF RefuseSchema, CallFails, WriteSchemaFails, storage
  <2>2. MemoryOK' /\ job'.writing = None
    BY <2>1, GiveUpType
  <2> QED BY <2>1, <2>2 DEF FilesOK, MissingIsNew, StoredSchemaIsKept, WritingWasCompared
<1> QED BY <1>1, <1>2, <1>3, <1>4 DEF MakeWriter

\* Every step keeps the invariant.
LEMMA StepInv ==
  ASSUME Inv, Next
  PROVE  Inv'
<1>1. CASE StartDone \/ AddDone
  <2>1. job' = Idle /\ UNCHANGED definitions /\ UNCHANGED storage
    BY <1>1 DEF StartDone, AddDone
  <2>2. MemoryOK'
    BY <2>1, IdleType DEF Inv, MemoryOK
  <2> QED BY <2>1, <2>2, IdleType, QuietStep
<1>2. CASE QueryBegin \/ QueryEnd
  BY <1>2 DEF QueryBegin, QueryEnd, Inv, storage, MemoryOK, FilesOK, MissingIsNew,
              StoredSchemaIsKept, WritingWasCompared, PlaceOf
<1>3. CASE Crash
  <2>1. job' = Idle /\ definitions' = [t \in Type |-> None] /\ UNCHANGED storage
    BY <1>3 DEF Crash
  <2>2. MemoryOK'
    BY <2>1, IdleType DEF MemoryOK
  <2> QED BY <2>1, <2>2, IdleType, QuietStep
<1> QED BY <1>1, <1>2, <1>3, RequestStep, MakeWriterStep DEF Next

\* The invariant holds at first, and always.
LEMMA InitInv ==
  ASSUME Init
  PROVE  Inv
<1>1. MemoryOK /\ job.writing = None
  BY IdleType DEF Init, InitMemory, MemoryOK
<1>2. FilesOK /\ MissingIsNew /\ StoredSchemaIsKept
  <2>1. FilePlace \subseteq Place
    BY DEF FilePlace, Place, Location
  <2> QED BY <2>1 DEF Init, FilesOK, MissingIsNew, StoredSchemaIsKept
<1> QED BY <1>1, <1>2 DEF Inv, WritingWasCompared

LEMMA InvAlways == Spec => []Inv
<1>1. Init => Inv
  BY InitInv
<1>2. Inv /\ [Next]_vars => Inv'
  <2>1. Inv /\ UNCHANGED vars => Inv'
    BY DEF Inv, vars, memory, storage, MemoryOK, FilesOK, MissingIsNew,
           StoredSchemaIsKept, WritingWasCompared, PlaceOf
  <2> QED BY <2>1, StepInv
<1> QED BY <1>1, <1>2, PTL DEF Spec

-----------------------------------------------------------------------------
(* Least and greatest members.                                             *)

\* A finite set of naturals that is not empty has a greatest member.
LEMMA MaxIsMember ==
  ASSUME NEW S \in SUBSET Nat, IsFiniteSet(S), S # {}
  PROVE  Max(S) \in S
<1> DEFINE Topped(U) == \E x \in U : \A y \in U : x >= y
           Bad == {U \in SUBSET S : U # {} /\ ~Topped(U)}
<1>1. ASSUME Bad # {}
      PROVE  FALSE
  <2>1. Bad \subseteq FiniteSubsetsOf(S)
    <3>1. ASSUME NEW U \in Bad
          PROVE  U \in SUBSET S /\ IsFiniteSet(U)
      BY FS_Subset
    <3> QED BY <3>1 DEF FiniteSubsetsOf
  <2>2. PICK U \in Bad : \A V \in Bad : <<V, U>> \notin StrictSubsetOrdering(S)
    <3> HIDE DEF Bad
    <3> QED BY <1>1, <2>1, WFMin, FS_StrictSubsetOrderingWellFounded
  <2>3. PICK x \in U : TRUE
    OBVIOUS
  <2>4. U \ {x} \notin Bad
    <3>1. <<U \ {x}, U>> \in StrictSubsetOrdering(S)
      BY DEF StrictSubsetOrdering
    <3> QED BY <2>2, <3>1
  <2>5. U \ {x} # {}
    <3>1. SUFFICES ASSUME U = {x}
                   PROVE  FALSE
      BY <2>3
    <3>2. Topped(U)
      BY <3>1
    <3> QED BY <3>2
  <2>6. Topped(U \ {x})
    BY <2>4, <2>5
  <2>7. PICK m \in U \ {x} : \A y \in U \ {x} : m >= y
    BY <2>6
  <2>8. Topped(U)
    <3>1. m \in Nat /\ x \in Nat /\ m \in U
      OBVIOUS
    <3>2. CASE m >= x
      <4>1. \A y \in U : m >= y
        BY <2>7, <3>2
      <4> QED BY <3>1, <4>1
    <3>3. CASE x >= m
      <4>1. \A y \in U : x >= y
        BY <2>7, <3>1, <3>3
      <4> QED BY <4>1
    <3> QED BY <3>1, <3>2, <3>3
  <2> QED BY <2>8
<1>2. \E x \in S : \A y \in S : x >= y
  BY <1>1
<1> QED BY <1>2 DEF Max

\* A set of naturals that is not empty has a least member.
LEMMA MinIsMember ==
  ASSUME NEW S \in SUBSET Nat, S # {}
  PROVE  Min(S) \in S /\ \A y \in S : Min(S) =< y
<1> DEFINE Less == {ss \in Nat \X Nat : ss[1] < ss[2]}
<1>1. IsWellFoundedOn(Less, Nat)
  BY NatLessThanWellFounded, Zenon DEF OpToRel
<1> HIDE DEF Less
<1>2. PICK x \in S : \A y \in S : <<y, x>> \notin Less
  BY <1>1, WFMin
<1>3. ASSUME NEW y \in S
      PROVE  x =< y
  <2>1. <<y, x>> \in Nat \X Nat /\ <<y, x>> \notin Less
    BY <1>2
  <2>2. ~(y < x)
    BY <2>1 DEF Less
  <2> QED BY <2>2
<1> QED BY <1>3 DEF Min

\* That of a set of one member.
LEMMA OnlyMember ==
  ASSUME NEW n \in Nat
  PROVE  Max({n}) = n /\ Min({n}) = n
<1>1. Max({n}) \in {n}
  BY DEF Max
<1>2. Min({n}) \in {n}
  BY DEF Min
<1> QED BY <1>1, <1>2
-----------------------------------------------------------------------------
(* The catalog: its strengthened invariant.                                *)

MapsOK ==
  /\ config \in Location \cup {None} /\ running \in BOOLEAN /\ stale \in BOOLEAN
  /\ catalog \in MapId \cup {None} /\ maps \in [MapId -> Catalog]
  /\ query \in [map : MapId \cup {None}, seen : Catalog]
  /\ made \subseteq Dir /\ troubles \in 0..MaxTroubles

\* A handler works for one location, and what it has made is stored there.
MadeAreStored == \A t \in job.types \ job.todo : schemas[PlaceOf(t)] # None

HandlerOK ==
  /\ job.kind = "idle" => job.types = {}
  /\ job.kind # "idle" => config \in Location /\ (running <=> job.kind = "add")
  /\ running => config \in Location
  /\ job.kind = "add" => \E t \in Type : job.types = {t}
  /\ MadeAreStored

\* Uploads take effect as a whole.
BlobsAreWhole == \A p \in Place : p[1] \in Account => schemas[p] # Torn

\* RunningTypesListed, for the types that no handler is adding.
Settled(t) == LET f == definitions[t].folder
              IN  ScanFinds(config, f, t) /\ Homes(config, t) = {f}
RunListed ==
  running /\ ~stale =>
    \A t \in Registered \ job.types :
      Settled(t) => Current[t] # None /\ Current[t].bucket = definitions[t].folder

CatalogInv ==
  /\ Inv /\ MapsOK /\ HandlerOK /\ BlobsAreWhole
  /\ CatalogFitsStorage /\ SnapshotIsStable /\ RunListed

-----------------------------------------------------------------------------
(* A scan of the storage.                                                  *)

Scan(l, read) == IF l \in Dir THEN BuildFileCatalog(l) ELSE BuildBlobCatalog(l, read)

\* Every entry of the catalog is of location l, and has a schema there.
Fits(cat, l) ==
  /\ cat \in Catalog
  /\ \A t \in Type : cat[t] # None => cat[t].at = l /\ schemas[<<l, cat[t].bucket, t>>] # None

\* A type that a scan finds is in the catalog, and there if it has no other folder.
Covers(cat, l) ==
  \A t \in Type, f \in Folder : ScanFinds(l, f, t) =>
    /\ cat[t] # None
    /\ Homes(l, t) = {f} => cat[t].bucket = f

\* The entry for the folders in which a type was found.
LEMMA FoundEntry ==
  ASSUME NEW l \in Location, NEW found \in SUBSET Folder, found # {}
  PROVE  LET e == [at |-> l, bucket |-> Max(found)]
         IN  e \in Entry /\ e # None /\ e.bucket \in found
<1>1. IsFiniteSet(found) /\ found \in SUBSET Nat
  BY FS_Subset, StorageAssumption
<1>2. Max(found) \in found
  BY <1>1, MaxIsMember
<1> QED BY <1>2, StorageAssumption DEF Entry, Location

\* A directory: what its scan finds has a file, and what is the first of a folder is found.
LEMMA FileScan ==
  ASSUME NEW l \in Dir
  PROVE  Fits(BuildFileCatalog(l), l) /\ Covers(BuildFileCatalog(l), l)
<1> DEFINE cat == BuildFileCatalog(l)
           found(t) == {f \in Scanned(l) : Listed(l, f) = t}
<1>1. \A t \in Type : cat[t] = IF found(t) = {} THEN None ELSE [at |-> l, bucket |-> Max(found(t))]
  BY DEF BuildFileCatalog
<1>2. \A f \in Scanned(l) : /\ f \in Folder /\ Listed(l, f) \in Held(l, f)
                           /\ \A u \in Held(l, f) : Listed(l, f) =< u
  <2>1. \A f : Held(l, f) \in SUBSET Nat
    BY StorageAssumption DEF Held
  <2> QED BY <2>1, MinIsMember DEF Scanned, Listed
<1>3. \A t \in Type : \A f \in found(t) : f \in Folder /\ schemas[<<l, f, t>>] # None
  BY <1>2 DEF Held
<1>4. ASSUME NEW t \in Type, found(t) # {}
      PROVE  cat[t] \in Entry /\ cat[t] # None /\ cat[t].at = l /\ cat[t].bucket \in found(t)
  <2>1. found(t) \in SUBSET Folder /\ l \in Location
    BY <1>3 DEF Location
  <2> HIDE DEF found
  <2>2. cat[t] = [at |-> l, bucket |-> Max(found(t))]
    BY <1>1, <1>4
  <2> QED BY <1>4, <2>1, <2>2, FoundEntry
<1>5. cat \in Catalog
  <2>1. \A t \in Type : cat[t] \in Entry \cup {None}
    BY <1>1, <1>4
  <2> QED BY <2>1 DEF BuildFileCatalog, Catalog
<1>6. Fits(cat, l)
  <2>1. ASSUME NEW t \in Type, cat[t] # None
        PROVE  cat[t].at = l /\ schemas[<<l, cat[t].bucket, t>>] # None
    <3>1. found(t) # {}
      BY <1>1, <2>1
    <3> QED BY <1>3, <1>4, <3>1
  <2> QED BY <1>5, <2>1 DEF Fits
<1>7. ASSUME NEW t \in Type, NEW f \in Folder, ScanFinds(l, f, t)
      PROVE  cat[t] # None /\ (Homes(l, t) = {f} => cat[t].bucket = f)
  <2>1. t \in Held(l, f) /\ \A u \in Held(l, f) : t =< u
    BY <1>7 DEF ScanFinds
  <2>2. f \in Scanned(l)
    BY <2>1 DEF Scanned
  <2>3. f \in found(t)
    <3>1. Listed(l, f) \in Held(l, f) /\ Listed(l, f) =< t /\ t =< Listed(l, f)
      BY <1>2, <2>1, <2>2
    <3>2. Held(l, f) \in SUBSET Nat
      BY StorageAssumption DEF Held
    <3> QED BY <2>1, <2>2, <3>1, <3>2
  <2>4. Homes(l, t) = {f} => found(t) \subseteq {f}
    BY <1>2 DEF Homes
  <2> QED BY <1>4, <2>3, <2>4
<1> QED BY <1>6, <1>7 DEF Covers

\* An account, of which the containers in read could be read.
LEMMA BlobScan ==
  ASSUME NEW l \in Account, BlobsAreWhole, NEW read \in SUBSET Folder
  PROVE  /\ Fits(BuildBlobCatalog(l, read), l)
         /\ read = Folder => Covers(BuildBlobCatalog(l, read), l)
<1> DEFINE cat == BuildBlobCatalog(l, read)
           found(t) == {f \in read : validateSchema(schemas[<<l, f, t>>])}
<1>1. \A t \in Type : cat[t] = IF found(t) = {} THEN None ELSE [at |-> l, bucket |-> Max(found(t))]
  BY DEF BuildBlobCatalog
<1>2. \A t \in Type : \A f \in found(t) : f \in Folder /\ schemas[<<l, f, t>>] # None
  BY DEF validateSchema
<1>3. ASSUME NEW t \in Type, found(t) # {}
      PROVE  cat[t] \in Entry /\ cat[t] # None /\ cat[t].at = l /\ cat[t].bucket \in found(t)
  <2>1. found(t) \in SUBSET Folder /\ l \in Location
    BY DEF Location
  <2> HIDE DEF found
  <2>2. cat[t] = [at |-> l, bucket |-> Max(found(t))]
    BY <1>1, <1>3
  <2> QED BY <1>3, <2>1, <2>2, FoundEntry
<1>4. cat \in Catalog
  <2>1. \A t \in Type : cat[t] \in Entry \cup {None}
    BY <1>1, <1>3
  <2> QED BY <2>1 DEF BuildBlobCatalog, Catalog
<1>5. Fits(cat, l)
  <2>1. ASSUME NEW t \in Type, cat[t] # None
        PROVE  cat[t].at = l /\ schemas[<<l, cat[t].bucket, t>>] # None
    <3>1. found(t) # {}
      BY <1>1, <2>1
    <3> QED BY <1>2, <1>3, <3>1
  <2> QED BY <1>4, <2>1 DEF Fits
<1>6. ASSUME read = Folder, NEW t \in Type, NEW f \in Folder, ScanFinds(l, f, t)
      PROVE  cat[t] # None /\ (Homes(l, t) = {f} => cat[t].bucket = f)
  <2>1. schemas[<<l, f, t>>] # None
    BY <1>6 DEF ScanFinds, Held
  <2>2. <<l, f, t>> \in Place /\ <<l, f, t>>[1] = l
    BY DEF Place, Location
  <2>3. f \in found(t)
    BY <1>6, <2>1, <2>2 DEF BlobsAreWhole, validateSchema
  <2>4. Homes(l, t) = {f} => found(t) \subseteq {f}
    BY <1>2 DEF Homes, Held
  <2> QED BY <1>3, <2>3, <2>4
<1> QED BY <1>5, <1>6 DEF Covers

\* A new map: it holds the new catalog, and the one a query holds stays.
LEMMA ReplacedMap ==
  ASSUME MapsOK, NEW cat \in Catalog, Replace(cat)
  PROVE  /\ catalog' \in MapId /\ catalog' # catalog
         /\ maps' \in [MapId -> Catalog]
         /\ Current' = cat
         /\ query.map # None => maps'[query.map] = maps[query.map]
<1>1. PICK new \in MapId \ {catalog, query.map} :
        /\ catalog' = new
        /\ maps' = [m \in MapId |-> IF m = new THEN cat ELSE IF m = query.map THEN maps[m] ELSE Empty]
  BY DEF Replace
<1>2. Empty \in Catalog
  BY DEF Empty, Catalog
<1>3. maps' \in [MapId -> Catalog]
  BY <1>1, <1>2 DEF MapsOK
<1>4. maps'[new] = cat /\ new # None
  BY <1>1, StorageAssumption
<1>5. Current' = cat
  BY <1>1, <1>4 DEF Current
<1>6. query.map # None => maps'[query.map] = maps[query.map]
  BY <1>1 DEF MapsOK
<1> QED BY <1>1, <1>3, <1>5, <1>6

\* A rebuild for l leaves the catalog and says so, or makes one that fits l, and
\* that covers it unless it says so.
LEMMA RebuildOutcome ==
  ASSUME MapsOK, BlobsAreWhole, NEW l \in Location, rebuildCatalog(l)
  PROVE  /\ troubles' \in 0..MaxTroubles
         /\ \/ UNCHANGED <<catalog, maps>> /\ stale' = TRUE
            \/ \E cat \in Catalog : /\ Fits(cat, l) /\ Replace(cat)
                                    /\ stale' \in BOOLEAN
                                    /\ ~stale' => Covers(cat, l)
<1>1. Fail => troubles' \in 0..MaxTroubles
  BY StorageAssumption DEF Fail, MapsOK
<1>2. CASE rebuildFails(l)
  BY <1>1, <1>2 DEF rebuildFails, MapsOK
<1>3. CASE rebuildSkips(l)
  <2>1. PICK f \in Folder : Replace(BuildBlobCatalog(l, Folder \ {f}))
    BY <1>3 DEF rebuildSkips
  <2>2. l \in Account /\ Fail /\ stale' = TRUE
    BY <1>3 DEF rebuildSkips
  <2>3. Fits(BuildBlobCatalog(l, Folder \ {f}), l)
    BY <2>2, BlobScan
  <2> QED BY <1>1, <2>1, <2>2, <2>3 DEF Fits
<1>4. CASE ~rebuildFails(l) /\ ~rebuildSkips(l)
  <2> DEFINE cat == IF l \in Dir THEN BuildFileCatalog(l) ELSE BuildBlobCatalog(l, Folder)
  <2>1. Replace(cat) /\ stale' = FALSE /\ UNCHANGED troubles
    BY <1>4 DEF rebuildCatalog
  <2>2. Fits(cat, l) /\ Covers(cat, l)
    BY FileScan, BlobScan DEF Location
  <2> QED BY <2>1, <2>2 DEF Fits, MapsOK
<1> QED BY <1>2, <1>3, <1>4

-----------------------------------------------------------------------------
(* What a step does to the schemas.                                        *)

\* At most one schema changes, in the place of a type that a handler makes.
LEMMA OneSchema ==
  ASSUME Inv, HandlerOK, Next
  PROVE  \/ UNCHANGED schemas
         \/ /\ job.kind # "idle"
            /\ \E t \in job.types : \E v \in {Torn} \cup Stored :
                 /\ PlaceOf(t) \in Place
                 /\ schemas' = [schemas EXCEPT ![PlaceOf(t)] = v]
                 /\ v = Torn => config \in Dir
<1> USE DEF Inv
<1>1. ASSUME NEW t \in Type, OpenSchemaFile(t)
      PROVE  /\ t \in job.types /\ PlaceOf(t) \in Place /\ config \in Dir
             /\ schemas' = [schemas EXCEPT ![PlaceOf(t)] = Torn]
  <2>1. t \in job.types /\ config \in Dir
    BY <1>1 DEF OpenSchemaFile, Due, MemoryOK
  <2> QED BY <1>1, <2>1, PlaceOfIsPlace DEF OpenSchemaFile, Location
<1>2. ASSUME NEW t \in Type, WriteSchemaFile(t) \/ UploadSchema(t) \/ UploadAnswerLost(t)
      PROVE  /\ t \in job.types /\ PlaceOf(t) \in Place
             /\ \E v \in Stored : v # Torn /\ schemas' = [schemas EXCEPT ![PlaceOf(t)] = v]
  <2>1. t \in job.types /\ config \in Location /\ Store(t)
    <3>1. CASE WriteSchemaFile(t)
      <4>1. job.writing = t /\ job.writing # None
        BY <3>1, StorageAssumption DEF WriteSchemaFile
      <4> QED BY <3>1, <4>1 DEF WriteSchemaFile, MemoryOK, WritingWasCompared, Location
    <3>2. CASE UploadSchema(t) \/ UploadAnswerLost(t)
      BY <3>2 DEF UploadSchema, UploadAnswerLost, Due, MemoryOK, Location
    <3> QED BY <1>2, <3>1, <3>2
  <2>2. PlaceOf(t) \in Place /\ definitions[t].columns \in Columns
    BY <2>1, PlaceOfIsPlace
  <2>3. /\ StoredItemDefinition(definitions[t].columns) \in Stored
        /\ StoredItemDefinition(definitions[t].columns) # Torn
    BY <2>2, StoredColumns DEF validateSchema
  <2> QED BY <2>1, <2>2, <2>3 DEF Store
<1>3. ASSUME NEW t \in Type, RefuseSchema(t) \/ CallFails(t) \/ WriteSchemaFails(t)
      PROVE  UNCHANGED schemas
  BY <1>3 DEF RefuseSchema, CallFails, WriteSchemaFails, storage
<1>4. ~MakeWriter => UNCHANGED schemas
  BY DEF Next, Configure, AddDefinition, RemoveDefinition, StartBegin, Stop, StartDone, AddDone,
         QueryBegin, QueryEnd, Crash, storage
<1>5. job.types # {} => job.kind # "idle"
  BY DEF HandlerOK
<1> QED BY <1>1, <1>2, <1>3, <1>4, <1>5 DEF MakeWriter

\* No schema is lost, a blob is never torn, and only the places of the types
\* that a handler makes change.
LEMMA SchemasStay ==
  ASSUME Inv, HandlerOK, BlobsAreWhole, Next
  PROVE  /\ \A p \in Place : schemas[p] # None => schemas'[p] # None
         /\ BlobsAreWhole'
         /\ \A p \in Place : p[3] \notin job.types => schemas'[p] = schemas[p]
<1>1. CASE UNCHANGED schemas
  BY <1>1 DEF BlobsAreWhole
<1>2. CASE ~UNCHANGED schemas
  <2>1. PICK t \in job.types, v \in {Torn} \cup Stored :
          /\ PlaceOf(t) \in Place
          /\ schemas' = [schemas EXCEPT ![PlaceOf(t)] = v]
          /\ v = Torn => config \in Dir
    BY <1>2, OneSchema
  <2>2. v # None
    <3>1. \A c \in Columns : StoredItemDefinition(c) # None
      BY StoredColumns DEF validateSchema
    <3> QED BY <3>1, StorageAssumption DEF Stored, Torn
  <2>3. PlaceOf(t)[3] = t /\ PlaceOf(t)[1] = config
    BY DEF PlaceOf
  <2>4. v = Torn => config \notin Account
    BY <2>1, StorageAssumption
  <2>5. \A p \in Place : schemas'[p] = IF p = PlaceOf(t) THEN v ELSE schemas[p]
    BY <2>1 DEF Inv, FilesOK
  <2> QED BY <2>2, <2>3, <2>4, <2>5 DEF BlobsAreWhole
<1> QED BY <1>1, <1>2

\* So what is stored for every entry stays stored, and a type keeps its folders.
LEMMA FitsStays ==
  ASSUME Inv, HandlerOK, BlobsAreWhole, Next, NEW cat \in Catalog,
         \A t \in Type : cat[t] # None => schemas[<<cat[t].at, cat[t].bucket, t>>] # None
  PROVE  \A t \in Type : cat[t] # None => schemas'[<<cat[t].at, cat[t].bucket, t>>] # None
<1>1. \A t \in Type : cat[t] # None => <<cat[t].at, cat[t].bucket, t>> \in Place
  BY DEF Catalog, Entry, Place
<1> QED BY <1>1, SchemasStay

-----------------------------------------------------------------------------
(* What a step does to the catalog.                                        *)

\* A type that no handler makes, and that has one folder, where a scan finds it
\* after a step, had so before.
LEMMA SettledBefore ==
  ASSUME Inv, HandlerOK, BlobsAreWhole, Next, config \in Location, config' = config,
         NEW t \in Type \ job.types, NEW f \in Folder,
         ScanFinds(config, f, t)', (Homes(config, t) = {f})'
  PROVE  ScanFinds(config, f, t) /\ Homes(config, t) = {f}
<1>1. \A g \in Folder : \A u \in Type : <<config, g, u>> \in Place
  BY DEF Place
<1>2. \A g \in Folder : t \in Held(config, g)' <=> t \in Held(config, g)
  <2>1. \A g \in Folder : schemas'[<<config, g, t>>] = schemas[<<config, g, t>>]
    BY <1>1, SchemasStay
  <2> QED BY <2>1 DEF Held
<1>3. Held(config, f) \subseteq Held(config, f)'
  BY <1>1, SchemasStay DEF Held
<1>4. ScanFinds(config, f, t)
  BY <1>2, <1>3 DEF ScanFinds
<1>5. Homes(config, t) = {f}
  BY <1>2 DEF Homes
<1> QED BY <1>4, <1>5

\* Steps that leave the catalog, and give no type to a running server but those
\* that a handler makes.
LEMMA RunListedStays ==
  ASSUME CatalogInv, Next, UNCHANGED <<config, catalog, maps, stale>>,
         running' => running,
         \A t \in Registered' \ job'.types :
           t \in Registered \ job.types /\ definitions'[t].folder = definitions[t].folder
  PROVE  RunListed'
<1> SUFFICES ASSUME running', ~stale', NEW t \in Registered' \ job'.types, Settled(t)'
             PROVE  (Current[t] # None /\ Current[t].bucket = definitions[t].folder)'
  BY DEF RunListed
<1> DEFINE f == definitions[t].folder
<1>1. t \in Registered \ job.types /\ definitions'[t].folder = f /\ f \in Folder /\ t \in Type
  BY StorageAssumption DEF Registered, CatalogInv, Inv, MemoryOK
<1>2. running /\ config \in Location /\ ~stale
  BY DEF CatalogInv, HandlerOK
<1>3. ScanFinds(config, f, t)' /\ (Homes(config, t) = {f})'
  BY <1>1 DEF Settled, ScanFinds, Homes, Held
<1>4. Settled(t)
  BY <1>1, <1>2, <1>3, SettledBefore DEF CatalogInv, Settled
<1>5. Current' = Current
  BY DEF Current
<1> QED BY <1>1, <1>2, <1>4, <1>5 DEF CatalogInv, RunListed

\* Steps that leave the catalog and the query.
LEMMA SameCatalog ==
  ASSUME CatalogInv, Next, UNCHANGED <<config, catalog, maps, query, stale>>
  PROVE  CatalogFitsStorage' /\ SnapshotIsStable' /\ BlobsAreWhole'
<1>1. Current' = Current /\ Current \in Catalog /\ query.seen \in Catalog
  BY DEF Current, CatalogInv, MapsOK, Empty, Catalog
<1>2. \A cat \in {Current, query.seen} : \A t \in Type :
        cat[t] # None => schemas[<<cat[t].at, cat[t].bucket, t>>] # None
  BY DEF CatalogInv, CatalogFitsStorage
<1>3. \A cat \in {Current, query.seen} : \A t \in Type :
        cat[t] # None => schemas'[<<cat[t].at, cat[t].bucket, t>>] # None
  BY <1>1, <1>2, FitsStays DEF CatalogInv
<1> QED BY <1>1, <1>3, SchemasStay DEF CatalogInv, CatalogFitsStorage, SnapshotIsStable

\* Requests that do not touch the catalog.
LEMMA RequestCatalog ==
  ASSUME CatalogInv, Next,
         \/ \E d \in Definition : AddDefinition(d)
         \/ \E t \in Type : RemoveDefinition(t)
         \/ StartBegin \/ Stop
  PROVE  MapsOK' /\ HandlerOK' /\ RunListed' /\ UNCHANGED <<config, catalog, maps, query, stale>>
<1>1. /\ UNCHANGED <<config, catalog, maps, query, stale>> /\ UNCHANGED <<made, troubles, schemas>>
      /\ job = Idle /\ job.kind = "idle" /\ job.types = {} /\ job.todo = {}
  <2>1. Idle.kind = "idle"
    BY DEF Idle
  <2>2. UNCHANGED <<config, catalog, maps, query, stale, troubles>> /\ UNCHANGED storage /\ Unlocked
    BY DEF AddDefinition, RemoveDefinition, StartBegin, Stop
  <2> QED BY <2>1, <2>2, IdleType DEF storage, Unlocked
<1>2. running' \in BOOLEAN /\ (running' => running)
  <2>1. running' = running \/ running' = FALSE
    BY DEF AddDefinition, RemoveDefinition, StartBegin, Stop
  <2>2. running \in BOOLEAN
    BY DEF CatalogInv, MapsOK
  <2>3. running' \in BOOLEAN
    BY <2>1, <2>2, Zenon
  <2>4. running' => running
    BY <2>1, Zenon
  <2> QED BY <2>3, <2>4
<1>3. MapsOK'
  BY <1>1, <1>2 DEF CatalogInv, MapsOK
<1>4. ASSUME NEW d \in Definition, AddDefinition(d)
      PROVE  HandlerOK' /\ RunListed'
  <2>1. d.type \in Type /\ UNCHANGED running
    BY <1>4, StorageAssumption DEF AddDefinition
  <2>2. /\ definitions' = [definitions EXCEPT ![d.type] = d]
        /\ job' = IF running THEN Begin("add", {d.type}) ELSE job
    BY <1>4 DEF AddDefinition
  <2>3. CASE running
    <3>1. job'.kind = "add" /\ job'.types = {d.type} /\ job'.todo = {d.type}
      BY <2>2, <2>3 DEF Begin
    <3>2. HandlerOK'
      BY <1>1, <2>1, <2>3, <3>1 DEF CatalogInv, HandlerOK, MadeAreStored
    <3>3. \A t \in Registered' \ job'.types : t \in Registered /\ definitions'[t] = definitions[t]
      BY <2>1, <2>2, <3>1 DEF Registered, CatalogInv, Inv, MemoryOK
    <3>4. RunListed'
      BY <1>1, <1>2, <3>3, RunListedStays
    <3> QED BY <3>2, <3>4
  <2>4. CASE ~running
    BY <1>1, <2>1, <2>2, <2>4 DEF CatalogInv, HandlerOK, MadeAreStored, RunListed
  <2> QED BY <2>3, <2>4
<1>5. ASSUME NEW u \in Type, RemoveDefinition(u)
      PROVE  HandlerOK' /\ RunListed'
  <2>1. definitions' = [definitions EXCEPT ![u] = None] /\ job' = job /\ UNCHANGED running
    BY <1>5 DEF RemoveDefinition
  <2>2. HandlerOK'
    BY <1>1, <2>1 DEF CatalogInv, HandlerOK, MadeAreStored
  <2>3. \A t \in Registered' \ job'.types : t \in Registered /\ definitions'[t] = definitions[t]
    BY <2>1 DEF Registered, CatalogInv, Inv, MemoryOK
  <2> QED BY <1>1, <1>2, <2>1, <2>2, <2>3, RunListedStays
<1>6. ASSUME StartBegin
      PROVE  HandlerOK' /\ RunListed'
  <2>1. /\ ~running /\ config # None /\ UNCHANGED <<running, definitions>>
        /\ job'.kind = "start" /\ job'.types = Registered /\ job'.todo = Registered
    BY <1>6 DEF StartBegin, Begin
  <2> QED BY <1>1, <2>1 DEF CatalogInv, MapsOK, HandlerOK, MadeAreStored, RunListed
<1>7. ASSUME Stop
      PROVE  HandlerOK' /\ RunListed'
  <2>1. ~running' /\ UNCHANGED <<definitions, job>>
    BY <1>7 DEF Stop
  <2>2. job'.kind = "idle" /\ job'.types = {}
    BY <1>1, <2>1
  <2>3. HandlerOK'
    BY <2>1, <2>2 DEF HandlerOK, MadeAreStored
  <2>4. RunListed'
    BY <2>1 DEF RunListed
  <2> QED BY <2>3, <2>4
<1>8. HandlerOK' /\ RunListed'
  BY <1>4, <1>5, <1>6, <1>7
<1> QED BY <1>1, <1>3, <1>8

\* The steps of making a writer.
LEMMA MakeWriterCatalog ==
  ASSUME CatalogInv, Next, MakeWriter
  PROVE  MapsOK' /\ HandlerOK' /\ RunListed' /\ UNCHANGED <<config, catalog, maps, query, stale>>
<1> PICK t \in Type : \/ OpenSchemaFile(t) \/ WriteSchemaFile(t) \/ UploadSchema(t)
                      \/ RefuseSchema(t) \/ CallFails(t) \/ WriteSchemaFails(t) \/ UploadAnswerLost(t)
  BY DEF MakeWriter
<1>1. t \in job.types /\ UNCHANGED <<config, running, catalog, maps, query, stale>>
  <2>1. t \in job.todo
    <3>1. job.writing = t => job.writing # None
      BY StorageAssumption
    <3> QED BY <3>1 DEF OpenSchemaFile, WriteSchemaFile, UploadSchema, RefuseSchema, CallFails,
                       WriteSchemaFails, UploadAnswerLost, Due, CatalogInv, Inv, MemoryOK
  <2> QED BY <2>1 DEF OpenSchemaFile, WriteSchemaFile, UploadSchema, RefuseSchema, CallFails,
                      WriteSchemaFails, UploadAnswerLost, Progress, GiveUp, CatalogInv, Inv, MemoryOK
<1>2. config \in Location /\ job.kind # "idle" /\ (running <=> job.kind = "add")
  BY <1>1 DEF CatalogInv, HandlerOK
<1>3. MapsOK'
  <2>1. troubles' \in 0..MaxTroubles
    BY StorageAssumption DEF OpenSchemaFile, WriteSchemaFile, UploadSchema, RefuseSchema, CallFails,
          WriteSchemaFails, UploadAnswerLost, Fail, CatalogInv, MapsOK
  <2>2. made' \subseteq Dir
    BY DEF OpenSchemaFile, WriteSchemaFile, UploadSchema, RefuseSchema, CallFails,
          WriteSchemaFails, UploadAnswerLost, storage, CatalogInv, MapsOK
  <2> QED BY <1>1, <2>1, <2>2 DEF CatalogInv, MapsOK
<1>4. CASE OpenSchemaFile(t) \/ WriteSchemaFile(t) \/ UploadSchema(t)
  <2>1. UNCHANGED definitions /\ job'.kind = job.kind /\ job'.types = job.types
    BY <1>4 DEF OpenSchemaFile, WriteSchemaFile, UploadSchema, Progress, CatalogInv, Inv, MemoryOK
  <2>2. ASSUME NEW u \in job.types \ job'.todo
        PROVE  schemas'[PlaceOf(u)] # None
    <3>1. PlaceOf(u) \in Place
      BY <1>2, PlaceOfIsPlace DEF CatalogInv, Inv
    <3>2. CASE u \notin job.todo
      BY <2>2, <3>1, <3>2, SchemasStay DEF CatalogInv, HandlerOK, MadeAreStored
    <3>3. CASE u \in job.todo
      <4>1. u = t /\ Store(t)
        BY <1>4, <2>2, <3>3 DEF OpenSchemaFile, WriteSchemaFile, UploadSchema, CatalogInv, Inv, MemoryOK
      <4>2. StoredItemDefinition(definitions[t].columns) # None
        BY <1>1, PlaceOfIsPlace, StoredColumns DEF validateSchema, CatalogInv, Inv
      <4> QED BY <3>1, <4>1, <4>2 DEF Store, CatalogInv, Inv, FilesOK
    <3> QED BY <3>2, <3>3
  <2>3. MadeAreStored'
    BY <1>1, <2>1, <2>2 DEF MadeAreStored, PlaceOf
  <2>4. HandlerOK'
    BY <1>1, <1>2, <2>1, <2>3 DEF CatalogInv, HandlerOK
  <2>5. RunListed'
    BY <1>1, <2>1, RunListedStays DEF Registered
  <2> QED BY <1>1, <1>3, <2>4, <2>5
<1>5. CASE RefuseSchema(t) \/ CallFails(t) \/ WriteSchemaFails(t) \/ UploadAnswerLost(t)
  <2>1. GiveUp
    BY <1>5 DEF RefuseSchema, CallFails, WriteSchemaFails, UploadAnswerLost
  <2>2. job' = Idle /\ job'.kind = "idle" /\ job'.types = {} /\ job'.todo = {}
    BY <2>1 DEF GiveUp, Idle
  <2>3. HandlerOK'
    BY <1>1, <1>2, <2>2 DEF HandlerOK, MadeAreStored
  <2>4. CASE running
    <3>1. definitions' = [u \in Type |-> IF u \in job.types THEN None ELSE definitions[u]]
      BY <1>2, <2>1, <2>4 DEF GiveUp
    <3>2. \A u \in Registered' : u \in Registered \ job.types /\ definitions'[u] = definitions[u]
      BY <3>1 DEF Registered
    <3> QED BY <1>1, <1>3, <2>2, <2>3, <3>2, RunListedStays
  <2>5. CASE ~running
    BY <1>1, <1>3, <2>3, <2>5 DEF RunListed
  <2> QED BY <2>4, <2>5
<1> QED BY <1>4, <1>5

\* A rebuild for location l, which becomes or stays that of the configuration.
LEMMA RebuiltCatalog ==
  ASSUME CatalogInv, NEW l \in Location, rebuildCatalog(l), config' = l,
         UNCHANGED <<query, schemas, made, definitions>>, job' = Idle, running' \in BOOLEAN
  PROVE  /\ MapsOK' /\ HandlerOK' /\ BlobsAreWhole'
         /\ CatalogFitsStorage' /\ SnapshotIsStable' /\ RunListed'
<1>1. job'.kind = "idle" /\ job'.types = {}
  BY DEF Idle
<1>2. HandlerOK' /\ BlobsAreWhole'
  BY <1>1 DEF HandlerOK, MadeAreStored, CatalogInv, BlobsAreWhole
<1>3. /\ troubles' \in 0..MaxTroubles
      /\ \/ UNCHANGED <<catalog, maps>> /\ stale' = TRUE
         \/ \E cat \in Catalog : /\ Fits(cat, l) /\ Replace(cat)
                                 /\ stale' \in BOOLEAN
                                 /\ ~stale' => Covers(cat, l)
  BY RebuildOutcome DEF CatalogInv
<1>4. CASE UNCHANGED <<catalog, maps>> /\ stale' = TRUE
  <2>1. MapsOK'
    BY <1>3, <1>4 DEF CatalogInv, MapsOK
  <2>2. Current' = Current
    BY <1>4 DEF Current
  <2>3. CatalogFitsStorage' /\ SnapshotIsStable' /\ RunListed'
    BY <1>4, <2>2 DEF CatalogInv, CatalogFitsStorage, SnapshotIsStable, RunListed
  <2> QED BY <1>2, <2>1, <2>3
<1>5. ASSUME NEW cat \in Catalog, Fits(cat, l), Replace(cat), stale' \in BOOLEAN,
             ~stale' => Covers(cat, l)
      PROVE  MapsOK' /\ CatalogFitsStorage' /\ SnapshotIsStable' /\ RunListed'
  <2>1. /\ catalog' \in MapId /\ maps' \in [MapId -> Catalog] /\ Current' = cat
        /\ query.map # None => maps'[query.map] = maps[query.map]
    BY <1>5, ReplacedMap DEF CatalogInv
  <2>2. MapsOK'
    BY <1>3, <1>5, <2>1 DEF CatalogInv, MapsOK
  <2>3. CatalogFitsStorage'
    BY <1>5, <2>1 DEF CatalogInv, CatalogFitsStorage, Fits
  <2>4. SnapshotIsStable'
    BY <2>1 DEF CatalogInv, SnapshotIsStable
  <2>5. ASSUME NEW t \in Registered', ~stale', Settled(t)'
        PROVE  cat[t] # None /\ cat[t].bucket = definitions'[t].folder
    <3>1. t \in Type /\ definitions[t].folder \in Folder
      BY <2>5, StorageAssumption DEF Registered, CatalogInv, Inv, MemoryOK
    <3>2. ScanFinds(l, definitions[t].folder, t) /\ Homes(l, t) = {definitions[t].folder}
      BY <2>5 DEF Settled, ScanFinds, Homes, Held
    <3> QED BY <1>5, <2>5, <3>1, <3>2 DEF Covers
  <2>6. RunListed'
    BY <2>1, <2>5 DEF RunListed
  <2> QED BY <2>2, <2>3, <2>4, <2>6
<1> QED BY <1>2, <1>3, <1>4, <1>5

\* Configure, and the end of start.
LEMMA RebuildStep ==
  ASSUME CatalogInv, (\E l \in Location : Configure(l)) \/ StartDone
  PROVE  /\ MapsOK' /\ HandlerOK' /\ BlobsAreWhole'
         /\ CatalogFitsStorage' /\ SnapshotIsStable' /\ RunListed'
<1>1. ASSUME NEW l \in Location, Configure(l)
      PROVE  /\ rebuildCatalog(l) /\ config' = l /\ job' = Idle /\ running' \in BOOLEAN
             /\ UNCHANGED <<query, schemas, made, definitions>>
  BY <1>1 DEF Configure, Unlocked, storage, CatalogInv, MapsOK
<1>2. CASE StartDone
  <2>1. /\ rebuildCatalog(config) /\ config' = config /\ job' = Idle /\ running' \in BOOLEAN
        /\ UNCHANGED <<query, schemas, made, definitions>>
    BY <1>2 DEF StartDone, storage
  <2>2. config \in Location
    BY <1>2 DEF StartDone, CatalogInv, HandlerOK
  <2> QED BY <2>1, <2>2, RebuiltCatalog
<1>3. ASSUME NEW l \in Location, Configure(l)
      PROVE  /\ MapsOK' /\ HandlerOK' /\ BlobsAreWhole'
             /\ CatalogFitsStorage' /\ SnapshotIsStable' /\ RunListed'
  BY <1>1, <1>3, RebuiltCatalog
<1> QED BY <1>2, <1>3

\* The entry that a hot add puts into the catalog.
LEMMA AddedEntry ==
  ASSUME CatalogInv, AddDone
  PROVE  \E t \in Type :
           LET e == [at |-> config, bucket |-> definitions[t].folder]
           IN  /\ job.types = {t} /\ running /\ e \in Entry /\ e # None
               /\ schemas[<<config, definitions[t].folder, t>>] # None
               /\ [Current EXCEPT ![t] = e] \in Catalog
               /\ Replace([Current EXCEPT ![t] = e])
<1>1. job.kind = "add" /\ job.todo = {} /\ config \in Location /\ running
  BY DEF AddDone, CatalogInv, HandlerOK
<1>2. PICK t \in Type : job.types = {t}
  BY <1>1 DEF CatalogInv, HandlerOK
<1> DEFINE e == [at |-> config, bucket |-> definitions[t].folder]
<1>3. definitions[t] \in Definition /\ definitions[t].type = t /\ definitions[t].folder \in Folder
  <2>1. definitions[t] \in Definition /\ (definitions[t] # None => definitions[t].type = t)
    BY <1>2 DEF CatalogInv, Inv, MemoryOK
  <2> QED BY <2>1, StorageAssumption
<1>4. e \in Entry /\ e # None
  BY <1>1, <1>3, StorageAssumption DEF Entry, Location
<1>5. schemas[<<config, definitions[t].folder, t>>] # None
  BY <1>1, <1>2 DEF CatalogInv, HandlerOK, MadeAreStored, PlaceOf
<1>6. Current \in Catalog
  BY DEF Current, CatalogInv, MapsOK, Empty, Catalog
<1>7. [Current EXCEPT ![t] = e] \in Catalog
  BY <1>4, <1>6 DEF Catalog
<1>8. Replace([Current EXCEPT ![t] = e])
  BY <1>2, <1>3 DEF AddDone, addCatalogEntry
<1> QED BY <1>1, <1>2, <1>4, <1>5, <1>7, <1>8

\* The end of a hot add.
LEMMA AddDoneStep ==
  ASSUME CatalogInv, AddDone
  PROVE  /\ MapsOK' /\ HandlerOK' /\ BlobsAreWhole'
         /\ CatalogFitsStorage' /\ SnapshotIsStable' /\ RunListed'
<1>1. PICK t \in Type :
        LET e == [at |-> config, bucket |-> definitions[t].folder]
        IN  /\ job.types = {t} /\ running /\ e \in Entry /\ e # None
            /\ schemas[<<config, definitions[t].folder, t>>] # None
            /\ [Current EXCEPT ![t] = e] \in Catalog
            /\ Replace([Current EXCEPT ![t] = e])
  BY AddedEntry
<1> DEFINE e == [at |-> config, bucket |-> definitions[t].folder]
           cat == [Current EXCEPT ![t] = e]
<1>2. /\ UNCHANGED <<config, running, definitions, query, schemas, made, troubles, stale>> /\ job' = Idle
  BY DEF AddDone, storage
<1>3. job'.kind = "idle" /\ job'.types = {}
  BY <1>2 DEF Idle
<1>4. HandlerOK' /\ BlobsAreWhole'
  BY <1>2, <1>3 DEF HandlerOK, MadeAreStored, CatalogInv, BlobsAreWhole
<1>5. Current \in [Type -> Entry \cup {None}]
  BY DEF Current, CatalogInv, MapsOK, Empty, Catalog
<1>6. \A u \in Type : cat[u] = IF u = t THEN e ELSE Current[u]
  BY <1>5
<1>7. /\ catalog' \in MapId /\ maps' \in [MapId -> Catalog] /\ Current' = cat
      /\ query.map # None => maps'[query.map] = maps[query.map]
  BY <1>1, ReplacedMap DEF CatalogInv
<1>8. e # None /\ e.at = config /\ e.bucket = definitions[t].folder
      /\ schemas[<<config, definitions[t].folder, t>>] # None
  BY <1>1
<1> HIDE DEF e, cat
<1>9. MapsOK'
  BY <1>2, <1>7 DEF CatalogInv, MapsOK
<1>10. SnapshotIsStable'
  BY <1>2, <1>7 DEF CatalogInv, SnapshotIsStable
<1>11. CatalogFitsStorage'
  <2>1. \A u \in Type : cat[u] # None => schemas[<<cat[u].at, cat[u].bucket, u>>] # None
    BY <1>6, <1>8 DEF CatalogInv, CatalogFitsStorage
  <2>2. ~stale => \A u \in Type : cat[u] # None => cat[u].at = config
    BY <1>6, <1>8 DEF CatalogInv, CatalogFitsStorage
  <2> QED BY <1>2, <1>7, <2>1, <2>2 DEF CatalogInv, CatalogFitsStorage
<1>12. RunListed'
  <2>1. SUFFICES ASSUME ~stale, NEW u \in Registered, Settled(u)
                 PROVE  cat[u] # None /\ cat[u].bucket = definitions[u].folder
    BY <1>2, <1>3, <1>7 DEF RunListed, Registered, Settled, ScanFinds, Homes, Held
  <2>2. CASE u = t
    BY <1>6, <1>8, <2>2
  <2>3. CASE u # t
    BY <1>1, <1>6, <2>1, <2>3 DEF CatalogInv, RunListed, Registered
  <2> QED BY <2>2, <2>3
<1> QED BY <1>4, <1>9, <1>10, <1>11, <1>12

\* Queries, and a crash.
LEMMA QueryOrCrashStep ==
  ASSUME CatalogInv, QueryBegin \/ QueryEnd \/ Crash
  PROVE  /\ MapsOK' /\ HandlerOK' /\ BlobsAreWhole'
         /\ CatalogFitsStorage' /\ SnapshotIsStable' /\ RunListed'
<1>0. Current \in Catalog /\ Empty \in Catalog /\ Empty = [t \in Type |-> None]
  BY DEF Current, CatalogInv, MapsOK, Empty, Catalog
<1>1. CASE QueryBegin
  <2>1. /\ query' = [map |-> catalog, seen |-> Current]
        /\ UNCHANGED <<config, running, definitions, catalog, maps, job, schemas, made, troubles, stale>>
    BY <1>1 DEF QueryBegin, storage
  <2>2. MapsOK'
    BY <1>0, <2>1 DEF CatalogInv, MapsOK
  <2>3. HandlerOK' /\ BlobsAreWhole'
    BY <2>1 DEF CatalogInv, HandlerOK, MadeAreStored, PlaceOf, BlobsAreWhole
  <2>4. Current' = Current
    BY <2>1 DEF Current
  <2>5. CatalogFitsStorage' /\ RunListed'
    BY <2>1, <2>4 DEF CatalogInv, CatalogFitsStorage, RunListed, Registered, Settled, ScanFinds, Homes, Held
  <2>6. SnapshotIsStable'
    BY <2>1 DEF SnapshotIsStable, Current
  <2> QED BY <2>2, <2>3, <2>5, <2>6
<1>2. CASE QueryEnd
  <2>1. /\ query' = NoQuery /\ maps' = [m \in MapId |-> IF m = catalog THEN maps[m] ELSE Empty]
        /\ UNCHANGED <<config, running, definitions, catalog, job, schemas, made, troubles, stale>>
    BY <1>2 DEF QueryEnd, storage
  <2>2. query'.map = None /\ query'.seen = Empty /\ query' \in [map : MapId \cup {None}, seen : Catalog]
    BY <1>0, <2>1 DEF NoQuery
  <2>3. maps' \in [MapId -> Catalog]
    BY <1>0, <2>1 DEF CatalogInv, MapsOK
  <2>4. MapsOK'
    BY <2>1, <2>2, <2>3 DEF CatalogInv, MapsOK
  <2>5. HandlerOK' /\ BlobsAreWhole'
    BY <2>1 DEF CatalogInv, HandlerOK, MadeAreStored, PlaceOf, BlobsAreWhole
  <2>6. Current' = Current
    BY <2>1 DEF Current, CatalogInv, MapsOK
  <2>7. CatalogFitsStorage' /\ RunListed'
    BY <1>0, <2>1, <2>2, <2>6
       DEF CatalogInv, CatalogFitsStorage, RunListed, Registered, Settled, ScanFinds, Homes, Held
  <2>8. SnapshotIsStable'
    BY <2>2 DEF SnapshotIsStable
  <2> QED BY <2>4, <2>5, <2>7, <2>8
<1>3. CASE Crash
  <2>1. /\ config' = None /\ running' = FALSE /\ catalog' = None /\ maps' = [m \in MapId |-> Empty]
        /\ job' = Idle /\ query' = NoQuery /\ stale' = FALSE
        /\ troubles < MaxTroubles /\ troubles' = troubles + 1 /\ UNCHANGED <<schemas, made>>
    BY <1>3 DEF Crash, Fail, storage
  <2>2. query'.map = None /\ query'.seen = Empty /\ query' \in [map : MapId \cup {None}, seen : Catalog]
    BY <1>0, <2>1 DEF NoQuery
  <2>3. troubles' \in 0..MaxTroubles
    BY <2>1, StorageAssumption DEF CatalogInv, MapsOK
  <2>4. MapsOK'
    BY <1>0, <2>1, <2>2, <2>3 DEF CatalogInv, MapsOK
  <2>5. job'.kind = "idle" /\ job'.types = {}
    BY <2>1 DEF Idle
  <2>6. HandlerOK' /\ BlobsAreWhole'
    BY <2>1, <2>5 DEF CatalogInv, HandlerOK, MadeAreStored, BlobsAreWhole
  <2>7. Current' = Empty
    BY <2>1 DEF Current
  <2>8. CatalogFitsStorage' /\ RunListed' /\ SnapshotIsStable'
    BY <1>0, <2>1, <2>2, <2>7 DEF CatalogFitsStorage, RunListed, SnapshotIsStable
  <2> QED BY <2>4, <2>6, <2>8
<1> QED BY <1>1, <1>2, <1>3

\* Every step keeps the invariant of the catalog.
LEMMA CatalogStep ==
  ASSUME CatalogInv, Next
  PROVE  CatalogInv'
<1>1. Inv'
  BY StepInv DEF CatalogInv
<1>2. CASE \/ \E d \in Definition : AddDefinition(d)
           \/ \E t \in Type : RemoveDefinition(t)
           \/ StartBegin \/ Stop \/ MakeWriter
  <2>1. MapsOK' /\ HandlerOK' /\ RunListed' /\ UNCHANGED <<config, catalog, maps, query, stale>>
    BY <1>2, RequestCatalog, MakeWriterCatalog
  <2>2. CatalogFitsStorage' /\ SnapshotIsStable' /\ BlobsAreWhole'
    BY <2>1, SameCatalog
  <2> QED BY <1>1, <2>1, <2>2 DEF CatalogInv
<1>3. CASE \/ \E l \in Location : Configure(l)
           \/ StartDone \/ AddDone \/ QueryBegin \/ QueryEnd \/ Crash
  <2>1. /\ MapsOK' /\ HandlerOK' /\ BlobsAreWhole'
        /\ CatalogFitsStorage' /\ SnapshotIsStable' /\ RunListed'
    BY <1>3, RebuildStep, AddDoneStep, QueryOrCrashStep
  <2> QED BY <1>1, <2>1 DEF CatalogInv
<1> QED BY <1>2, <1>3 DEF Next

LEMMA CatalogInvAlways == Spec => []CatalogInv
<1>1. Init => CatalogInv
  <2> SUFFICES ASSUME Init
               PROVE  CatalogInv
    OBVIOUS
  <2>1. Inv
    BY InitInv
  <2>2. Empty \in Catalog /\ Empty = [t \in Type |-> None]
    BY DEF Empty, Catalog
  <2>3. NoQuery.map = None /\ NoQuery.seen = Empty /\ NoQuery \in [map : MapId \cup {None}, seen : Catalog]
    BY <2>2 DEF NoQuery
  <2>4. MapsOK
    <3>1. /\ config = None /\ running = FALSE /\ stale = FALSE /\ catalog = None /\ made = {} /\ troubles = 0
          /\ maps = [m \in MapId |-> Empty] /\ query = NoQuery
      BY DEF Init, InitMemory
    <3>2. running \in BOOLEAN /\ stale \in BOOLEAN
      BY <3>1
    <3>3. 0 \in 0..MaxTroubles /\ maps \in [MapId -> Catalog]
      BY <2>2, <3>1, StorageAssumption
    <3> QED BY <2>3, <3>1, <3>2, <3>3 DEF MapsOK
  <2>5. job.kind = "idle" /\ job.types = {} /\ ~running
    BY DEF Init, InitMemory, Idle
  <2>6. HandlerOK
    BY <2>5 DEF HandlerOK, MadeAreStored
  <2>7. BlobsAreWhole
    BY StorageAssumption DEF Init, BlobsAreWhole, Torn
  <2>8. Current = Empty
    BY DEF Init, InitMemory, Current
  <2>9. CatalogFitsStorage /\ SnapshotIsStable /\ RunListed
    BY <2>2, <2>3, <2>5, <2>8 DEF Init, InitMemory, CatalogFitsStorage, SnapshotIsStable, RunListed
  <2> QED BY <2>1, <2>4, <2>6, <2>7, <2>9 DEF CatalogInv
<1>2. CatalogInv /\ [Next]_vars => CatalogInv'
  <2>1. ASSUME CatalogInv, UNCHANGED vars
        PROVE  CatalogInv'
    <3>1. Inv'
      BY <2>1 DEF CatalogInv, Inv, vars, memory, storage, MemoryOK, FilesOK, MissingIsNew,
                  StoredSchemaIsKept, WritingWasCompared, PlaceOf
    <3>2. Current' = Current
      BY <2>1 DEF vars, memory, Current
    <3>3. MapsOK' /\ HandlerOK' /\ BlobsAreWhole' /\ SnapshotIsStable'
      BY <2>1 DEF CatalogInv, vars, memory, storage, MapsOK, HandlerOK, MadeAreStored, PlaceOf,
                  BlobsAreWhole, SnapshotIsStable
    <3>4. CatalogFitsStorage' /\ RunListed'
      BY <2>1, <3>2 DEF CatalogInv, vars, memory, storage, CatalogFitsStorage, RunListed,
                        Registered, Settled, ScanFinds, Homes, Held
    <3> QED BY <3>1, <3>3, <3>4 DEF CatalogInv
  <2> QED BY <2>1, CatalogStep
<1> QED BY <1>1, <1>2, PTL DEF Spec

\* A type that a scan finds is not lost from the catalog.
LEMMA StepKeepsQueryable ==
  ASSUME CatalogInv, Next, config' = config, catalog' = catalog \/ ~stale',
         NEW t \in Type, Current[t] # None, Current[t].at = config,
         ScanFinds(config, Current[t].bucket, t)
  PROVE  Current'[t] # None
<1>1. Current \in [Type -> Entry \cup {None}]
  BY DEF Current, CatalogInv, MapsOK, Empty, Catalog
<1>2. Current[t] \in Entry /\ Current[t].bucket \in Folder /\ config \in Location
  BY <1>1 DEF Entry
<1>3. UNCHANGED <<catalog, maps>> => Current' = Current
  BY DEF Current
<1>4. ASSUME rebuildCatalog(config)
      PROVE  Current'[t] # None
  <2>1. \/ UNCHANGED <<catalog, maps>>
        \/ \E cat \in Catalog : Replace(cat) /\ (~stale' => Covers(cat, config))
    BY <1>2, <1>4, RebuildOutcome DEF CatalogInv
  <2>2. ASSUME NEW cat \in Catalog, Replace(cat), ~stale' => Covers(cat, config)
        PROVE  Current'[t] # None
    <3>1. catalog' # catalog /\ Current' = cat
      BY <2>2, ReplacedMap DEF CatalogInv
    <3> QED BY <1>2, <2>2, <3>1 DEF Covers
  <2> QED BY <1>3, <2>1, <2>2
<1>5. CASE (\E l \in Location : Configure(l)) \/ StartDone
  BY <1>4, <1>5 DEF Configure, StartDone
<1>6. CASE AddDone
  <2>1. PICK u \in Type, e \in Entry : e # None /\ [Current EXCEPT ![u] = e] \in Catalog
                                       /\ Replace([Current EXCEPT ![u] = e])
    BY <1>6, AddedEntry
  <2>2. Current' = [Current EXCEPT ![u] = e]
    BY <2>1, ReplacedMap DEF CatalogInv
  <2> QED BY <1>1, <2>1, <2>2
<1>7. CASE QueryEnd
  BY <1>7 DEF QueryEnd, Current, CatalogInv, MapsOK
<1>8. CASE Crash
  BY <1>2, <1>8, StorageAssumption DEF Crash, Location
<1>9. CASE \/ \E d \in Definition : AddDefinition(d)
           \/ \E u \in Type : RemoveDefinition(u)
           \/ StartBegin \/ Stop \/ MakeWriter
  <2>1. UNCHANGED <<config, catalog, maps, query, stale>>
    BY <1>9, RequestCatalog, MakeWriterCatalog
  <2> QED BY <1>3, <2>1
<1>10. CASE QueryBegin
  BY <1>3, <1>10 DEF QueryBegin
<1> QED BY <1>5, <1>6, <1>7, <1>8, <1>9, <1>10 DEF Next

-----------------------------------------------------------------------------
(* The theorems.                                                           *)

\* In file mode no sequence of removals, new definitions, failed starts and
\* crashes puts a schema of other columns next to the rows stored under the
\* first one.
THEOREM SchemaAlwaysKept == Spec => []StoredSchemaIsKept
<1>1. Inv => StoredSchemaIsKept
  BY DEF Inv
<1> QED BY <1>1, InvAlways, PTL

\* A writer is refused only if the definition differs from what was first stored
\* in its place, or a write was cut short there.
THEOREM AlwaysRefusedForCause == Spec => RefusedForCause
<1> DEFINE Cause(t) == \/ schemas[PlaceOf(t)] = Torn
                       \/ first[PlaceOf(t)] # StoredItemDefinition(definitions[t].columns)
<1>1. ASSUME Inv, NEW t \in Type, RefuseSchema(t)
      PROVE  Cause(t)
  <2>1. t \in job.types /\ config \in Dir /\ ~checkSchemaConsistency(t)
    BY <1>1 DEF RefuseSchema, Due, Inv, MemoryOK
  <2> QED BY <1>1, <2>1, ConsistentIsFirst
<1>2. Inv /\ [Next]_vars => [\A t \in Type : RefuseSchema(t) => Cause(t)]_vars
  BY <1>1
<1> QED BY <1>2, InvAlways, PTL DEF Spec, RefusedForCause

\* Nothing is queryable that storage has no schema for, and the catalog is that
\* of the configured location, through failed rebuilds, starts and crashes.
THEOREM CatalogAlwaysFits == Spec => []CatalogFitsStorage
<1>1. CatalogInv => CatalogFitsStorage
  BY DEF CatalogInv
<1> QED BY <1>1, CatalogInvAlways, PTL

\* The map that a query holds is never changed under it.
THEOREM SnapshotAlwaysStable == Spec => []SnapshotIsStable
<1>1. CatalogInv => SnapshotIsStable
  BY DEF CatalogInv
<1> QED BY <1>1, CatalogInvAlways, PTL

\* While the server runs, a type with one folder, where a scan finds it, is queryable there.
THEOREM RunningTypesAlwaysListed == Spec => []RunningTypesListed
<1>1. ASSUME CatalogInv, running, Unlocked, ~stale, NEW t \in Registered,
             ScanFinds(config, definitions[t].folder, t), Homes(config, t) = {definitions[t].folder}
      PROVE  \E e \in Tables : e.typeName = t /\ e.storageBucket = definitions[t].folder
  <2>1. job.types = {} /\ t \in Type
    BY <1>1, IdleType DEF Unlocked, Registered
  <2>2. Current[t] # None /\ Current[t].bucket = definitions[t].folder
    BY <1>1, <2>1 DEF CatalogInv, RunListed, Settled
  <2> DEFINE row == [typeName |-> t, storageBucket |-> Current[t].bucket,
                     mode |-> IF Current[t].at \in Dir THEN "file" ELSE "blob"]
  <2>3. row \in Tables
    BY <2>1, <2>2 DEF Tables
  <2> QED BY <2>2, <2>3
<1>2. CatalogInv => RunningTypesListed
  BY <1>1 DEF RunningTypesListed
<1> QED BY <1>2, CatalogInvAlways, PTL

\* A type that a scan finds in its folder stays queryable, through removal, stop,
\* start and configure of the same location.
THEOREM AlwaysStaysQueryable == Spec => StaysQueryable
<1>1. ASSUME CatalogInv, Next, config' = config, catalog' = catalog \/ ~stale', NEW t \in Type
      PROVE  StillListed(t)
  BY <1>1, StepKeepsQueryable DEF StillListed
<1>2. CatalogInv /\ [Next]_vars =>
        [config' = config /\ (catalog' = catalog \/ ~stale') => \A t \in Type : StillListed(t)]_vars
  BY <1>1
<1> QED BY <1>2, CatalogInvAlways, PTL DEF Spec, StaysQueryable

\* The state of Storage has its type.
THEOREM StorageTypeAlwaysOK == Spec => []StorageTypeOK
<1>1. ASSUME CatalogInv
      PROVE  StorageTypeOK
  <2>1. MemoryOK /\ MapsOK /\ FilesOK
    BY <1>1 DEF CatalogInv, Inv
  <2>2. \A t \in Type : definitions[t] = None \/ definitions[t] \in {d \in Definition : d.type = t}
    BY <2>1 DEF MemoryOK
  <2>3. schemas \in [Place -> {None, Torn} \cup {StoredItemDefinition(c) : c \in Columns}]
    BY <2>1 DEF FilesOK, Stored
  <2>4. /\ job.kind \in {"idle", "start", "add"} /\ job.writing \in job.todo \cup {None}
        /\ job.todo \subseteq job.types /\ job.types \subseteq Type
    BY <2>1 DEF MemoryOK
  <2>5. query.map \in MapId \cup {None} /\ query.seen \in Catalog
    BY <2>1 DEF MapsOK
  <2> QED BY <2>1, <2>2, <2>3, <2>4, <2>5 DEF StorageTypeOK, MapsOK
<1> QED BY <1>1, CatalogInvAlways, PTL

=============================================================================
