------------------------------- MODULE Storage -------------------------------
(***************************************************************************)
(* The schema files {typeName}.json that writers leave in the storage when *)
(* they are made, the catalog of queryable types that the server builds    *)
(* from them, and the queries that read both, across crashes of the        *)
(* process: the memory goes, the storage stays.                            *)
(*                                                                         *)
(* A location is a directory (file mode) or an account (blob mode).        *)
(* Folders and types are numbered in the order of their names, which is    *)
(* the order in which they are listed.  A handler that holds s.mu is a     *)
(* job; only queries that took their copy before, and a crash, come        *)
(* between its steps.                                                      *)
(***************************************************************************)
EXTENDS Integers, Sequences, FiniteSetsExt

CONSTANTS Dir, Account, Folder, Type,
          Definition,   \* what may be registered: [type, folder, columns]
          MapId,        \* references to maps; bound: how many are in use at once
          IngestTime,   \* the column that comes first in every stored record
          None,
          MaxTroubles   \* bound: failed calls to the storage and crashes of the process

ASSUME StorageAssumption ==
  /\ Folder \cup Type \subseteq Nat /\ Dir \cap Account = {}
  /\ \A d \in Definition : /\ d.type \in Type /\ d.folder \in Folder
                         /\ d.columns \in Seq(STRING) /\ IngestTime \notin Range(d.columns)
  /\ None \notin Type /\ None # <<>>
  /\ \A d \in Definition : None # d /\ None # <<IngestTime>> \o d.columns
  /\ None \notin MapId \cup Dir \cup Account /\ None \notin [at : Dir \cup Account, bucket : Folder]
  /\ IsFiniteSet(Folder)
  /\ IngestTime \in STRING /\ MaxTroubles \in Nat

Location == Dir \cup Account
Place == Location \X Folder \X Type
FilePlace == Dir \X Folder \X Type
Torn == <<>>            \* a truncated file: no column, not even the first

Entry == [at : Location, bucket : Folder]
Catalog == [Type -> Entry \cup {None}]
Empty == [t \in Type |-> None]

VARIABLES config,       \* the location of s.config
          running,      \* s.running
          definitions,  \* s.definitions
          catalog,      \* s.catalog, a reference
          maps,         \* the maps in memory
          job,          \* the handler that holds s.mu and is making writers
          query,        \* a query request after its copy of s.catalog
          schemas,      \* the schema files of the storage
          made,         \* the directories that exist
          troubles,     \* history: failed calls and crashes so far
          first,        \* history: the first columns stored in each folder, file mode
          stale         \* history: the last rebuild failed, or skipped a container

memory == <<config, running, definitions, catalog, maps, job, query>>
storage == <<schemas, made, first>>
vars == <<memory, storage, troubles, stale>>

Columns == {d.columns : d \in Definition}
StoredItemDefinition(columns) == <<IngestTime>> \o columns

Idle == [kind |-> "idle", types |-> {}, todo |-> {}, writing |-> None]
Begin(kind, types) == [kind |-> kind, types |-> types, todo |-> types, writing |-> None]
NoQuery == [map |-> None, seen |-> Empty]

StorageTypeOK ==
  /\ config \in Location \cup {None} /\ {running, stale} \subseteq BOOLEAN
  /\ \A t \in Type : definitions[t] = None \/ definitions[t] \in {d \in Definition : d.type = t}
  /\ catalog \in MapId \cup {None} /\ maps \in [MapId -> Catalog]
  /\ job.kind \in {"idle", "start", "add"} /\ job.writing \in job.todo \cup {None}
  /\ job.todo \subseteq job.types /\ job.types \subseteq Type
  /\ query.map \in MapId \cup {None} /\ query.seen \in Catalog
  /\ schemas \in [Place -> {None, Torn} \cup {StoredItemDefinition(c) : c \in Columns}]
  /\ made \subseteq Dir
  /\ troubles \in 0..MaxTroubles

InitMemory ==
  /\ config = None /\ running = FALSE /\ definitions = [t \in Type |-> None]
  /\ catalog = None /\ maps = [m \in MapId |-> Empty]
  /\ job = Idle /\ query = NoQuery

Init ==
  /\ InitMemory
  /\ schemas = [p \in Place |-> None] /\ made = {} /\ first = [p \in FilePlace |-> None]
  /\ troubles = 0 /\ stale = FALSE

-----------------------------------------------------------------------------
(* The catalog.                                                            *)

Current == IF catalog = None THEN Empty ELSE maps[catalog]

Held(l, f) == {t \in Type : schemas[<<l, f, t>>] # None}

validateSchema(content) == content \notin {None, Torn}

\* Only the first schema file of a subdirectory is looked at.
Listed(l, f) == Min(Held(l, f))
Scanned(l) == {f \in Folder : Held(l, f) # {}}

FileScanFails(l) ==
  l \notin made \/ \E f \in Scanned(l) : ~validateSchema(schemas[<<l, f, Listed(l, f)>>])

BuildFileCatalog(l) ==
  [t \in Type |->
     LET found == {f \in Scanned(l) : Listed(l, f) = t}
     IN  IF found = {} THEN None ELSE [at |-> l, bucket |-> Max(found)]]

\* Mutant: of the blobs only those of registered types are listed.
BuildBlobCatalogRegistered(l, read) ==
  [t \in Type |->
     LET found == {f \in read : validateSchema(schemas[<<l, f, t>>]) /\ definitions[t] # None}
     IN  IF found = {} THEN None ELSE [at |-> l, bucket |-> Max(found)]]

\* Every valid schema blob of every container that can be read; others are skipped.
BuildBlobCatalog(l, read) ==
  [t \in Type |->
     LET found == {f \in read : validateSchema(schemas[<<l, f, t>>])}
     IN  IF found = {} THEN None ELSE [at |-> l, bucket |-> Max(found)]]

\* s.catalog becomes a new map; maps that nobody refers to are collected.
Replace(cat) ==
  \E new \in MapId \ {catalog, query.map} :
    /\ catalog' = new
    /\ maps' = [m \in MapId |-> IF m = new THEN cat
                                ELSE IF m = query.map THEN maps[m] ELSE Empty]

Fail == troubles < MaxTroubles /\ troubles' = troubles + 1

\* An error is logged and leaves the catalog as it was.
rebuildFails(l) ==
  /\ (l \in Dir /\ FileScanFails(l) /\ UNCHANGED troubles) \/ Fail
  /\ stale' = TRUE
  /\ UNCHANGED <<catalog, maps>>

rebuildSkips(l) ==
  /\ l \in Account /\ Fail
  /\ \E f \in Folder : Replace(BuildBlobCatalog(l, Folder \ {f}))
  /\ stale' = TRUE

rebuildCatalog(l) ==
  \/ rebuildFails(l) \/ rebuildSkips(l)
  \/ /\ l \in Account \/ ~FileScanFails(l)
     /\ Replace(IF l \in Dir THEN BuildFileCatalog(l) ELSE BuildBlobCatalog(l, Folder))
     /\ stale' = FALSE
     /\ UNCHANGED troubles

\* Mutant: the entry is put into the map in place.
addCatalogEntryInPlace(d) ==
  /\ catalog # None /\ maps' = [maps EXCEPT ![catalog][d.type] = [at |-> config, bucket |-> d.folder]]
  /\ UNCHANGED catalog

addCatalogEntry(d) ==
  Replace([Current EXCEPT ![d.type] = [at |-> config, bucket |-> d.folder]])

-----------------------------------------------------------------------------
(* Management requests.  s.mu is free when no job is in progress.          *)

Unlocked == job = Idle

\* Mutant: a server that has a catalog keeps it.
ConfigureKeeps(l) ==
  /\ Unlocked /\ ~running
  /\ config' = l
  /\ IF catalog = None THEN rebuildCatalog(l) ELSE UNCHANGED <<catalog, maps, stale, troubles>>
  /\ UNCHANGED <<running, definitions, job, query, storage>>

Configure(l) ==
  /\ Unlocked /\ ~running
  /\ config' = l
  /\ rebuildCatalog(l)
  /\ UNCHANGED <<running, definitions, job, query, storage>>

AddDefinition(d) ==
  /\ Unlocked /\ definitions[d.type] = None
  /\ definitions' = [definitions EXCEPT ![d.type] = d]
  /\ job' = IF running THEN Begin("add", {d.type}) ELSE job
  /\ UNCHANGED <<config, running, catalog, maps, query, storage, troubles, stale>>

RemoveDefinition(t) ==
  /\ Unlocked /\ definitions[t] # None
  /\ definitions' = [definitions EXCEPT ![t] = None]
  /\ UNCHANGED <<config, running, catalog, maps, job, query, storage, troubles, stale>>

Registered == {t \in Type : definitions[t] # None}

StartBegin ==
  /\ Unlocked /\ config # None /\ ~running /\ Registered # {}
  /\ job' = Begin("start", Registered)
  /\ UNCHANGED <<config, running, definitions, catalog, maps, query, storage, troubles, stale>>

Stop ==
  /\ Unlocked /\ running
  /\ running' = FALSE
  /\ UNCHANGED <<config, definitions, catalog, maps, job, query, storage, troubles, stale>>

-----------------------------------------------------------------------------
(* Making the writer of type t, for start or for a hot add.                *)

PlaceOf(t) == <<config, definitions[t].folder, t>>

Due(t) == t \in job.todo /\ job.writing = None

\* The error ends the handler: start rolls back, add forgets the definition.
GiveUp ==
  /\ job' = Idle
  /\ definitions' = [t \in Type |-> IF job.kind = "add" /\ t \in job.types THEN None ELSE definitions[t]]
  /\ UNCHANGED <<config, running, catalog, maps, query, stale>>

\* Mutant: the stored schema is compared with its own first column.
UserColumnsAll(stored) == stored

UserColumns(stored) == IF Head(stored) = IngestTime THEN Tail(stored) ELSE stored

\* Mutant: the columns are compared one by one, not their number.
checkSchemaPrefix(t) ==
  LET existing == schemas[PlaceOf(t)]
      wanted == definitions[t].columns
  IN  IF validateSchema(existing)
      THEN \A i \in DOMAIN UserColumns(existing) : i \in DOMAIN wanted => UserColumns(existing)[i] = wanted[i]
      ELSE existing = None

checkSchemaConsistency(t) ==
  LET existing == schemas[PlaceOf(t)]
  IN  IF validateSchema(existing) THEN UserColumns(existing) = definitions[t].columns
                                  ELSE existing = None

Progress == UNCHANGED <<config, running, definitions, catalog, maps, query, stale>>

\* NewFileWriter, as far as os.WriteFile's opening the file, which truncates it.
OpenSchemaFile(t) ==
  /\ Due(t) /\ config \in Dir
  /\ checkSchemaConsistency(t)
  /\ made' = made \cup {config}
  /\ schemas' = [schemas EXCEPT ![PlaceOf(t)] = Torn]
  /\ job' = [job EXCEPT !.writing = t]
  /\ Progress /\ UNCHANGED <<first, troubles>>

RefuseSchema(t) ==
  /\ Due(t) /\ config \in Dir
  /\ ~checkSchemaConsistency(t)
  /\ made' = made \cup {config}
  /\ GiveUp /\ UNCHANGED <<schemas, first, troubles>>

CallFails(t) ==
  /\ Due(t) /\ Fail
  /\ GiveUp /\ UNCHANGED storage

Store(t) ==
  LET stored == StoredItemDefinition(definitions[t].columns)
  IN  /\ schemas' = [schemas EXCEPT ![PlaceOf(t)] = stored]
      /\ first' = [p \in FilePlace |-> IF p = PlaceOf(t) /\ first[p] = None THEN stored ELSE first[p]]

\* Mutant: the handler forgets that the file is written.
WriteSchemaFileForgets(t) ==
  /\ job.writing = t
  /\ Store(t)
  /\ job' = [job EXCEPT !.todo = @ \ {t}]
  /\ Progress /\ UNCHANGED <<made, troubles>>

WriteSchemaFile(t) ==
  /\ job.writing = t
  /\ Store(t)
  /\ job' = [job EXCEPT !.todo = @ \ {t}, !.writing = None]
  /\ Progress /\ UNCHANGED <<made, troubles>>

WriteSchemaFails(t) ==
  /\ job.writing = t /\ Fail
  /\ GiveUp /\ UNCHANGED storage

\* NewBlobWriter compares nothing, and an upload takes effect as a whole.
UploadSchema(t) ==
  /\ Due(t) /\ config \in Account
  /\ Store(t)
  /\ job' = [job EXCEPT !.todo = @ \ {t}]
  /\ Progress /\ UNCHANGED <<made, troubles>>

UploadAnswerLost(t) ==
  /\ Due(t) /\ config \in Account /\ Fail
  /\ Store(t)
  /\ GiveUp /\ UNCHANGED made

\* Mutant: the catalog is that of configure.
StartDoneKeeps ==
  /\ job.kind = "start" /\ job.todo = {}
  /\ running' = TRUE /\ job' = Idle
  /\ UNCHANGED <<config, definitions, query, storage, catalog, maps, stale, troubles>>

StartDone ==
  /\ job.kind = "start" /\ job.todo = {}
  /\ running' = TRUE /\ job' = Idle
  /\ rebuildCatalog(config)
  /\ UNCHANGED <<config, definitions, query, storage>>

AddDone ==
  /\ job.kind = "add" /\ job.todo = {}
  /\ job' = Idle
  /\ \E t \in job.types : addCatalogEntry(definitions[t])
  /\ UNCHANGED <<config, running, definitions, query, storage, troubles, stale>>

MakeWriter ==
  \E t \in Type : \/ OpenSchemaFile(t) \/ WriteSchemaFile(t) \/ UploadSchema(t)
                  \/ RefuseSchema(t) \/ CallFails(t) \/ WriteSchemaFails(t) \/ UploadAnswerLost(t)

-----------------------------------------------------------------------------
(* Queries take a reference to the catalog and go on without the lock.     *)

QueryBegin ==
  /\ Unlocked /\ config # None /\ query = NoQuery
  /\ query' = [map |-> catalog, seen |-> Current]
  /\ UNCHANGED <<config, running, definitions, catalog, maps, job, storage, troubles, stale>>

QueryEnd ==
  /\ query # NoQuery /\ query' = NoQuery
  /\ maps' = [m \in MapId |-> IF m = catalog THEN maps[m] ELSE Empty]
  /\ UNCHANGED <<config, running, definitions, catalog, job, storage, troubles, stale>>

\* What handleQueryTables lists.
Tables == {[typeName |-> t, storageBucket |-> Current[t].bucket, mode |-> IF Current[t].at \in Dir THEN "file" ELSE "blob"]
             : t \in {u \in Type : Current[u] # None}}

\* The process ends, and is started again.
Crash ==
  /\ Fail
  /\ config' = None /\ running' = FALSE /\ definitions' = [t \in Type |-> None]
  /\ catalog' = None /\ maps' = [m \in MapId |-> Empty]
  /\ job' = Idle /\ query' = NoQuery /\ stale' = FALSE
  /\ UNCHANGED storage

Next ==
  \/ \E l \in Location : Configure(l)
  \/ \E d \in Definition : AddDefinition(d)
  \/ \E t \in Type : RemoveDefinition(t)
  \/ StartBegin \/ Stop \/ MakeWriter \/ StartDone \/ AddDone
  \/ QueryBegin \/ QueryEnd \/ Crash

Spec == Init /\ [][Next]_vars

-----------------------------------------------------------------------------
(* Properties.                                                             *)

\* docs/query-integration.md "Schema change protection", for file mode: no
\* sequence of removals, new definitions, failed or crashed starts puts a schema
\* of other columns next to the rows that were stored under the first one.
StoredSchemaIsKept ==
  \A p \in FilePlace : schemas[p] \in {None, Torn, first[p]}

\* docs/query-integration.md "Restart recovery": a definition is refused only if it
\* differs from the first one stored there, or a write of the file was cut
\* short. Setting up again after a stop or a crash is refused for no other reason.
RefusedForCause ==
  [][\A t \in Type : RefuseSchema(t) =>
       \/ schemas[PlaceOf(t)] = Torn
       \/ first[PlaceOf(t)] # StoredItemDefinition(definitions[t].columns)]_vars

\* docs/REST-commands.md: nothing is queryable that storage has no schema for, and
\* the catalog is that of the last configured location. Neither a catalog that a
\* failed rebuild has left standing (which may be of the location before) nor the
\* one a running query holds names a type whose start failed or whose rows
\* went to another folder.
CatalogFitsStorage ==
  /\ \A cat \in {Current, query.seen} : \A t \in Type :
       cat[t] # None => schemas[<<cat[t].at, cat[t].bucket, t>>] # None
  /\ ~stale => \A t \in Type : Current[t] # None => Current[t].at = config

\* handleQuery's comment: the map a query holds is never changed under it.
SnapshotIsStable == query.map # None => maps[query.map] = query.seen

\* While the server runs and its storage could be scanned, each type it writes is
\* queryable where it writes it. Left out are types that have a second folder from
\* earlier and, of those that share a directory, all but the first: a scan reads
\* one file of each directory, and every one of a container.
ScanFinds(l, f, t) == t \in Held(l, f) /\ (l \in Dir => \A u \in Held(l, f) : t =< u)
Homes(l, t) == {f \in Folder : t \in Held(l, f)}

RunningTypesListed ==
  running /\ Unlocked /\ ~stale =>
    \A t \in Registered :
      LET f == definitions[t].folder
      IN  ScanFinds(config, f, t) /\ Homes(config, t) = {f} =>
            \E e \in Tables : e.typeName = t /\ e.storageBucket = f

\* docs/REST-commands.md: a type stays queryable while its folder and schema file
\* exist, through removal, stop, start and configure of the same location and whatever
\* other types do in its folder, if a new catalog has skipped no container and no
\* file of the directory comes before its own.
StillListed(t) ==
  Current[t] # None /\ Current[t].at = config /\ ScanFinds(config, Current[t].bucket, t)
    => (Current[t] # None)'
StaysQueryable ==
  [][config' = config /\ (catalog' = catalog \/ ~stale') => \A t \in Type : StillListed(t)]_vars

=============================================================================
