# Gobbler in TLA+

Gobbler is a telemetry ingestion service. Administrators register item types,
configure a storage and start a pipeline over a REST interface; clients post
JSON arrays of items; each item is validated, turned into a CSV row with an
ingest time in front, and appended to a file (or Azure append blob) of its
type. This directory models its concurrency, failure and conversion behaviour, checks
the models with TLC and proves with TLAPS, for every value of the constants, each
safety property that a passing run checks; liveness is left to TLC.

## 1. Inventory

| Part | State | Operations | Talks to |
|---|---|---|---|
| File writer, `writers/file_writer.go` | `buffer`, `file`, `fileStart`, `itemsWritten`, one mutex | `NewFileWriter`, `Start` (ticker, final flush), `Add`, `Rotate`, `flush`, `Stats` | file system; its worker calls `Add`; the server calls `Rotate` |
| Blob writer, `writers/blob_writer.go` | the same with `blobClient`, `blobStart`, `currentBlob` | the same | Azure Blob Storage |
| Worker, `pipeline/worker.go` | a bounded channel and a goroutine | `NewWorker` (take, drain, exit) | ingest handlers send, the writer's `Add` receives |
| Routing table, `pipeline/dispatch.go` | one atomic pointer to a map, global to the process | `LookupType`, `AddItemType`, `RemoveItemType`, `Reset` | server (writes), ingest (reads) |
| Server, `server/server.go`, `pipeline_routes.go`, `definition_routes.go` | `config`, `running`, `definitions`, `types`, `pipelineCtx`, `cancel`, `logger` and its flags under `s.mu` | configure, start (rollback), stop, rotate, status; definition add, remove, list | all of the above |
| Ingest, `server/ingest_routes.go` | a copy of the definitions, a time stamp, the answer so far | `handleIngest` | reads `s.mu`, the routing table, sends to the channel |
| Query catalog, `query/*.go`, `server/query_routes.go` | `s.catalog`, built from schema files | build, rebuild, add entry, query, parse | storage, gobbler-query |
| Items, `items/*.go` | none (pure) | definition parsing and checks, `SplitInput`, `ConvertItem` | server |
| HTTP wiring, `server/http.go`, `main.go`; `tester/`, `scripts/` | none | | |

What is hard here, and where:

* **Shutdown.** Writer and worker of a type watch one context from two
  goroutines; stop and remove cancel and wait with `s.mu` released.
* **Ingest without the lock.** `handleIngest` reads under `s.mu` and then
  converts, looks up and sends without it, while the pipeline may end, start
  again, or have the type removed and added.
* **Stop's tail.** After releasing `s.mu`, stop waits, resets the routing
  table and replaces the logger, all of which a start in between has set.
* **Failing storage.** An open or a write fails, possibly half way; the buffer
  is kept and another handler retries.
* **A start that fails or panics half way**, with goroutines already running,
  or a process that ends there, with some schema files written and one torn.
* **Queries without the lock.** They keep a reference to a catalog that other
  handlers replace, and read a storage that outlives definitions.
* **Conversion.** Values of any JSON kind meet columns of seven types, each with
  its own checks and formatting, and defaults that were checked elsewhere.

What makes each part correct: the writer loses no row, counts only rows that
are in files, keeps their order, names files by their first row; a pipeline
delivers every accepted item once and in order and reports all others;
the server's definitions, entries, routes and goroutines agree whenever
a reader can look, nothing is left running that nobody will end, and every
request is answered; the catalog names only what the storage holds; conversion
yields one CSV record whose columns are those of the definition.

The full list of hazards, each with its line and the properties that would
catch it, is `hazards` in `PROJECT.json`.

## 2. Modules

| Module | Models |
|---|---|
| `FileWriter` | one file writer with the files of its type: `Add`, `Tick`, `Finish` (the `ctx.Done` branch), `Rotate`, `flush`, failing opens and writes |
| `BlobWriter` | the same for a blob writer and the append blobs of its type, with failing calls and lost answers |
| `ItemStore` | the abstract specification of a type's pipeline: a log, a counted prefix, a set of visible items |
| `TypePipeline` | `FileWriter` composed with the worker, its channel, the ingest requests, and the stop or remove that ends them |
| `Server` | management requests, `s.mu`, definitions, entries, routing table, self-logger, and ingest requests that read them |
| `Storage` | schema files, the query catalog built from them, queries, and crashes of the process |
| `Items` | definitions and their checks, `SplitInput`, `ConvertItem`, and the two handlers that call them |
| `FileWriterProofs`, `FileNameProofs` | theorems about the file writer alone: buffer, disk and order; names and ages of files |
| `TypePipelineProofs` | theorems about the pipeline, from the step lemmas of the writer |
| `BlobWriterProofs`, `StorageProofs`, `ItemsProofs` | theorems about the module each is named after |
| `ServerProofs`, `ServerEntryProofs` | theorems about the server: what `s.mu` protects; what becomes of entries, routes and logger |
| `MCFileWriter`, `MCTypePipeline`, `MCServer`, `MCStorage`, `MCItems` | values and symmetry for TLC |

The modules meet where the code does. `TypePipeline` instantiates the writer.
`Server` takes a type's writer and worker as one entry whose end
`TypePipeline` shows, and `Storage` takes the handlers that hold `s.mu` one
at a time, which `Server` shows for what `s.mu` protects. `Items`
produces the lines whose transport is the subject of the others.

**FileWriter.** Every method holds the writer's mutex from start to end, so
each is one action, including the flush it ends in. The outcomes of the
operating-system calls are disjuncts (`FlushCannotOpen`, the second disjunct of
`WriteRows`). The final flush and the `Close` after it are one action because
`Start` holds the mutex across both. A file is identified by the stamp in its
name; `O_CREATE|O_APPEND` on an existing name continues that file, so `disk`
maps stamps to rows. A row is its identity and its stamp. `Stats` and
`SetLogger` do not touch this state. `added`, `faults` and `now` are history
and environment.

**BlobWriter.** Handlers as in `FileWriter`; `flush` is the disjunction of its
four ways out, each with the flag that says whether `Rotate` will forget the client
after it. `Create` on a name that exists replaces the blob by an empty one,
and a block is appended as a whole, which is what Azure does and the code relies
on. A failing call may have taken effect all the same. `blobStart` moves before
the call to `Create` and `blobClient` after it, as in the code;
`createFailed` remembers the case in which they have come apart, and `begun` which rows
a `Create` has named its blob by. `Stats` is the
operator the properties read the writer through.

**TypePipeline.** The worker's select has the states "select" (about to
choose), "parked" (blocked), "drain" and "gone"; `hand` is the item its
handler is being called with. A Go channel hands an item directly to a blocked
receiver (`HandOver`), else stores it if there is room (`Enqueue`), else the
send's default branch runs (`QueueFull`); an unbuffered channel is the case
`QueueSize = 0`. `handleIngest` is split where other goroutines can interleave:
snapshot under `RLock`, stamp, lookup, send, answer. A stop or remove is split
where it releases `s.mu`, cancels, waits and resets.

**Server.** `lock` is the writer of `s.mu`. A handler that holds `s.mu`
throughout and starts nothing is one action; start and hot add are several
because what they start runs at once and `Reset` of a concurrent stop does not
take the lock. `AddItemType` is a load (`StartTypeRuns`) and a store
(`Publish`). An entry stands for the writer and worker of a type (`worker` says
whether the second has been made); that a cancelled entry comes to its end is
shown by `TypePipeline` (`EndReturns`) and taken here as `EntryExits`. A
negative queue size panics in `make`, the Recoverer answers, and the deferred
unlock frees `s.mu`. `Status` is what the status route answers. Tokens for entries, contexts
and clients are used again when nothing refers to them, so runs are not bounded
in length.

**Storage.** A location is a directory or an Azure account; folders and types
are numbered in the order in which a listing gives them. `schemas` maps location,
folder and type to the content of `{typeName}.json`: none, torn, or columns.
`NewFileWriter` is two actions, up to the truncation by `os.WriteFile`
(`OpenSchemaFile`) and the write (`WriteSchemaFile`), since a process can end
in between; `NewBlobWriter` is one (`UploadSchema`), since an upload takes
effect as a whole. `job` is the handler that holds `s.mu` while it makes
writers; between its steps come only crashes and queries that took their
copy before. A catalog is a reference to a map, because a query keeps the
reference and a hot add must not write to the map it names.
`BuildFileCatalog` keeps the quirk of `matches[0]` (one schema file of a folder
is read) and `BuildBlobCatalog` the one of containers that are skipped.

**Items.** A text is a sequence of characters of which only those are told
apart that some check or the CSV syntax looks at; what `time.Parse`,
`time.ParseDuration` and `encoding/json` accept is defined on these texts. Numbers
are integers, or lie between two, and pass through a `float64` that
holds integers only up to `Exact`; those
beyond `Widest`, the largest `int64`, are refused where an integer is wanted (`IsInt64`; Go
leaves the conversion of such a number to the platform, and the model takes what amd64 gives). The checks of a definition are a list in the
code's order of which the first that fails is the answer; errors are their
sentinels. `definitions` is the function that the Go map is; `InputAssumption` and
`BodyAssumption` give a request the shape that `json.Unmarshal` gives it. The
loops that append what passes a test are `Keep`, `strings.Join` is `Join`. What the
module's properties compare against is stated apart from the
code: the rule for container names as a grammar, a timespan as days and a
duration, and a CSV reader (`Read`) that takes a line a character at a time.

## 3. Runs

All bounds are constants in the `.cfg`. Deadlock is checked for `Server`,
`Storage` and `Items`, where a next request is always possible. It is not for the
writers and the pipeline, which do come to an end (the goroutines exit, the bounded
set of requests and the clock run out).

| Run | Shows | Bounds |
|---|---|---|
| `file_writer` | buffer = added and not counted; a failing call costs one row at most; file names; age of the open file | 3 items, batch 2, age 2 of 4 instants, 2 failing calls, writes may stop inside a row |
| `pipeline_safety` | types, also of the writer; counted rows are in files; retries keep the order; accepted = handed on, in order, once; the answer's counts are right; the drain; at most a queue is stranded; `ItemStore` is implemented | 2 requests of 2 items, queue 1, batch 2, 1 failing call, writes stop at the end of a row |
| `pipeline_liveness` | a cancelled pipeline ends; accepted items are eventually counted | 2 requests of 1 item, 1 failing call |
| `pipeline_stop_race` | *violation*: rows left in the buffer (or a file left open) when stop answers | no faults |
| `server_one_admin` | types; the routes are those of the entries; what status reports; the lock has an owner at work | 1 administrator, 1 ingest request, 2 types, negative queue size allowed |
| `server_two_admins` | what the lock protects agrees; no entry leaks; what lives is in use or waited for; no route leads to another entry than the type's; a second writer of a type is waited for; every request is answered | 2 administrators, 2 types, 3 entries |
| `server_reset_race` | *violation*: a running server with its routes wiped | 2 administrators |
| `server_stale_definition` | *violation*: a row of the old definition at the new writer | 1 type, 2 schemas |
| `blob_writer` | types; buffer = added and not counted; a counted row is missing only where its blob was replaced by one of the same name; blob names and age; every row is counted in the end | 4 items that may share stamps, batch 2, age 2 of 4 instants, 2 failing calls |
| `blob_writer_replaced` | *violation*: a rotation within a millisecond empties the blob just closed | 3 items that may share a stamp, no faults |
| `storage` | types; stored schemas stay; refusals have a cause; the catalog fits the storage, lists what runs, keeps what was queryable; a query's copy is stable | 1 directory, 1 account, 2 folders, 2 types, 4 definitions, 1 failing call or crash |
| `items` | types and unique columns; text checks agree with their rules; records read back; answers account for every element; a default acts like the value spelled out | names to 5 characters (limits 2 and 4), timespans to 4, integers from -18 to 15 (exact to 4, an `int64` ends at 15), 1 type at a time |

Why these bounds are enough to be of interest: three rows and a batch of two
give a full batch, a remainder for the ticker and a retry of a batch that has
grown; an age of two in four instants gives a file that expires and one that
does not; two failing calls give an open failure followed by a write failure and
a retry by a handler other than the one that failed. In the pipeline, two
requests of two items overtake each other, fill a queue of one, and one of
them can be between lookup and send at each step of the shutdown. In the
server, two types give a start that fails after it has started one, and three
entries let an old generation end while a new one runs. In the storage, type 1
has two layouts and type 2 can move into the folder of type 1, which is what
the comparison and the scan are sensitive to; one trouble tears a file, ends the
process, loses an answer or skips a container at any point, and what
follows it (set up again, refuse, rebuild) needs no second one. In `items`,
each column type meets each kind of value both as default and in an item, and
the small limits put names on both sides of each.

`server_two_admins` states what survives any overlap of requests: entries, routes and
writers may be in the hands of several of them, but what runs is in `s.types` or a request
that has not answered will wait for it (`EndIsAwaited`), which is also how a hot add or a
start comes to make a second writer of a type (its conjunct `OneWriterPerType`), and a route
leads to the type's own entry or, wiped, nowhere (`RoutesLeadHome`).
`server_one_admin` states the two properties that an overlap does break
(`RoutingMatchesTypes`, `StatusIsTrue`): that they hold with one request at a time says that the
cause is the overlap of a stop with a start, which `server_reset_race` shows for the routes;
the same schedule (release of `s.mu`, then a start, then stop's tail) closes and clears the logger
of the new run. That no request waits for ever has two parts:
`LockHasOwner` says that `s.mu` is never held by a request that is not at work,
and `RequestsAnswered` that a request which has begun is answered.

Rows may have one stamp, as all the items of a request do (`ingest_routes.go:83`).
`blob_writer_replaced` shows that then a counted row need not stay in a blob;
`LostOnlyByReplacement` in `blob_writer` shows that this is the only way in which it is lost, and
which rows it takes: those of the batches between two that begin with one stamp.

**Fairness.** Weak fairness of the worker, of the ticker branch, of the
`ctx.Done` branch of the writer, of the handler that ends the pipeline, and in
`Server` of every request that has begun and of every cancelled entry: each is
a goroutine that the Go scheduler runs when it can, and Go's select chooses
among ready branches at random, so neither branch is put off for ever. Nobody is
owed an ingest request, a rotation, a management request or the passing of
time. `Server` takes a connection to the logger to return, and `AddedIsWritten`
takes the failures of the storage to come to an end (their number is bounded).

Each property has a mutant in `PROJECT.json`: a plausible slip in the modelled
code that TLC finds with the run's own configuration.

## 4. Where code and documentation disagree

Each of these is quoted in `findings` with the run that shows it.

1. Stop does not always flush what it drains: the writer's goroutine may exit
   first (`file_writer.go:147`, `worker.go:29`; `pipeline_stop_race`).
2. A start during stop's tail loses its routes (`pipeline_routes.go:211`;
   `server_reset_race`).
3. A row converted by an old definition can reach the writer of the new one
   (`ingest_routes.go:44`, `105`; `server_stale_definition`).
4. A rotation followed by a row with the stamp of the closed blob's name
   replaces that blob (`blob_writer.go:183`; `blob_writer_replaced`). So does a blob begun
   because the last one was too old, if its first row has the stamp of an earlier one.

Seen while modelling and not given a run.

*Pipeline and server.* The tail of stop closes the self-logger of a start that came in between, or
clears the error that says it has none (`pipeline_routes.go:213`): status then says "running", which
`docs/REST-commands.md:322` has for a client that started. Remove promises that no new items are routed to the type; a
request past its lookup still sends, and counts the item as ingested
(`ingest_routes.go:114` against the comment at `definition_routes.go:122`). The writers of a start keep
the logger of before (`pipeline_routes.go:137`, `172`). A negative
`writerQueueSize` passes configure, panics in `make` after the writer was
started, and leaves that writer's goroutine running out of reach
(`worker.go:19`). Two requests may send in the other order than they took
their stamps, so a file can hold a row slightly older than its name
(`ingest_routes.go:83`).

*Writers.* A write that stops inside a row, then retried, garbles the first row
and counts it (`file_writer.go:248`; `WrittenRowsOnDisk` fails with
`TornWrites = TRUE`); `FaultsCostOneRow` bounds the damage. A rotation followed
within the millisecond by a row with the stamp of the closed file's name reopens that file, though `Rotate` promises a
new one (`file_writer.go:192`). After a failed `Create` a blob writer goes on
with the old blob past its age (`blob_writer.go:174`). Rows whose append took
effect but whose answer was lost are visible twice, or are taken back by a later
`Create`; so the blob writer would not satisfy `ItemStore`, in which what is
visible stays so.

*Storage.* Types that share a directory: a hot add lists each of them, a
rebuild only the first by name (`catalog.go:72`, against
`docs/query-integration.md:31`, which has an entry for each schema file, and `README.md:53`, which has
types share folders). It is the exception in `RunningTypesListed` and `StaysQueryable`. In blob mode the
schema is overwritten without a comparison (`README.md:147` has the comparison for
directories; nothing protects a container). A failed rebuild keeps the catalog of
the location configured before, where `docs/REST-commands.md:461` speaks of
the last one. A torn schema file is refused by every later start of its type
and fails the scan of the whole directory, which `StoredSchemaIsKept` and
`RefusedForCause` state as the only exception. The answer 500 "Storage scan failed"
(`docs/REST-commands.md:408`) is never given; a container that cannot be read is
missing from the catalog without an error.

*Items.* A datetime with a comma before its milliseconds is accepted by
`time.Parse` and written unquoted (`convert_item.go:54`); a default is
written without quoting (`convert_item.go:119`): both can shift columns, and
are the exceptions in `RecordReadsBack`. A column that is not an object becomes
an unnamed `bool` column (`definition.go:156`). `1..2d` passes as timespan though
the comment says that the numeric part is validated (`definition.go:299`).
`docs/JSON-schemas.md:121` has defaults used for optional columns; the code and
`README.md:116` for required ones. Integers above 2^53 are rounded, and those outside of `int64` refused
where an integer is wanted; 2^63 itself only where, as on amd64, its conversion yields the smallest `int64`
(`convert_item.go:75`, `definition.go:111`, `216`). A latency beyond some 150 million minutes overflows as a
`Duration` (`file_writer.go:116`, `blob_writer.go:82`); if negative, every flush begins another file.

## 5. Proofs

TLAPS checks these for every value of the constants that satisfies
`WriterAssumption` (any integer batch size, any latency but zero, which the code replaces: a large one overflows to a negative duration),
`MarksAssumption` (the marks of a broken row are not rows, and are not the same),
`PipelineAssumption` (at least one item in a request, any queue size),
`BlobWriterAssumption` (as for the file writer), `StorageAssumption` (a column
list is a sequence of names without the ingest time's; there are finitely many
folders, as in any listing; the value that stands for "none" is nothing else),
`ServerAssumption` (a configuration has an integer queue size, negative ones too, and
"none" is nothing else), `ItemsAssumption` (any lengths of names, the least of
which is positive, any precision), `InputAssumption` and `BodyAssumption` (any sets of definitions and
bodies of the shape that the JSON decoder yields). TLC evaluates each of them with the values
of the runs. One more of `Items` is a closed fact that TLC computes and the provers cannot: two
literals are in `STRING` (`TextAssumption`). Three theorems about items name in
their statement what they take of `ToString`, which stands for fmt's `%d`: it yields strings
(`NumbersHaveTexts`), and none of them is a comma, a quote or a newline (`NumbersArePlain`).

| Theorem | Establishes | Module |
|---|---|---|
| `WriterTypeCorrect`, `PipelineTypeCorrect` | types | `FileWriterProofs`, `TypePipelineProofs` |
| `BufferAlwaysUnwritten`, `PipelineBufferUnwritten` | the buffer is what was added and not counted, in order; for the writer alone and when its worker drives it | the same two |
| `WrittenAlwaysOnDisk`, `PipelineRowsOnDisk` | counted rows are in files, if writes do not tear rows | the same two |
| `FaultsAlwaysCostOneRow`, `PipelineFaultsCostOneRow` | wherever a write stops, the counted rows in no file and the files that end in half a row are no more than the failed calls | `FileWriterProofs`, `TypePipelineProofs` |
| `FilesNamedByFirstRow`, `AgeAlwaysFromName` | a file's name is its first row's stamp; its age counts from there | `FileNameProofs` |
| `DeliveredInOrder` | accepted = handed on, in hand or queued, in order, once | `TypePipelineProofs` |
| `DrainsBeforeReturning`, `AtMostAQueueStranded` | what the wait of stop or remove guarantees, and what it leaves behind | `TypePipelineProofs` |
| `NothingDroppedSilently` | answers count exactly what was accepted | `TypePipelineProofs` |
| `PipelineImplementsItemStore` | refinement of `ItemStore`, if writes do not tear rows | `TypePipelineProofs` |
| `FirstCopiesAlwaysInOrder`, `PipelineFilesInOrder` | in each file the first copies of rows are in the order they were added, if writes do not tear rows | `FileWriterProofs`, `TypePipelineProofs` |
| `BlobTypeCorrect`, `BlobBufferUnwritten` | types, and the buffer as for the file writer | `BlobWriterProofs` |
| `BlobNameAlways` | a blob's name is its first row's stamp; its age counts from there until a `Create` fails | `BlobWriterProofs` |
| `RowsLostOnlyByReplacement` | a counted row is missing from the blobs only if its blob was replaced by one whose batch began with a row of the same stamp | `BlobWriterProofs` |
| `SchemaAlwaysKept`, `AlwaysRefusedForCause` | in file mode a stored schema stays or is torn, and only a difference from it, or a torn one, refuses a writer | `StorageProofs` |
| `StorageTypeAlwaysOK` | types | `StorageProofs` |
| `CatalogAlwaysFits` | what is queryable is stored, and is of the configured location | `StorageProofs` |
| `RunningTypesAlwaysListed`, `AlwaysStaysQueryable` | a running type with one folder is queryable, and stays so (an action property), also in a shared container or as the first of a shared directory | `StorageProofs` |
| `SnapshotAlwaysStable` | the map a query holds does not change | `StorageProofs` |
| `ServerTypeCorrect` | types | `ServerProofs` |
| `LockAlwaysOwned` | whoever holds `s.mu` is at work | `ServerProofs` |
| `DefinitionsAlwaysMatch` | while `s.mu` is free a running server has exactly one entry for each definition, started from it | `ServerProofs` |
| `NothingLeaks` | an entry that nobody has cancelled is in `s.types`, or a request is about to cancel it; any number of administrators | `ServerEntryProofs` |
| `EndsAwaited` | what runs is in `s.types` or awaited by a request not yet answered, and so are all but one of a type's writers; any number of administrators | `ServerEntryProofs` |
| `RoutesAlwaysLeadHome` | routes lead to the type's own entry or nowhere; any number of administrators | `ServerEntryProofs` |
| `OneAdminRoutes`, `OneAdminStatus` | with one administrator: the routes are those of the entries, status is true | `ServerEntryProofs` |
| `NameCheckIsRule`, `TimespanCheckIsRule` | `CheckFileName` and `CheckTimeSpan` against the rules in their comments, for every text | `ItemsProofs` |
| `TextChecksAlwaysAgree` | names of registered types and answers about texts follow those rules, for any requests | `ItemsProofs` |
| `ItemsTypeAlwaysOK` | types; no column of a stored schema hides another | `ItemsProofs` |
| `DefaultAlwaysActsAsExplicit` | a default acts like the same value sent, where it needs no quotes | `ItemsProofs` |
| `RowsReadBack` | a row of any texts, quoted as string columns are, is read back as those texts | `ItemsProofs` |
| `RecordsAlwaysReadBack` | the record of every accepted item is read back as what was sent or defaulted, but for unquoted columns and inexact integers | `ItemsProofs` |
| `ItemsAlwaysAccounted` | an answer accounts for every element of the request's array | `ItemsProofs` |

**How they are built.** The lemmas about the writer speak of one `WriterStep`,
any handler whoever calls it, and not of `WriterSpec`. A step of the pipeline
is a `WriterStep` or leaves the writer alone (`NextIsWriterStep`), so the pipeline
cites the same lemmas and has nothing to prove again about flushing. For the order of rows
an item handed to `Add` must be new (`NewItemStep`): alone the writer assumes it, in the
pipeline it follows from what the channel accepts and hands on (`HandIsNew`).

**The strengthenings**, each an invariant that holds of the code and that
the property alone does not carry through a step:

* `WrittenRowsOnDisk` needs `WholeRows` (without a torn row, `Appended` is
  concatenation and hides nothing) and, for the refinement, `DiskIsAdded` (a file
  holds no row that was not added). This is where `~TornWrites` is used: with
  `TornWrites = TRUE` TLC finds a counted row that no file holds.
* `FaultsCostOneRow` says how bad that is, without the hypothesis, and counts the files
  that end in half a row as well as the rows lost: a failed call may leave one more such
  file, and a row can only be lost by the write that turns half a row into a garbled
  line (`Costs`). With `BufferIsUnwritten`, which says which row that is, the sum is
  inductive. A count of the lost rows alone is not: a retry could fail and
  still leave the next one to lose a row.
* `FileNamedByFirstRow` needs `EmptyFileAwaitsRow`: a file that was opened and
  whose first write failed before its first byte is still empty, and the next row
  written to it must be the one it was named by. It is, since a failed flush
  keeps the buffer and `Add` appends behind it.
* `AgeMeasuredFromName` needs `UnopenedStart`: `Rotate` opens a file
  without setting `fileStart`, and what it finds there is zero or the
  stamp of a first row whose open has failed. This holds while the goroutine runs,
  so `ExitedIsCancelled` is needed to know that a rotation comes before its exit.
* `FifoConservation` needs `ParkedIsEmpty`: a send to a parked worker goes past the
  channel, which keeps the order only if the channel is empty.
* `DrainedBeforeReturn` and `StrandedFitQueue` need `EndInv`: which stages of
  the ending handler go with a cancelled context and a worker that has gone, and
  that a worker that has gone holds nothing in hand.
* `NoSilentDrops` needs `NewArePending`: a request that is refused at its snapshot
  rejects items none of which has been sent.
* `ImplementsItemStore` puts `BufferIsUnwritten`, `FifoConservation`, the disk
  invariant and the distinctness of accepted items together (`LogInv`,
  `StoreInv`); each step then maps to a step of the store or a stutter
  (`StepIsPromised`).
* `BlobNameAndAge` needs `EmptyBlobAwaitsRow`: the next row appended to a blob whose first
  append failed is the one it was named by.
* `LostOnlyByReplacement` needs `StoreInv`: not only that a counted row is in some blob or
  replaced, but that it is in the blob named by the `Create` of its own batch (`InBlobOf`), and
  that the current blob was named by a row no later than the next to be counted
  (`NamedIn`). A `Create` that empties a blob with counted rows in it has then begun at
  a later row of the same stamp, which is what `Replaced` says.
* `StoredSchemaIsKept` needs `MissingIsNew` (a place without a file never had
  one) and `WritingWasCompared`: while a schema file is truncated and not yet
  written, what will be written was compared with what came first there.
* `TypesMatchDefinitions` needs `LockInv` (`s.mu` is held exactly by the request at a
  stage that holds it), `RunInv` (a server runs only with a queue size that let it
  start) and `JobOK`: which types a request that holds `s.mu` has still
  to start, that all others match already, and that a start with a negative
  queue size does not get past its first type, so that its panic leaves no
  half-started server to be seen. `LockInv` also carries `LockHasOwner`. A step is then looked at
  for one request only (`HolderStep`), or for none (`OutsideStep`).

* `FirstCopiesInOrder` needs `OrderInv`: of the rows that are not counted a file
  holds the first few (`FromFront`), because a failed write stops somewhere in the
  buffer and the buffer stays as it is. So a retry repeats what is there before it
  adds what is not. The hypothesis `~TornWrites` is needed: a retry behind half a row
  loses its first row to that line, and a later retry writes it behind others.
* `CatalogFitsStorage` needs `MapsOK` and `HandlerOK` (for which location a handler
  works, and that what it has made is stored there), `BlobsAreWhole` (an
  upload is never torn) and the stability of the map a query holds. A scan yields a catalog that
  `Fits`, and so does a hot add to one that fits. `RunningTypesListed` is kept for the types
  that no handler is adding (`RunListed`), which a handler that ends adds to.
* `NoLeakedEntry` needs `UsedCtx` (what `s.types` holds was started under the context
  that `s.cancel` cancels) and `StopCtx` (a stop on its way to cancel will cancel
  the context of everything it has taken out), on top of the invariant of
  `ServerProofs`. No bound on administrators or entries is used.
* `EndIsAwaited` needs `Ends`: nobody waits for what is in `s.types`
  (`WaitsApart`), an entry stands under its own type only (`Keyed`), and what `s.types`
  holds is not cancelled unless a start is being rolled back (`UsedWork`). For a stop that
  cancels after others have begun, `CtxApart` says that its context is no longer that of the server.
* `RoutesLeadHome` needs of each request that has loaded the table (`Loaded`) that it leads home
  but for the type being changed: a `Reset` only takes routes out of the table in use, and no
  two requests have loaded it at once, because both hold `s.mu` then.
* The two properties with one administrator need `Parts`: which request goes with
  which stage (`OpFits`), where the routing table may differ from `s.types`
  (`Routed`, between `AddItemType`'s load and store, and on the way of a stop),
  and what the last start left of the
  logger (`LoggerKnown`). The hypothesis `Admin = {a}` is no convenience: stop
  gives up `s.mu` before its tail, and with two administrators TLC finds the
  tail undoing a start (`server_reset_race`). Any number of ingest requests remains.
* `TextChecksAgree` and `DefaultActsAsExplicit` are inductive as they stand; the work is
  in what each check lets through. The rule for names is local (a hyphen has letters
  or digits around it), the code checks length, ends and neighbours apart;
  `NameCheckIsRule` shows them to agree. `CheckTimeSpan` scans for leading digits and a
  "d"; that nothing `time.ParseDuration` accepts holds a "d" (`DurationsHaveNoDays`) is
  what lets the two readings of a text exclude each other.
* `ItemsTypeOK` needs that the names registered are finitely many.
* `RecordReadsBack` and `ItemsAccounted` are kept by a step that answers only because
  `ItemsTypeOK` holds before it: the columns of a registered definition are columns. What a step
  does is then a statement about sequences of any length, for which the proofs need
  induction. The library's theorems for it take an operator, so `CountingUp` and
  `ByAppending` state it for sets: a set that has the empty sequence, and with each
  sequence those with one element more, has all of them. From it follow what one more
  element does to `FlattenSeq`, `Keep`, `Join` and the reader (`FlattenAppend`,
  `KeepAppend`, `JoinAppend`, `ReadAppend`, `ReadConcat`). The reader's invariant is in
  `ReadsAs`: begun between fields, whatever came before, it ends after the text of a
  field with that field and is ready for a comma. This holds of a text without
  commas, quotes and newlines as it is and of any text in quotes (`FieldsRead`),
  therefore of every field that `ConvertItem` accepts (`FieldReads`), and `ReadJoined` puts the fields
  together. For `ItemsAccounted`, `ItemConverts` equates the errors of `ConvertItem` with
  the fields that do not fit, `KeepSplits` adds up the parts, and an injection finds for
  each misfit its rejection.

**Model-checked only.** The liveness properties `EndReturns`, `AcceptedIsWritten`,
`RequestsAnswered` and `AddedIsWritten`, which are beyond this prover. Every other
property of the passing runs is a theorem. `WriterTypeCorrect`, `BufferAlwaysUnwritten`,
`FaultsAlwaysCostOneRow` and the two theorems about names and ages hold wherever a
failing write stops. TLC checks the writer's types as a part of `PipelineTypeOK`.

## 6. Not modelled, and the plan

Not modelled, because nothing in them is stateful: the HTTP layer and the
constant answers (discovery, help), the structures of `items/errors.go` that
word an error, `SerializeResult`, the test tools and scripts. Not modelled,
because it is not in the repository: running and parsing a query
(gobbler-query), the logger's client, Azure beyond the effect of the calls the
code makes. A query may read a schema file that a concurrent start is just
writing; that read happens in gobbler-query.

Left, in the order planned:

1. The blob writer composed with the worker, against a weaker `ItemStore`
   in which rows that are not counted may be taken back, and proof that the
   composition implements it.
2. The two one-administrator properties with several: whether they survive if only starts
   and hot adds overlap, and stops do not.
