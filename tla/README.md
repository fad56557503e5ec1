# mc-data-manager, specified

mc-data-manager generates, migrates, backs up and restores data (object
storage, RDBMS, NRDBMS) between clouds.  A web server (`websrc/`) and a CLI
(`cmd/`) submit data tasks; the task manager (`service/task`) lists, schedules
and runs them; controllers (`service/osc`, `rdbc`, `nrdbc`) move the data
through provider clients (`pkg/`).

This directory specifies the parts of that program whose correctness depends
on order, concurrency and failure, checks the specifications with TLC and
proves theorems about them with TLAPS.

## Inventory

| component | state | operations | meets | hard behaviour | what makes it correct |
|---|---|---|---|---|---|
| Task manager `service/task/task.go` | task and schedule lists, gocron jobs, `m.mu`, `task.json` | create, update, delete, run, clear, save, load | HTTP handlers, gocron, exec tracker, controllers | unlocked saves and edits, crash during a save, refused registrations, clear without lock | jobs and schedules stay tied; the file is current at rest; every operation ends |
| Exec tracker `service/task/execTracker.go` | running map, `seq`, last errors, `tbexecutionlog` rows | track, Track, ListRunning, LastError | task manager, rdbinstance, status and history handlers | panics in tasks, insert failures, errors consumed by one reader | one row for each finished operation, written once, never while it runs |
| History `service/history` | none (reads `tbexecutionlog`) | list, detail, paging | exec tracker | page arithmetic, interval overlap | every matching row is on exactly one page |
| Object storage controller `service/osc` | worker pool, job and result channels | Copy, MGet, MPut, getDownloadList | providers, filter | worker failures, full channels, nil filter, a path tested twice and keys compared without case | every job gives one result; the call ends; failures are reported |
| Object storage `pkg/objectstorage`, `pkg/utils/api.go`, bucket handlers | the active namespace; buckets at Tumblebug | create, list, delete buckets and objects, open, send | osc, Tumblebug | every request reads the active namespace; lost answers; two requests on one bucket | success means that the bucket came or went; a deletion spares what it did not list |
| Filter `pkg/objectstorage/filtering` | none | FromParams, MatchCandidate | osc | include and exclude lists | matches the filter's meaning |
| NRDB transfers `service/nrdbc`, `pkg/nrdbms` | batches in flight | Get, Put, Copy, delete; import, export, clear | task manager, backups | tables cleared before an import that may fail, batches given up, cut listings, deletions that go on, writes left queued, two tasks on a table | success means whole and once; tables not reached are untouched |
| RDB transfers `service/rdbc`, `pkg/rdbms/mysql` | none | list, read, write a script, run it, run it again | task manager, backups | a script that failed half-way runs twice, writers at the source, two scripts at once | success means whole and once; other tables are untouched |
| Data generation `pkg/dummy`, generate handlers | worker pools, temporary directories | generate a format, upload, remove | osc, rdbc, nrdbc | fixed channels, early return, panics in workers, removal under writers | a generation returns; what is uploaded is whole; nothing stays behind |
| Backup catalogue `service/backup` | rows of `tbbackup`, directories | create, mark, restore, delete | task manager | crash while running, delete during a backup or restore, equal names | a restorable backup is complete; statuses settle |
| RDB and NRDB instances `service/rdbinstance`, `service/nrdbinstance`, `pkg/rdbinstance`, `pkg/nrdbinstance` | rows, CSP instances, networks, background goroutines | create, list (sync), retry account, delete | CSP | background steps before the row exists, timeouts, listings that prune | no instance runs unrecorded without the program having had a reason; a race cannot pile up rows of one name; flags tell the truth |
| Credentials `service/credential` | rows, Tumblebug credential holders | create, list, delete | Tumblebug | remote success then local failure | one credential for a provider |
| Profiles `config/profile.go` | profile file, mutex | load, create, update, delete | auth | lock taken twice | operations end |
| Diagnostics `pkg/rdbms/mysql/diagnostics` | snapshots | snapshot, diff | diagnose handlers | counters that reset | deltas are never negative |
| HTTP handlers `websrc/controllers` | none | parse, submit, answer | all of the above | answers before the end of a run | the answer matches the outcome |

## Modules

| module | models | lines of the program |
|---|---|---|
| `FileScheduleManager` | the task and schedule manager | `service/task/task.go` |
| `ExecLog` | what the execution log promises: a write-once table | `models/executionLog.go` |
| `ExecTracker` | the execution tracker and the ways its callers answer | `service/task/execTracker.go`, `websrc/controllers` |
| `ExecHistory` | the history service, reading while the tracker writes | `service/history`, `repository/executionLogRepository.go` |
| `OscTransfer` | the object transfers and their worker pools | `service/osc`, `pkg/objectstorage/*/…fs.go` |
| `ObjectStore` | buckets and objects, request by request, over the active namespace | `pkg/objectstorage`, `pkg/utils/api.go`, `websrc/controllers/objectStorageHandlers.go` |
| `NrdbTransfer` | the transfers of NoSQL tables over four engines | `service/nrdbc`, `pkg/nrdbms` |
| `RdbTransfer` | the transfers of MySQL databases | `service/rdbc`, `pkg/rdbms/mysql` |
| `DummyData` | the generators, their pools and their directories | `pkg/dummy`, `websrc/controllers/generateHandlers.go` |
| `BackupCatalogue` | rows of backups against directories | `service/backup`, `websrc/controllers/backupHandlers.go` |
| `DbInstance` | database instances: rows against what runs at the provider | `service/rdbinstance`, `service/nrdbinstance`, `pkg/rdbinstance`, `pkg/nrdbinstance` |
| `…Proofs` | theorems about the module they are named after; `ExecutionProofs` about `ExecTracker` and `ExecHistory`, `ObjectStorageProofs` about `OscTransfer` and `ObjectStore` | |
| `MC…` | instances for TLC: model values and symmetry | |

`ExecHistory` composes: it extends `ExecTracker`, and each of its steps is a
step of the tracker or a step of a client that walks the pages.  `ExecTracker`
implements `ExecLog` (`INSTANCE ExecLog WITH verdict <- …, rows <- …`).  The
manager and the tracker are separate modules although `RunTasks` calls `track`:
the manager needs of the tracker only that a handler ends as completed or failed
(also when it panics), and the tracker needs of the manager only that
`RunTaskOnce` returns false when the task was skipped, failed or could not be
saved.  `OscTransfer`, `NrdbTransfer` and `RdbTransfer` are the bodies of the
task handlers; `BackupCatalogue` and `DummyData` wait for such a body as one
task that may fail, and `OscTransfer` uses of `ObjectStore` that a read or a
write of an object works, fails, or breaks off.

Definitions whose name ends in `_Something` and whose comment begins with
"Mutant" are deliberately wrong forms of the next definition.  They show for
each property a bug that would violate it; nothing else uses them.

### FileScheduleManager

`tasks`, `schedules`, `mu` are `m.tasks`, `m.schedules`, `m.mu`; `jobs` are the
jobs of all gocron schedulers; `file` is `task.json`; `up` is the process with
`managerInstance`.  `pc`, `run`, `save`, `edit` are the local state of each
goroutine, which is an HTTP handler or a run that gocron started.

* Operations that hold `m.mu` (`CreateTask`, `UpdateTasksByType`,
  `DeleteTasksByType`, `CreateSchedule`, `UpdateSchedule`, `DeleteSchedule`)
  change the memory in one step, and save in two: `SaveOpen` (`os.Create`
  truncates) and `SaveEncode` (one write).  They keep `m.mu` from the first to
  the last of these steps.
* `RunTaskOnce` is `CreateTask`, then the loop of one task, then a save without
  `m.mu`; `FireJob` is gocron starting `RunTasks`, a loop of `RunTask` (the
  handler) and `UpdateTaskStatus` (under `m.mu`), then `RunDone` and a save
  without `m.mu`.
* `UpdateTask` and `DeleteTask` are two steps without `m.mu`: `FindTask` keeps
  an index, `EditTask` uses it, whatever is there by then.
* `ClearServiceAndTaskAll` is `ClearTasks`, a run, `ClearSchedule` with a run
  for each schedule, `ClearJobs`, `ClearLists`, `ClearSchedulers`, a save: all
  without `m.mu`, whose Lock is commented out.
* `Crash` may come at any point and may tear a file that is being written;
  `Load` is the next `GetFileScheduleManager`.

A save copies two slice headers and encodes later, so what it writes depends on
who wrote to the same arrays meanwhile.  `save[p].alias` says which lists of `p`
still share their array with the manager; `Store` writes `Through` to them, and
an append may move a list (`moved`) unless its array is known to have room.
`raced` records that somebody changed or saved the lists while another was
encoding: the properties that such a race can break are conditional on it, and
`FSM_lost_schedule.cfg` shows what happens when it occurs.

Abstractions: ids are made of the operation and the second, as the program does;
task and schedule contents are an id, a kind and a status, and the id that the
body of an update carries is stored as it is (`BodyId`); the body of a handler
ends as completed or failed; the run that `ClearServiceAndTaskAll` starts works
on a copy of the list (in the code it shares the array, and could see a status
stored by another run).

Five things need one call, not an interleaving, to be seen.  They are modelled
as they are, and the properties are about what holds in spite of them:
`UpdateSchedule` rebuilds `m.tasks` from its own schedule and drops everyone
else's; `DeleteSchedule` looks for tasks whose id equals the schedule's, and
finds none; a one-time schedule that has run is registered again after a
restart, and runs again; the ids of a schedule's own tasks are empty after an
update, so their statuses are not stored; and `RunTaskOnce` does not save a
failure.

### ExecTracker and ExecHistory

An execution goes through `Begin` (the key is drawn, atomically, outside the
lock), `Enter` (the map), `FnReturns` (nil, an error, or a panic, which the
deferred function swallows), `StoreErr` (`lastErr`), `Finish` (out of the map;
the end time), `Insert` (the row, which a missing or failing database loses) and
`Answer`, where the callers differ: a handler of a task asks `LastError` only
when `RunTaskOnce` returned false, a backup handler may first fail to mark its
record, a handler that called `Track` answers the error it got, a job answers
nobody.  `Crash` forgets the map, the keys and `lastErr`; the table stays.  Keys
and the order of rows are numbers, times are seconds as in a `datetime` column,
a cause is named by the execution it came from.

Trace ids come from `TracingMiddleware`, which makes them from a clock of
nanoseconds.  `DistinctTraces` states that no two requests get the same; the
two theorems about causes assume it explicitly.

In `ExecHistory` a client asks for page after page until one is empty.  `Count`
and `Find` are the two statements of `List`; the database may order rows of one
second as it likes, and differently each time (`Orders`).  The promise to the
client is therefore stated for executions that are alone in their second.
`Matching` is translated from the WHERE clause and compared, through `present`,
with the meaning of "during a period" (`During`).  The filters by service,
operation and namespace are left out: they only make the table smaller.  Rows of
the table are never changed or removed; a walk depends on that.

### OscTransfer

One caller, `Worker` goroutines and the closer goroutine.  `PrepareList` is the
listing, the filter (any subset may be selected, `wanted`) and `getDownloadList`; `Send`,
`CloseJobs`, `Collect`, `Return` are the caller's loops over `jobs` and
`resultChan`; a worker goes through `Take`, `OpenSource`, `CreateTarget`,
`CopyAll` or `CopyBreaks`, `CloseTarget`, `Exit`.  The specification is
`TransferSpec`, its parts `TransferInit`, `TransferNext`, `TransferTypeOK`: the
proofs read this module together with `ObjectStore`.  An object at a destination is `absent`, `other`
(another size), `same` (same size), `part` (a broken transfer wrote it) or
`whole`.  The writers of the provider file systems buffer the object and send it
in `Close`; `os.Create` of a backup truncates at once.  `copyWorker` forgets the
writer of a failed copy, `mPutWorker` defers its `Close` to the end of the
worker, which then sends what was buffered (`Exit`).

`getDownloadList` does two things that the filter does not know of.  It tests the
path again, as a prefix and with its case, where the filter looked anywhere in
the key and without case (`get.go:134-147` against `filtering.go:24-44`): what
passes is `passed`, any part of `wanted` that has the directory markers.  And it
compares an object with the first one at the destination whose key is the same
but for case (`strings.EqualFold`, `Fold`, `Matches`): the same size skips the
object (`ToSkip`), another size or no match transfers it (`ToTransfer`).  Sizes
of two different objects are unknown, so both may happen (`SameSize`,
`OtherSize`).  `SuccessMeansWhole` is about `passed`, and says of a skip that
the match has the same size.  A success therefore does not mean that what the
filter selected is at the destination; `OT_selected.cfg` refutes that.

Abstractions: the order of a channel is the order of the listing and no property
is about it, so channels are sets; both channels have room for all jobs, as in
the code (`make(chan …, len(list))`); sizes are compared, not contents; keys at the destination
are those of the source, or differ from one in case only; the source does not change between listing
and copying, except that the copy may then fail; handles that are not closed are
not counted.  A panic inside a worker would end the process and is not modelled.
A nil filter panics in the caller, which the tracker recovers
(`PrepareWithoutFilter`).

### ObjectStore

One bucket name in several namespaces; `active` is `runtimeNsId`, which
`SetNsId` may change between any two steps, and `op[c]` is a request or a task.
Every request to Tumblebug is one step (`HeadBucket`, `Put`, `List`,
`deleteObjectBatch`, `Remove`, `ForceDelete`, `DeleteObject`, `Open`, `Create`,
`Close`).  Its path is built from the active namespace one step earlier: `op[c].ns`.
A request may be carried out with its answer lost.  A batch of a deletion may
fail in part without the task hearing of it: `deleteObjectBatch` returns the
outer `err`, which is nil.  The six file systems are copies of one another; the
provider of the bucket (`engine`) is fixed, and `S3FSBuckets` … `TencentFSLists`
map each copy to its lines.  The list handlers of buckets and objects keep no
state; they are there because they share the steps.

`seen` is history: where the bucket existed at some moment of a creation, where
it went during a deletion.

Abstractions: a listing is one answer; a filter is the set of keys its rules hit
and its mode; the rule on paths, which holds when no mode is given, is left out;
Tumblebug refuses to delete a non-empty or absent bucket without an option, may
or may not accept a second PUT, and may give up half-way through a forced
deletion (external: read off what the callers rely on).  Requests have no
timeout, so no liveness is claimed.

### NrdbTransfer

`engine` is the pair of source and target, `dst` the documents of the target's
tables, `files` the JSON files of a backup, `run[p]` a task.  Tables are taken
one after another, `Next1`; a table is read (`…Export`), encoded and decoded
(`CreateFile`, `Encode`, `OpenFile`), looked up, cleared or created
(`FindTable`, `…Clear`, `…Create`, `DropMarker`) and written (`…Import`).
DynamoDB and Firestore write in parallel (`writeBatchWithRetry`, `BulkWrite`),
and `Wait` collects the first error.  MongoDB creates a collection by inserting
an empty document and deleting "one" without a filter.  A document is an item
and who wrote it, so that copies are visible.

A call may have its effect and lose its answer (`Answer`).  Two things go on after
a task has ended.  DynamoDB's `DeleteTable` answers when the deletion has begun
and `DeleteTables` does not wait (`dynamodb.go:98-103`): `DynamoDrop` puts the
table in `dropping`, and `DynamoGone` takes it away at any time later, with what
was written meanwhile.  And an import of Firestore that fails, at `bw.Create` or
at the first result that is an error, leaves jobs in its `BulkWriter`
(`firestoredb.go:110-122`): they stay in `left` and `BulkWrite` applies them, or
not, after the end.  `NothingElseAfterTheEnd` says that these two are all;
`NT_afterwards.cfg` shows that a caller cannot take the end of a task for the
end of its writes.

`ItemAssumption` (a table has finitely many documents) is there for the count of
documents in `SuccessDelivers`.

`cut` marks tables that were read incompletely without an error: DynamoDB reads
one page of a Scan and of a listing, MongoDB's cursor ends at an error as at its
end.  The properties speak of the others; that the program does not notice is
part of the model.

### RdbTransfer

A script is a sequence of statements, given by what stands at each position:
`Head1` and `Frame` (every table dropped and created), then the `Inserts`;
`createSql` and `Saved` are the files of the dummy data and of an earlier backup,
and `Joined` puts parts of equal length one after another.  The order in which a
server lists tables and rows is some order (`InOrder`).  `ListTable` and
`GetInsert` build a script, one SELECT for each table at its own time, while `UserWrites` changes the
source; `Statement` runs it at the target, one statement a step, so scripts of
two tasks interleave; `Refused` is any failure, which restarts the script once
(`Again`, with the NCP form of CREATE DATABASE) and ends the task the second
time.  A file is written whole or up to some statement, and a file that ends
between two statements runs.  The connection keeps the database of USE, or is
new at the second attempt.  `ReadBack` is what a row is after it was quoted by
`ReplaceEscapeString` and parsed by the server.

`stable` and `ever` are the rows that were in the source all the time and at
some time; `named` the tables a task's scripts have named; `cut` the tasks whose
reading may have missed something, because `rows.Next` ends at an error as at the
end.  `SuccessDelivers` promises nothing of those.  It promises of a deletion
that no database is left only if no other task is a writer: one that creates a
database after the deletion has listed them is not noticed.

`TableAssumption` and `RowAssumption` say that there are finitely many tables and
rows, which every script that ends needs.

Left out: foreign keys and views, which can only make a statement fail; the
export of all databases by the command line.  A server of NCP refuses CREATE
DATABASE, others have no `ncp_create_db` (external).

### DummyData

`pool[r]` is the pool of the format that request `r` generates: the next number
of `countNum` and the buffer of `resultChan`, whose room is the count of numbers
(`Size`); `work` are its workers.  `CreateFile`, `FillFile`, `Send` are a worker;
`Collect` reads until the first error; `CloseResults` is the goroutine that
waits for the workers.  What each worker sends is different and is modelled as
it is (`Results`, `Errors`): images send nothing for a success, texts and
archives send a success after an error, and several go on with a nil file,
which panics and ends the process (`dead`); the text worker first sends an error
for each of a thousand lines, of which the model has one.  After an error the workers are left
to themselves, while the deferred `RemoveAll` removes the directory.

Bounds and abstractions: one request, since requests share nothing but the
process; two workers instead of ten; two numbers of two files (CSV, JSON and XML
write up to seven), for the runs; the theorems are for any number of each.  A
file is torn or whole.  A ZIP's last write is not checked
by the code, so `GeneratedIsWhole` leaves archives out.  The data race on the
images of GIFs is not modelled.

### BackupCatalogue

`rows` is `tbbackup`, `dir` the directories, `job[b]` the request that creates
backup `b`, `req[c]` one that deletes or restores.  A creation is
`CheckDuplicate`, `MkdirAll`, `CreateBackup` (the insert), `RunTaskOnce` with its
files (`CreateFile`, `FillFile`), `SaveTasks` (the list of tasks; its error is
the task's) and `MarkStatus`.  A deletion takes the row, then the files one by
one.  A restore looks up the row, then the directory, lists the files, then
reads them.  `Crash` may come at any point.  `stray`, `holes`, `unmarked` and
`crashed` are history: they name the errors after which a promise does not hold.

A failing insert leaves the directory behind; a backup deleted while it is made
has its directory made again; a restore that had looked up its row before the
deletion may succeed with some of the files.  These are in the model, and the
properties say exactly when they are excused.

The requests that read, change or delete the *tasks* of backups are operations
of `FileScheduleManager`.  `DeleteBackupkHandler` has no route.

### DbInstance

`status`, `listed`, `account` are the provider; `rows`, `nameOf`, `pending`,
`failed` the table; `req[p]` a request; `bg[i]` the goroutine that finishes
instance `i`.  `kind` is the service and the provider: rows of different
providers never meet.  A creation looks for the name, finds or makes the network
(Alibaba, NCP), calls the provider, waits until the instance is listed
(Alibaba), starts the goroutine, and only then inserts the row.  A listing reads
the rows, then the provider, and deletes the difference (`Prune`).  The provider
moves by itself (`Csp`): it finishes creations, deletes, and lists late.
`TimedOut` is every deadline of the goroutine; `Crash` resumes nothing.

The provider is not reliable.  A call may fail without effect, or be carried out
with its answer lost, empty or an error (a cancelled request, a timeout of the
SDK, `aws.go:53`, `alibaba.go:92`): a network is then there, an instance runs
without a row, an instance is being deleted although the handler answered an
error, an account exists that counts as failed (`ProviderFails`,
`CreateMaster`).  A listing may show a part (`ReceivePart`): Cloud SQL's first
page is the only one read, Firestore leaves out locations that it cannot reach,
numbered pages of Alibaba move, a detail call of NCP MySQL that fails skips the
instance.

`network` says that the account has a switch (Alibaba) or subnet (NCP).
`ResolveVSwitch` takes a switch only when it has a free address
(`vpc.go:45`) and reads one page of them, so a network that is there may not be
found and another is made; `FindNetwork` allows that at any time.  How many
networks there are is therefore not bounded by anything in the code, and no
property claims it.

`lost`, `unsure`, `miscounted` are history: instances whose row may be missing for
a reason that the code cannot see or only reports (an answer that was lost, a
row that could not be written, a listing that did not show the instance though
it knew its row, a refused deletion, a crash), instances whose flags may be
wrong after a failure, names of which a count of the duplicate check failed.
What `lost` and `unsure` excuse is listed in PROJECT.json as hazards without a
property.  `NothingRunsUnrecorded` is about the rest: that no interleaving of
creations, listings and deletions loses the row of a running instance.

Nothing makes a name unique: `CheckDuplicate` is far from the insert.  Two
creations that overlap can give it two rows, and `RowsPerName` says that it ends
there: a name has at most as many rows as requests can be under way at once.

`NameAssumption` (there is a name) gives an idle request one; `FiniteAssumption`
is there for the count of rows.

## Runs

| run | question | result |
|---|---|---|
| `fsm_requests` | Task and schedule requests, firing jobs, unlocked saves, one crash at any point and the restart: are jobs and schedules tied, does a one-time schedule fire once, is the file whole and current at rest? | pass |
| `fsm_faults` | Refused schedules, failing file operations, updates, a clear, a crash: does every request and run end? | pass |
| `et_requests` | Two executions of any kind with panics, database errors and a crash: is the map exact, the log write-once, each cause answered by its own handler and then gone? | pass |
| `eh_walk` | Does a walk through pages see everything that was there, while rows are inserted? | pass |
| `ot_transfer` | Copy, backup and restore over failing storage, twice: does the call return with one result per object, does success mean that what passed both filters is whole or was skipped for its size, is the destination left alone afterwards? | pass |
| `os_requests` | Two operations at a time on a bucket while the namespace is switched: was what is answered as created or deleted there, or gone, and does a deletion spare what it has not listed? | pass |
| `os_namespace` | Is the bucket that a task deletes the one whose objects it listed, as the comment of `DeleteBucket` says? | violated |
| `nrdb_transfers` | Two tasks of every kind over each engine as source and target, with failing calls, cut reads and torn files: does success mean that the tables are there, whole and once, are tables not reached untouched, and does nothing go on after the end but a deletion of DynamoDB and writes queued by a failed import of Firestore? | pass |
| `rdb_transfers` | Two tasks of every kind on a MySQL database whose source is written meanwhile, with second attempts: does success mean whole and once, and are other tables left alone? | pass |
| `dd_generate` | A request for any format with failing files, panics and workers that outlive an error: does it return, is what it delivers whole, does nothing stay behind? | pass |
| `bc_catalogue` | Two backups of one name, restored and deleted while they are made, with failing steps and a crash: is what the catalogue offers there and whole, do statuses settle? | pass |
| `db_instances` | Requests on the instances of every provider, two at a time, with lost answers, partial listings, a slow provider and a crash: does no interleaving lose the row of a running instance, does a race of the duplicate check leave at most two rows of a name, do the flags tell the truth? | pass |

Bounds, all of them constants:

* `FSM_requests`: two goroutines, one operation name, one supplied id, three
  requests, one crash, two seconds, jobs that fire as often as they can.  Two
  goroutines are needed and enough for every race of two saves, of an unlocked
  edit with a locked one, and of a run with a request; three requests allow
  create, update and delete of a schedule with its job firing in between; two
  seconds give equal and different ids.  It issues the kinds of request that
  meet schedules; the remaining kinds are in `FSM_faults` (two requests, one
  second, with errors and an inactive status).  Together they take every
  action.  In both, `Distinct` is TRUE: callers use an operation name once a
  second; `FSM_dup_schedule.cfg` is what happens otherwise.
* `ET_requests`: two executions, two traces, two seconds, one crash.  Each
  property relates two executions at most.
* `EH_walk`: three logged executions of jobs, so that pages of one (the default)
  and of two (the cap; 3 is asked for) leave a walk of several pages with inserts
  in each gap.
* `OT_transfer`: two objects, two workers, two runs of the transfer, so that a
  worker can end while the other works, one object fail while the other
  succeeds, and the second run find what the first left.  The two keys differ
  in case only, so each can be taken for the other.
* `OS_requests`: two clients, two namespaces, two keys, batches of one: every
  pair of operations meets between any two requests, a deletion has several
  batches, a switch of the namespace can separate any two requests.
* `NT_transfers`: two tasks, a table of two documents and an empty one, four pairs of engines in
  which each engine is a source and a target; a page of DynamoDB's listing holds
  one table and one table is beyond a page of a Scan, so both cuts happen.
* `RT_transfers`: two tasks, one database, two tables of which one has a key and
  one is in the source, two rows, one change by a user.  A table that the source
  does not have shows what a script may not touch.
* `DD_generate`: see the module; every format in turn.
* `BC_catalogue`: two backups of one name (the unique index matters), two
  clients, two parts (a backup can be half there), one crash after another.
* `DB_instances`: two requests at a time and three in all, two instances, one
  name, one crash, every provider.  Three requests allow create, list and delete
  of one instance, or two creations and a listing.  A third row of one name needs
  a third instance, which AWS alone has: the check and the insert are the same for
  every provider.  Alibaba RDS, whose goroutine has the most steps, makes most of
  the states; its two instances are explored without a crash and one instance
  with it.  Both are the state constraint `FewInstances`.  About 1 million states.

Deadlock is not checked where the bounds can be used up: nothing is left to do
then, and requests are not promised.  That nothing hangs is what the liveness
properties `EveryoneReturns`, `TransferReturns`, `GenerationReturns` and (by
hand) `PendingEnds` say.  Symmetry is used only in runs without liveness.

Fairness.  `FairSpec` of `FileScheduleManager` assumes that a goroutine that can
go on does (`WF Continue`), that a task of a provider ends, that the process is
started again (`WF Load`), and that a goroutine which waits for `m.mu` gets it
some time (`SF UpdateTaskStatus`): `sync.Mutex` hands over to a waiter that
starves.  No request, crash or tick is promised.  `TransferFairSpec` of
`OscTransfer` is weak fairness for each goroutine: the Go scheduler is preemptive and calls of
storage return.  `FairSpec` of `DummyData` is the same for the caller, the
workers and the goroutine that closes the channel.  `DbInstance` assumes it for
requests and background goroutines, whose waits all have deadlines; of the
provider nothing is assumed.

## Findings

`DropsWhatItListed` (run `os_namespace`) — `DeleteBucket` says "Check and delete
all objects in the bucket and delete the bucket"; every request of it reads the
active namespace anew.  When a user switches the namespace after the listing,
the objects of one bucket are deleted and the empty bucket of the other
namespace goes.

## Counterexamples

What a comment or an answer of the program says and the model refutes is kept as
a configuration of its own, to be run by hand with
`tlc -config <file> <MC module>`; each ends with the violation of its one
property.

| configuration | module | property | what happens |
|---|---|---|---|
| `FSM_dup_schedule.cfg` | `MCFileScheduleManager` | `ScheduleIdsDistinct` | The check that rejects a duplicate ScheduleID is commented out (`service/task/task.go:303`); the comment at line 292 promises it.  Two schedules of one operation in one second share an id, and with it their jobs' tag. |
| `FSM_lost_schedule.cfg` | `MCFileScheduleManager` | `ListedSchedulesSaved` | A run ends with a save outside `m.mu` (line 647); a schedule created between its copy and its write is acknowledged, saved, and erased from the file by the run. |
| `FSM_nil_manager.cfg` | `MCFileScheduleManager` | `RestartServes` | A schedule that `registerSchedule` refuses stays in the list (line 319); the next save of anything writes it, and the next start cannot load the file and leaves no manager. |
| `FSM_wrong_task.cfg` | `MCFileScheduleManager` | `EditsOnlyItsTask` | `UpdateTask` and `DeleteTask` write to an index they found without `m.mu` (line 511); a deletion in between shifts the list, and another task is replaced or removed. |
| `FSM_clear_race.cfg` | `MCFileScheduleManager` | `CronScheduleHasJob` | A schedule created between the clearing of the lists and the stop of the schedulers (line 1388) is listed and never fires. |
| `ET_direct_causes.cfg` | `MCExecTracker` | `CausesConsumed` | The causes of failed creates and deletes stay in `lastErr` for good: the handlers that call `Track` do not ask for them. |
| `OT_backup.cfg` | `MCOscTransfer` | `BackupComplete` | `MGet` logs the errors of its workers and returns nil (`service/osc/get.go:118`): a backup that lost objects is completed. |
| `OT_selected.cfg` | `MCOscTransfer` | `SelectedArrive` | `getDownloadList` tests the path a second time, with its case and as a prefix (`service/osc/get.go:134-147`), and compares keys without case (line 154): an object that the filter selected is not transferred, and the copy succeeds. |
| `NT_afterwards.cfg` | `MCNrdbTransfer` | `NothingAfterTheEnd` | A table of DynamoDB falls after the deletion was answered (`dynamodb.go:98-103`), and documents that a failed import of Firestore had queued arrive after its end (`firestoredb.go:110-122`). |
| `NT_create.cfg` | `MCNrdbTransfer` | `CreateIsNoOp` | On a collection of MongoDB that exists, creating it again may delete a document and leave the empty one; `nrdbmsHandlers.go:100` calls it a no-op. |
| `RT_backslash.cfg` | `MCRdbTransfer` | `EveryRowCarried` | `ReplaceEscapeString` leaves backslashes to be read as escapes (`pkg/rdbms/mysql/mysql.go:327`): a value arrives changed and the migration succeeds. |

`DB_pending.cfg` (with `MCDbInstance`) passes: the row of an instance of Alibaba
RDS does not stay pending, unless a timeout, a crash or the database got in the
way of its goroutine (liveness).

## Proofs

`tlapm` checks every proof from the modules alone.  The theorems hold for any
number of goroutines, executions, workers and objects, and any bounds; they use
the ASSUMEs of the modules and what is named below.

`FileScheduleManagerProofs`

* `TypeInvariant`.  `TypeOK` is not inductive: `UpdateTaskStatus` reads the
  current task of a run.  The invariant adds `RunMatchesPc`: a goroutine at
  "status" is at a task of its list.
* `NoOrphanJobInvariant`: with the types, inductive.  The proof follows each
  action that touches the lists or the jobs.
* `QuietFileCurrentInvariant`, assuming `Orderly` (file operations work, the
  submitted schedules register, nothing is cleared).  "The file is current when
  all are idle" says nothing during an operation; `FileInv` says at each point
  what makes it true in the end: unless a race happened, either somebody is on
  the way to save, or the file is the memory, and whoever is encoding holds what
  the memory holds.  `Orderly` is needed: a refused schedule, a failed save or
  the steps of a clear leave file and memory different by design.
* `TornOnlyWhileSavingInvariant`, assuming that file operations work: all
  interleavings of unlocked saves, and crashes.
* `FiredOnceIsOverInvariant`, assuming `Distinct = TRUE`: ids have a resolution of
  a second, and two schedules with one id would share the mark `fired`.  Until a
  crash (`OnceInv`) no two jobs have one tag (`OneJobEach`), which is what
  `RemoveByTag` before each registration achieves, a job that has fired is gone
  (`FiredIsOver`), and no file can bring one back (`NothingSaved`).
* `CronScheduleHasJobInvariant`, assuming `Distinct = TRUE` and that nothing is
  cleared: `FSM_clear_race.cfg` shows that a clear, which takes no lock, does
  leave listed schedules without jobs.  Until saves have raced (`CronInv`), every
  listed cron schedule has its job (`CronRegistered`), no id is listed twice in the
  memory or the file (`DistinctIds`, so that removing the jobs of one tag hits no
  other schedule), and whoever writes the file writes the list as it is
  (`WrittenIsListed`, so that `Load` registers what was listed).

`ExecutionProofs`

* `TypeInvariant`, with `OutcomeKnown` (past `fn` there is an outcome) and
  `Traced` (a task has a trace).
* `RunningIsExactInvariant`, with `KeysDistinct`: live executions have different
  keys, not above `seq`, also after a restart set `seq` to 0.
* `CauseSurfacedInvariant`, `TaskCausesConsumedInvariant`, assuming
  `DistinctTraces = TRUE`, with `Attributed` (what is kept for a trace came from
  the execution that has it) and `Kept` (a failed task finds its cause).
* `TrackerImplementsExecLog`: `Spec => WriteOnce`.  `FnReturns` maps to
  `Confirm`, `Insert` to `Record`, all else to a stutter; `RowsOfEnded` (only
  executions past the insert have rows) gives the uniqueness of rows.
* `PromisedPageInvariant` and `WalkSeesAllInvariant`, of `HSpec`, for any page
  sizes.  Count and find are in no transaction, so the first needs that the rows
  that match only become more (`CountsGrow`): what was counted is still there to
  find (`Counted`).  The second follows an execution that is alone in its second:
  in every order the database may give, its position is one more than the number
  of rows `Before` it (`Place`).  Inserts only push it back, so it stays at or
  behind the offset of the next page (`Ahead`) until a page shows it; a page that
  ends before it is full, hence not the empty one that ends the walk.

`ObjectStorageProofs`.  Of `OscTransfer`, for any number of objects, workers and runs

* `TransferTypeInvariant`.
* `EveryObjectReportedInvariant`, by a conservation law: while the pool works,
  the listing is the disjoint union of unsent, queued, held by a worker,
  waiting in `resultChan` and told (`Conserved`, `Apart`), and the stages of the
  caller, the closer and the workers go together (`Stages`).
* `SuccessMeansWholeInvariant`, from the same and `Truthful`: an object with a
  good result is whole, and stays so; what passed the second test and is not listed
  is at the destination with its size, or has another there that differs in case
  (`Skipped`), and no worker changes that.
* `CopyNeverTruncatesInvariant`, and `SettledAtReturnProperty`, an action
  property: when the caller is done no worker is left that could write.

Of `ObjectStore`, for any number of clients, namespaces, keys and providers

* `TypeInvariant`: the types, and that there are no objects where there is no
  bucket, which a forced or a refused deletion, an upload and lost answers could
  each break.
* `CreatedExistsInvariant`, `DeletedHasGoneInvariant`.  They speak of operations
  that are done, so the invariant follows each operation (`Good`): it is at a
  step of its kind (`OnPath`); a creation under way keeps to the namespace it
  came for and has seen every namespace where the bucket now is (`Watches`,
  which is what makes a HEAD trustworthy although others delete and create);
  what a deletion has left is part of what it listed (`LeftListed`).  The proof
  shows first that the steps of others keep this (`OthersStay`), then each step
  for its own operation.
* `DropSparesNewcomersProperty`, an action property, from `LeftListed`: of all
  steps that take objects only a batch moves a deletion.

`BackupCatalogueProofs`, for any number of backups, requests, names and parts

* `TypeInvariant`: the types and the unique index.
* `CompletedIsWholeInvariant`, `StatusSettlesInvariant`.  "Completed" is written
  long after the files are made, so the invariant follows them: while a request
  copies, the parts that are neither `left` nor `open` are whole (`Made`), when
  the task has ended all are (`Finished`), and a row is in progress as long as its
  request may still write the status (`Rowed`).
* `RestoredIsWholeInvariant`, with `Restores`: a reader whose row is still there
  has every part that is no longer on its list.  It rests on the order of a
  deletion: a request at the files has no row (`Deletes`).
* `NoStrayDirectoryInvariant`, with `Owned`.

  Rows only appear by the insert of their own request and change by its
  `MarkStatus`.  The proof shows once what a step of one request leaves to the
  others (`ApartKeeps`, `OtherRequests`) and then goes through the actions.

`DbInstanceProofs`, for any number of requests, instances and names, and every
provider

* `TypeInvariant`.
* `NothingRunsUnrecordedInvariant`.  A listing reads the rows, then the provider,
  then deletes rows; a deletion deletes at the provider, then the row.  The
  invariant says what they know in between: what a listing is going to prune, or
  a deletion to unrecord, will never run again or is noted as lost (`Listings`,
  `Deletions`, `Over`), because ids are drawn once and a row comes from the one
  creation that drew its id (`Fresh`).
* `RowsPerNameInvariant`.  The invariant counts (`Names`): the rows of a name and
  the creations that have passed its check are together at most as many as there
  are requests, because a creation passes only when there is no row, and then
  every row to come belongs to a creation under way.  A creation moves one from
  the second count to the first, all else only takes away (`NamesKept`).
* `AccountFlagHonestInvariant`, with `Accounts` (accounts and failures come at the
  end of a provisioning) and `Flags` (where the goroutine is tells which flags are
  up, also while the row is not there yet).

`NrdbTransferProofs`, for any tasks, tables and documents, and any pair of engines

* `TypeInvariant`.
* `SuccessDeliversInvariant`.  For a task that is alone at a table, the invariant
  says what the table holds at each step of that table, engine by engine
  (`Worked`): emptied, with or without the marker, the copies that are no longer
  in flight.  Tables it has left hold exactly its copies (`Exact`), a backup's are
  in their files (`Saved`).  When several tasks write a table and agree on what
  belongs there, one may empty what another wrote; then it owes the document
  itself (`Kept`, `Owes`), until none is left that owes anything.  `Buffered` ties
  what is in memory to the source, `Position` the steps to the kind of the task.
* `UntouchedUntilReachedInvariant`.
* `NothingElseAfterTheEndHolds`, an action property: a step that changes a table
  is of a task that is at that table, or the fall of a table that some task was to
  delete (`DropsOrdered`), or of an import of Firestore that failed with documents
  queued, which are copies of what it read (`LeftFits`, in `Position`).

`RdbTransferProofs`, for any tasks, databases, tables and rows, with or without
keys, and whatever a row is when it is read back

* `TypeInvariant`, `FilesAreScriptsInvariant`: every file is a script or the
  beginning of one (`Script`), also after a torn write, and where no backup task
  has been, it creates every table that it names (`Whole`).
* `OthersUntouchedInvariant`: before USE a script touches no table, and past it the
  connection is in the script's database, also in a second attempt on a new
  connection (`Carries`); so what a statement changes, the task has named.
* `SuccessDeliversInvariant`, from an invariant in three layers.  `Structure` is
  the above, with the steps that fit each kind of task (`Fits`).  `Content`
  says that what has been read lies between the rows that were always in the
  source and those that ever were (`SourceBounds`, `Gathered`), and stays so in
  the file and the script that runs (`BackupIsWhole`, `Loaded`).  `Delivered`
  speaks of the target.  For a task that has a database to itself (`Exact`), a
  table that this attempt has created holds what the statements so far
  brought, by this attempt: the second attempt starts over, its DROP removes what
  the first left.  For tasks that share a database (`Kept`) one may drop what
  another brought; then it has still to create the table (`Owes`), or the rows
  that it has brought so far are all there.  For a deletion, `Emptied`.

  A fold over tables and rows would need induction over data; with scripts given
  by position, lemmas say what stands where (`Ordered`, `JoinedIs` and those
  after them), and the steps use nothing else.  For the last two layers the
  actions are put into six kinds (`StepKinds`).  TLC has checked the three
  layers, as invariants, on the instance of `RT_transfers`.

`DummyDataProofs`, for any number of requests, workers, numbers and files

* `TypeInvariant`, with the room of the result channel.
* `GeneratedIsWholeInvariant`, by an account of the format that is read
  (`Account`): as long as no error is in the channel or in the hands of a worker,
  each file is whole or still due, its number not drawn or at a worker before that
  file.  With no worker left, no number left and no error read, all are whole;
  and they stay so (`Kept`), because a format is generated once (`Order`) and
  workers live only while their format is read (`Phase`) or after a failure.
* `SuccessLeavesNothingInvariant`, with `Gone`: between the removal of the files
  and the answer nobody is there who could write one again.

Only model-checked: the liveness properties `EveryoneReturns`, `TransferReturns`
and `GenerationReturns`, and by hand `PendingEnds`.  Liveness under fairness, and
ENABLED, are out of the prover's reach.  So is induction over data, which
nothing here needs any more: sequences are stated by what stands at each position.

## Not modelled

* The clients of the providers below the calls that the modules name: what such
  a call may answer is part of `DbInstance`, `NrdbTransfer` and `ObjectStore`.
* Binding of requests, rendering of answers and pages: the calls that a handler
  makes, and their order, are actions of the module of what it calls.
* How a rule of the object filter compares keys, sizes and dates; contents of
  generated data; the differences that the diagnostics of MySQL render.
* Credentials: one call to Tumblebug, then one row.
* Profiles: the operations that change one take a lock they hold; nothing calls
  them.
* Load tools, command line and configuration: they run a program or start one
  task, and keep no state.

`PROJECT.json` lists them with their sources.

## Plan

Done: every component with state that outlives a request, except credentials.
Proved: every invariant that a passing run checks, with the types of every
module, every action property, and that the tracker implements the execution log;
some under an assumption, which is named with the theorem above.

What could follow:

1. What of `QuietFileCurrent` holds without `Orderly`, and `CronScheduleHasJob`
   with a clear that nobody races.
2. `PendingEnds` of `DbInstance` without its fairness: the steps that a pending
   row has left only become fewer.
