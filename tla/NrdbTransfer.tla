----------------------------- MODULE NrdbTransfer -----------------------------
(***************************************************************************)
(* The transfers of service/nrdbc: the tables of a NoSQL database are      *)
(* migrated to another one, backed up to JSON files, restored, generated   *)
(* and deleted, by tasks that run at once, over the four engines of        *)
(* pkg/nrdbms.  A task reads the source and the files, writes the target   *)
(* and stops at its first error.  Tables are handled one after another;    *)
(* the documents of one table are written in parallel.                     *)
(***************************************************************************)
EXTENDS Naturals, FiniteSets

CONSTANTS
    Task,        \* tasks and requests; each runs once
    Table, Item, \* names of tables, documents of the source
    Old, Empty,  \* a document the target held before, a document without fields
    Nobody,      \* stands for the writer of a document that keeps its _id
    NoTable,     \* before the first table
    Torn,        \* what a file that was begun contains
    Engines,     \* the pairs of source and target to consider
    Sources,     \* the contents of the source to consider
    Ops,         \* what tasks do
    ListLimit,   \* tables in a page of DynamoDB's listing (100)
    Big          \* tables beyond a page of DynamoDB's Scan (1 MB)

Mongos == {"ncp", "alibaba"}
AllEngines == {"aws", "gcp"} \cup Mongos
Doc == (Item \cup {Old, Empty}) \X (Task \cup {Nobody})

ASSUME EngineAssumption == Engines \subseteq AllEngines \X AllEngines
ASSUME SourceAssumption ==
    \A s \in Sources : DOMAIN s \subseteq Table /\ \A t \in DOMAIN s : s[t] \subseteq Item
ASSUME MarkAssumption ==
    /\ {Old, Empty} \cap Item = {} /\ Old # Empty
    /\ Nobody \notin Task /\ NoTable \notin Table /\ Torn \notin Item
ASSUME LimitAssumption == ListLimit \in Nat
ASSUME ItemAssumption  == IsFiniteSet(Item)

VARIABLES
    engine,      \* the engines of source and target
    src,         \* the source: a function from its tables to their documents
    exists,      \* tables of the target; those of Firestore are the non-empty ones
    dst,         \* documents of each table of the target
    dropping,    \* tables that DynamoDB is deleting
    files,       \* the directory of the backup: a function from tables to documents
    run,         \* what each task is doing
    \* History, which no action reads:
    before,      \* what the target held at first
    cut          \* tables a task read incompletely, <<task, table>>

db   == <<exists, dst, dropping>>
vars == <<engine, src, db, files, run, before, cut>>

Steps   == {"idle", "list", "next", "export", "file", "encode", "open", "check", "clear",
            "create", "mark", "import", "wait", "sweep", "drop",
            "completed", "failed"}
Ended   == {"completed", "failed"}
Idle    == [at |-> "idle", op |-> "none", list |-> {}, todo |-> {}, cur |-> NoTable,
            buf |-> {}, job |-> "none", left |-> {}, broke |-> FALSE]

TypeOK ==
    /\ engine \in Engines /\ src \in Sources
    /\ exists \subseteq Table
    /\ dst \in [Table -> SUBSET Doc]
    /\ dropping \subseteq Table
    /\ DOMAIN files \subseteq Table
    /\ \A t \in DOMAIN files : files[t] \subseteq Item \/ files[t] = {Torn}
    /\ run \in [Task -> [at : Steps, op : Ops \cup {"none"}, list : SUBSET Table,
                         todo : SUBSET Table, cur : Table \cup {NoTable},
                         buf : SUBSET Item, job : {"none", "erase", "write"}, left : SUBSET Doc, broke : BOOLEAN]]
    /\ before \in [Table -> SUBSET Doc]
    /\ cut \subseteq Task \X Table
    /\ \A t \in Table : dst[t] # {} => t \in exists

\* The target holds any of the tables, each with a document of its own.
Init ==
    /\ engine \in Engines /\ src \in Sources
    /\ \E old \in SUBSET Table :
          /\ exists = old
          /\ before = [t \in Table |-> IF t \in old THEN {<<Old, Nobody>>} ELSE {}]
    /\ dst = before /\ dropping = {}
    /\ files = [t \in {} |-> {}]
    /\ run = [p \in Task |-> Idle]
    /\ cut = {}

---------------------------------------------------------------------------
(* Steps of a task.                                                        *)

At(p, step) == run[p].at = step
To(p, step) == run' = [run EXCEPT ![p].at = step]

\* A call that had its effect; its answer may still be lost.
Answer(p, step) == To(p, step) \/ To(p, "failed")

Is(p, name) == engine[2] = name
Name(p)     == run[p].cur

\* What is written for an item: MongoDB's exports keep _id, DynamoDB and
\* MongoDB take it as the key of the copy; otherwise every copy is new.
Keyed(p)   == run[p].op # "generate" /\ engine[1] \in Mongos /\ engine[2] # "gcp"
Copy(p, i) == <<i, IF Keyed(p) THEN Nobody ELSE p>>
Copies(p)  == {Copy(p, i) : i \in run[p].buf}

\* Tables of the target change: one of Firestore exists while it has documents.
Put(t, docs) ==
    /\ dst' = [dst EXCEPT ![t] = docs]
    /\ exists' = IF engine[2] = "gcp" /\ docs = {} THEN exists \ {t}
                 ELSE IF docs = {} THEN exists ELSE exists \cup {t}
    /\ UNCHANGED dropping

\* GetNRDMS may fail at once; then nothing is done.
Begin(p, op, first) ==
    /\ At(p, "idle") /\ op \in Ops
    /\ \/ run' = [run EXCEPT ![p].op = op, ![p].at = first]
       \/ run' = [run EXCEPT ![p].op = op, ![p].at = "failed"]
    /\ UNCHANGED <<engine, src, db, files, before, cut>>

handleNRDBMSMigrateTask(p) == Begin(p, "migrate", "list")
handleNRDBMSBackupTask(p)  == Begin(p, "backup", "list")
handleNRDBMSRestoreTask(p) == Begin(p, "restore", "list")
handleNRDBMSDeleteTask(p)  == Begin(p, "delete", "list")

\* Dummy data of any table, in a directory of its own.
GenerateNRDBMSPostHandler(p) ==
    \E made \in SUBSET Table \ {{}} :
        /\ At(p, "idle") /\ "generate" \in Ops
        /\ run' = [run EXCEPT ![p].op = "generate", ![p].at = "next",
                              ![p].list = made, ![p].todo = made]
        /\ UNCHANGED <<engine, src, db, files, before, cut>>

\* Requests about one table of the target.
Request(p, op, step) ==
    \E t \in Table :
        /\ At(p, "idle") /\ op \in Ops
        /\ run' = [run EXCEPT ![p].op = op, ![p].at = step, ![p].list = {t}, ![p].cur = t]
        /\ UNCHANGED <<engine, src, db, files, before, cut>>

NRDBMSCreateTableHandler(p) == Request(p, "create", "create")
NRDBMSDeleteTableHandler(p) == Request(p, "drop", "drop")

\* Mutant: a table that fails is skipped.
Fail_Skip(p) ==
    /\ run[p].at \in {"list", "export", "open", "check", "file", "encode", "clear", "create",
                      "mark", "import", "sweep", "drop"}
    /\ To(p, "next")
    /\ UNCHANGED <<engine, src, db, files, before, cut>>

\* A call that fails without effect ends the task.  The import of Firestore leaves
\* behind what its BulkWriter has queued when Create refuses a document.
Fail(p) ==
    /\ run[p].at \in {"list", "export", "open", "check", "file", "encode", "clear", "create",
                      "mark", "import", "sweep", "drop"}
    /\ \/ To(p, "failed")
       \/ /\ Is(p, "gcp") /\ At(p, "import")
          /\ \E queued \in SUBSET Copies(p) :
                run' = [run EXCEPT ![p].at = "failed", ![p].job = "write", ![p].left = queued]
    /\ UNCHANGED <<engine, src, db, files, before, cut>>

Tables(p) ==
    CASE run[p].op \in {"migrate", "backup"} -> DOMAIN src
      [] run[p].op = "delete"                -> exists
      [] run[p].op = "restore"               -> DOMAIN files

From(p) == IF run[p].op = "delete" THEN engine[2]
           ELSE IF run[p].op = "restore" THEN "files" ELSE engine[1]

Lists(p, from) == At(p, "list") /\ From(p) = from

\* Mutant: the target is emptied before the first table is brought over.
Receive_EmptyFirst(p, tables) ==
    /\ run' = [run EXCEPT ![p].at = "next", ![p].list = tables, ![p].todo = tables]
    /\ dst' = IF run[p].op = "migrate"
              THEN [t \in Table |-> IF t \in tables THEN {} ELSE dst[t]] ELSE dst
    /\ UNCHANGED <<engine, src, exists, dropping, files, before, cut>>

Receive(p, tables) ==
    /\ run' = [run EXCEPT ![p].at = "next", ![p].list = tables, ![p].todo = tables]
    /\ UNCHANGED <<engine, src, db, files, before, cut>>

\* DynamoDB answers one page and is not asked for the next.
DynamoListTables(p) ==
    /\ Lists(p, "aws")
    /\ \E page \in SUBSET Tables(p) :
          /\ IF Cardinality(Tables(p)) <= ListLimit
             THEN page = Tables(p) ELSE Cardinality(page) = ListLimit
          /\ Receive(p, page)

FirestoreListTables(p) == Lists(p, "gcp")     /\ Receive(p, Tables(p))
NcpListTables(p)       == Lists(p, "ncp")     /\ Receive(p, Tables(p))
AlibabaListTables(p)   == Lists(p, "alibaba") /\ Receive(p, Tables(p))
WalkFiles(p)           == Lists(p, "files")   /\ Receive(p, Tables(p))

\* The next table, or success.
Next1(p) ==
    /\ At(p, "next")
    /\ IF run[p].todo = {} THEN To(p, "completed")
       ELSE \E t \in run[p].todo :
              run' = [run EXCEPT ![p].todo = @ \ {t}, ![p].cur = t, ![p].buf = {},
                      ![p].at = CASE run[p].op \in {"migrate", "backup"}   -> "export"
                                  [] run[p].op \in {"restore", "generate"} -> "open"
                                  [] run[p].op = "delete"                  -> "drop"]
    /\ UNCHANGED <<engine, src, db, files, before, cut>>

---------------------------------------------------------------------------
(* ExportTable, and the files.                                             *)

\* The task has read `items' of its table; some may be missing.
Read(p, items) ==
    /\ run' = [run EXCEPT ![p].buf = items,
                          ![p].at = IF run[p].op = "backup" THEN "file" ELSE "check"]
    /\ cut' = IF items = src[Name(p)] THEN cut ELSE cut \cup {<<p, Name(p)>>}
    /\ UNCHANGED <<engine, src, db, files, before>>

\* One page of a Scan is all that is read.
DynamoExport(p) ==
    /\ At(p, "export") /\ engine[1] = "aws"
    /\ \E items \in SUBSET src[Name(p)] :
          /\ Name(p) \notin Big => items = src[Name(p)]
          /\ Read(p, items)

FirestoreExport(p) == At(p, "export") /\ engine[1] = "gcp" /\ Read(p, src[Name(p)])

\* The loop ends when the cursor breaks as it does at its end.
MongoExport(p) == At(p, "export") /\ \E items \in SUBSET src[Name(p)] : Read(p, items)
NcpExport(p)     == engine[1] = "ncp"     /\ MongoExport(p)
AlibabaExport(p) == engine[1] = "alibaba" /\ MongoExport(p)

SetFile(t, items) ==
    files' = [x \in DOMAIN files \cup {t} |-> IF x = t THEN items ELSE files[x]]

\* os.Create empties the file ...
CreateFile(p) ==
    /\ At(p, "file") /\ To(p, "encode")
    /\ SetFile(Name(p), {Torn})
    /\ UNCHANGED <<engine, src, db, before, cut>>

\* ... and Encode fills it, up to the end of the document or to an error.
Encode(p) ==
    /\ At(p, "encode") /\ To(p, "next")
    /\ SetFile(Name(p), run[p].buf)
    /\ UNCHANGED <<engine, src, db, before, cut>>

\* A file that was torn does not decode.
OpenFile(p) ==
    /\ At(p, "open")
    /\ IF run[p].op = "generate"
       THEN run' = [run EXCEPT ![p].buf = Item, ![p].at = "check"] /\ UNCHANGED cut
       ELSE LET items == files[Name(p)] IN
            IF items = {Torn} THEN To(p, "failed") /\ UNCHANGED cut
            ELSE /\ run' = [run EXCEPT ![p].buf = items, ![p].at = "check"]
                 /\ cut' = IF items = src[Name(p)] THEN cut ELSE cut \cup {<<p, Name(p)>>}
    /\ UNCHANGED <<engine, src, db, files, before>>

---------------------------------------------------------------------------
(* Put: the table is cleared or created, then the documents are imported.  *)

\* The listing decides; that of DynamoDB may not show the table.
FindTable(p) ==
    /\ At(p, "check")
    /\ \/ Name(p) \in exists /\ To(p, "clear")
       \/ /\ Name(p) \notin exists \/ (Is(p, "aws") /\ Cardinality(exists) > ListLimit)
          /\ To(p, "create")
    /\ UNCHANGED <<engine, src, db, files, before, cut>>

\* The documents to delete are read first, from a table that is there, then deleted.
StartErase(p) ==
    /\ At(p, IF run[p].op \in {"delete", "drop"} THEN "drop" ELSE "clear")
    /\ run' = [run EXCEPT ![p].at = "wait", ![p].job = "erase",
                          ![p].left = dst[Name(p)], ![p].broke = FALSE]
    /\ UNCHANGED <<engine, src, db, files, before, cut>>

DynamoClear(p)    == Is(p, "aws") /\ At(p, "clear") /\ Name(p) \in exists /\ StartErase(p)
FirestoreClear(p) == Is(p, "gcp") /\ StartErase(p)

\* DeleteMany; a failure may have deleted some.
MongoClear(p) ==
    /\ At(p, "clear")
    /\ \E rest \in SUBSET dst[Name(p)] :
          /\ Put(Name(p), rest)
          /\ Answer(p, IF rest = {} THEN "import" ELSE "failed")
    /\ UNCHANGED <<engine, src, files, before, cut>>

NcpClear(p)     == Is(p, "ncp")     /\ MongoClear(p)
AlibabaClear(p) == Is(p, "alibaba") /\ MongoClear(p)

Created(p) == IF run[p].op = "create" THEN "completed" ELSE "import"

\* A table that exists, or is being deleted, is an error, which the wait for "active"
\* does not hide; the wait may fail itself.
DynamoCreate(p) ==
    /\ Is(p, "aws") /\ At(p, "create")
    /\ Answer(p, IF Name(p) \in exists THEN "failed" ELSE Created(p))
    /\ exists' = exists \cup {Name(p)}
    /\ UNCHANGED <<engine, src, dst, dropping, files, before, cut>>

\* A collection comes to be with its first document, an empty one.
AddMarker(p, step) ==
    /\ At(p, "create") /\ Answer(p, step)
    /\ Put(Name(p), dst[Name(p)] \cup {<<Empty, p>>})
    /\ UNCHANGED <<engine, src, files, before, cut>>

FirestoreCreate(p) == Is(p, "gcp")     /\ AddMarker(p, Created(p))
NcpCreate(p)       == Is(p, "ncp")     /\ AddMarker(p, "mark")
AlibabaCreate(p)   == Is(p, "alibaba") /\ AddMarker(p, "mark")

\* DeleteOne without a filter: some document of the collection.
DropMarker(p) ==
    /\ At(p, "mark") /\ Answer(p, Created(p))
    /\ IF dst[Name(p)] = {} THEN UNCHANGED db
       ELSE \E d \in dst[Name(p)] : Put(Name(p), dst[Name(p)] \ {d})
    /\ UNCHANGED <<engine, src, files, before, cut>>

StartWrite(p) ==
    /\ At(p, "import")
    /\ run' = [run EXCEPT ![p].at = "wait", ![p].job = "write",
                          ![p].left = Copies(p), ![p].broke = FALSE]
    /\ UNCHANGED <<engine, src, db, files, before, cut>>

DynamoImport(p)    == Is(p, "aws") /\ StartWrite(p)
FirestoreImport(p) == Is(p, "gcp") /\ StartWrite(p)

\* InsertMany stops at its first error, which an _id that is taken is.
MongoImport(p) ==
    /\ At(p, "import")
    /\ LET new   == Copies(p)
           taken == new \cap dst[Name(p)] IN
       \E done \in SUBSET (new \ taken) :
          /\ Put(Name(p), dst[Name(p)] \cup done)
          /\ Answer(p, IF done = new THEN "next" ELSE "failed")
    /\ UNCHANGED <<engine, src, files, before, cut>>

NcpImport(p)     == Is(p, "ncp")     /\ MongoImport(p)
AlibabaImport(p) == Is(p, "alibaba") /\ MongoImport(p)

---------------------------------------------------------------------------
(* Documents written or deleted in parallel.                               *)

Apply(p, d, applied) ==
    IF applied
    THEN Put(Name(p), IF run[p].job = "write" THEN dst[Name(p)] \cup {d} ELSE dst[Name(p)] \ {d})
    ELSE UNCHANGED db

\* One of the parallel writes ends, in whatever way; it may have been applied
\* although it ends with an error.  DynamoDB has no table come to be with a document.
WriteEnds(p) ==
    \E d \in run[p].left, applied \in BOOLEAN, ok \in BOOLEAN :
        /\ ok => applied
        /\ applied /\ Is(p, "aws") => Name(p) \in exists
        /\ Apply(p, d, applied)
        /\ run' = [run EXCEPT ![p].left = @ \ {d}, ![p].broke = @ \/ ~ok]
        /\ UNCHANGED <<engine, src, files, before, cut>>

\* Given up after eight attempts, or cancelled because another batch failed.
writeBatchWithRetry(p) == Is(p, "aws") /\ WriteEnds(p)

\* Also what is queued when the task has failed.
BulkWrite(p) == Is(p, "gcp") /\ run[p].job = "write" /\ WriteEnds(p)

\* Firestore's documents are deleted one after another, up to the first error.
DeleteDocument(p) ==
    /\ Is(p, "gcp") /\ At(p, "wait") /\ run[p].job = "erase"
    /\ \E d \in run[p].left, applied \in BOOLEAN, ok \in BOOLEAN :
          /\ ok => applied
          /\ Apply(p, d, applied)
          /\ run' = [run EXCEPT ![p].left = @ \ {d}, ![p].at = IF ok THEN @ ELSE "failed"]
    /\ UNCHANGED <<engine, src, files, before, cut>>

\* What comes after the parallel part.
Then(p) ==
    IF run[p].job = "write" THEN IF Is(p, "gcp") THEN "sweep" ELSE "next"
    ELSE IF run[p].op \in {"delete", "drop"} THEN "next" ELSE "import"

\* Mutant: the first error is answered at once.
Wait_First(p) ==
    /\ At(p, "wait")
    /\ run[p].broke \/ run[p].left = {}
    /\ To(p, IF run[p].broke THEN "failed" ELSE Then(p))
    /\ UNCHANGED <<engine, src, db, files, before, cut>>

\* g.Wait waits for all.  The results of a BulkWriter are awaited one after another,
\* up to the first error.
Awaited(p) == \/ run[p].left = {}
              \/ Is(p, "gcp") /\ run[p].job = "write" /\ run[p].broke

\* g.Wait, the results of a BulkWriter, the end of Firestore's deletions.
Wait(p) ==
    /\ At(p, "wait") /\ Awaited(p)
    /\ To(p, IF run[p].broke THEN "failed" ELSE Then(p))
    /\ UNCHANGED <<engine, src, db, files, before, cut>>

\* Firestore's import deletes the empty documents of the collection.
Sweep(p) ==
    /\ At(p, "sweep")
    /\ LET empty == {d \in dst[Name(p)] : d[1] = Empty} IN
       IF empty = {} THEN To(p, "next") /\ UNCHANGED db
       ELSE /\ \E d \in empty : Put(Name(p), dst[Name(p)] \ {d})
            /\ Answer(p, "sweep")
    /\ UNCHANGED <<engine, src, files, before, cut>>

\* DeleteTable answers when DynamoDB has begun to delete a table that is there ...
DynamoDrop(p) ==
    /\ Is(p, "aws") /\ At(p, "drop") /\ Name(p) \in exists
    /\ Answer(p, "next")
    /\ dropping' = dropping \cup {Name(p)}
    /\ UNCHANGED <<engine, src, exists, dst, files, before, cut>>

\* ... which goes later, with what is in it, also what is written until then.
DynamoGone(t) ==
    /\ t \in dropping
    /\ dropping' = dropping \ {t} /\ exists' = exists \ {t} /\ dst' = [dst EXCEPT ![t] = {}]
    /\ UNCHANGED <<engine, src, files, run, before, cut>>

\* A collection goes with what is in it, whether it is there or not.
DropCollection(p) ==
    /\ At(p, "drop")
    /\ Answer(p, "next")
    /\ dst' = [dst EXCEPT ![Name(p)] = {}] /\ exists' = exists \ {Name(p)}
    /\ UNCHANGED <<engine, src, dropping, files, before, cut>>

NcpDrop(p)     == Is(p, "ncp")     /\ DropCollection(p)
AlibabaDrop(p) == Is(p, "alibaba") /\ DropCollection(p)

---------------------------------------------------------------------------
Start(p) ==
    \/ handleNRDBMSMigrateTask(p) \/ handleNRDBMSBackupTask(p)
    \/ handleNRDBMSRestoreTask(p) \/ handleNRDBMSDeleteTask(p)
    \/ GenerateNRDBMSPostHandler(p)
    \/ NRDBMSCreateTableHandler(p) \/ NRDBMSDeleteTableHandler(p)

Reading(p) ==
    \/ DynamoListTables(p) \/ FirestoreListTables(p) \/ NcpListTables(p)
    \/ AlibabaListTables(p) \/ WalkFiles(p)
    \/ Next1(p)
    \/ DynamoExport(p) \/ FirestoreExport(p) \/ NcpExport(p) \/ AlibabaExport(p)
    \/ CreateFile(p) \/ Encode(p) \/ OpenFile(p)

Writing(p) ==
    \/ FindTable(p)
    \/ DynamoClear(p) \/ FirestoreClear(p) \/ NcpClear(p) \/ AlibabaClear(p)
    \/ DynamoCreate(p) \/ FirestoreCreate(p) \/ NcpCreate(p) \/ AlibabaCreate(p)
    \/ DropMarker(p)
    \/ DynamoImport(p) \/ FirestoreImport(p) \/ NcpImport(p) \/ AlibabaImport(p)
    \/ writeBatchWithRetry(p) \/ BulkWrite(p) \/ DeleteDocument(p) \/ Wait(p) \/ Sweep(p)
    \/ DynamoDrop(p) \/ NcpDrop(p) \/ AlibabaDrop(p)

Work(p) == Reading(p) \/ Writing(p) \/ Fail(p)

Next == \/ \E p \in Task : Start(p) \/ Work(p)
        \/ \E t \in Table : DynamoGone(t)

Spec == Init /\ [][Next]_vars

---------------------------------------------------------------------------
(* Properties.                                                             *)

Writers   == {"migrate", "restore", "generate"}
Reached(p) == run[p].list \ run[p].todo
Wrote(p)  == run[p].op \notin {"none", "backup"}
\* No other task has begun to write the table.
Alone(p, t) == \A q \in Task \ {p} : Wrote(q) => t \notin Reached(q)
Wanted(p, t) == IF run[p].op = "generate" THEN Item ELSE src[t]
Items(t)  == {d[1] : d \in dst[t]}

\* A task that ended well has delivered each table it listed, whole, once and
\* without what was there before, if it read the table whole and no other task
\* wrote it; a file of a backup likewise.  (nrdbc.go: Copy, Put; task.go)
SuccessIsExact ==
    \A p \in Task : At(p, "completed") => \A t \in {x \in run[p].list : <<p, x>> \notin cut} :
        /\ run[p].op \in Writers /\ Alone(p, t) =>
             Items(t) = Wanted(p, t) /\ Cardinality(dst[t]) = Cardinality(Wanted(p, t))
        /\ run[p].op = "backup" /\ (\A q \in Task \ {p} : run[q].op # "backup") =>
             t \in DOMAIN files /\ files[t] = src[t]

\* Two tasks that bring the same documents to one table at once may leave it
\* with copies of both, but nothing of what they promised is missing.
SuccessKeepsAll ==
    \A p \in Task : At(p, "completed") /\ run[p].op \in Writers =>
        \A t \in run[p].list :
            (\A q \in Task : Wrote(q) /\ t \in Reached(q) =>
                At(q, "completed") /\ run[q].op \in Writers /\ <<q, t>> \notin cut
                    /\ Wanted(q, t) = Wanted(p, t))
            => Wanted(p, t) \subseteq Items(t)

\* The success of a task is what it says, alone and next to others.
SuccessDelivers == SuccessIsExact /\ SuccessKeepsAll

\* A task that failed has not touched the tables it did not reach: a table that
\* exists loses its documents only when its own turn comes.
UntouchedUntilReached ==
    \A t \in Table : (\A p \in Task : Wrote(p) => t \notin Reached(p)) => dst[t] = before[t]

\* The target changes for the table that some task is at.  What a task that has ended
\* started goes on in two cases only: DynamoDB deletes a table as it was asked to, and
\* writes that a failed import of Firestore left queued are sent.
Falls(t) == /\ engine[2] = "aws" /\ t \notin exists'
            /\ \E q \in Task : run[q].op \in {"delete", "drop"} /\ t \in Reached(q)
Flushes(t) == \E p \in Task :
    /\ engine[2] = "gcp" /\ Name(p) = t /\ At(p, "failed") /\ run[p].op \in Writers
    /\ dst[t] \subseteq dst'[t] /\ dst'[t] \subseteq dst[t] \cup Copies(p)
NothingElseAfterTheEnd ==
    [][\A t \in Table : dst[t] # dst'[t] =>
          \/ \E p \in Task : Name(p) = t /\ run[p].at \notin Ended
          \/ Falls(t) \/ Flushes(t)]_vars

\* What a caller may take the end of a task for: the target changes only for the table
\* that some task is at.
NothingAfterTheEnd ==
    [][\A t \in Table : dst[t] # dst'[t] => \E p \in Task : Name(p) = t /\ run[p].at \notin Ended]_vars

\* What the documentation of the request says: creating a table that exists
\* changes nothing.  (nrdbmsHandlers.go: NRDBMSCreateTableHandler)
CreateIsNoOp ==
    \A p \in Task : run[p].op = "create" /\ At(p, "completed") =>
        \A t \in run[p].list : before[t] # {} /\ Alone(p, t) => dst[t] = before[t]

===============================================================================
