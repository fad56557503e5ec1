------------------------------ MODULE RdbTransfer ------------------------------
(***************************************************************************)
(* The transfers of service/rdbc: a MySQL database is read table by table  *)
(* into one script, which is run at the target at once or is kept as a     *)
(* file and run later.  A script that fails is run a second time from its  *)
(* start, in the form that the databases of NCP ask for.  Nothing locks    *)
(* the source or the target, and tasks run at the same time.               *)
(***************************************************************************)
EXTENDS Naturals, Sequences, FiniteSets, SequencesExt

CONSTANTS
    Task, Database, Table, Row,
    Old,         \* a row that the target held before
    ReadBack,    \* what is read back of a row whose INSERT was executed
    None,
    Keyed,       \* tables with a primary key
    Schemas,     \* the sets of tables that the source's databases may have
    Ops,         \* what tasks do
    Writes       \* changes of the source by its users

ASSUME TableAssumption  == IsFiniteSet(Table) /\ Keyed \subseteq Table
ASSUME RowAssumption    == IsFiniteSet(Row) /\ DOMAIN ReadBack = Row /\ Old \notin Row
ASSUME SchemaAssumption == Schemas \subseteq SUBSET Table
ASSUME WritesAssumption == Writes \in Nat

VARIABLES
    ncp,         \* the target is a server of NCP
    src,         \* the rows of each table of the database that is read
    writes,      \* changes of the source so far
    dst,         \* the databases of the target, each a function from tables to rows
    files,       \* the directory of the backup: a function from databases to scripts
    run,         \* what each task is doing
    \* History, which no action reads:
    before,      \* dst at first
    stable, ever,\* rows that were in the source all the time, rows that were at some time
    named,       \* tables that the scripts of a task have named, databases it has dropped
    cut          \* tasks whose reading may have missed something

source == <<src, writes, stable, ever>>
vars   == <<ncp, source, dst, files, run, before, named, cut>>

\* Backslashes in a row are read as escapes: it is not what it was.
Value == {ReadBack[r] : r \in Row}

\* Statements of a script; that which creates the database has two forms.
Stmt(kind, d, t, r) == [kind |-> kind, db |-> d, table |-> t, row |-> r]
Creating == {"create database", "ncp_create_db"}
Filling  == {"insert", "append"}
Stmts == [kind  : Creating \cup {"use", "drop", "create"} \cup Filling,
          db    : Database, table : Table \cup {None}, row : Value \cup {None}]

\* A row of the target, with the task and the attempt that wrote it.
Stored == (Value \cup {Old}) \X (Task \cup {None}) \X BOOLEAN

Idle == [at |-> "idle", op |-> "none", db |-> None, todo |-> {}, dbs |-> {},
         script |-> <<>>, pc |-> 1, again |-> FALSE, use |-> None]

Ended == {"completed", "failed"}

Runs == [at     : {"idle", "list", "read", "write", "next", "exec", "drop"} \cup Ended,
         op     : {"none", "migrate", "backup", "restore", "generate", "delete"},
         db     : Database \cup {None}, todo : SUBSET Table, dbs : SUBSET Database,
         script : Seq(Stmts), pc : Nat \ {0}, again : BOOLEAN, use : Database \cup {None}]

TypeOK ==
    /\ ncp \in BOOLEAN /\ DOMAIN src \in Schemas /\ src \in [DOMAIN src -> SUBSET Row]
    /\ writes \in 0 .. Writes
    /\ DOMAIN dst \subseteq Database
    /\ \A d \in DOMAIN dst : DOMAIN dst[d] \subseteq Table
                             /\ \A t \in DOMAIN dst[d] : dst[d][t] \subseteq Stored
    /\ DOMAIN files \subseteq Database
    /\ \A d \in DOMAIN files : files[d] \in Seq(Stmts)
    /\ run \in [Task -> Runs]
    /\ \A p \in Task : run[p].pc <= Len(run[p].script) + 1
    /\ stable \subseteq Table \X Row /\ ever \subseteq Table \X Row
    /\ named \in [Task -> SUBSET (Database \X Table)] /\ cut \subseteq Task

---------------------------------------------------------------------------
(* Scripts.                                                                *)

\* sqlWrite of ShowCreateDBSql and USE.
Head1(d, form) == <<Stmt(form, d, None, None), Stmt("use", d, None, None)>>

\* Parts of k statements each, one after another.
Joined(parts, k) == [i \in 1 .. k * Len(parts) |-> parts[((i - 1) \div k) + 1][((i - 1) % k) + 1]]

DropCreate(d, t) == <<Stmt("drop", d, t, None), Stmt("create", d, t, None)>>

\* Mutant: the target is cleared of every table.
Frame_All(d, tables) ==
    Joined([i \in 1 .. Cardinality(Table) |-> DropCreate(d, SetToSeq(Table)[i])], 2)

\* The tables are dropped and created first, all of them.
Frame(d, tables) == Joined([i \in DOMAIN tables |-> DropCreate(d, tables[i])], 2)

\* ReplaceEscapeString doubles quotes and leaves backslashes alone.
ReplaceEscapeString(r) == ReadBack[r]

Inserts(kind, d, t, rows) ==
    [i \in 1 .. Cardinality(rows) |-> Stmt(kind, d, t, ReplaceEscapeString(SetToSeq(rows)[i]))]

\* ListTable; the server gives some order.
InOrder(tables) == SetToSeq(tables)

\* A file of the dummy data, one table after another; the keys are given by the server.
createSql(d) ==
    Head1(d, "create database")
    \o Joined([i \in 1 .. Cardinality(Table) |->
                  DropCreate(d, InOrder(Table)[i]) \o Inserts("append", d, InOrder(Table)[i], Row)],
              Cardinality(Row) + 2)

\* A file of an earlier backup.
Saved(d, tables) ==
    Head1(d, "create database") \o Frame(d, tables)
    \o Joined([i \in DOMAIN tables |-> Inserts("insert", d, tables[i], Row)], Cardinality(Row))

\* FormatNCPDatabaseCreateSQL: only for a server of NCP.
FormatNCPDatabaseCreateSQL(script) ==
    [i \in DOMAIN script |->
        IF ncp /\ script[i].kind = "create database"
        THEN [script[i] EXCEPT !.kind = "ncp_create_db"] ELSE script[i]]

Init ==
    /\ ncp \in BOOLEAN
    /\ \E tables \in Schemas : src = [t \in tables |-> Row]
    /\ writes = 0
    /\ \E dbs \in SUBSET Database, tables \in {{}, Table} :
          dst = [d \in dbs |-> [t \in tables |-> {<<Old, None, FALSE>>}]]
    \* an earlier backup of every database, or none
    /\ \E dbs \in {{}, Database}, tables \in Schemas :
          files = [d \in dbs |-> Saved(d, InOrder(tables))]
    /\ run = [p \in Task |-> Idle]
    /\ before = dst
    /\ stable = {x \in Table \X Row : x[1] \in DOMAIN src /\ x[2] \in src[x[1]]}
    /\ ever = stable
    /\ named = [p \in Task |-> {}]
    /\ cut = {}

---------------------------------------------------------------------------
(* The users of the source.                                                *)

Change(t, rows) ==
    /\ writes < Writes /\ writes' = writes + 1
    /\ src' = [src EXCEPT ![t] = rows]
    /\ stable' = {x \in stable : x[1] = t => x[2] \in rows}
    /\ ever' = ever \cup ({t} \X rows)
    /\ UNCHANGED <<ncp, dst, files, run, before, named, cut>>

UserWrites == \E t \in DOMAIN src, r \in Row : Change(t, src[t] \cup {r}) \/ Change(t, src[t] \ {r})

---------------------------------------------------------------------------
(* Steps of a task.                                                        *)

At(p, step)  == run[p].at = step
Set(p, step) == run' = [run EXCEPT ![p].at = step]
\* The end of a task; nothing is left to do.
Close(r, end) == [r EXCEPT !.at = end, !.todo = {}, !.dbs = {}, !.script = <<>>, !.pc = 1,
                           !.again = FALSE, !.use = None]
End(p, end)   == run' = [run EXCEPT ![p] = Close(@, end)]
world        == <<ncp, source, dst, files, before, named, cut>>

\* GetRDMS may fail to connect; then nothing is done.
Begin(p, op, d, first) ==
    /\ At(p, "idle") /\ op \in Ops
    /\ \/ run' = [run EXCEPT ![p].op = op, ![p].db = d, ![p].at = first]
       \/ run' = [run EXCEPT ![p].op = op, ![p].db = d, ![p].at = "failed"]
    /\ UNCHANGED world

handleRDBMSMigrateTask(p) == \E d \in Database : Begin(p, "migrate", d, "list")
handleRDBMSBackupTask(p)  == \E d \in Database : Begin(p, "backup", d, "list")
handleRDBMSDeleteTask(p)  == Begin(p, "delete", None, "list")

\* The files are listed before the first of them is read.
handleRDBMSRestoreTask(p) ==
    /\ At(p, "idle") /\ "restore" \in Ops
    /\ run' = [run EXCEPT ![p].op = "restore", ![p].at = "next", ![p].dbs = DOMAIN files]
    /\ UNCHANGED world

\* Files of its own, one for each database of the dummy data.
handleRDBMSGenerateTask(p) ==
    \E dbs \in SUBSET Database :
        /\ At(p, "idle") /\ "generate" \in Ops
        /\ run' = [run EXCEPT ![p].op = "generate", ![p].at = "next", ![p].dbs = dbs]
        /\ UNCHANGED world

\* Any call may fail without effect.
Fail(p) ==
    /\ run[p].at \in {"list", "read", "next", "drop"}
    /\ End(p, "failed") /\ UNCHANGED world

---------------------------------------------------------------------------
(* Get, and the file.                                                      *)

\* ShowCreateDBSql and ListTable; rows.Next ends at an error as at the end.
ListTable(p) ==
    /\ At(p, "list") /\ run[p].op \in {"migrate", "backup"}
    /\ \E tables \in SUBSET DOMAIN src :
          /\ run' = [run EXCEPT ![p].at = "read", ![p].todo = tables, ![p].script =
                Head1(run[p].db, IF ncp /\ run[p].op = "migrate" THEN "ncp_create_db"
                                 ELSE "create database") \o Frame(run[p].db, InOrder(tables))]
          /\ cut' = IF tables = DOMAIN src THEN cut ELSE cut \cup {p}
    /\ UNCHANGED <<ncp, source, dst, files, before, named>>

\* One SELECT for each table, each at its own time.
GetInsert(p) ==
    /\ At(p, "read")
    /\ \E t \in run[p].todo : \E rows \in SUBSET src[t] :
          /\ run' = [run EXCEPT ![p].todo = @ \ {t},
                                ![p].script = @ \o Inserts("insert", run[p].db, t, rows)]
          /\ cut' = IF rows = src[t] THEN cut ELSE cut \cup {p}
    /\ UNCHANGED <<ncp, source, dst, files, before, named>>

\* Put of a script, or of what a file holds.
Put(p, script, left, tables) ==
    /\ run' = [run EXCEPT ![p].at = "exec", ![p].script = script, ![p].pc = 1,
                          ![p].again = FALSE, ![p].dbs = left]
    /\ named' = [named EXCEPT ![p] = @ \cup tables]

Copy(p) ==
    /\ At(p, "read") /\ run[p].todo = {} /\ run[p].op = "migrate"
    /\ Put(p, run[p].script, {}, {run[p].db} \X DOMAIN src)
    /\ UNCHANGED <<ncp, source, dst, files, before, cut>>

\* What a file holds from now on.
Write(d, script) == files' = [x \in DOMAIN files \cup {d} |-> IF x = d THEN script ELSE files[x]]

CreateFile(p) ==
    /\ At(p, "read") /\ run[p].todo = {} /\ run[p].op = "backup"
    /\ Set(p, "write") /\ Write(run[p].db, <<>>)
    /\ UNCHANGED <<ncp, source, dst, before, named, cut>>

\* The file is written whole, or up to some statement.
WriteString(p) ==
    /\ At(p, "write")
    /\ \E n \in 0 .. Len(run[p].script) :
          /\ Write(run[p].db, SubSeq(run[p].script, 1, n))
          /\ End(p, IF n = Len(run[p].script) THEN "completed" ELSE "failed")
    /\ UNCHANGED <<ncp, source, dst, before, named, cut>>

\* A script names tables from its third statement on.
ReadFile(p) ==
    /\ At(p, "next")
    /\ IF run[p].dbs = {}
       THEN End(p, "completed") /\ UNCHANGED named
       ELSE \E d \in run[p].dbs :
              LET script == IF run[p].op = "restore" THEN files[d] ELSE createSql(d) IN
              Put(p, script, run[p].dbs \ {d}, {d} \X {script[i].table : i \in 3 .. Len(script)})
    /\ UNCHANGED <<ncp, source, dst, files, before, cut>>

---------------------------------------------------------------------------
(* Exec.                                                                   *)

Now(p) == run[p].script[run[p].pc]

Has(d, t)    == d \in DOMAIN dst /\ t \in DOMAIN dst[d]
RowsOf(d, t) == IF Has(d, t) THEN dst[d][t] ELSE {}

SetTable(d, t, rows) ==
    dst' = [dst EXCEPT ![d] = [u \in DOMAIN @ \cup {t} |-> IF u = t THEN rows ELSE @[u]]]
WithoutTable(d, t) ==
    dst' = [dst EXCEPT ![d] = [u \in DOMAIN @ \ {t} |-> @[u]]]
CreateDatabase(d) ==
    dst' = [x \in DOMAIN dst \cup {d} |-> IF x \in DOMAIN dst THEN dst[x] ELSE [t \in {} |-> {}]]

\* What the server makes of a statement, when it is in database `d'.
Accepted(p, stmt, d) ==
    \/ /\ stmt.kind = (IF ncp THEN "ncp_create_db" ELSE "create database")
       /\ CreateDatabase(stmt.db)
    \/ /\ stmt.kind = "use" /\ stmt.db \in DOMAIN dst
       /\ UNCHANGED dst
    \/ /\ stmt.kind = "drop" /\ d \in DOMAIN dst
       /\ WithoutTable(d, stmt.table)
    \/ /\ stmt.kind = "create" /\ d \in DOMAIN dst /\ ~ Has(d, stmt.table)
       /\ SetTable(d, stmt.table, {})
    \/ /\ stmt.kind \in Filling /\ Has(d, stmt.table)
       /\ stmt.kind = "insert" /\ stmt.table \in Keyed =>
              \A x \in RowsOf(d, stmt.table) : x[1] # stmt.row
       /\ SetTable(d, stmt.table, RowsOf(d, stmt.table) \cup {<<stmt.row, p, run[p].again>>})

\* The next statement of the script; the connection keeps the database of USE.
Statement(p) ==
    /\ At(p, "exec") /\ run[p].pc <= Len(run[p].script)
    /\ Accepted(p, Now(p), run[p].use)
    /\ run' = [run EXCEPT ![p].pc = @ + 1,
                          ![p].use = IF Now(p).kind = "use" THEN Now(p).db ELSE @]
    /\ UNCHANGED <<ncp, source, files, before, named, cut>>

\* The first attempt has failed: once more from the start, maybe on a new connection.
Again(p) ==
    \E use \in {run[p].use, None} :
        run' = [run EXCEPT ![p].again = TRUE, ![p].pc = 1, ![p].use = use,
                           ![p].script = FormatNCPDatabaseCreateSQL(@)]

\* The script is through: the end of a migration, or the next file.
Through(p) == IF run[p].op = "migrate" THEN End(p, "completed")
              ELSE run' = [run EXCEPT ![p].at = "next", ![p].script = <<>>, ![p].pc = 1,
                                      ![p].again = FALSE]

\* Mutant: the error of the second attempt is dropped with the first.
Refused_Forgotten(p) ==
    /\ At(p, "exec")
    /\ IF run[p].again THEN Through(p) ELSE Again(p)
    /\ UNCHANGED world

\* A statement is refused, the connection is lost, or the answer is.
Refused(p) ==
    /\ At(p, "exec")
    /\ IF run[p].again THEN End(p, "failed") ELSE Again(p)
    /\ UNCHANGED world

\* All statements were accepted.  An empty script is an error.
Done(p) ==
    /\ At(p, "exec") /\ run[p].pc = Len(run[p].script) + 1 /\ run[p].script # <<>>
    /\ Through(p)
    /\ UNCHANGED world

---------------------------------------------------------------------------
(* Deletion of all databases of the target.                                *)

ListDB(p) ==
    /\ At(p, "list") /\ run[p].op = "delete"
    /\ \E dbs \in SUBSET DOMAIN dst :
          /\ run' = [run EXCEPT ![p].at = "drop", ![p].dbs = dbs]
          /\ cut' = IF dbs = DOMAIN dst THEN cut ELSE cut \cup {p}
    /\ UNCHANGED <<ncp, source, dst, files, before, named>>

DeleteDB(p) ==
    /\ At(p, "drop")
    /\ IF run[p].dbs = {} THEN End(p, "completed") /\ UNCHANGED <<dst, named>>
       ELSE \E d \in run[p].dbs :
              /\ run' = [run EXCEPT ![p].dbs = @ \ {d}]
              /\ dst' = [x \in DOMAIN dst \ {d} |-> dst[x]]
              /\ named' = [named EXCEPT ![p] = @ \cup ({d} \X Table)]
    /\ UNCHANGED <<ncp, source, files, before, cut>>

---------------------------------------------------------------------------
Start(p) ==
    \/ handleRDBMSMigrateTask(p) \/ handleRDBMSBackupTask(p) \/ handleRDBMSDeleteTask(p)
    \/ handleRDBMSRestoreTask(p) \/ handleRDBMSGenerateTask(p)

Work(p) ==
    \/ ListTable(p) \/ GetInsert(p) \/ Copy(p) \/ CreateFile(p) \/ WriteString(p) \/ ReadFile(p)
    \/ Statement(p) \/ Refused(p) \/ Done(p) \/ ListDB(p) \/ DeleteDB(p) \/ Fail(p)

Next == UserWrites \/ \E p \in Task : Start(p) \/ Work(p)

Spec == Init /\ [][Next]_vars

---------------------------------------------------------------------------
(* Properties.                                                             *)

Alone(p, d)  == \A q \in Task \ {p} : \A x \in named[q] : x[1] # d
Values(d, t) == {x[1] : x \in RowsOf(d, t)}
Once(d, t)   == \A x, y \in RowsOf(d, t) : x[1] = y[1] => x = y
Read(rows)   == {ReadBack[r] : r \in rows}
OfTable(pairs, t)  == {x[2] : x \in {y \in pairs : y[1] = t}}
Inserted(script, t) == {script[i].row : i \in {j \in DOMAIN script :
                          script[j].kind \in Filling /\ script[j].table = t}}
Created(script)    == {script[i].table : i \in {j \in DOMAIN script : script[j].kind = "create"}}
FileRows(d, t)     == Inserted(files[d], t)
NoBackup(d)        == \A q \in Task : run[q].op = "backup" => run[q].db # d

\* The least and the most that a task may leave in a table of a database.
AtLeast(p, d, t) == CASE run[p].op = "restore"  -> FileRows(d, t)
                      [] run[p].op = "generate" -> Value
                      [] OTHER                  -> Read(OfTable(stable, t))
AtMost(p, d, t)  == CASE run[p].op = "restore"  -> FileRows(d, t)
                      [] run[p].op = "generate" -> Value
                      [] OTHER                  -> Read(OfTable(ever, t))

Writers == {"migrate", "restore", "generate"}

\* A task that ended well has brought every table whole and each row once,
\* whatever its first attempt had done, without rows that were there before
\* and without rows that never were in the source.  Rows that users changed
\* meanwhile may be missing.  (mysql.go: Exec, GetInsert; rdbc.go: Get)
SuccessIsExact ==
    \A p \in Task : At(p, "completed") /\ p \notin cut =>
        /\ run[p].op \in Writers => \A x \in named[p] :
             (Alone(p, x[1]) /\ (run[p].op = "restore" => NoBackup(x[1]))) =>
                /\ Has(x[1], x[2]) /\ Once(x[1], x[2])
                /\ AtLeast(p, x[1], x[2]) \subseteq Values(x[1], x[2])
                /\ Values(x[1], x[2]) \subseteq AtMost(p, x[1], x[2])
        /\ run[p].op = "delete" /\ (\A q \in Task \ {p} : run[q].op \notin Writers)
           => DOMAIN dst = {}

\* A backup that ended well has left a file that brings back every table.
BackupIsWhole ==
    \A p \in Task :
        /\ At(p, "completed") /\ p \notin cut /\ run[p].op = "backup"
        /\ \A q \in Task \ {p} : run[q].op = "backup" => run[q].db # run[p].db
        => LET d == run[p].db IN
            /\ d \in DOMAIN files /\ Created(files[d]) = DOMAIN src
            /\ \A t \in DOMAIN src : /\ AtLeast(p, d, t) \subseteq FileRows(d, t)
                                     /\ FileRows(d, t) \subseteq AtMost(p, d, t)

\* Tasks that wrote one table in turns and all ended well have left at least
\* what one of them had to bring: DROP, CREATE and INSERT of scripts that run
\* at once cannot cancel each other out.
SuccessKeepsAll ==
    \A d \in Database, t \in Table :
        LET by == {p \in Task : \E x \in named[p] : x[1] = d} IN
        (/\ \E p \in by : <<d, t>> \in named[p]
         /\ \A p \in by : At(p, "completed") /\ p \notin cut /\ run[p].op \in Writers
                            /\ (run[p].op = "restore" => NoBackup(d)))
        => \E p \in by : <<d, t>> \in named[p] /\ AtLeast(p, d, t) \subseteq Values(d, t)

\* The success of a task is what it says: of a transfer, of a backup, next to others.
SuccessDelivers == SuccessIsExact /\ BackupIsWhole /\ SuccessKeepsAll

\* Tables that the source does not have, and databases whose turn has not
\* come, are as they were, whatever failed and was tried again.
OthersUntouched ==
    \A d \in Database, t \in Table :
        (\A p \in Task : <<d, t>> \notin named[p]) =>
            RowsOf(d, t) = IF d \in DOMAIN before /\ t \in DOMAIN before[d] THEN before[d][t] ELSE {}

\* What the comment on Get says: all data of the database is exported.
\* (rdbc.go: "Export all data in database")
EveryRowCarried ==
    \A p \in Task : At(p, "completed") /\ run[p].op = "migrate" /\ p \notin cut /\ Alone(p, run[p].db) =>
        \A t \in DOMAIN src : OfTable(stable, t) \subseteq Values(run[p].db, t)

===============================================================================
