---------------------------- MODULE BackupCatalogue ----------------------------
(***************************************************************************)
(* The catalogue of backups: rows of tbbackup against directories.  A      *)
(* request makes a directory, a row and then the files, by a task that it  *)
(* waits for, and settles the status of the row; others restore from the   *)
(* files or delete row and files.  Requests run at the same time and may   *)
(* be cut off by a crash.                                                  *)
(***************************************************************************)
EXTENDS Naturals, FiniteSets

CONSTANTS
    Backup,      \* requests to create a backup, also the ids they draw
    Client,      \* requests to restore or delete one
    Name,        \* names of backups
    Part,        \* what a backup consists of: objects, tables or databases
    Types,       \* services whose data are saved
    Nobody       \* stands for no backup

ASSUME TypesAssumption  == Types \subseteq {"objectstorage", "rdbms", "nrdbms"}
ASSUME NobodyAssumption == Nobody \notin Backup

VARIABLES
    rows,        \* tbbackup: a function from ids to name, type and status
    dir,         \* the directories: a function from ids to their files
    job,         \* requests to create
    req,         \* requests to restore or delete
    \* History, which no action reads:
    crashed,     \* requests that a crash has ended
    holes,       \* backups of object storage of which an object failed
    unmarked,    \* backups whose status could not be written
    stray        \* directories that an error or a crash has left behind

vars == <<rows, dir, job, req, crashed, holes, unmarked, stray>>

Steps == {"idle", "check", "mkdir", "insert", "run", "copy", "write", "end", "mark",
          "refused", "failed", "answered"}
Moves == {"idle", "row", "files", "find", "walk", "read", "failed", "done"}
Over  == {"refused", "failed", "answered", "done"}

TypeOK ==
    /\ DOMAIN rows \subseteq Backup /\ DOMAIN dir \subseteq Backup
    /\ \A b \in DOMAIN rows : rows[b] \in
          [name : Name, type : Types, status : {"in_progress", "completed", "failed"}]
    /\ \A b \in DOMAIN dir : DOMAIN dir[b] \subseteq Part
                             /\ \A x \in DOMAIN dir[b] : dir[b][x] \in {"torn", "whole"}
    /\ job \in [Backup -> [at : Steps, name : Name \cup {Nobody}, type : Types \cup {"none"},
                           left : SUBSET Part, open : SUBSET Part, ok : BOOLEAN]]
    /\ req \in [Client -> [at : Moves, id : Backup \cup {Nobody}, list : SUBSET Part,
                           got : SUBSET (Part \X {"torn", "whole"}), ok : BOOLEAN]]
    /\ crashed \subseteq Backup \cup Client
    /\ holes \subseteq Backup /\ unmarked \subseteq Backup /\ stray \subseteq Backup
    \* the unique index idx_ns_type_name
    /\ \A b, c \in DOMAIN rows :
          rows[b].name = rows[c].name /\ rows[b].type = rows[c].type => b = c

Init ==
    /\ rows = <<>> /\ dir = <<>>
    /\ job = [b \in Backup |-> [at |-> "idle", name |-> Nobody, type |-> "none", left |-> {},
                                open |-> {}, ok |-> TRUE]]
    /\ req = [c \in Client |-> [at |-> "idle", id |-> Nobody, list |-> {}, got |-> {}, ok |-> TRUE]]
    /\ crashed = {} /\ holes = {} /\ unmarked = {} /\ stray = {}

---------------------------------------------------------------------------
Set(f, k, v)   == [x \in DOMAIN f \cup {k} |-> IF x = k THEN v ELSE f[x]]
Without(f, k)  == [x \in DOMAIN f \ {k} |-> f[x]]
Present(b)     == b \in DOMAIN dir
To(b, step)    == job' = [job EXCEPT ![b].at = step]
Taken(b)       == \E c \in DOMAIN rows : rows[c].name = job[b].name /\ rows[c].type = job[b].type

(* CreateBackup.                                                           *)

\* BackupOSPostHandler, BackupRDBPostHandler, BackupNRDBPostHandler: one for each type.
Post(b, type) ==
    /\ job[b].at = "idle" /\ type \in Types
    /\ \E n \in Name : job' = [job EXCEPT ![b].at = "check", ![b].name = n, ![b].type = type]
    /\ UNCHANGED <<rows, dir, req, crashed, holes, unmarked, stray>>

BackupOSPostHandler(b)   == Post(b, "objectstorage")
BackupRDBPostHandler(b)  == Post(b, "rdbms")
BackupNRDBPostHandler(b) == Post(b, "nrdbms")

\* Mutant: the directory is made first.
CheckDuplicate_AfterMkdir(b) ==
    /\ job[b].at = "check"
    /\ To(b, IF Taken(b) THEN "refused" ELSE "mkdir")
    /\ dir' = Set(dir, b, <<>>)
    /\ UNCHANGED <<rows, req, crashed, holes, unmarked, stray>>

\* A count that fails counts nothing.
CheckDuplicate(b) ==
    /\ job[b].at = "check"
    /\ \/ Taken(b) /\ To(b, "refused")
       \/ To(b, "mkdir")
    /\ UNCHANGED <<rows, dir, req, crashed, holes, unmarked, stray>>

MkdirAll(b) ==
    /\ job[b].at = "mkdir"
    /\ \/ To(b, "insert") /\ dir' = Set(dir, b, <<>>)
       \/ To(b, "refused") /\ UNCHANGED dir
    /\ UNCHANGED <<rows, req, crashed, holes, unmarked, stray>>

\* Mutant: without the unique index.
CreateBackup_NoIndex(b) ==
    /\ job[b].at = "insert"
    /\ To(b, "run")
    /\ rows' = Set(rows, b, [name |-> job[b].name, type |-> job[b].type, status |-> "in_progress"])
    /\ UNCHANGED <<dir, req, crashed, holes, unmarked, stray>>

\* The insert fails for a name that is taken, or for any reason.
CreateBackup(b) ==
    /\ job[b].at = "insert"
    /\ \/ /\ ~Taken(b)
          /\ To(b, "run")
          /\ rows' = Set(rows, b, [name |-> job[b].name, type |-> job[b].type,
                                   status |-> "in_progress"])
          /\ UNCHANGED stray
       \/ To(b, "refused") /\ stray' = stray \cup {b} /\ UNCHANGED rows
    /\ UNCHANGED <<dir, req, crashed, holes, unmarked>>

---------------------------------------------------------------------------
(* The task that makes the files.                                          *)

\* A directory that is made again after its row was deleted has no owner.
Orphan(b) == IF b \in DOMAIN rows THEN UNCHANGED stray ELSE stray' = stray \cup {b}

\* RunTaskOnce: the task may fail at once; it makes the directory if it is not there.
RunTaskOnce(b) ==
    /\ job[b].at = "run"
    /\ \/ /\ job' = [job EXCEPT ![b].at = "copy", ![b].left = Part]
          /\ dir' = IF Present(b) THEN dir ELSE Set(dir, b, <<>>)
          /\ Orphan(b)
       \/ /\ job' = [job EXCEPT ![b].at = "end", ![b].ok = FALSE]
          /\ UNCHANGED <<dir, stray>>
    /\ UNCHANGED <<rows, req, crashed, holes, unmarked>>

\* An error of a part: a table or a database ends the task, an object is logged.
PartFails(b, x) ==
    IF job[b].type = "objectstorage"
    THEN job' = [job EXCEPT ![b].left = @ \ {x}, ![b].open = @ \ {x}] /\ holes' = holes \cup {b}
    ELSE /\ job' = [job EXCEPT ![b].at = "end", ![b].left = {}, ![b].open = {}, ![b].ok = FALSE]
         /\ UNCHANGED holes

\* os.Create; for an object the directory is made again first.  Objects are
\* fetched side by side, tables and databases one after another.
CreateFile(b) ==
    \E x \in job[b].left :
        /\ job[b].at = "copy"
        /\ job[b].type # "objectstorage" => job[b].open = {}
        /\ \/ /\ Present(b) \/ job[b].type = "objectstorage"
              /\ job' = [job EXCEPT ![b].left = @ \ {x}, ![b].open = @ \cup {x}]
              /\ dir' = Set(dir, b, Set(IF Present(b) THEN dir[b] ELSE <<>>, x, "torn"))
              /\ Orphan(b) /\ UNCHANGED holes
           \/ PartFails(b, x) /\ UNCHANGED <<dir, stray>>
        /\ UNCHANGED <<rows, req, crashed, unmarked>>

\* The file is filled, unless it has been removed meanwhile: then nobody sees it.
FillFile(b) ==
    \E x \in job[b].open :
        /\ job[b].at = "copy"
        /\ \/ /\ job' = [job EXCEPT ![b].open = @ \ {x}]
              /\ dir' = IF Present(b) /\ x \in DOMAIN dir[b]
                        THEN Set(dir, b, Set(dir[b], x, "whole")) ELSE dir
              /\ UNCHANGED holes
           \/ PartFails(b, x) /\ UNCHANGED dir
        /\ UNCHANGED <<rows, req, crashed, unmarked, stray>>

TaskEnds(b) ==
    /\ job[b].at = "copy" /\ job[b].left = {} /\ job[b].open = {}
    /\ To(b, "end")
    /\ UNCHANGED <<rows, dir, req, crashed, holes, unmarked, stray>>

\* The list of tasks is saved; an error of that is the task's.
SaveTasks(b) ==
    /\ job[b].at = "end"
    /\ \E ok \in {job[b].ok, FALSE} : job' = [job EXCEPT ![b].at = "mark", ![b].ok = ok]
    /\ UNCHANGED <<rows, dir, req, crashed, holes, unmarked, stray>>

Status(b) == IF job[b].ok THEN "completed" ELSE "failed"

\* Mutant: only a success is recorded.
MarkStatus_Success(b) ==
    /\ job[b].at = "mark"
    /\ To(b, IF job[b].ok THEN "answered" ELSE "failed")
    /\ rows' = IF b \in DOMAIN rows /\ job[b].ok THEN [rows EXCEPT ![b].status = "completed"] ELSE rows
    /\ UNCHANGED <<dir, req, crashed, holes, unmarked, stray>>

\* No row is no error.
MarkStatus(b) ==
    /\ job[b].at = "mark"
    /\ \/ /\ rows' = IF b \in DOMAIN rows THEN [rows EXCEPT ![b].status = Status(b)] ELSE rows
          /\ To(b, IF job[b].ok THEN "answered" ELSE "failed")
          /\ UNCHANGED unmarked
       \/ unmarked' = unmarked \cup {b} /\ To(b, "failed") /\ UNCHANGED rows
    /\ UNCHANGED <<dir, req, crashed, holes, stray>>

---------------------------------------------------------------------------
(* DeleteBackup.                                                           *)

Move(c, step) == req' = [req EXCEPT ![c].at = step]

\* The row is looked up; without one there is nothing to delete.
DeleteBackupHandler(c) ==
    \E b \in Backup :
        /\ req[c].at = "idle"
        /\ req' = [req EXCEPT ![c].id = b, ![c].at = IF b \in DOMAIN rows THEN "row" ELSE "failed"]
        /\ UNCHANGED <<rows, dir, job, crashed, holes, unmarked, stray>>

\* Mutant: the files go first.
DeleteByID_FilesFirst(c) ==
    /\ req[c].at = "row"
    /\ IF Present(req[c].id)
       THEN dir' = Without(dir, req[c].id) /\ UNCHANGED <<rows, req>>
       ELSE Move(c, "done") /\ rows' = Without(rows, req[c].id) /\ UNCHANGED dir
    /\ UNCHANGED <<job, crashed, holes, unmarked, stray>>

\* Deleting a row that is gone is no error.
DeleteByID(c) ==
    /\ req[c].at = "row"
    /\ \/ Move(c, "files") /\ rows' = Without(rows, req[c].id)
       \/ Move(c, "failed") /\ UNCHANGED rows
    /\ UNCHANGED <<dir, job, crashed, holes, unmarked, stray>>

\* RemoveAll takes the files one after another, then the directory, unless it
\* has filled again or an error occurs.
RemoveAll(c) ==
    LET b == req[c].id IN
    /\ req[c].at = "files"
    /\ \/ /\ Present(b) /\ dir[b] # <<>>
          /\ \E x \in DOMAIN dir[b] : dir' = Set(dir, b, Without(dir[b], x))
          /\ UNCHANGED <<req, stray>>
       \/ /\ Present(b) => dir[b] = <<>>
          /\ dir' = Without(dir, b)
          /\ Move(c, "done") /\ UNCHANGED stray
       \/ /\ Present(b) /\ Move(c, "failed") /\ UNCHANGED dir
          /\ stray' = stray \cup {b}
    /\ UNCHANGED <<rows, job, crashed, holes, unmarked>>

---------------------------------------------------------------------------
(* Restore.                                                                *)

\* Mutant: the status is not looked at.
Restore_AnyStatus(c, type) ==
    \E b \in Backup :
        /\ req[c].at = "idle" /\ type \in Types
        /\ req' = [req EXCEPT ![c].id = b, ![c].at =
              IF b \in DOMAIN rows /\ rows[b].type = type THEN "find" ELSE "failed"]
        /\ UNCHANGED <<rows, dir, job, crashed, holes, unmarked, stray>>

\* RestoreOSPostHandler and its like ask for the type of theirs.
Restore(c, type) ==
    \E b \in Backup :
        /\ req[c].at = "idle" /\ type \in Types
        /\ req' = [req EXCEPT ![c].id = b, ![c].at =
              IF b \in DOMAIN rows /\ rows[b].type = type /\ rows[b].status = "completed"
              THEN "find" ELSE "failed"]
        /\ UNCHANGED <<rows, dir, job, crashed, holes, unmarked, stray>>

RestoreOSPostHandler(c)   == Restore(c, "objectstorage")
RestoreRDBPostHandler(c)  == Restore(c, "rdbms")
RestoreNRDBPostHandler(c) == Restore(c, "nrdbms")

\* DirExists after the look at the row, and the task that may fail at once.
GetRestorableBackup(c) ==
    /\ req[c].at = "find"
    /\ \/ Present(req[c].id) /\ Move(c, "walk")
       \/ Move(c, "failed")
    /\ UNCHANGED <<rows, dir, job, crashed, holes, unmarked, stray>>

\* The files are listed before the first of them is read.
Walk(c) ==
    /\ req[c].at = "walk"
    /\ IF Present(req[c].id)
       THEN req' = [req EXCEPT ![c].at = "read", ![c].list = DOMAIN dir[req[c].id]]
       ELSE Move(c, "failed")
    /\ UNCHANGED <<rows, dir, job, crashed, holes, unmarked, stray>>

\* A part is brought back, or the restore fails: it does for a file that is gone.
ReadPart(c) ==
    LET b == req[c].id IN
    \E x \in req[c].list :
        /\ req[c].at = "read"
        /\ req' = [req EXCEPT ![c].list = @ \ {x},
                   ![c].got = IF Present(b) /\ x \in DOMAIN dir[b] THEN @ \cup {<<x, dir[b][x]>>} ELSE @,
                   ![c].at = IF Present(b) /\ x \in DOMAIN dir[b] THEN @ ELSE "failed"]
        /\ UNCHANGED <<rows, dir, job, crashed, holes, unmarked, stray>>

RestoreEnds(c) ==
    /\ req[c].at = "read"
    /\ \/ req[c].list = {} /\ Move(c, "done")
       \/ Move(c, "failed")
    /\ UNCHANGED <<rows, dir, job, crashed, holes, unmarked, stray>>

---------------------------------------------------------------------------
\* The process ends; rows and files stay as they are.
Crash ==
    /\ \E b \in Backup : job[b].at \notin {"idle"} \cup Over
    /\ LET busy == {b \in Backup : job[b].at \notin {"idle"} \cup Over}
           gone == {c \in Client : req[c].at \notin {"idle"} \cup Over} IN
       /\ crashed' = crashed \cup busy \cup gone
       /\ job' = [b \in Backup |-> IF b \in busy THEN [job[b] EXCEPT !.at = "failed", !.open = {}, !.left = {}]
                                   ELSE job[b]]
       /\ req' = [c \in Client |-> IF c \in gone THEN [req[c] EXCEPT !.at = "failed", !.list = {}] ELSE req[c]]
       /\ stray' = stray \cup {b \in busy : job[b].at = "insert"}
                         \cup {req[c].id : c \in {k \in gone : req[k].at = "files"}}
    /\ UNCHANGED <<rows, dir, holes, unmarked>>

Work(b) ==
    \/ CheckDuplicate(b) \/ MkdirAll(b) \/ CreateBackup(b) \/ RunTaskOnce(b) \/ CreateFile(b)
    \/ FillFile(b) \/ TaskEnds(b) \/ SaveTasks(b) \/ MarkStatus(b)

Serve(c) ==
    \/ DeleteByID(c) \/ RemoveAll(c) \/ GetRestorableBackup(c) \/ Walk(c) \/ ReadPart(c)
    \/ RestoreEnds(c)

Next ==
    \/ \E b \in Backup : \/ BackupOSPostHandler(b) \/ BackupRDBPostHandler(b)
                         \/ BackupNRDBPostHandler(b) \/ Work(b)
    \/ \E c \in Client : \/ DeleteBackupHandler(c) \/ RestoreOSPostHandler(c)
                         \/ RestoreRDBPostHandler(c) \/ RestoreNRDBPostHandler(c) \/ Serve(c)
    \/ Crash

Spec == Init /\ [][Next]_vars

---------------------------------------------------------------------------
(* Properties.                                                             *)

Whole == [x \in Part |-> "whole"]

\* What the catalogue offers for a restore is there, whole, at every moment: also
\* while it is being deleted, after a crash, and between any two steps.  Only
\* objects whose error was logged may be missing.  (backup.go: MarkStatus, DeleteBackup)
CompletedIsWhole ==
    \A b \in DOMAIN rows : rows[b].status = "completed" /\ b \notin holes => Present(b) /\ dir[b] = Whole

\* A restore that is answered as a success has brought back every part, unless
\* the backup was deleted after the restore had looked it up.
RestoredIsWhole ==
    \A c \in Client :
        LET b == req[c].id IN
        req[c].at = "done" /\ b \in DOMAIN rows /\ b \notin holes =>
            req[c].got = {<<x, "whole">> : x \in Part}

\* A directory without a row is one that is being made or deleted, or one that
\* an error, a crash, or a backup that went on after its deletion left behind.
NoStrayDirectory ==
    \A b \in DOMAIN dir \ DOMAIN rows :
        \/ job[b].at = "insert"
        \/ \E c \in Client : req[c].id = b /\ req[c].at = "files"
        \/ b \in stray

\* Once a request to create is answered its row has the status that was
\* answered, unless it is deleted, the database refused the status, or the
\* process crashed: only then a row stays in progress.
StatusSettles ==
    \A b \in DOMAIN rows \ (crashed \cup unmarked) :
        /\ job[b].at = "answered" => rows[b].status = "completed"
        /\ job[b].at = "failed"   => rows[b].status = "failed"

===============================================================================
