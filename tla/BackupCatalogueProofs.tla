------------------------- MODULE BackupCatalogueProofs -------------------------
(***************************************************************************)
(* Proofs about BackupCatalogue, for any number of backups, requests, names *)
(* and parts.  A row is inserted once; from then on the invariant follows  *)
(* the parts of the backup until they are whole, and the requests that     *)
(* read or remove them.                                                    *)
(***************************************************************************)
EXTENDS BackupCatalogue, TLAPS

\* Steps of a request whose row was inserted, unless a crash ended it before.
Later    == {"run", "copy", "end", "mark", "failed", "answered"}
Open     == {"run", "copy", "end", "mark"}
JobType  == [at : Steps, name : Name \cup {Nobody}, type : Types \cup {"none"},
             left : SUBSET Part, open : SUBSET Part, ok : BOOLEAN]
ReqType  == [at : Moves, id : Backup \cup {Nobody}, list : SUBSET Part,
             got : SUBSET (Part \X {"torn", "whole"}), ok : BOOLEAN]
RowType  == [name : Name, type : Types, status : {"in_progress", "completed", "failed"}]

RowsOK ==
    /\ DOMAIN rows \subseteq Backup /\ \A b \in DOMAIN rows : rows[b] \in RowType
    /\ \A b, c \in DOMAIN rows : rows[b].name = rows[c].name /\ rows[b].type = rows[c].type => b = c

Files == UNION {[X -> {"torn", "whole"}] : X \in SUBSET Part}
DirOK == DOMAIN dir \subseteq Backup /\ \A b \in DOMAIN dir : dir[b] \in Files

HistOK == crashed \subseteq Backup \cup Client /\ holes \subseteq Backup /\ unmarked \subseteq Backup
          /\ stray \subseteq Backup

\* A request that has begun has a name and a type, and holds files only while it copies.
Named(b)   == /\ job[b].at # "idle" => job[b].name \in Name /\ job[b].type \in Types
              /\ job[b].at # "copy" => job[b].open = {}
\* Its row is in progress until the status is written.
Rowed(b)   == b \in DOMAIN rows =>
                 /\ job[b].at \in Later
                 /\ job[b].at \in Open => rows[b].status = "in_progress"
\* What has been made of a backup whose row is there and of which nothing failed.
Sound(b)   == b \in DOMAIN rows /\ b \notin holes /\ job[b].ok
Made(b)    == Sound(b) /\ job[b].at = "copy" =>
                 /\ Present(b) /\ job[b].open \subseteq DOMAIN dir[b]
                 /\ \A x \in Part \ (job[b].left \cup job[b].open) : x \in DOMAIN dir[b] /\ dir[b][x] = "whole"
Finished(b) == Sound(b) /\ job[b].at \in {"end", "mark"} => Present(b) /\ dir[b] = Whole
Kept(b)    == b \in DOMAIN rows /\ rows[b].status = "completed" /\ b \notin holes =>
                 Present(b) /\ dir[b] = Whole
Settled(b) == b \in DOMAIN rows \ (crashed \cup unmarked) =>
                 /\ job[b].at = "answered" => rows[b].status = "completed"
                 /\ job[b].at = "failed"   => rows[b].status = "failed"
Owned(b)   == b \in DOMAIN dir \ DOMAIN rows =>
                 \/ job[b].at = "insert"
                 \/ \E c \in Client : req[c].id = b /\ req[c].at = "files"
                 \/ b \in stray
GoodJob(b) == Named(b) /\ Rowed(b) /\ Made(b) /\ Finished(b) /\ Kept(b) /\ Settled(b) /\ Owned(b)

\* A request under way is about a backup whose row was inserted; it is at the
\* files only when the row is gone.
Knows(c)   == req[c].at \notin {"idle", "failed"} => req[c].id \in Backup /\ job[req[c].id].at \in Later
Deletes(c) == req[c].at = "files" => req[c].id \notin DOMAIN rows
\* A restore of a row that is still there has seen it completed, and has read
\* every part that is no longer on its list.
Restorable(b) == b \in DOMAIN rows /\ b \notin holes
Restores(c) ==
    /\ req[c].at \in {"idle", "row", "files", "find", "walk"} => req[c].got = {}
    /\ req[c].at \in {"find", "walk", "read"} /\ req[c].id \in DOMAIN rows =>
          rows[req[c].id].status = "completed"
    /\ req[c].at = "read" /\ Restorable(req[c].id) => req[c].got = (Part \ req[c].list) \X {"whole"}
    /\ req[c].at = "done" /\ Restorable(req[c].id) => req[c].got = Part \X {"whole"}
GoodReq(c) == Knows(c) /\ Deletes(c) /\ Restores(c)

IInv == /\ RowsOK /\ DirOK /\ HistOK
        /\ job \in [Backup -> JobType] /\ req \in [Client -> ReqType]
        /\ \A b \in Backup : GoodJob(b)
        /\ \A c \in Client : GoodReq(c)

--------------------------------------------------------------------------------
(* Functions that change at one place.                                          *)

LEMMA SetFacts ==
    ASSUME NEW f, NEW k, NEW v
    PROVE  /\ DOMAIN Set(f, k, v) = DOMAIN f \cup {k} /\ Set(f, k, v)[k] = v
           /\ \A x \in DOMAIN f \ {k} : Set(f, k, v)[x] = f[x]
BY DEF Set

LEMMA WithoutFacts ==
    ASSUME NEW f, NEW k
    PROVE  /\ DOMAIN Without(f, k) = DOMAIN f \ {k}
           /\ \A x \in DOMAIN f \ {k} : Without(f, k)[x] = f[x]
BY DEF Without

LEMMA EmptyDir == <<>> \in Files /\ DOMAIN <<>> = {}
<1>1. DOMAIN <<>> = {}
    OBVIOUS
<1>2. <<>> \in [{} -> {"torn", "whole"}]
    OBVIOUS
<1> QED BY <1>1, <1>2 DEF Files

LEMMA SetFile ==
    ASSUME NEW f \in Files, NEW x \in Part, NEW v \in {"torn", "whole"}
    PROVE  Set(f, x, v) \in Files
<1>1. DOMAIN f \subseteq Part /\ f \in [DOMAIN f -> {"torn", "whole"}]
    BY DEF Files
<1>2. Set(f, x, v) \in [DOMAIN f \cup {x} -> {"torn", "whole"}]
    BY <1>1 DEF Set
<1>3. DOMAIN f \cup {x} \in SUBSET Part
    BY <1>1
<1> QED BY <1>2, <1>3 DEF Files

LEMMA WithoutFile ==
    ASSUME NEW f \in Files, NEW x
    PROVE  Without(f, x) \in Files
<1>1. DOMAIN f \subseteq Part /\ f \in [DOMAIN f -> {"torn", "whole"}]
    BY DEF Files
<1>2. Without(f, x) \in [DOMAIN f \ {x} -> {"torn", "whole"}] /\ DOMAIN f \ {x} \in SUBSET Part
    BY <1>1 DEF Without
<1> QED BY <1>2 DEF Files

LEMMA WholeFile ==
    ASSUME NEW f \in Files, \A x \in Part : x \in DOMAIN f /\ f[x] = "whole"
    PROVE  f = Whole
<1>1. DOMAIN f \subseteq Part /\ f \in [DOMAIN f -> {"torn", "whole"}]
    BY DEF Files
<1>2. DOMAIN f = Part
    BY <1>1
<1> QED BY <1>1, <1>2 DEF Whole

LEMMA JobUpdate ==
    ASSUME job \in [Backup -> JobType], NEW b \in Backup, NEW r \in JobType, job' = [job EXCEPT ![b] = r]
    PROVE  job' \in [Backup -> JobType] /\ job'[b] = r /\ \A d \in Backup \ {b} : job'[d] = job[d]
OBVIOUS

LEMMA ReqUpdate ==
    ASSUME req \in [Client -> ReqType], NEW c \in Client, NEW r \in ReqType, req' = [req EXCEPT ![c] = r]
    PROVE  req' \in [Client -> ReqType] /\ req'[c] = r /\ \A d \in Client \ {c} : req'[d] = req[d]
OBVIOUS

--------------------------------------------------------------------------------
(* What a step leaves as it was.                                                *)

\* A step touches neither the row nor the directory of backup d, and errors are
\* only ever added.
Apart(d) ==
    /\ job'[d] = job[d]
    /\ d \in DOMAIN rows' <=> d \in DOMAIN rows
    /\ d \in DOMAIN rows => rows'[d] = rows[d]
    /\ d \in DOMAIN dir' <=> d \in DOMAIN dir
    /\ d \in DOMAIN dir => dir'[d] = dir[d]
    /\ holes \subseteq holes' /\ crashed \subseteq crashed'
    /\ unmarked \subseteq unmarked' /\ stray \subseteq stray'
    /\ \A c \in Client : req[c].id = d /\ req[c].at = "files" => req'[c].id = d /\ req'[c].at = "files"

LEMMA ApartKeeps ==
    ASSUME IInv, NEW d \in Backup, Apart(d)
    PROVE  GoodJob(d)'
<1>1. GoodJob(d)
    BY DEF IInv
<1>2. Named(d)' /\ Rowed(d)' /\ Settled(d)'
    BY <1>1 DEF GoodJob, Named, Rowed, Settled, Apart
<1>3. Made(d)' /\ Finished(d)' /\ Kept(d)'
    BY <1>1 DEF GoodJob, Made, Finished, Kept, Sound, Present, Whole, Apart
<1>4. Owned(d)'
    BY <1>1 DEF GoodJob, Owned, Apart
<1> QED BY <1>2, <1>3, <1>4 DEF GoodJob

\* Rows come by an insert and change by MarkStatus; a request for which a row was
\* inserted stays one.
Rows == /\ \A d \in Backup : d \in DOMAIN rows' /\ d \notin DOMAIN rows => job[d].at = "insert"
        /\ \A d \in Backup : d \in DOMAIN rows' /\ d \in DOMAIN rows /\ rows'[d] # rows[d] => job[d].at = "mark"
        /\ \A d \in Backup : job[d].at \in Later => job'[d].at \in Later
        /\ holes \subseteq holes'

LEMMA OtherRequests ==
    ASSUME IInv, NEW c \in Client, req'[c] = req[c], Rows
    PROVE  GoodReq(c)'
<1>1. GoodReq(c) /\ \A b \in Backup : Rowed(b)
    BY DEF IInv, GoodJob
<1>2. Knows(c)'
    BY <1>1 DEF GoodReq, Knows, Rows
<1>3. CASE req[c].at \in {"idle", "failed"}
    BY <1>1, <1>2, <1>3 DEF GoodReq, Deletes, Restores
<1>4. CASE req[c].at \notin {"idle", "failed"}
    <2> DEFINE b == req[c].id
    <2>1. b \in Backup /\ job[b].at \in Later
        BY <1>1, <1>4 DEF GoodReq, Knows
    <2>2. b \in DOMAIN rows' => b \in DOMAIN rows
        BY <2>1 DEF Rows, Later
    <2>3. b \in DOMAIN rows' /\ rows[b].status = "completed" => rows'[b].status = "completed"
        <3>1. job[b].at = "mark" /\ b \in DOMAIN rows => rows[b].status = "in_progress"
            BY <1>1, <2>1 DEF Rowed, Open
        <3> QED BY <2>1, <2>2, <3>1 DEF Rows
    <2>4. Deletes(c)'
        BY <1>1, <2>2 DEF GoodReq, Deletes
    <2>5. Restorable(b)' => Restorable(b)
        BY <2>2 DEF Restorable, Rows
    <2>6. Restores(c)'
        BY <1>1, <2>2, <2>3, <2>5 DEF GoodReq, Restores, Restorable
    <2> QED BY <1>2, <2>4, <2>6 DEF GoodReq
<1> QED BY <1>3, <1>4

\* What remains to be shown of a step of the request that makes backup b.
JobStep(b) ==
    /\ job' \in [Backup -> JobType] /\ \A d \in Backup \ {b} : job'[d] = job[d]
    /\ req' = req
    /\ RowsOK' /\ DirOK' /\ HistOK'
    /\ \A d \in Backup \ {b} : Apart(d)
    /\ Rows

LEMMA JobStepKeeps ==
    ASSUME IInv, NEW b \in Backup, JobStep(b), GoodJob(b)'
    PROVE  IInv'
<1>1. \A d \in Backup : GoodJob(d)'
    BY ApartKeeps DEF JobStep
<1>2. \A c \in Client : GoodReq(c)'
    BY OtherRequests DEF JobStep
<1> QED BY <1>1, <1>2 DEF JobStep, IInv

\* The same for a request to restore or delete.
ReqStep(c) ==
    /\ req' \in [Client -> ReqType] /\ \A e \in Client \ {c} : req'[e] = req[e]
    /\ job' = job
    /\ RowsOK' /\ DirOK' /\ HistOK'
    /\ \A d \in Backup \ {req[c].id} : Apart(d)
    /\ DOMAIN rows' \subseteq DOMAIN rows /\ \A d \in DOMAIN rows' : rows'[d] = rows[d]
    /\ holes' = holes

LEMMA ReqStepKeeps ==
    ASSUME IInv, NEW c \in Client, ReqStep(c), GoodReq(c)',
           \A d \in Backup : d = req[c].id => GoodJob(d)'
    PROVE  IInv'
<1>0. \A d \in Backup \ {req[c].id} : GoodJob(d)'
    BY ApartKeeps DEF ReqStep
<1>1. \A d \in Backup : GoodJob(d)'
    BY <1>0
<1>2. Rows
    BY DEF ReqStep, Rows
<1>3. \A e \in Client : GoodReq(e)'
    BY <1>2, OtherRequests DEF ReqStep
<1> QED BY <1>1, <1>3 DEF ReqStep, IInv

\* A request that only looks, and was not removing files.
LEMMA LookKeeps ==
    ASSUME IInv, NEW c \in Client, NEW r \in ReqType, req' = [req EXCEPT ![c] = r],
           req[c].at # "files",
           UNCHANGED <<rows, dir, job, crashed, holes, unmarked, stray>>, GoodReq(c)'
    PROVE  IInv'
<1>1. req' \in [Client -> ReqType] /\ req'[c] = r /\ \A d \in Client \ {c} : req'[d] = req[d]
    BY ReqUpdate DEF IInv
<1>2. \A d \in Backup : Apart(d)
    BY <1>1 DEF Apart
<1>3. RowsOK' /\ DirOK' /\ HistOK'
    BY DEF IInv, RowsOK, DirOK, HistOK
<1>4. ReqStep(c)
    BY <1>1, <1>2, <1>3 DEF ReqStep
<1>5. \A d \in Backup : GoodJob(d)'
    BY <1>2, ApartKeeps
<1> QED BY ONLY IInv, <1>4, <1>5, GoodReq(c)', c \in Client, ReqStepKeeps

--------------------------------------------------------------------------------
(* The requests that make a backup.                                             *)

\* Of a step that changes neither rows nor directories only the request itself matters.
LEMMA QuietJobStep ==
    ASSUME IInv, NEW b \in Backup, NEW r \in JobType, job' = [job EXCEPT ![b] = r],
           job[b].at \in Later => r.at \in Later,
           UNCHANGED <<rows, dir, req, crashed, unmarked>>,
           holes \subseteq holes', holes' \subseteq Backup, stray \subseteq stray', stray' \subseteq Backup
    PROVE  JobStep(b) /\ job'[b] = r
<1>1. job' \in [Backup -> JobType] /\ job'[b] = r /\ \A d \in Backup \ {b} : job'[d] = job[d]
    BY JobUpdate DEF IInv
<1>2. \A d \in Backup \ {b} : Apart(d)
    BY <1>1 DEF Apart
<1>3. RowsOK' /\ DirOK' /\ HistOK'
    BY DEF IInv, RowsOK, DirOK, HistOK
<1>4. Rows
    BY <1>1 DEF Rows
<1> QED BY <1>1, <1>2, <1>3, <1>4 DEF JobStep

\* The same when the directory of the backup changes.
LEMMA DirJobStep ==
    ASSUME IInv, NEW b \in Backup, NEW r \in JobType, job' = [job EXCEPT ![b] = r],
           job[b].at \in Later => r.at \in Later,
           NEW f \in Files, dir' = Set(dir, b, f),
           UNCHANGED <<rows, req, crashed, unmarked, holes>>,
           stray \subseteq stray', stray' \subseteq Backup
    PROVE  JobStep(b) /\ job'[b] = r /\ DOMAIN dir' = DOMAIN dir \cup {b} /\ dir'[b] = f
<1>1. job' \in [Backup -> JobType] /\ job'[b] = r /\ \A d \in Backup \ {b} : job'[d] = job[d]
    BY JobUpdate DEF IInv
<1>2. /\ DOMAIN dir' = DOMAIN dir \cup {b} /\ dir'[b] = f
      /\ \A d \in DOMAIN dir \ {b} : dir'[d] = dir[d]
    BY DEF Set
<1>3. \A d \in Backup \ {b} : Apart(d)
    BY <1>1, <1>2 DEF Apart
<1>4. DirOK'
    BY <1>2 DEF IInv, DirOK
<1>5. RowsOK' /\ HistOK'
    BY DEF IInv, RowsOK, HistOK
<1>6. Rows
    BY <1>1 DEF Rows
<1> QED BY <1>1, <1>2, <1>3, <1>4, <1>5, <1>6 DEF JobStep

\* Before its row is inserted.
LEMMA EarlyGood ==
    ASSUME NEW b \in Backup, b \notin DOMAIN rows', Named(b)', Owned(b)'
    PROVE  GoodJob(b)'
BY DEF GoodJob, Rowed, Made, Finished, Kept, Settled, Sound

\* While its files are made.
LEMMA OpenGood ==
    ASSUME IInv, NEW b \in Backup, job[b].at \in Open, job'[b].at \in Open, rows' = rows,
           Named(b)', Made(b)', Finished(b)', Owned(b)'
    PROVE  GoodJob(b)'
<1>1. Rowed(b)
    BY DEF IInv, GoodJob
<1>2. Rowed(b)' /\ Kept(b)' /\ Settled(b)'
    BY <1>1 DEF Rowed, Kept, Settled, Open, Later
<1> QED BY <1>2 DEF GoodJob

\* Before its row is inserted a request has no row, and has made nothing that is not owned.
LEMMA EarlyFacts ==
    ASSUME IInv, NEW b \in Backup, job[b].at \in {"idle", "check", "mkdir", "insert"}
    PROVE  /\ job[b] \in JobType /\ b \notin DOMAIN rows /\ job[b].open = {} /\ Owned(b)
           /\ job[b].at # "idle" => job[b].name \in Name /\ job[b].type \in Types
BY DEF IInv, GoodJob, Named, Rowed, Later

LEMMA PostKeeps ==
    ASSUME IInv, NEW b \in Backup, NEW type \in Types, Post(b, type)
    PROVE  IInv'
<1>1. PICK n \in Name : job' = [job EXCEPT ![b].at = "check", ![b].name = n, ![b].type = type]
    BY DEF Post
<1>2. job[b].at = "idle" /\ UNCHANGED <<rows, dir, req, crashed, holes, unmarked, stray>>
    BY DEF Post
<1>3. job[b] \in JobType /\ b \notin DOMAIN rows /\ job[b].open = {} /\ Owned(b)
    BY <1>2, EarlyFacts
<1> DEFINE r == [job[b] EXCEPT !.at = "check", !.name = n, !.type = type]
<1>4. r \in JobType /\ r.at = "check" /\ r.name = n /\ r.type = type /\ r.open = {}
    BY <1>3 DEF JobType, Steps
<1>5. job' = [job EXCEPT ![b] = r]
    BY <1>1 DEF IInv
<1> HIDE DEF r
<1>6. JobStep(b) /\ job'[b] = r
    BY <1>2, <1>4, <1>5, QuietJobStep DEF IInv, HistOK, Later
<1>7. Named(b)' /\ Owned(b)'
    BY <1>2, <1>3, <1>4, <1>6 DEF Named, Owned
<1> QED BY <1>2, <1>3, <1>6, <1>7, EarlyGood, JobStepKeeps

LEMMA CheckDuplicateKeeps ==
    ASSUME IInv, NEW b \in Backup, CheckDuplicate(b)
    PROVE  IInv'
<1>1. PICK s \in {"refused", "mkdir"} : job' = [job EXCEPT ![b].at = s]
    BY DEF CheckDuplicate, To
<1>2. job[b].at = "check" /\ UNCHANGED <<rows, dir, req, crashed, holes, unmarked, stray>>
    BY DEF CheckDuplicate
<1>3. /\ job[b] \in JobType /\ b \notin DOMAIN rows /\ job[b].open = {} /\ Owned(b)
      /\ job[b].name \in Name /\ job[b].type \in Types
    BY <1>2, EarlyFacts
<1> DEFINE r == [job[b] EXCEPT !.at = s]
<1>4. r \in JobType /\ r.at = s /\ r.name = job[b].name /\ r.type = job[b].type /\ r.open = {}
    BY <1>3 DEF JobType, Steps
<1>5. job' = [job EXCEPT ![b] = r]
    BY <1>1 DEF IInv
<1> HIDE DEF r
<1>6. JobStep(b) /\ job'[b] = r
    BY <1>2, <1>4, <1>5, QuietJobStep DEF IInv, HistOK, Later
<1>7. Named(b)' /\ Owned(b)'
    BY <1>2, <1>3, <1>4, <1>6 DEF Named, Owned
<1> QED BY <1>2, <1>3, <1>6, <1>7, EarlyGood, JobStepKeeps

LEMMA MkdirAllKeeps ==
    ASSUME IInv, NEW b \in Backup, MkdirAll(b)
    PROVE  IInv'
<1>1. job[b].at = "mkdir" /\ UNCHANGED <<rows, req, crashed, holes, unmarked, stray>>
    BY DEF MkdirAll
<1>2. /\ job[b] \in JobType /\ b \notin DOMAIN rows /\ job[b].open = {} /\ Owned(b)
      /\ job[b].name \in Name /\ job[b].type \in Types
    BY <1>1, EarlyFacts
<1>3. PICK s \in {"insert", "refused"} :
          /\ job' = [job EXCEPT ![b].at = s]
          /\ \/ s = "insert" /\ dir' = Set(dir, b, <<>>)
             \/ s = "refused" /\ dir' = dir
    BY DEF MkdirAll, To
<1> DEFINE r == [job[b] EXCEPT !.at = s]
<1>4. r \in JobType /\ r.at = s /\ r.name = job[b].name /\ r.type = job[b].type /\ r.open = {}
    BY <1>2 DEF JobType, Steps
<1>5. job' = [job EXCEPT ![b] = r]
    BY <1>3 DEF IInv
<1> HIDE DEF r
<1>6. stray \subseteq Backup /\ holes \subseteq Backup
    BY DEF IInv, HistOK
<1>7. CASE s = "insert"
    <2> DEFINE f == <<>>
    <2>0. f \in Files /\ dir' = Set(dir, b, f)
        BY <1>3, <1>7, EmptyDir
    <2> HIDE DEF f
    <2>1. JobStep(b) /\ job'[b] = r
        BY <1>1, <1>4, <1>5, <1>6, <2>0, DirJobStep DEF Later
    <2>2. Named(b)' /\ Owned(b)'
        BY <1>2, <1>4, <1>7, <2>1 DEF Named, Owned
    <2> QED BY <1>1, <1>2, <2>1, <2>2, EarlyGood, JobStepKeeps
<1>8. CASE s = "refused"
    <2>1. JobStep(b) /\ job'[b] = r
        BY <1>1, <1>3, <1>4, <1>5, <1>6, <1>8, QuietJobStep DEF Later
    <2>2. Named(b)' /\ Owned(b)'
        BY <1>1, <1>2, <1>3, <1>4, <1>8, <2>1 DEF Named, Owned
    <2> QED BY <1>1, <1>2, <2>1, <2>2, EarlyGood, JobStepKeeps
<1> QED BY <1>7, <1>8

LEMMA CreateBackupKeeps ==
    ASSUME IInv, NEW b \in Backup, CreateBackup(b)
    PROVE  IInv'
<1>1. job[b].at = "insert" /\ UNCHANGED <<dir, req, crashed, holes, unmarked>>
    BY DEF CreateBackup
<1>2. /\ job[b] \in JobType /\ b \notin DOMAIN rows /\ job[b].open = {} /\ Owned(b)
      /\ job[b].name \in Name /\ job[b].type \in Types
    BY <1>1, EarlyFacts
<1> DEFINE r(s) == [job[b] EXCEPT !.at = s]
<1>3. ASSUME NEW s \in {"run", "refused"}, To(b, s)
      PROVE  /\ r(s) \in JobType /\ r(s).at = s /\ r(s).name = job[b].name
             /\ r(s).type = job[b].type /\ r(s).open = {} /\ job' = [job EXCEPT ![b] = r(s)]
    BY <1>2, <1>3 DEF JobType, Steps, To, IInv
<1> HIDE DEF r
<1>4. CASE /\ ~Taken(b) /\ To(b, "run") /\ stray' = stray
           /\ rows' = Set(rows, b, [name |-> job[b].name, type |-> job[b].type, status |-> "in_progress"])
    <2> DEFINE v == [name |-> job[b].name, type |-> job[b].type, status |-> "in_progress"]
    <2>1. v \in RowType /\ v.name = job[b].name /\ v.type = job[b].type /\ v.status = "in_progress"
        BY <1>2 DEF RowType
    <2>2. rows' = Set(rows, b, v)
        BY <1>4
    <2> HIDE DEF v
    <2>3. /\ DOMAIN rows' = DOMAIN rows \cup {b} /\ rows'[b] = v
          /\ \A d \in DOMAIN rows \ {b} : rows'[d] = rows[d]
        BY <2>2 DEF Set
    <2>4. /\ r("run") \in JobType /\ r("run").at = "run" /\ r("run").name = job[b].name
          /\ r("run").type = job[b].type /\ r("run").open = {} /\ job' = [job EXCEPT ![b] = r("run")]
        BY <1>3, <1>4
    <2>5. job' \in [Backup -> JobType] /\ job'[b] = r("run") /\ \A d \in Backup \ {b} : job'[d] = job[d]
        BY <2>4, JobUpdate DEF IInv
    <2>6. \A d \in Backup \ {b} : Apart(d)
        BY <1>1, <1>4, <2>3, <2>5 DEF Apart
    <2>7. RowsOK'
        <3>1. RowsOK /\ b \notin DOMAIN rows
            BY <1>2 DEF IInv
        <3>2. \A d \in DOMAIN rows : rows'[d] = rows[d] /\ rows[d] \in RowType
            BY <3>1, <2>3 DEF RowsOK
        <3>3. \A d \in DOMAIN rows : ~(rows[d].name = v.name /\ rows[d].type = v.type)
            BY <1>4, <2>1 DEF Taken
        <3> QED BY <3>1, <3>2, <3>3, <2>1, <2>3 DEF RowsOK
    <2>8. DirOK' /\ HistOK'
        BY <1>1, <1>4 DEF IInv, DirOK, HistOK
    <2>9. Rows
        BY <1>1, <1>2, <2>3, <2>4, <2>5 DEF Rows, Later
    <2>10. JobStep(b)
        BY <1>1, <2>5, <2>6, <2>7, <2>8, <2>9 DEF JobStep
    <2>11. GoodJob(b)'
        BY <1>2, <2>1, <2>3, <2>4, <2>5
           DEF GoodJob, Named, Rowed, Made, Finished, Kept, Settled, Owned, Later
    <2> QED BY <2>10, <2>11, JobStepKeeps
<1>5. CASE To(b, "refused") /\ stray' = stray \cup {b} /\ rows' = rows
    <2>1. /\ r("refused") \in JobType /\ r("refused").at = "refused"
          /\ r("refused").name = job[b].name /\ r("refused").type = job[b].type
          /\ r("refused").open = {} /\ job' = [job EXCEPT ![b] = r("refused")]
        BY <1>3, <1>5
    <2>2. JobStep(b) /\ job'[b] = r("refused")
        BY <1>1, <1>5, <2>1, QuietJobStep DEF Later, IInv, HistOK
    <2>3. Named(b)' /\ Owned(b)'
        BY <1>2, <1>5, <2>1, <2>2 DEF Named, Owned
    <2> QED BY <1>2, <1>5, <2>2, <2>3, EarlyGood, JobStepKeeps
<1> QED BY <1>4, <1>5 DEF CreateBackup

--------------------------------------------------------------------------------
(* The task that makes the files.                                               *)

LEMMA OpenFacts ==
    ASSUME IInv, NEW b \in Backup, job[b].at \in Open
    PROVE  /\ job[b] \in JobType /\ Named(b) /\ Made(b) /\ Finished(b) /\ Owned(b)
           /\ job[b].name \in Name /\ job[b].type \in Types
           /\ holes \subseteq Backup /\ stray \subseteq Backup
           /\ b \in DOMAIN dir => dir[b] \in Files
BY DEF IInv, GoodJob, Named, Open, HistOK, DirOK

LEMMA RunTaskOnceKeeps ==
    ASSUME IInv, NEW b \in Backup, RunTaskOnce(b)
    PROVE  IInv'
<1>1. job[b].at = "run" /\ UNCHANGED <<rows, req, crashed, holes, unmarked>>
    BY DEF RunTaskOnce
<1>2. /\ job[b] \in JobType /\ Named(b) /\ Owned(b) /\ job[b].open = {}
      /\ job[b].name \in Name /\ job[b].type \in Types
      /\ holes \subseteq Backup /\ stray \subseteq Backup
    BY <1>1, OpenFacts DEF Open, Named
<1>3. CASE /\ job' = [job EXCEPT ![b].at = "copy", ![b].left = Part]
           /\ dir' = IF Present(b) THEN dir ELSE Set(dir, b, <<>>)
           /\ Orphan(b)
    <2> DEFINE r == [job[b] EXCEPT !.at = "copy", !.left = Part]
    <2> DEFINE f == <<>>
    <2>1. /\ r \in JobType /\ r.at = "copy" /\ r.left = Part /\ r.open = {}
          /\ r.name = job[b].name /\ r.type = job[b].type /\ r.ok = job[b].ok
        BY <1>2 DEF JobType, Steps
    <2>2. job' = [job EXCEPT ![b] = r]
        BY <1>3 DEF IInv
    <2>3. f \in Files /\ dir' = IF Present(b) THEN dir ELSE Set(dir, b, f)
        BY <1>3, EmptyDir
    <2> HIDE DEF r, f
    <2>4. /\ stray \subseteq stray' /\ stray' \subseteq Backup
          /\ b \in DOMAIN rows \/ b \in stray'
        BY <1>2, <1>3 DEF Orphan
    <2>5. JobStep(b) /\ job'[b] = r /\ b \in DOMAIN dir'
        <3>1. CASE Present(b)
            BY <1>1, <1>2, <2>1, <2>2, <2>3, <2>4, <3>1, QuietJobStep DEF Later, Present
        <3>2. CASE ~Present(b)
            BY <1>1, <2>1, <2>2, <2>3, <2>4, <3>2, DirJobStep DEF Later
        <3> QED BY <3>1, <3>2
    <2>6. Named(b)' /\ Made(b)' /\ Finished(b)' /\ Owned(b)'
        BY <1>1, <1>2, <2>1, <2>4, <2>5 DEF Named, Made, Finished, Owned, Present
    <2> QED BY <1>1, <2>1, <2>5, <2>6, OpenGood, JobStepKeeps DEF Open
<1>4. CASE job' = [job EXCEPT ![b].at = "end", ![b].ok = FALSE] /\ UNCHANGED <<dir, stray>>
    <2> DEFINE r == [job[b] EXCEPT !.at = "end", !.ok = FALSE]
    <2>1. /\ r \in JobType /\ r.at = "end" /\ r.open = {} /\ r.ok = FALSE
          /\ r.name = job[b].name /\ r.type = job[b].type
        BY <1>2 DEF JobType, Steps
    <2>2. job' = [job EXCEPT ![b] = r]
        BY <1>4 DEF IInv
    <2> HIDE DEF r
    <2>3. JobStep(b) /\ job'[b] = r
        BY <1>1, <1>2, <1>4, <2>1, <2>2, QuietJobStep DEF Later
    <2>4. Named(b)' /\ Made(b)' /\ Finished(b)' /\ Owned(b)'
        BY <1>1, <1>2, <1>4, <2>1, <2>3 DEF Named, Made, Finished, Owned, Sound
    <2> QED BY <1>1, <2>1, <2>3, <2>4, OpenGood, JobStepKeeps DEF Open
<1> QED BY <1>3, <1>4 DEF RunTaskOnce

\* An error of a part leaves the files alone.
LEMMA PartFailsKeeps ==
    ASSUME IInv, NEW b \in Backup, NEW x \in Part, job[b].at = "copy", PartFails(b, x),
           UNCHANGED <<dir, stray, rows, req, crashed, unmarked>>
    PROVE  IInv'
<1>1. /\ job[b] \in JobType /\ Named(b) /\ Owned(b)
      /\ job[b].name \in Name /\ job[b].type \in Types
      /\ holes \subseteq Backup /\ stray \subseteq Backup
    BY OpenFacts DEF Open
<1>2. CASE /\ job' = [job EXCEPT ![b].left = @ \ {x}, ![b].open = @ \ {x}] 
           /\ holes' = holes \cup {b}
    <2> DEFINE r == [job[b] EXCEPT !.left = @ \ {x}, !.open = @ \ {x}]
    <2>1. /\ r \in JobType /\ r.at = "copy" /\ r.name = job[b].name /\ r.type = job[b].type
        BY <1>1 DEF JobType, Steps
    <2>2. job' = [job EXCEPT ![b] = r]
        BY <1>2 DEF IInv
    <2> HIDE DEF r
    <2>3. JobStep(b) /\ job'[b] = r
        BY <1>1, <1>2, <2>1, <2>2, QuietJobStep DEF Later
    <2>4. Named(b)' /\ Made(b)' /\ Finished(b)' /\ Owned(b)'
        BY <1>1, <1>2, <2>1, <2>3 DEF Named, Made, Finished, Owned, Sound
    <2> QED BY <2>1, <2>3, <2>4, OpenGood, JobStepKeeps DEF Open
<1>3. CASE /\ job' = [job EXCEPT ![b].at = "end", ![b].left = {}, ![b].open = {}, ![b].ok = FALSE]
           /\ holes' = holes
    <2> DEFINE r == [job[b] EXCEPT !.at = "end", !.left = {}, !.open = {}, !.ok = FALSE]
    <2>1. /\ r \in JobType /\ r.at = "end" /\ r.open = {} /\ r.ok = FALSE
          /\ r.name = job[b].name /\ r.type = job[b].type
        BY <1>1 DEF JobType, Steps
    <2>2. job' = [job EXCEPT ![b] = r]
        BY <1>3 DEF IInv
    <2> HIDE DEF r
    <2>3. JobStep(b) /\ job'[b] = r
        BY <1>1, <1>3, <2>1, <2>2, QuietJobStep DEF Later
    <2>4. Named(b)' /\ Made(b)' /\ Finished(b)' /\ Owned(b)'
        BY <1>1, <1>3, <2>1, <2>3 DEF Named, Made, Finished, Owned, Sound
    <2> QED BY <2>1, <2>3, <2>4, OpenGood, JobStepKeeps DEF Open
<1> QED BY <1>2, <1>3 DEF PartFails

LEMMA CreateFileKeeps ==
    ASSUME IInv, NEW b \in Backup, CreateFile(b)
    PROVE  IInv'
<1>1. PICK x \in job[b].left :
        /\ job[b].at = "copy"
        /\ \/ /\ job' = [job EXCEPT ![b].left = @ \ {x}, ![b].open = @ \cup {x}]
              /\ dir' = Set(dir, b, Set(IF Present(b) THEN dir[b] ELSE <<>>, x, "torn"))
              /\ Orphan(b) /\ UNCHANGED holes
           \/ PartFails(b, x) /\ UNCHANGED <<dir, stray>>
        /\ UNCHANGED <<rows, req, crashed, unmarked>>
    BY DEF CreateFile
<1>2. /\ job[b] \in JobType /\ Named(b) /\ Made(b) /\ Owned(b)
      /\ job[b].name \in Name /\ job[b].type \in Types
      /\ holes \subseteq Backup /\ stray \subseteq Backup
      /\ b \in DOMAIN dir => dir[b] \in Files
    BY <1>1, OpenFacts DEF Open
<1>3. x \in Part
    BY <1>2 DEF JobType
<1>4. CASE /\ job' = [job EXCEPT ![b].left = @ \ {x}, ![b].open = @ \cup {x}]
           /\ dir' = Set(dir, b, Set(IF Present(b) THEN dir[b] ELSE <<>>, x, "torn"))
           /\ Orphan(b) /\ UNCHANGED holes
    <2> DEFINE r == [job[b] EXCEPT !.left = @ \ {x}, !.open = @ \cup {x}]
               e == <<>>
               f == IF Present(b) THEN dir[b] ELSE e
    <2>1. /\ r \in JobType /\ r.at = "copy" /\ r.name = job[b].name /\ r.type = job[b].type
          /\ r.ok = job[b].ok /\ r.left = job[b].left \ {x} /\ r.open = job[b].open \cup {x}
        BY <1>1, <1>2, <1>3 DEF JobType, Steps
    <2>2. job' = [job EXCEPT ![b] = r]
        BY <1>4 DEF IInv
    <2>3. e \in Files /\ dir' = Set(dir, b, Set(f, x, "torn"))
        BY <1>4, EmptyDir
    <2> HIDE DEF r, e
    <2>4. f \in Files
        BY <1>2, <2>3 DEF Present
    <2> HIDE DEF f
    <2> DEFINE g == Set(f, x, "torn")
    <2>5. DOMAIN g = DOMAIN f \cup {x} /\ \A y \in DOMAIN f \ {x} : g[y] = f[y]
        BY DEF Set
    <2>6. g \in Files
        BY <1>3, <2>4, SetFile
    <2>7. job[b].at = "copy" /\ UNCHANGED <<rows, req, crashed, unmarked, holes>>
        BY <1>1, <1>4
    <2>8. dir' = Set(dir, b, g)
        BY <2>3
    <2>9. /\ stray \subseteq stray' /\ stray' \subseteq Backup
          /\ b \in DOMAIN rows \/ b \in stray'
        BY <1>2, <1>4 DEF Orphan
    <2> HIDE DEF g
    <2>10. JobStep(b) /\ job'[b] = r /\ DOMAIN dir' = DOMAIN dir \cup {b} /\ dir'[b] = g
        BY <2>1, <2>2, <2>8, <2>9, <2>6, <2>7, DirJobStep DEF Later
    <2>11. Made(b)'
        <3> SUFFICES ASSUME Sound(b)'
                     PROVE  /\ Present(b)' /\ r.open \subseteq DOMAIN g
                            /\ \A y \in Part \ (r.left \cup r.open) : y \in DOMAIN g /\ g[y] = "whole"
            BY <2>10 DEF Made
        <3>1. Sound(b)
            BY <1>1, <1>4, <2>1, <2>10 DEF Sound
        <3>2. /\ Present(b) /\ job[b].open \subseteq DOMAIN dir[b]
              /\ \A y \in Part \ (job[b].left \cup job[b].open) : y \in DOMAIN dir[b] /\ dir[b][y] = "whole"
            BY <1>1, <1>2, <3>1 DEF Made
        <3>3. f = dir[b]
            BY <3>2 DEF f
        <3>4. Present(b)' /\ r.open \subseteq DOMAIN g
            BY <2>1, <2>5, <2>10, <3>2, <3>3 DEF Present
        <3>5. ASSUME NEW y \in Part \ (r.left \cup r.open)
              PROVE  y \in DOMAIN g /\ g[y] = "whole"
            <4>1. y \in Part \ (job[b].left \cup job[b].open) /\ y # x
                BY <2>1
            <4> QED BY <2>5, <3>2, <3>3, <4>1
        <3> QED BY <3>4, <3>5
    <2>12. Named(b)' /\ Finished(b)' /\ Owned(b)'
        BY <1>1, <1>2, <2>1, <2>9, <2>10 DEF Named, Finished, Owned
    <2> QED BY <1>1, <2>1, <2>10, <2>11, <2>12, OpenGood, JobStepKeeps DEF Open
<1>5. CASE PartFails(b, x) /\ UNCHANGED <<dir, stray>>
    BY <1>1, <1>3, <1>5, PartFailsKeeps
<1> QED BY <1>1, <1>4, <1>5

LEMMA FillFileKeeps ==
    ASSUME IInv, NEW b \in Backup, FillFile(b)
    PROVE  IInv'
<1>1. PICK x \in job[b].open :
        /\ job[b].at = "copy"
        /\ \/ /\ job' = [job EXCEPT ![b].open = @ \ {x}]
              /\ dir' = IF Present(b) /\ x \in DOMAIN dir[b]
                        THEN Set(dir, b, Set(dir[b], x, "whole")) ELSE dir
              /\ UNCHANGED holes
           \/ PartFails(b, x) /\ UNCHANGED dir
        /\ UNCHANGED <<rows, req, crashed, unmarked, stray>>
    BY DEF FillFile
<1>2. /\ job[b] \in JobType /\ Named(b) /\ Made(b) /\ Owned(b)
      /\ job[b].name \in Name /\ job[b].type \in Types
      /\ holes \subseteq Backup /\ stray \subseteq Backup
      /\ b \in DOMAIN dir => dir[b] \in Files
    BY <1>1, OpenFacts DEF Open
<1>3. x \in Part
    BY <1>2 DEF JobType
<1>4. ASSUME job' = [job EXCEPT ![b].open = @ \ {x}],
             dir' = IF Present(b) /\ x \in DOMAIN dir[b]
                    THEN Set(dir, b, Set(dir[b], x, "whole")) ELSE dir,
             holes' = holes
      PROVE  IInv'
    <2> DEFINE r == [job[b] EXCEPT !.open = @ \ {x}]
    <2>1. /\ r \in JobType /\ r.at = "copy" /\ r.name = job[b].name /\ r.type = job[b].type
          /\ r.ok = job[b].ok /\ r.left = job[b].left /\ r.open = job[b].open \ {x}
        BY <1>1, <1>2 DEF JobType, Steps
    <2>2. job' = [job EXCEPT ![b] = r]
        BY <1>4 DEF IInv
    <2> HIDE DEF r
    <2>3. job[b].at = "copy" /\ UNCHANGED <<rows, req, crashed, unmarked, holes, stray>>
        BY <1>1, <1>4
    <2>4. CASE Present(b) /\ x \in DOMAIN dir[b]
        <3> DEFINE g == Set(dir[b], x, "whole")
        <3>1. /\ DOMAIN g = DOMAIN dir[b] \cup {x} /\ g[x] = "whole"
              /\ \A y \in DOMAIN dir[b] \ {x} : g[y] = dir[b][y]
            BY DEF Set
        <3>2. g \in Files
            BY <1>2, <1>3, <2>4, SetFile DEF Present
        <3>3. dir' = Set(dir, b, g)
            BY <1>4, <2>4
        <3> HIDE DEF g
        <3>4. JobStep(b) /\ job'[b] = r /\ DOMAIN dir' = DOMAIN dir \cup {b} /\ dir'[b] = g
            BY <1>2, <2>1, <2>2, <2>3, <3>2, <3>3, DirJobStep DEF Later
        <3>5. Made(b)'
            <4> SUFFICES ASSUME Sound(b)'
                         PROVE  /\ Present(b)' /\ r.open \subseteq DOMAIN g
                                /\ \A y \in Part \ (r.left \cup r.open) : y \in DOMAIN g /\ g[y] = "whole"
                BY <3>4 DEF Made
            <4>1. Sound(b)
                BY <2>1, <2>3, <3>4 DEF Sound
            <4>2. /\ job[b].open \subseteq DOMAIN dir[b]
                  /\ \A y \in Part \ (job[b].left \cup job[b].open) : y \in DOMAIN dir[b] /\ dir[b][y] = "whole"
                BY <1>2, <2>3, <4>1 DEF Made
            <4>3. Present(b)' /\ r.open \subseteq DOMAIN g
                BY <2>1, <3>1, <3>4, <4>2 DEF Present
            <4>4. ASSUME NEW y \in Part \ (r.left \cup r.open)
                  PROVE  y \in DOMAIN g /\ g[y] = "whole"
                <5>1. y = x \/ y \in Part \ (job[b].left \cup job[b].open)
                    BY <2>1
                <5> QED BY <3>1, <4>2, <5>1
            <4> QED BY <4>3, <4>4
        <3>6. Named(b)' /\ Finished(b)' /\ Owned(b)'
            BY <1>2, <2>1, <2>3, <2>4, <3>4 DEF Named, Finished, Owned, Present
        <3> QED BY <2>1, <2>3, <3>4, <3>5, <3>6, OpenGood, JobStepKeeps DEF Open
    <2>5. CASE ~(Present(b) /\ x \in DOMAIN dir[b])
        <3>1. dir' = dir
            BY <1>4, <2>5
        <3>2. JobStep(b) /\ job'[b] = r
            BY <1>2, <2>1, <2>2, <2>3, <3>1, QuietJobStep DEF Later
        <3>3. ~Sound(b)
            BY <1>1, <1>2, <2>5 DEF Made
        <3>4. ~Sound(b)'
            BY <2>1, <2>3, <3>2, <3>3 DEF Sound
        <3>5. Named(b)' /\ Made(b)' /\ Finished(b)' /\ Owned(b)'
            BY <1>2, <2>1, <2>3, <3>1, <3>2, <3>4 DEF Named, Made, Finished, Owned
        <3> QED BY <2>1, <2>3, <3>2, <3>5, OpenGood, JobStepKeeps DEF Open
    <2> QED BY <2>4, <2>5
<1>5. CASE PartFails(b, x) /\ UNCHANGED dir
    BY <1>1, <1>3, <1>5, PartFailsKeeps
<1> QED BY <1>1, <1>4, <1>5

LEMMA TaskEndsKeeps ==
    ASSUME IInv, NEW b \in Backup, TaskEnds(b)
    PROVE  IInv'
<1>1. /\ job[b].at = "copy" /\ job[b].left = {} /\ job[b].open = {}
      /\ job' = [job EXCEPT ![b].at = "end"]
      /\ UNCHANGED <<rows, dir, req, crashed, holes, unmarked, stray>>
    BY DEF TaskEnds, To
<1>2. /\ job[b] \in JobType /\ Named(b) /\ Made(b) /\ Owned(b)
      /\ job[b].name \in Name /\ job[b].type \in Types
      /\ holes \subseteq Backup /\ stray \subseteq Backup
      /\ b \in DOMAIN dir => dir[b] \in Files
    BY <1>1, OpenFacts DEF Open
<1> DEFINE r == [job[b] EXCEPT !.at = "end"]
<1>3. /\ r \in JobType /\ r.at = "end" /\ r.name = job[b].name /\ r.type = job[b].type
      /\ r.open = {} /\ r.ok = job[b].ok
    BY <1>1, <1>2 DEF JobType, Steps
<1>4. job' = [job EXCEPT ![b] = r]
    BY <1>1 DEF IInv
<1> HIDE DEF r
<1>5. JobStep(b) /\ job'[b] = r
    BY <1>1, <1>2, <1>3, <1>4, QuietJobStep DEF Later
<1>6. Sound(b) => Present(b) /\ dir[b] = Whole
    <2> SUFFICES ASSUME Sound(b)
                 PROVE  Present(b) /\ dir[b] = Whole
        OBVIOUS
    <2>1. Present(b) /\ \A x \in Part : x \in DOMAIN dir[b] /\ dir[b][x] = "whole"
        BY <1>1, <1>2 DEF Made
    <2> QED BY <1>2, <2>1, WholeFile DEF Present
<1>7. Named(b)' /\ Made(b)' /\ Finished(b)' /\ Owned(b)'
    BY <1>1, <1>2, <1>3, <1>5, <1>6 DEF Named, Made, Finished, Owned, Sound, Present, Whole
<1> QED BY <1>1, <1>3, <1>5, <1>7, OpenGood, JobStepKeeps DEF Open

LEMMA SaveTasksKeeps ==
    ASSUME IInv, NEW b \in Backup, SaveTasks(b)
    PROVE  IInv'
<1>1. PICK ok \in {job[b].ok, FALSE} : job' = [job EXCEPT ![b].at = "mark", ![b].ok = ok]
    BY DEF SaveTasks
<1>2. job[b].at = "end" /\ UNCHANGED <<rows, dir, req, crashed, holes, unmarked, stray>>
    BY DEF SaveTasks
<1>3. /\ job[b] \in JobType /\ Named(b) /\ Finished(b) /\ Owned(b) /\ job[b].open = {}
      /\ job[b].name \in Name /\ job[b].type \in Types
      /\ holes \subseteq Backup /\ stray \subseteq Backup
    BY <1>2, OpenFacts DEF Open, Named
<1> DEFINE r == [job[b] EXCEPT !.at = "mark", !.ok = ok]
<1>4. /\ r \in JobType /\ r.at = "mark" /\ r.name = job[b].name /\ r.type = job[b].type
      /\ r.open = {} /\ r.ok = ok
    BY <1>2, <1>3 DEF JobType, Steps
<1>5. job' = [job EXCEPT ![b] = r]
    BY <1>1 DEF IInv
<1> HIDE DEF r
<1>6. JobStep(b) /\ job'[b] = r
    BY <1>2, <1>3, <1>4, <1>5, QuietJobStep DEF Later
<1>7. ok => job[b].ok
    BY <1>3 DEF JobType
<1>8. Named(b)' /\ Made(b)' /\ Owned(b)'
    BY <1>2, <1>3, <1>4, <1>6 DEF Named, Made, Owned
<1>9. Sound(b)' => Sound(b)
    BY <1>2, <1>4, <1>6, <1>7 DEF Sound
<1>10. Finished(b)'
    BY <1>2, <1>3, <1>4, <1>6, <1>9 DEF Finished, Present, Whole
<1> QED BY <1>2, <1>4, <1>6, <1>8, <1>10, OpenGood, JobStepKeeps DEF Open

LEMMA MarkStatusKeeps ==
    ASSUME IInv, NEW b \in Backup, MarkStatus(b)
    PROVE  IInv'
<1>1. job[b].at = "mark" /\ UNCHANGED <<dir, req, crashed, holes, stray>>
    BY DEF MarkStatus
<1>2. /\ job[b] \in JobType /\ Named(b) /\ Finished(b) /\ Owned(b) /\ job[b].open = {}
      /\ job[b].name \in Name /\ job[b].type \in Types
      /\ holes \subseteq Backup /\ stray \subseteq Backup
    BY <1>1, OpenFacts DEF Open, Named
<1>3. ASSUME NEW s \in {"answered", "failed"}, job' = [job EXCEPT ![b].at = s],
             DOMAIN rows' = DOMAIN rows, \A d \in DOMAIN rows \ {b} : rows'[d] = rows[d],
             unmarked \subseteq unmarked', unmarked' \subseteq Backup,
             b \in DOMAIN rows => /\ rows'[b] \in RowType
                                  /\ rows'[b].name = rows[b].name /\ rows'[b].type = rows[b].type
                                  /\ rows'[b].status = "completed" => job[b].ok
                                  /\ b \in unmarked' \/ rows'[b].status = IF s = "answered" THEN "completed" ELSE "failed"
      PROVE  IInv'
    <2> DEFINE r == [job[b] EXCEPT !.at = s]
    <2>1. /\ r \in JobType /\ r.at = s /\ r.name = job[b].name /\ r.type = job[b].type
          /\ r.open = {}
        BY <1>2 DEF JobType, Steps
    <2>2. job' = [job EXCEPT ![b] = r]
        BY <1>3 DEF IInv
    <2> HIDE DEF r
    <2>3. job' \in [Backup -> JobType] /\ job'[b] = r /\ \A d \in Backup \ {b} : job'[d] = job[d]
        BY <2>1, <2>2, JobUpdate DEF IInv
    <2>4. \A d \in Backup \ {b} : Apart(d)
        BY <1>1, <1>3, <2>3 DEF Apart
    <2>5. RowsOK'
        <3>1. \A d \in DOMAIN rows : rows'[d] \in RowType /\ rows'[d].name = rows[d].name
                                     /\ rows'[d].type = rows[d].type
            BY <1>3 DEF IInv, RowsOK
        <3> QED BY <1>3, <3>1 DEF IInv, RowsOK
    <2>6. DirOK' /\ HistOK'
        BY <1>1, <1>3 DEF IInv, DirOK, HistOK
    <2>7. Rows
        BY <1>1, <1>3, <2>1, <2>3 DEF Rows, Later
    <2>8. JobStep(b)
        BY <1>1, <2>3, <2>4, <2>5, <2>6, <2>7 DEF JobStep
    <2>9. Named(b)' /\ Rowed(b)' /\ Made(b)' /\ Finished(b)' /\ Owned(b)'
        BY <1>1, <1>2, <1>3, <2>1, <2>3 DEF Named, Rowed, Made, Finished, Owned, Open, Later
    <2>10. Kept(b)'
        BY <1>1, <1>2, <1>3 DEF Kept, Finished, Sound, Present, Whole
    <2>11. Settled(b)'
        BY <1>3, <2>1, <2>3 DEF Settled
    <2> QED BY <2>8, <2>9, <2>10, <2>11, JobStepKeeps DEF GoodJob
<1>4. CASE /\ rows' = IF b \in DOMAIN rows THEN [rows EXCEPT ![b].status = Status(b)] ELSE rows
           /\ To(b, IF job[b].ok THEN "answered" ELSE "failed")
           /\ UNCHANGED unmarked
    <2> DEFINE s == IF job[b].ok THEN "answered" ELSE "failed"
    <2>1. s \in {"answered", "failed"} /\ job' = [job EXCEPT ![b].at = s]
        BY <1>4 DEF To
    <2>2. b \in DOMAIN rows => rows[b] \in RowType
        BY DEF IInv, RowsOK
    <2>3. DOMAIN rows' = DOMAIN rows /\ \A d \in DOMAIN rows \ {b} : rows'[d] = rows[d]
        BY <1>4
    <2>4. b \in DOMAIN rows => rows'[b] = [rows[b] EXCEPT !.status = Status(b)]
        BY <1>4
    <2>5. b \in DOMAIN rows => /\ rows'[b] \in RowType
                               /\ rows'[b].name = rows[b].name /\ rows'[b].type = rows[b].type
                               /\ rows'[b].status = "completed" => job[b].ok
                               /\ rows'[b].status = IF s = "answered" THEN "completed" ELSE "failed"
        BY <2>2, <2>4 DEF RowType, Status
    <2>6. unmarked' \subseteq Backup /\ unmarked \subseteq unmarked'
        BY <1>4 DEF IInv, HistOK
    <2> HIDE DEF s
    <2> QED BY <1>3, <2>1, <2>3, <2>5, <2>6
<1>5. CASE unmarked' = unmarked \cup {b} /\ To(b, "failed") /\ UNCHANGED rows
    <2>1. b \in DOMAIN rows => rows[b] \in RowType /\ rows[b].status = "in_progress"
        BY <1>1 DEF IInv, RowsOK, GoodJob, Rowed, Open
    <2>2. unmarked' \subseteq Backup
        BY <1>5 DEF IInv, HistOK
    <2>3. job' = [job EXCEPT ![b].at = "failed"]
        BY <1>5 DEF To
    <2> QED BY <1>3, <1>5, <2>1, <2>2, <2>3
<1> QED BY <1>4, <1>5 DEF MarkStatus

--------------------------------------------------------------------------------
(* Requests to delete.                                                          *)

LEMMA DeleteBackupHandlerKeeps ==
    ASSUME IInv, NEW c \in Client, DeleteBackupHandler(c)
    PROVE  IInv'
<1>1. PICK b \in Backup :
        /\ req[c].at = "idle"
        /\ req' = [req EXCEPT ![c].id = b, ![c].at = IF b \in DOMAIN rows THEN "row" ELSE "failed"]
        /\ UNCHANGED <<rows, dir, job, crashed, holes, unmarked, stray>>
    BY DEF DeleteBackupHandler
<1>2. req[c] \in ReqType /\ req[c].got = {}
    BY <1>1 DEF IInv, GoodReq, Restores
<1> DEFINE r == [req[c] EXCEPT !.id = b, !.at = IF b \in DOMAIN rows THEN "row" ELSE "failed"]
<1>3. /\ r \in ReqType /\ r.id = b /\ r.got = {}
      /\ \/ r.at = "failed"
         \/ r.at = "row" /\ b \in DOMAIN rows
    BY <1>2 DEF ReqType, Moves
<1>4. req' = [req EXCEPT ![c] = r]
    BY <1>1 DEF IInv
<1> HIDE DEF r
<1>5. req'[c] = r
    BY <1>3, <1>4, ReqUpdate DEF IInv
<1>6. b \in DOMAIN rows => job[b].at \in Later
    BY DEF IInv, GoodJob, Rowed
<1>7. GoodReq(c)'
    BY <1>1, <1>3, <1>5, <1>6 DEF GoodReq, Knows, Deletes, Restores
<1> QED BY <1>1, <1>3, <1>4, <1>7, LookKeeps

LEMMA DeleteByIDKeeps ==
    ASSUME IInv, NEW c \in Client, DeleteByID(c)
    PROVE  IInv'
<1>1. req[c].at = "row" /\ UNCHANGED <<dir, job, crashed, holes, unmarked, stray>>
    BY DEF DeleteByID
<1>2. PICK b \in Backup : b = req[c].id
    BY <1>1 DEF IInv, GoodReq, Knows
<1>3. /\ req[c] \in ReqType /\ req[c].got = {} /\ job[b].at \in Later
    BY <1>2, <1>1 DEF IInv, GoodReq, Restores, Knows
<1>4. ASSUME NEW s \in {"files", "failed"}, req' = [req EXCEPT ![c].at = s],
             \/ s = "files" /\ rows' = Without(rows, b)
             \/ s = "failed" /\ rows' = rows
      PROVE  IInv'
    <2> DEFINE r == [req[c] EXCEPT !.at = s]
    <2>1. r \in ReqType /\ r.at = s /\ r.id = b /\ r.got = {}
        BY <1>2, <1>3 DEF ReqType, Moves
    <2>2. req' = [req EXCEPT ![c] = r]
        BY <1>4 DEF IInv
    <2> HIDE DEF r
    <2>3. req' \in [Client -> ReqType] /\ req'[c] = r /\ \A e \in Client \ {c} : req'[e] = req[e]
        BY <2>1, <2>2, ReqUpdate DEF IInv
    <2>4. CASE s = "failed"
        <3>1. GoodReq(c)'
            BY <2>1, <2>3, <2>4 DEF GoodReq, Knows, Deletes, Restores
        <3> QED BY <1>1, <1>4, <2>1, <2>2, <2>4, <3>1, LookKeeps
    <2>5. CASE s = "files"
        <3>1. DOMAIN rows' = DOMAIN rows \ {b} /\ \A d \in DOMAIN rows \ {b} : rows'[d] = rows[d]
            BY <1>4, <2>5 DEF Without
        <3>2. \A d \in Backup \ {b} : Apart(d)
            BY <1>2, <1>1, <2>3, <3>1 DEF Apart
        <3>3. RowsOK' /\ DirOK' /\ HistOK'
            BY <1>1, <3>1 DEF IInv, RowsOK, DirOK, HistOK
        <3>4. ReqStep(c)
            BY <1>2, <1>1, <2>3, <3>1, <3>2, <3>3 DEF ReqStep
        <3>5. GoodReq(c)'
            BY <1>1, <1>3, <2>1, <2>3, <2>5, <3>1 DEF GoodReq, Knows, Deletes, Restores
        <3>6. Named(b)' /\ Owned(b)'
            BY <1>1, <1>3, <2>1, <2>3, <2>5 DEF IInv, GoodJob, Named, Owned
        <3>7. GoodJob(b)'
            BY <1>3, <3>1, <3>6, EarlyGood
        <3>8. \A d \in Backup : d = req[c].id => GoodJob(d)'
            BY <1>2, <3>7
        <3> QED BY <3>4, <3>5, <3>8, ReqStepKeeps
    <2> QED BY <2>4, <2>5
<1> QED BY <1>2, <1>4 DEF DeleteByID, Move

LEMMA RemoveAllKeeps ==
    ASSUME IInv, NEW c \in Client, RemoveAll(c)
    PROVE  IInv'
<1>1. req[c].at = "files" /\ UNCHANGED <<rows, job, crashed, holes, unmarked>>
    BY DEF RemoveAll
<1>2. PICK b \in Backup : b = req[c].id
    BY <1>1 DEF IInv, GoodReq, Knows
<1>3. /\ req[c] \in ReqType /\ req[c].got = {} /\ job[b].at \in Later
      /\ b \notin DOMAIN rows
    BY <1>2, <1>1 DEF IInv, GoodReq, Restores, Knows, Deletes
<1>4. ASSUME NEW s \in {"files", "done", "failed"}, req' = [req EXCEPT ![c].at = s],
             \A d \in Backup \ {b} : d \in DOMAIN dir' <=> d \in DOMAIN dir,
             \A d \in DOMAIN dir \ {b} : dir'[d] = dir[d],
             DirOK', stray \subseteq stray', stray' \subseteq Backup,
             b \in DOMAIN dir' => s = "files" \/ b \in stray'
      PROVE  IInv'
    <2> DEFINE r == [req[c] EXCEPT !.at = s]
    <2>1. r \in ReqType /\ r.at = s /\ r.id = b /\ r.got = {}
        BY <1>2, <1>3 DEF ReqType, Moves
    <2>2. req' = [req EXCEPT ![c] = r]
        BY <1>4 DEF IInv
    <2> HIDE DEF r
    <2>3. req' \in [Client -> ReqType] /\ req'[c] = r /\ \A e \in Client \ {c} : req'[e] = req[e]
        BY <2>1, <2>2, ReqUpdate DEF IInv
    <2>4. \A d \in Backup \ {b} : Apart(d)
        BY <1>2, <1>1, <1>4, <2>3 DEF Apart
    <2>5. RowsOK' /\ HistOK'
        BY <1>1, <1>4 DEF IInv, RowsOK, HistOK
    <2>6. ReqStep(c)
        BY <1>2, <1>1, <1>4, <2>3, <2>4, <2>5 DEF ReqStep
    <2>7. GoodReq(c)'
        BY <1>1, <1>3, <2>1, <2>3 DEF GoodReq, Knows, Deletes, Restores, Restorable
    <2>8. Named(b)' /\ Owned(b)'
        BY <1>1, <1>3, <1>4, <2>1, <2>3 DEF IInv, GoodJob, Named, Owned
    <2>9. GoodJob(b)'
        BY <1>1, <1>3, <2>8, EarlyGood
    <2>10. \A d \in Backup : d = req[c].id => GoodJob(d)'
        BY <1>2, <2>9
    <2> QED BY <2>6, <2>7, <2>10, ReqStepKeeps
<1>5. ASSUME Present(b), NEW x \in DOMAIN dir[b], dir' = Set(dir, b, Without(dir[b], x)),
             UNCHANGED <<req, stray>>
      PROVE  IInv'
    <2> DEFINE g == Without(dir[b], x)
    <2>1. g \in Files
        BY <1>5, WithoutFile DEF IInv, DirOK, Present
    <2>2. dir' = Set(dir, b, g)
        BY <1>5
    <2> HIDE DEF g
    <2>3. /\ DOMAIN dir' = DOMAIN dir \cup {b} /\ dir'[b] = g
          /\ \A d \in DOMAIN dir \ {b} : dir'[d] = dir[d]
        BY <2>2 DEF Set
    <2>4. DirOK'
        BY <1>3, <2>1, <2>3 DEF IInv, DirOK
    <2>5. req' = [req EXCEPT ![c].at = "files"]
        BY <1>1, <1>3, <1>5 DEF IInv, ReqType
    <2>6. stray' = stray /\ stray' \subseteq Backup
        BY <1>5 DEF IInv, HistOK
    <2> QED BY <1>4, <2>3, <2>4, <2>5, <2>6
<1>6. ASSUME dir' = Without(dir, b), Move(c, "done"), UNCHANGED stray
      PROVE  IInv'
    <2>1. DOMAIN dir' = DOMAIN dir \ {b} /\ \A d \in DOMAIN dir \ {b} : dir'[d] = dir[d]
        BY <1>6 DEF Without
    <2>2. DirOK'
        BY <2>1 DEF IInv, DirOK
    <2>3. req' = [req EXCEPT ![c].at = "done"]
        BY <1>6 DEF Move
    <2>4. stray' = stray /\ stray' \subseteq Backup
        BY <1>6 DEF IInv, HistOK
    <2> QED BY <1>4, <2>1, <2>2, <2>3, <2>4
<1>7. ASSUME Move(c, "failed"), UNCHANGED dir, stray' = stray \cup {b}
      PROVE  IInv'
    <2>1. DirOK' /\ stray' \subseteq Backup
        BY <1>3, <1>7 DEF IInv, DirOK, HistOK
    <2>2. req' = [req EXCEPT ![c].at = "failed"]
        BY <1>7 DEF Move
    <2> QED BY <1>4, <1>7, <2>1, <2>2
<1> QED BY <1>2, <1>5, <1>6, <1>7 DEF RemoveAll

--------------------------------------------------------------------------------
(* Requests to restore.                                                         *)

\* A completed backup whose row is there is whole, and what a reader has of it is as well.
LEMMA ReadFacts ==
    ASSUME IInv, NEW c \in Client, req[c].at \in {"find", "walk", "read"}
    PROVE  /\ req[c] \in ReqType /\ req[c].id \in Backup /\ job[req[c].id].at \in Later
           /\ req[c].id \in DOMAIN rows => rows[req[c].id].status = "completed"
           /\ Restorable(req[c].id) => Present(req[c].id) /\ dir[req[c].id] = Whole
           /\ Present(req[c].id) => dir[req[c].id] \in Files
           /\ req[c].at \in {"find", "walk"} => req[c].got = {}
           /\ req[c].at = "read" /\ Restorable(req[c].id) => req[c].got = (Part \ req[c].list) \X {"whole"}
<1>1. GoodReq(c) /\ req[c] \in ReqType
    BY DEF IInv
<1>2. req[c].id \in Backup /\ job[req[c].id].at \in Later
    BY <1>1 DEF GoodReq, Knows
<1>3. req[c].id \in DOMAIN rows => rows[req[c].id].status = "completed"
    BY <1>1 DEF GoodReq, Restores
<1>4. Restorable(req[c].id) => Present(req[c].id) /\ dir[req[c].id] = Whole
    BY <1>2, <1>3 DEF IInv, GoodJob, Kept, Restorable
<1>5. Present(req[c].id) => dir[req[c].id] \in Files
    BY DEF IInv, DirOK, Present
<1> QED BY <1>1, <1>2, <1>3, <1>4, <1>5 DEF GoodReq, Restores

LEMMA RestoreKeeps ==
    ASSUME IInv, NEW c \in Client, NEW type, Restore(c, type)
    PROVE  IInv'
<1>1. PICK b \in Backup :
        /\ req[c].at = "idle"
        /\ req' = [req EXCEPT ![c].id = b, ![c].at =
              IF b \in DOMAIN rows /\ rows[b].type = type /\ rows[b].status = "completed"
              THEN "find" ELSE "failed"]
        /\ UNCHANGED <<rows, dir, job, crashed, holes, unmarked, stray>>
    BY DEF Restore
<1>2. req[c] \in ReqType /\ req[c].got = {}
    BY <1>1 DEF IInv, GoodReq, Restores
<1> DEFINE s == IF b \in DOMAIN rows /\ rows[b].type = type /\ rows[b].status = "completed"
                THEN "find" ELSE "failed"
           r == [req[c] EXCEPT !.id = b, !.at = s]
<1>3. /\ r \in ReqType /\ r.id = b /\ r.got = {}
      /\ \/ r.at = "failed"
         \/ r.at = "find" /\ b \in DOMAIN rows /\ rows[b].status = "completed"
    BY <1>2 DEF ReqType, Moves
<1>4. req' = [req EXCEPT ![c] = r]
    BY <1>1 DEF IInv
<1> HIDE DEF r
<1>5. req'[c] = r
    BY <1>3, <1>4, ReqUpdate DEF IInv
<1>6. b \in DOMAIN rows => job[b].at \in Later
    BY DEF IInv, GoodJob, Rowed
<1>7. GoodReq(c)'
    BY <1>1, <1>3, <1>5, <1>6 DEF GoodReq, Knows, Deletes, Restores
<1> QED BY <1>1, <1>3, <1>4, <1>7, LookKeeps

LEMMA GetRestorableBackupKeeps ==
    ASSUME IInv, NEW c \in Client, GetRestorableBackup(c)
    PROVE  IInv'
<1>1. PICK s \in {"walk", "failed"} : req' = [req EXCEPT ![c].at = s]
    BY DEF GetRestorableBackup, Move
<1>2. req[c].at = "find" /\ UNCHANGED <<rows, dir, job, crashed, holes, unmarked, stray>>
    BY DEF GetRestorableBackup
<1>3. /\ req[c] \in ReqType /\ req[c].got = {} /\ req[c].id \in Backup /\ job[req[c].id].at \in Later
      /\ req[c].id \in DOMAIN rows => rows[req[c].id].status = "completed"
    BY <1>2, ReadFacts
<1> DEFINE r == [req[c] EXCEPT !.at = s]
<1>4. r \in ReqType /\ r.at = s /\ r.id = req[c].id /\ r.got = {}
    BY <1>3 DEF ReqType, Moves
<1>5. req' = [req EXCEPT ![c] = r]
    BY <1>1 DEF IInv
<1> HIDE DEF r
<1>6. req'[c] = r
    BY <1>4, <1>5, ReqUpdate DEF IInv
<1>7. GoodReq(c)'
    BY <1>2, <1>3, <1>4, <1>6 DEF GoodReq, Knows, Deletes, Restores
<1> QED BY <1>2, <1>4, <1>5, <1>7, LookKeeps

LEMMA WalkKeeps ==
    ASSUME IInv, NEW c \in Client, Walk(c)
    PROVE  IInv'
<1> DEFINE b == req[c].id
<1>1. req[c].at = "walk" /\ UNCHANGED <<rows, dir, job, crashed, holes, unmarked, stray>>
    BY DEF Walk
<1>2. /\ req[c] \in ReqType /\ req[c].got = {} /\ b \in Backup /\ job[b].at \in Later
      /\ b \in DOMAIN rows => rows[b].status = "completed"
      /\ Restorable(b) => Present(b) /\ dir[b] = Whole
      /\ Present(b) => dir[b] \in Files
    BY <1>1, ReadFacts
<1>3. CASE ~Present(b)
    <2> DEFINE r == [req[c] EXCEPT !.at = "failed"]
    <2>1. r \in ReqType /\ r.at = "failed" /\ r.id = b /\ r.got = {}
        BY <1>2 DEF ReqType, Moves
    <2>2. req' = [req EXCEPT ![c] = r]
        BY <1>3 DEF Walk, Move, IInv
    <2> HIDE DEF r
    <2>3. req'[c] = r
        BY <2>1, <2>2, ReqUpdate DEF IInv
    <2>4. GoodReq(c)'
        BY <2>1, <2>3 DEF GoodReq, Knows, Deletes, Restores
    <2> QED BY <1>1, <2>1, <2>2, <2>4, LookKeeps
<1>4. CASE Present(b)
    <2> DEFINE l == DOMAIN dir[b]
               r == [req[c] EXCEPT !.at = "read", !.list = l]
    <2>1. l \subseteq Part /\ (Restorable(b) => l = Part)
        BY <1>2, <1>4 DEF Files, Whole
    <2>2. req' = [req EXCEPT ![c].at = "read", ![c].list = l]
        BY <1>4 DEF Walk
    <2> HIDE DEF l
    <2>3. r \in ReqType /\ r.at = "read" /\ r.id = b /\ r.got = {} /\ r.list = l
        BY <1>2, <2>1 DEF ReqType, Moves
    <2>4. req' = [req EXCEPT ![c] = r]
        BY <2>2 DEF IInv
    <2> HIDE DEF r
    <2>5. req'[c] = r
        BY <2>3, <2>4, ReqUpdate DEF IInv
    <2>6. Restorable(b) => r.got = (Part \ r.list) \X {"whole"}
        BY <2>1, <2>3
    <2>7. GoodReq(c)'
        BY <1>1, <1>2, <2>3, <2>5, <2>6 DEF GoodReq, Knows, Deletes, Restores, Restorable
    <2> QED BY <1>1, <2>3, <2>4, <2>7, LookKeeps
<1> QED BY <1>3, <1>4

LEMMA ReadPartKeeps ==
    ASSUME IInv, NEW c \in Client, ReadPart(c)
    PROVE  IInv'
<1> DEFINE b == req[c].id
           here(x) == Present(b) /\ x \in DOMAIN dir[b]
<1>1. PICK x \in req[c].list :
        /\ req[c].at = "read"
        /\ req' = [req EXCEPT ![c].list = @ \ {x},
                   ![c].got = IF here(x) THEN @ \cup {<<x, dir[b][x]>>} ELSE @,
                   ![c].at = IF here(x) THEN @ ELSE "failed"]
        /\ UNCHANGED <<rows, dir, job, crashed, holes, unmarked, stray>>
    BY DEF ReadPart
<1>2. /\ req[c] \in ReqType /\ b \in Backup /\ job[b].at \in Later
      /\ b \in DOMAIN rows => rows[b].status = "completed"
      /\ Restorable(b) => Present(b) /\ dir[b] = Whole
      /\ Present(b) => dir[b] \in Files
      /\ Restorable(b) => req[c].got = (Part \ req[c].list) \X {"whole"}
    BY <1>1, ReadFacts
<1>3. x \in Part
    BY <1>2 DEF ReqType
<1> DEFINE l == req[c].list \ {x}
           g == IF here(x) THEN req[c].got \cup {<<x, dir[b][x]>>} ELSE req[c].got
           s == IF here(x) THEN req[c].at ELSE "failed"
           r == [req[c] EXCEPT !.list = l, !.got = g, !.at = s]
<1>4. l \subseteq Part /\ g \subseteq Part \X {"torn", "whole"} /\ s \in {"read", "failed"}
    <2>1. here(x) => dir[b][x] \in {"torn", "whole"}
        BY <1>2 DEF Files
    <2> QED BY <1>1, <1>2, <1>3, <2>1 DEF ReqType
<1>5. Restorable(b) => g = (Part \ l) \X {"whole"}
    <2> SUFFICES ASSUME Restorable(b)
                 PROVE  g = (Part \ l) \X {"whole"}
        OBVIOUS
    <2>1. here(x) /\ dir[b][x] = "whole"
        BY <1>2, <1>3 DEF Whole
    <2>2. Part \ l = (Part \ req[c].list) \cup {x}
        BY <1>3
    <2>3. g = ((Part \ req[c].list) \X {"whole"}) \cup {<<x, "whole">>}
        BY <1>2, <2>1
    <2> QED BY <2>2, <2>3
<1>6. req' = [req EXCEPT ![c] = r]
    BY <1>1 DEF IInv
<1> HIDE DEF l, g, s
<1>7. r \in ReqType /\ r.at = s /\ r.id = b /\ r.got = g /\ r.list = l
    BY <1>2, <1>4 DEF ReqType, Moves
<1> HIDE DEF r
<1>8. req'[c] = r
    BY <1>6, <1>7, ReqUpdate DEF IInv
<1>9. GoodReq(c)'
    <2>1. Knows(c)' /\ Deletes(c)'
        BY <1>1, <1>2, <1>4, <1>7, <1>8 DEF Knows, Deletes
    <2>2. Restores(c)'
        <3> DEFINE k == req'[c].id
        <3>1. k = b /\ req'[c].at \in {"read", "failed"} /\ rows' = rows /\ holes' = holes
            BY <1>1, <1>4, <1>7, <1>8
        <3>2. Restorable(b) => req'[c].got = (Part \ req'[c].list) \X {"whole"}
            BY <1>5, <1>7, <1>8
        <3> HIDE DEF b
        <3> QED BY <1>2, <3>1, <3>2 DEF Restores, Restorable
    <2> QED BY <2>1, <2>2 DEF GoodReq
<1> QED BY <1>1, <1>6, <1>7, <1>9, LookKeeps

LEMMA RestoreEndsKeeps ==
    ASSUME IInv, NEW c \in Client, RestoreEnds(c)
    PROVE  IInv'
<1>1. PICK s \in {"done", "failed"} :
        req' = [req EXCEPT ![c].at = s] /\ (s = "done" => req[c].list = {})
    BY DEF RestoreEnds, Move
<1>2. req[c].at = "read" /\ UNCHANGED <<rows, dir, job, crashed, holes, unmarked, stray>>
    BY DEF RestoreEnds
<1>3. /\ req[c] \in ReqType /\ req[c].id \in Backup /\ job[req[c].id].at \in Later
      /\ Restorable(req[c].id) => req[c].got = (Part \ req[c].list) \X {"whole"}
    BY <1>2, ReadFacts
<1> DEFINE r == [req[c] EXCEPT !.at = s]
<1>4. r \in ReqType /\ r.at = s /\ r.id = req[c].id /\ r.got = req[c].got
    BY <1>3 DEF ReqType, Moves
<1>5. req' = [req EXCEPT ![c] = r]
    BY <1>1 DEF IInv
<1> HIDE DEF r
<1>6. req'[c] = r
    BY <1>4, <1>5, ReqUpdate DEF IInv
<1>7. s = "done" /\ Restorable(req[c].id) => r.got = Part \X {"whole"}
    BY <1>1, <1>3, <1>4
<1>8. GoodReq(c)'
    BY <1>2, <1>3, <1>4, <1>6, <1>7 DEF GoodReq, Knows, Deletes, Restores, Restorable
<1> QED BY <1>2, <1>4, <1>5, <1>8, LookKeeps

--------------------------------------------------------------------------------
(* The end of the process.                                                      *)

LEMMA CrashKeeps ==
    ASSUME IInv, Crash
    PROVE  IInv'
<1> DEFINE busy == {b \in Backup : job[b].at \notin {"idle"} \cup Over}
           gone == {c \in Client : req[c].at \notin {"idle"} \cup Over}
<1>1. /\ crashed' = crashed \cup busy \cup gone
      /\ job' = [b \in Backup |-> IF b \in busy THEN [job[b] EXCEPT !.at = "failed", !.open = {}, !.left = {}]
                                  ELSE job[b]]
      /\ req' = [c \in Client |-> IF c \in gone THEN [req[c] EXCEPT !.at = "failed", !.list = {}] ELSE req[c]]
      /\ stray' = stray \cup {b \in busy : job[b].at = "insert"}
                        \cup {req[c].id : c \in {k \in gone : req[k].at = "files"}}
      /\ UNCHANGED <<rows, dir, holes, unmarked>>
    BY DEF Crash
<1>2. /\ job \in [Backup -> JobType] /\ req \in [Client -> ReqType]
      /\ \A b \in Backup : GoodJob(b)
      /\ \A c \in Client : GoodReq(c)
    BY DEF IInv
<1>3. ASSUME NEW b \in Backup
      PROVE  /\ job'[b] \in JobType
             /\ job[b].at \notin {"idle"} \cup Over =>
                   /\ job'[b].at = "failed" /\ job'[b].open = {} /\ job'[b].name = job[b].name
                   /\ job'[b].type = job[b].type /\ b \in crashed'
                   /\ job[b].at = "insert" => b \in stray'
             /\ job[b].at \in {"idle"} \cup Over => job'[b] = job[b]
    BY <1>1, <1>2 DEF JobType, Steps
<1>4. ASSUME NEW c \in Client
      PROVE  /\ req'[c] \in ReqType
             /\ req[c].at \notin {"idle"} \cup Over => req'[c].at = "failed"
             /\ req[c].at = "files" => req[c].id \in stray'
             /\ req[c].at \in {"idle"} \cup Over => req'[c] = req[c]
    <2>1. req[c].at = "files" => req[c].id \in stray'
        BY <1>1 DEF Over
    <2> QED BY <1>1, <1>2, <2>1 DEF ReqType, Moves
<1>5. job' \in [Backup -> JobType] /\ req' \in [Client -> ReqType]
    <2>1. job' \in [Backup -> JobType]
        BY <1>1, <1>3
    <2>2. req' \in [Client -> ReqType]
        BY <1>1, <1>4
    <2> QED BY <2>1, <2>2
<1>6. RowsOK' /\ DirOK'
    BY <1>1 DEF IInv, RowsOK, DirOK
<1>7. HistOK'
    <2>1. \A c \in Client : req[c].at = "files" => req[c].id \in Backup
        BY <1>2 DEF GoodReq, Knows
    <2>2. stray' \subseteq Backup
        BY <1>1, <2>1 DEF IInv, HistOK
    <2>3. crashed' \subseteq Backup \cup Client /\ holes' \subseteq Backup /\ unmarked' \subseteq Backup
        BY <1>1 DEF IInv, HistOK
    <2> QED BY <2>2, <2>3 DEF HistOK
<1>8. crashed \subseteq crashed' /\ stray \subseteq stray' /\ UNCHANGED <<rows, dir, holes, unmarked>>
    BY <1>1
<1> HIDE DEF busy, gone
<1>9. ASSUME NEW b \in Backup
      PROVE  GoodJob(b)'
    <2>1. GoodJob(b)
        BY <1>2
    <2>2. Owned(b)'
        <3>1. b \in DOMAIN dir \ DOMAIN rows => b \in stray'
            BY <1>3, <1>4, <1>8, <2>1 DEF GoodJob, Owned, Over
        <3> QED BY <1>8, <3>1 DEF Owned
    <2>3. CASE job[b].at \notin {"idle"} \cup Over
        <3>1. job'[b].at = "failed" /\ job'[b].open = {} /\ job'[b].name = job[b].name
              /\ job'[b].type = job[b].type /\ b \in crashed'
            BY <1>3, <2>3
        <3>2. Named(b)' /\ Rowed(b)' /\ Made(b)' /\ Finished(b)' /\ Settled(b)'
            BY <2>1, <2>3, <3>1 DEF GoodJob, Named, Rowed, Made, Finished, Settled, Later, Open
        <3>3. Kept(b)'
            BY <1>8, <2>1 DEF GoodJob, Kept, Present, Whole
        <3> QED BY <2>2, <3>2, <3>3 DEF GoodJob
    <2>4. CASE job[b].at \in {"idle"} \cup Over
        <3>1. job'[b] = job[b]
            BY <1>3, <2>4
        <3>2. Named(b)' /\ Rowed(b)' /\ Settled(b)'
            BY <1>8, <2>1, <3>1 DEF GoodJob, Named, Rowed, Settled
        <3>3. Made(b)' /\ Finished(b)' /\ Kept(b)'
            BY <1>8, <2>1, <3>1 DEF GoodJob, Made, Finished, Kept, Sound, Present, Whole
        <3> QED BY <2>2, <3>2, <3>3 DEF GoodJob
    <2> QED BY <2>3, <2>4
<1>10. ASSUME NEW c \in Client
       PROVE  GoodReq(c)'
    <2>1. GoodReq(c)
        BY <1>2
    <2>2. CASE req[c].at \notin {"idle"} \cup Over
        BY <1>4, <2>2 DEF GoodReq, Knows, Deletes, Restores
    <2>3. CASE req[c].at \in {"idle"} \cup Over
        <3>1. req'[c] = req[c]
            BY <1>4, <2>3
        <3>2. \A b \in Backup : job[b].at \in Later => job'[b].at \in Later
            BY <1>3 DEF Later
        <3>3. Knows(c)'
            BY <2>1, <3>1, <3>2 DEF GoodReq, Knows
        <3>4. Deletes(c)' /\ Restores(c)'
            BY <1>8, <2>1, <3>1 DEF GoodReq, Deletes, Restores, Restorable
        <3> QED BY <3>3, <3>4 DEF GoodReq
    <2> QED BY <2>2, <2>3
<1> QED BY <1>5, <1>6, <1>7, <1>9, <1>10 DEF IInv

--------------------------------------------------------------------------------
(* The invariant.                                                               *)

LEMMA InitEstablishes == Init => IInv
<1> SUFFICES ASSUME Init
             PROVE  IInv
    OBVIOUS
<1>1. DOMAIN rows = {} /\ DOMAIN dir = {}
    BY EmptyDir DEF Init
<1>2. job \in [Backup -> JobType] /\ req \in [Client -> ReqType]
    BY DEF Init, JobType, ReqType, Steps, Moves
<1>3. RowsOK /\ DirOK /\ HistOK
    BY <1>1 DEF Init, RowsOK, DirOK, HistOK
<1>4. \A b \in Backup : GoodJob(b)
    BY <1>1 DEF Init, GoodJob, Named, Rowed, Made, Finished, Kept, Settled, Owned, Sound
<1>5. \A c \in Client : GoodReq(c)
    BY DEF Init, GoodReq, Knows, Deletes, Restores
<1> QED BY <1>2, <1>3, <1>4, <1>5 DEF IInv

LEMMA StutterKeeps ==
    ASSUME IInv, UNCHANGED vars
    PROVE  IInv'
<1>1. UNCHANGED <<rows, dir, job, req, crashed, holes, unmarked, stray>>
    BY DEF vars
<1>2. RowsOK' /\ DirOK' /\ HistOK' /\ job' \in [Backup -> JobType] /\ req' \in [Client -> ReqType]
    BY <1>1 DEF IInv, RowsOK, DirOK, HistOK
<1>3. \A b \in Backup : GoodJob(b)'
    BY <1>1, ApartKeeps DEF Apart
<1>4. \A c \in Client : GoodReq(c)'
    BY <1>1, OtherRequests DEF Rows
<1> QED BY <1>2, <1>3, <1>4 DEF IInv

\* The service is one of the types of the constant, which its own guard says.
LEMMA NextKeeps ==
    ASSUME IInv, [Next]_vars
    PROVE  IInv'
<1>1. CASE UNCHANGED vars
    BY <1>1, StutterKeeps
<1>2. CASE Crash
    BY <1>2, CrashKeeps
<1>3. ASSUME NEW b \in Backup,
             BackupOSPostHandler(b) \/ BackupRDBPostHandler(b) \/ BackupNRDBPostHandler(b)
      PROVE  IInv'
    <2>1. PICK type \in Types : Post(b, type)
        BY <1>3 DEF BackupOSPostHandler, BackupRDBPostHandler, BackupNRDBPostHandler, Post
    <2> QED BY <2>1, PostKeeps
<1>4. ASSUME NEW b \in Backup, Work(b)
      PROVE  IInv'
    BY <1>4, CheckDuplicateKeeps, MkdirAllKeeps, CreateBackupKeeps, RunTaskOnceKeeps, CreateFileKeeps,
       FillFileKeeps, TaskEndsKeeps, SaveTasksKeeps, MarkStatusKeeps DEF Work
<1>5. ASSUME NEW c \in Client, DeleteBackupHandler(c)
      PROVE  IInv'
    BY <1>5, DeleteBackupHandlerKeeps
<1>6. ASSUME NEW c \in Client,
             RestoreOSPostHandler(c) \/ RestoreRDBPostHandler(c) \/ RestoreNRDBPostHandler(c)
      PROVE  IInv'
    BY <1>6, RestoreKeeps DEF RestoreOSPostHandler, RestoreRDBPostHandler, RestoreNRDBPostHandler
<1>7. ASSUME NEW c \in Client, Serve(c)
      PROVE  IInv'
    BY <1>7, DeleteByIDKeeps, RemoveAllKeeps, GetRestorableBackupKeeps, WalkKeeps, ReadPartKeeps,
       RestoreEndsKeeps DEF Serve
<1> QED BY <1>1, <1>2, <1>3, <1>4, <1>5, <1>6, <1>7 DEF Next

\* The inductive invariant holds throughout: what every step of the requests in
\* backupHandlers.go and backup.go keeps, and a crash as well.
THEOREM Invariant == Spec => []IInv
<1>1. IInv /\ [Next]_vars => IInv'
    BY NextKeeps
<1> QED BY InitEstablishes, <1>1, PTL DEF Spec

--------------------------------------------------------------------------------
(* The properties.                                                              *)

\* Type correctness, and with it the unique index of tbbackup: no two rows have the
\* same name and type, though the check for a duplicate runs long before the insert.
THEOREM TypeInvariant == Spec => []TypeOK
<1>1. IInv => TypeOK
    <2> SUFFICES ASSUME IInv
                 PROVE  TypeOK
        OBVIOUS
    <2>1. \A b \in DOMAIN dir : DOMAIN dir[b] \subseteq Part /\ \A x \in DOMAIN dir[b] : dir[b][x] \in {"torn", "whole"}
        BY DEF IInv, DirOK, Files
    <2> QED BY <2>1 DEF IInv, TypeOK, RowsOK, DirOK, HistOK, RowType, JobType, ReqType
<1> QED BY Invariant, <1>1, PTL

\* A completed backup is whole at every moment, while it is deleted and after a
\* crash too (MarkStatus, DeleteBackup).
THEOREM CompletedIsWholeInvariant == Spec => []CompletedIsWhole
<1>1. IInv => CompletedIsWhole
    BY DEF IInv, RowsOK, GoodJob, Kept, CompletedIsWhole
<1> QED BY Invariant, <1>1, PTL

\* A restore answered as a success has brought back every part (Restore).
THEOREM RestoredIsWholeInvariant == Spec => []RestoredIsWhole
<1>1. IInv => RestoredIsWhole
    <2> SUFFICES ASSUME IInv, NEW c \in Client, req[c].at = "done", req[c].id \in DOMAIN rows, req[c].id \notin holes
                 PROVE  req[c].got = {<<x, "whole">> : x \in Part}
        BY DEF RestoredIsWhole
    <2>1. req[c].got = Part \X {"whole"}
        BY DEF IInv, GoodReq, Restores, Restorable
    <2> QED BY <2>1
<1> QED BY Invariant, <1>1, PTL

\* A directory without a row is being made or deleted, or was left by an error, a
\* crash, or a backup that went on after its deletion (CreateBackup, DeleteBackup).
THEOREM NoStrayDirectoryInvariant == Spec => []NoStrayDirectory
<1>1. IInv => NoStrayDirectory
    BY DEF IInv, DirOK, GoodJob, Owned, NoStrayDirectory
<1> QED BY Invariant, <1>1, PTL

\* An answered request has settled the status of its row (CreateBackup, MarkStatus).
THEOREM StatusSettlesInvariant == Spec => []StatusSettles
<1>1. IInv => StatusSettles
    BY DEF IInv, RowsOK, GoodJob, Settled, StatusSettles
<1> QED BY Invariant, <1>1, PTL

===============================================================================
