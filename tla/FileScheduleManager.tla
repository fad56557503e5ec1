------------------------ MODULE FileScheduleManager ------------------------
(***************************************************************************)
(* The task and schedule manager of mc-data-manager                        *)
(* (service/task/task.go): the task list, the schedule list, the gocron    *)
(* jobs, the mutex m.mu and the JSON file they are saved to.               *)
(*                                                                         *)
(* A goroutine is an HTTP request handler or a gocron run.  Operations     *)
(* that hold m.mu until their save returns are one step for the change of  *)
(* the memory and two for the save (os.Create truncates, Encode writes);   *)
(* RunTasks, RunTaskOnce, UpdateTask and DeleteTask change or save without *)
(* m.mu, so their steps interleave with everybody's.                       *)
(***************************************************************************)
EXTENDS Integers, FiniteSets, SequencesExt

CONSTANTS
  Goroutine,    \* request handlers and scheduler runs that may be in progress
  Op,           \* OperationIds in requests
  GivenId,      \* TaskIDs supplied by a caller (the backup record's id, ...)
  NoId,         \* the empty TaskID
  NoOne,        \* m.mu is free
  Workload,     \* the kinds of request issued
  Timing,       \* the timings of submitted schedules
  Status0,      \* the statuses of submitted tasks
  IOErrors,     \* whether file operations may fail
  Distinct,     \* whether callers use an OperationId once per second
  MaxClock,     \* bound: seconds that pass
  MaxRequests,  \* bound: requests issued
  MaxCrashes    \* bound: crashes of the process

RequestKinds == {"ClearServiceAndTaskAll", "CreateTask", "RunTaskOnce", "UpdateTask", "DeleteTask",
                 "UpdateTasksByType", "DeleteTasksByType",
                 "CreateSchedule", "UpdateSchedule", "DeleteSchedule"}

\* A schedule names a cron expression, or a start time or nothing (one run);
\* "badcron" and "badzone" do not validate in registerSchedule.
Timings == {"cron", "once", "badcron", "badzone"}
Registrable(s) == s.timing \in {"cron", "once"}

ASSUME Assumptions ==
  /\ NoOne \notin Goroutine
  /\ Workload \subseteq RequestKinds
  /\ Timing \subseteq Timings
  /\ Status0 \subseteq {"active", "inactive"}
  /\ IOErrors \in BOOLEAN /\ Distinct \in BOOLEAN
  /\ MaxClock \in Nat /\ MaxRequests \in Nat /\ MaxCrashes \in Nat

Clock      == 0..MaxClock
Statuses   == {"active", "inactive", "completed", "failed"}
ScheduleId == Op \X Clock                         \* GenerateScheduleID
TaskId     == {NoId} \cup GivenId \cup ((Op \cup ScheduleId) \X Clock)
Task       == [id : TaskId, type : {"work", "delete"}, status : Statuses]
Schedule   == [id : ScheduleId, op : Op, timing : Timings, tasks : Seq(Task)]
Job        == [tag : ScheduleId, timing : Timings, tasks : Seq(Task)]
File       == [state : {"absent", "torn", "whole"},
               tasks : Seq(Task), schedules : Seq(Schedule)]

VARIABLES
  up,         \* "down", "up", or "nil": managerInstance after a failed load
  mu,         \* the goroutine that holds m.mu, or NoOne
  tasks,      \* m.tasks
  schedules,  \* m.schedules
  jobs,       \* the jobs registered with the gocron schedulers
  file,       \* task.json
  now,        \* the wall clock, in seconds: ids are made from it
  pc,         \* what each goroutine does next
  run,        \* the tasks a goroutine is running (RunTasks, RunTaskOnce)
  save,       \* the slices a goroutine in saveToFile is encoding
  edit,       \* the index found by an UpdateTask or DeleteTask in progress
  fired,      \* history: one-time schedules that have run since they were submitted
  raced,      \* history: somebody changed or saved the lists during another's Encode
  requests,   \* requests issued
  crashes     \* crashes so far

vars == <<up, mu, tasks, schedules, jobs, file, now, pc, run, save, edit,
          fired, raced, requests, crashes>>

NoRun  == [list |-> <<>>, pos |-> 1, once |-> FALSE, tag |-> <<>>,
           clear |-> 0, until |-> 0]
NoSave == [tasks |-> <<>>, schedules |-> <<>>, alias |-> {}]
NoEdit == [idx |-> 1, id |-> NoId, delete |-> FALSE]

Absent == [state |-> "absent", tasks |-> <<>>, schedules |-> <<>>]
Torn   == [state |-> "torn", tasks |-> <<>>, schedules |-> <<>>]
Image(ts, ss) == [state |-> "whole", tasks |-> ts, schedules |-> ss]

JobOf(s) == [tag |-> s.id, timing |-> s.timing, tasks |-> s.tasks]

Init ==
  /\ up = "down" /\ mu = NoOne /\ file = Absent
  /\ tasks = <<>> /\ schedules = <<>> /\ jobs = {}
  /\ now = 0 /\ requests = 0 /\ crashes = 0 /\ fired = {} /\ raced = FALSE
  /\ pc = [p \in Goroutine |-> "idle"]
  /\ run = [p \in Goroutine |-> NoRun]
  /\ save = [p \in Goroutine |-> NoSave]
  /\ edit = [p \in Goroutine |-> NoEdit]

-----------------------------------------------------------------------------
(* Slices.  saveToFile copies the slice headers m.tasks and m.schedules and *)
(* encodes later: until m.tasks moves to a new backing array, a goroutine   *)
(* that is encoding sees the elements written meanwhile.                    *)

\* What a header of old length sees of the array once new has been stored in it.
Through(old, new) ==
  [i \in 1..Len(old) |-> IF i <= Len(new) THEN new[i] ELSE old[i]]

\* Store ts and ss as m.tasks and m.schedules; moved names those that got a
\* new backing array.
Store(ts, ss, moved) ==
  /\ tasks' = ts
  /\ schedules' = ss
  /\ save' = [q \in Goroutine |->
       [tasks |-> IF "tasks" \in save[q].alias \ moved
                    THEN Through(save[q].tasks, ts) ELSE save[q].tasks,
        schedules |-> IF "schedules" \in save[q].alias \ moved
                    THEN Through(save[q].schedules, ss) ELSE save[q].schedules,
        alias |-> save[q].alias \ moved]]

\* Another goroutine has copied the lists and not written them yet.
Overtakes(p) == \E q \in Goroutine \ {p} : pc[q] = "encode"
Race(p) == raced' = (raced \/ Overtakes(p))

\* An append may move a slice, unless its array is known to have room.
MayMove == {a \in {"tasks", "schedules"} :
              \A q \in Goroutine : a \in save[q].alias =>
                 IF a = "tasks" THEN Len(save[q].tasks) <= Len(tasks)
                                ELSE Len(save[q].schedules) <= Len(schedules)}

\* i is the index the code's loops stop at.
FirstTask(i, id) ==
  i \in 1..Len(tasks) /\ tasks[i].id = id /\ \A j \in 1..(i-1) : tasks[j].id # id
FirstSchedule(i, sid) ==
  /\ i \in 1..Len(schedules) /\ schedules[i].id = sid
  /\ \A j \in 1..(i-1) : schedules[j].id # sid

-----------------------------------------------------------------------------
(* The save at the end of an operation, and its return.                     *)

\* The operation of p returns: a deferred m.mu.Unlock runs, RunTaskOnce goes on
\* after its CreateTask and ClearServiceAndTaskAll after each RunTasks.
Return(p) ==
  /\ mu' = IF mu = p THEN NoOne ELSE mu
  /\ edit' = [edit EXCEPT ![p] = NoEdit]
  /\ \/ /\ run[p].once /\ mu = p
        /\ pc' = [pc EXCEPT ![p] = "run"] /\ run' = run
     \/ /\ run[p].clear > 0
        /\ pc' = [pc EXCEPT ![p] = "clear"] /\ run' = run
     \/ /\ ~(run[p].once /\ mu = p) /\ run[p].clear = 0
        /\ pc' = [pc EXCEPT ![p] = "idle"] /\ run' = [run EXCEPT ![p] = NoRun]

\* saveToFile up to os.Create, which truncates the file.
SaveOpen(p) ==
  /\ pc[p] = "save"
  /\ \/ /\ file' = Torn
        /\ save' = [save EXCEPT ![p] = [tasks |-> tasks, schedules |-> schedules,
                                        alias |-> {"tasks", "schedules"}]]
        /\ pc' = [pc EXCEPT ![p] = "encode"]
        /\ Race(p)
        /\ UNCHANGED <<mu, run, edit>>
     \/ IOErrors /\ Return(p) /\ UNCHANGED <<file, save, raced>>
  /\ UNCHANGED <<up, tasks, schedules, jobs, now, fired, requests, crashes>>

\* encoder.Encode: the whole document in one write from offset 0.  A longer
\* document left behind by another save does not matter: the decoder stops at
\* the end of the first value.
SaveEncode(p) ==
  /\ pc[p] = "encode"
  /\ \/ file' = Image(save[p].tasks, save[p].schedules)
     \/ IOErrors /\ file' = Torn
  /\ Return(p)
  /\ save' = [save EXCEPT ![p] = NoSave]
  /\ UNCHANGED <<up, tasks, schedules, jobs, now, fired, raced, requests, crashes>>

-----------------------------------------------------------------------------
(* Requests                                                                 *)

Request(p, kind) ==
  /\ up = "up" /\ kind \in Workload
  /\ pc[p] = "idle" /\ requests < MaxRequests
  /\ requests' = requests + 1
  /\ Race(p)
  /\ UNCHANGED <<up, now, crashes>>

\* Mutants: the operation forgets saveToFile; it unlocks before it saves.
Lock_NoSave(p) == mu = NoOne /\ UNCHANGED <<mu, pc>>
Lock_EarlyUnlock(p) == mu = NoOne /\ mu' = mu /\ pc' = [pc EXCEPT ![p] = "save"]

\* A request whose handler takes m.mu and keeps it until its save is over.
Lock(p) ==
  mu = NoOne /\ mu' = p /\ pc' = [pc EXCEPT ![p] = "save"]

\* Mutant: tasks stored with a status no code handles.
NewTask_Pending(id, st) == [id |-> id, type |-> "work", status |-> "pending"]

NewTask(id, st) == [id |-> id, type |-> "work", status |-> st]

\* The id CreateTask stores: the caller's, or GenerateTaskID(OperationId, 0).
StoredId(id, op) == IF id = NoId THEN <<op, now>> ELSE id

\* CreateTask: rejects a TaskID already listed, else appends and saves.
CreateTask(p) ==
  \E id \in GivenId \cup {NoId}, op \in Op, st \in Status0, moved \in SUBSET {"tasks"} :
     /\ Request(p, "CreateTask")
     /\ \A i \in 1..Len(tasks) : tasks[i].id # StoredId(id, op)
     /\ Lock(p)
     /\ moved \subseteq MayMove
     /\ Store(Append(tasks, NewTask(StoredId(id, op), st)), schedules, moved)
     /\ UNCHANGED <<jobs, file, run, edit, fired>>

\* RunTaskOnce up to the end of CreateTask, whose error it ignores.  The copy
\* it runs keeps the id the caller sent.
RunTaskOnce(p) ==
  \E id \in GivenId \cup {NoId}, op \in Op, st \in Status0, moved \in SUBSET {"tasks"} :
     /\ Request(p, "RunTaskOnce")
     /\ mu = NoOne
     /\ run' = [run EXCEPT ![p] = [NoRun EXCEPT !.list = <<NewTask(id, st)>>,
                                                !.once = TRUE]]
     /\ \/ /\ \E i \in 1..Len(tasks) : tasks[i].id = StoredId(id, op)
           /\ moved = {}
           /\ pc' = [pc EXCEPT ![p] = "run"]
           /\ UNCHANGED <<mu, tasks, schedules, save>>
        \/ /\ \A i \in 1..Len(tasks) : tasks[i].id # StoredId(id, op)
           /\ Lock(p)
           /\ moved \subseteq MayMove
           /\ Store(Append(tasks, NewTask(StoredId(id, op), st)), schedules, moved)
     /\ UNCHANGED <<jobs, file, edit, fired>>

\* The TaskID of an update's body, which is stored as it is: that of the task that
\* was looked up, another one or none.
BodyId(id) == GivenId \cup {NoId, id}

\* UpdateTask and DeleteTask look the task up without m.mu ...
FindTask(p) ==
  \E i \in 1..Len(tasks), del \in BOOLEAN :
     /\ Request(p, IF del THEN "DeleteTask" ELSE "UpdateTask")
     /\ FirstTask(i, tasks[i].id)
     /\ edit' = [edit EXCEPT ![p] = [idx |-> i, id |-> tasks[i].id, delete |-> del]]
     /\ pc' = [pc EXCEPT ![p] = "found"]
     /\ UNCHANGED <<mu, tasks, schedules, jobs, file, run, save, fired>>

\* ... and write to the index they found, whatever is there by now.  An index
\* beyond the end panics, which the Recover middleware turns into a response.
EditTask(p) ==
  LET i == edit[p].idx IN
  /\ pc[p] = "found"
  /\ \/ /\ i <= Len(tasks)
        /\ \/ /\ edit[p].delete
              /\ Store(RemoveAt(tasks, i), schedules, {})
           \/ /\ ~edit[p].delete
              /\ \E id \in BodyId(edit[p].id), st \in Status0 :
                   Store([tasks EXCEPT ![i] = NewTask(id, st)], schedules, {})
        /\ pc' = [pc EXCEPT ![p] = "save"]
        /\ edit' = edit
     \/ /\ i > Len(tasks)
        /\ pc' = [pc EXCEPT ![p] = "idle"]
        /\ edit' = [edit EXCEPT ![p] = NoEdit]
        /\ UNCHANGED <<tasks, schedules, save>>
  /\ Race(p)
  /\ UNCHANGED <<up, mu, jobs, file, now, run, fired, requests, crashes>>

\* UpdateTasksByType and DeleteTasksByType do the same under m.mu.
UpdateTasksByType(p) ==
  \E i \in 1..Len(tasks) : \E id \in BodyId(tasks[i].id), st \in Status0 :
     /\ Request(p, "UpdateTasksByType")
     /\ FirstTask(i, tasks[i].id)
     /\ Lock(p)
     /\ Store([tasks EXCEPT ![i] = NewTask(id, st)], schedules, {})
     /\ UNCHANGED <<jobs, file, run, edit, fired>>

DeleteTasksByType(p) ==
  \E i \in 1..Len(tasks) :
     /\ Request(p, "DeleteTasksByType")
     /\ FirstTask(i, tasks[i].id)
     /\ Lock(p)
     /\ Store(RemoveAt(tasks, i), schedules, {})
     /\ UNCHANGED <<jobs, file, run, edit, fired>>

\* Mutant: the error return keeps m.mu.
RegisterAndSave_LeaksLock(p, s, others) ==
  \/ Registrable(s) /\ jobs' = others \cup {JobOf(s)} /\ Lock(p)
  \/ ~Registrable(s) /\ mu = NoOne /\ mu' = p /\ jobs' = others /\ UNCHANGED pc

\* The last part of CreateSchedule and UpdateSchedule: register the schedule
\* and save, or return the error of registerSchedule without saving.
RegisterAndSave(p, s, others) ==
  \/ /\ Registrable(s)
     /\ jobs' = others \cup {JobOf(s)}
     /\ Lock(p)
  \/ /\ ~Registrable(s)
     /\ mu = NoOne
     /\ jobs' = others
     /\ UNCHANGED <<mu, pc>>

\* CreateSchedule: the duplicate check is commented out; the task and the
\* schedule are listed before registerSchedule can fail.
CreateSchedule(p) ==
  \E op \in Op, timing \in Timing, st \in Status0, moved \in SUBSET {"tasks", "schedules"} :
     LET sid == <<op, now>>
         t   == NewTask(<<op, now>>, st)
         s   == [id |-> sid, op |-> op, timing |-> timing, tasks |-> <<t>>] IN
     /\ Request(p, "CreateSchedule")
     /\ Distinct => /\ \A i \in 1..Len(schedules) : schedules[i].id # sid
                    /\ \A j \in jobs : j.tag # sid
     /\ moved \subseteq MayMove
     /\ Store(Append(tasks, t), Append(schedules, s), moved)
     /\ RegisterAndSave(p, s, jobs)
     /\ fired' = fired \ {sid}
     /\ UNCHANGED <<file, run, edit>>

\* Mutants: the job is not removed; every job of the scheduler is.
JobsWithout_Kept(sid) == jobs
JobsWithout_All(sid) == {j \in jobs : FALSE}

JobsWithout(sid) == {j \in jobs : j.tag # sid}     \* RemoveByTag

\* UpdateSchedule: m.tasks restarts from an empty slice with the tasks of this
\* schedule, renamed after the ScheduleID; the schedule keeps the ids it was
\* sent (none).  removeSchedule fails for a time zone that does not load.
UpdateSchedule(p) ==
  \E i \in 1..Len(schedules), timing \in Timing, st \in Status0 :
     LET old == schedules[i]
         s   == [old EXCEPT !.timing = timing, !.tasks = <<NewTask(NoId, st)>>] IN
     /\ Request(p, "UpdateSchedule")
     /\ FirstSchedule(i, old.id)
     /\ old.timing # "badzone"
     /\ Store(<<NewTask(<<old.id, now>>, st)>>, [schedules EXCEPT ![i] = s], {"tasks"})
     /\ RegisterAndSave(p, s, JobsWithout(old.id))
     /\ fired' = fired \ {old.id}
     /\ UNCHANGED <<file, run, edit>>

\* DeleteSchedule: the tasks it looks for are those whose TaskID is the
\* ScheduleID.
DeleteSchedule(p) ==
  \E i \in 1..Len(schedules) :
     LET old == schedules[i] IN
     /\ Request(p, "DeleteSchedule")
     /\ FirstSchedule(i, old.id)
     /\ old.timing # "badzone"
     /\ Lock(p)
     /\ jobs' = JobsWithout(old.id)
     /\ Store(tasks, RemoveAt(schedules, i), {})
     /\ UNCHANGED <<file, run, edit, fired>>

-----------------------------------------------------------------------------
(* Runs                                                                     *)

\* Mutant: a one-time job without LimitRunsTo(1).
JobsAfterFiring_Kept(j) == jobs

\* LimitRunsTo(1): a one-time job is gone once it has fired.
JobsAfterFiring(j) == IF j.timing = "once" THEN jobs \ {j} ELSE jobs

\* gocron starts RunTasks(schedule.Tasks) in a goroutine of its own, whether
\* or not an earlier run of the job is over.
FireJob(p) ==
  \E j \in jobs :
     /\ up # "down" /\ pc[p] = "idle"
     /\ pc' = [pc EXCEPT ![p] = "run"]
     /\ run' = [run EXCEPT ![p] = [NoRun EXCEPT !.list = j.tasks, !.tag = j.tag]]
     /\ jobs' = JobsAfterFiring(j)
     /\ fired' = IF j.timing = "once" THEN fired \cup {j.tag} ELSE fired
     /\ UNCHANGED <<up, mu, tasks, schedules, file, now, save, edit, raced, requests, crashes>>

Current(p) == run[p].list[run[p].pos]
Skipped(t) == t.status \in {"inactive", "failed"}

\* The next task of the list: skipped, or handed to handleTask, which ends
\* completed or failed (track turns a panic into failed).
RunTask(p) ==
  /\ pc[p] = "run" /\ run[p].pos <= Len(run[p].list)
  /\ \/ /\ ~Skipped(Current(p))
        /\ \E result \in {"completed", "failed"} :
             run' = [run EXCEPT ![p].list[run[p].pos].status = result]
        /\ pc' = [pc EXCEPT ![p] = "status"]
     \/ /\ Skipped(Current(p)) /\ ~run[p].once
        /\ run' = [run EXCEPT ![p].pos = @ + 1]
        /\ pc' = pc
     \/ /\ Skipped(Current(p)) /\ run[p].once
        /\ run' = [run EXCEPT ![p] = NoRun]
        /\ pc' = [pc EXCEPT ![p] = "idle"]
  /\ UNCHANGED <<up, mu, tasks, schedules, jobs, file, now, save, edit, fired, raced, requests,
                 crashes>>

\* updateTaskStatus, under m.mu, and what the caller does next: the list goes
\* on; RunTaskOnce saves a success and returns false for a failure.
UpdateTaskStatus(p) ==
  LET t == Current(p) IN
  /\ pc[p] = "status" /\ mu = NoOne
  /\ \/ \E i \in 1..Len(tasks) :
          FirstTask(i, t.id) /\ Store([tasks EXCEPT ![i].status = t.status], schedules, {})
     \/ /\ \A i \in 1..Len(tasks) : tasks[i].id # t.id
        /\ UNCHANGED <<tasks, schedules, save>>
  /\ IF run[p].once /\ t.status = "failed"
       THEN run' = [run EXCEPT ![p] = NoRun] /\ pc' = [pc EXCEPT ![p] = "idle"]
       ELSE /\ run' = [run EXCEPT ![p].pos = @ + 1]
            /\ pc' = [pc EXCEPT ![p] = "run"]
  /\ UNCHANGED <<up, mu, jobs, file, now, edit, fired, raced, requests, crashes>>

\* The list is done (and the one task of RunTaskOnce was): save, without m.mu.
RunDone(p) ==
  /\ pc[p] = "run" /\ run[p].pos > Len(run[p].list)
  /\ pc' = [pc EXCEPT ![p] = "save"]
  /\ UNCHANGED <<up, mu, tasks, schedules, jobs, file, now, run, save, edit, fired, raced,
                 requests, crashes>>

-----------------------------------------------------------------------------
(* ClearServiceAndTaskAll: m.mu.Lock is commented out.                      *)

ToDelete(t) == [t EXCEPT !.type = "delete"]
DeleteAll(list) == [i \in 1..Len(list) |-> ToDelete(list[i])]

\* Steps 1 and 2: every task that has not failed becomes a delete task, in
\* place, those of NRDBMS (any of them) are made inactive, and the list is run.
\* (The run takes its copy here: a status that somebody stores in m.tasks during
\* it does not reach the run.)
ClearTasks(p) ==
  \E nrdb \in SUBSET (1..Len(tasks)) :
     LET Marked(i) == [ToDelete(tasks[i]) EXCEPT !.status = IF i \in nrdb THEN "inactive" ELSE @]
         marked == [i \in 1..Len(tasks) |->
                      IF tasks[i].status = "failed" THEN tasks[i] ELSE Marked(i)] IN
     /\ Request(p, "ClearServiceAndTaskAll")
     /\ Store(marked, schedules, {})
     /\ run' = [run EXCEPT ![p] = [NoRun EXCEPT !.list = marked, !.clear = 1]]
     /\ pc' = [pc EXCEPT ![p] = "run"]
     /\ UNCHANGED <<mu, jobs, file, edit, fired>>

\* Step 3, once per schedule of the list as it was found: its tasks become
\* delete tasks in the array that its job and a run of its job also use, and
\* are run.  A schedule deleted meanwhile makes the index panic.
ClearSchedule(p) ==
  LET k     == run[p].clear
      n     == IF k = 1 THEN Len(schedules) ELSE run[p].until
      sid   == schedules[k].id
      list  == DeleteAll(schedules[k].tasks) IN
  /\ pc[p] = "clear" /\ k <= n
  /\ \/ /\ k <= Len(schedules)
        /\ Store(tasks, [schedules EXCEPT ![k].tasks = list], {})
        /\ jobs' = {IF JobOf(schedules[k]) = j THEN [j EXCEPT !.tasks = list] ELSE j : j \in jobs}
        /\ run' = [q \in Goroutine |->
              IF q = p THEN [NoRun EXCEPT !.list = list, !.clear = k + 1, !.until = n]
              ELSE IF run[q].tag = sid THEN [run[q] EXCEPT !.list = DeleteAll(@)]
              ELSE run[q]]
        /\ pc' = [pc EXCEPT ![p] = "run"]
     \/ /\ k > Len(schedules)
        /\ run' = [run EXCEPT ![p] = NoRun]
        /\ pc' = [pc EXCEPT ![p] = "idle"]
        /\ UNCHANGED <<tasks, schedules, save, jobs>>
  /\ Race(p)
  /\ UNCHANGED <<up, mu, file, now, edit, fired, requests, crashes>>

\* Step 4: the jobs of the schedules are removed, up to the first whose time
\* zone does not load; then the operation returns the error.
ClearJobs(p) ==
  LET gone == {i \in 1..Len(schedules) :
                 \A k \in 1..i : schedules[k].timing # "badzone"} IN
  /\ pc[p] = "clear"
  /\ run[p].clear > IF run[p].clear = 1 THEN Len(schedules) ELSE run[p].until
  /\ jobs' = {j \in jobs : \A i \in gone : j.tag # schedules[i].id}
  /\ IF gone = 1..Len(schedules)
       THEN /\ pc' = [pc EXCEPT ![p] = "forget"]
            /\ run' = [run EXCEPT ![p] = NoRun]
       ELSE /\ pc' = [pc EXCEPT ![p] = "idle"]
            /\ run' = [run EXCEPT ![p] = NoRun]
  /\ UNCHANGED <<up, mu, tasks, schedules, file, now, save, edit, fired, raced, requests,
                 crashes>>

\* Steps 5 and 6: empty lists.
ClearLists(p) ==
  /\ pc[p] = "forget"
  /\ Store(<<>>, <<>>, {"tasks", "schedules"})
  /\ Race(p)
  /\ pc' = [pc EXCEPT ![p] = "stop"]
  /\ UNCHANGED <<up, mu, jobs, file, now, run, edit, fired, requests, crashes>>

\* Step 7: the schedulers are stopped, with every job they have by now, and
\* forgotten; then the save.
ClearSchedulers(p) ==
  /\ pc[p] = "stop"
  /\ jobs' = {}
  /\ pc' = [pc EXCEPT ![p] = "save"]
  /\ UNCHANGED <<up, mu, tasks, schedules, file, now, run, save, edit, fired, raced, requests,
                 crashes>>

-----------------------------------------------------------------------------
(* Crash, restart, time                                                     *)

\* The process dies; a document being written may be cut short.
Crash ==
  /\ up # "down" /\ crashes < MaxCrashes
  /\ up' = "down" /\ mu' = NoOne /\ crashes' = crashes + 1
  /\ tasks' = <<>> /\ schedules' = <<>> /\ jobs' = {}
  /\ pc' = [p \in Goroutine |-> "idle"]
  /\ run' = [p \in Goroutine |-> NoRun]
  /\ save' = [p \in Goroutine |-> NoSave]
  /\ edit' = [p \in Goroutine |-> NoEdit]
  /\ \/ file' = file
     \/ (\E p \in Goroutine : pc[p] = "encode") /\ file' = Torn
  /\ UNCHANGED <<now, fired, raced, requests>>

\* Mutant: the corrupted file is copied and not removed.
LoadCorrupted_Keeps == up' = "up" /\ file' = file

\* backupAndRemoveCorruptedFile.
LoadCorrupted ==
  \/ up' = "up" /\ file' = Absent
  \/ IOErrors /\ up' = "nil" /\ file' = file

\* loadFromFile: no file is an empty manager; a file that does not open leaves no
\* manager; one that does not decode is copied to task_err.json and removed; else its schedules are registered, and
\* the first that cannot be registered leaves managerInstance nil while the
\* jobs before it stay.
Load ==
  /\ up = "down"
  /\ \/ /\ file.state = "absent"
        /\ up' = "up"
        /\ UNCHANGED <<file, tasks, schedules, jobs>>
     \/ /\ file.state = "torn"
        /\ LoadCorrupted
        /\ UNCHANGED <<tasks, schedules, jobs>>
     \/ /\ file.state = "whole"
        /\ tasks' = file.tasks /\ schedules' = file.schedules
        /\ LET n == {i \in 1..Len(file.schedules) :
                       \A k \in 1..i : Registrable(file.schedules[k])} IN
           /\ jobs' = {JobOf(file.schedules[i]) : i \in n}
           /\ up' = IF n = 1..Len(file.schedules) THEN "up" ELSE "nil"
        /\ file' = file
     \/ /\ IOErrors
        /\ up' = "nil"
        /\ UNCHANGED <<file, tasks, schedules, jobs>>
  /\ UNCHANGED <<mu, now, pc, run, save, edit, fired, raced, requests, crashes>>

Tick ==
  /\ now < MaxClock
  /\ now' = now + 1
  /\ UNCHANGED <<up, mu, tasks, schedules, jobs, file, pc, run, save, edit, fired, raced,
                 requests, crashes>>

-----------------------------------------------------------------------------
\* What a goroutine does once started.
Continue(p) ==
  \/ SaveOpen(p) \/ SaveEncode(p) \/ EditTask(p)
  \/ RunTask(p) \/ UpdateTaskStatus(p) \/ RunDone(p)
  \/ ClearSchedule(p) \/ ClearJobs(p) \/ ClearLists(p) \/ ClearSchedulers(p)

Handle(p) ==
  \/ CreateTask(p) \/ RunTaskOnce(p) \/ FindTask(p)
  \/ UpdateTasksByType(p) \/ DeleteTasksByType(p)
  \/ CreateSchedule(p) \/ UpdateSchedule(p) \/ DeleteSchedule(p)
  \/ ClearTasks(p)

Next ==
  \/ \E p \in Goroutine : Handle(p) \/ FireJob(p) \/ Continue(p)
  \/ Crash \/ Load \/ Tick

Spec == Init /\ [][Next]_vars

\* Goroutines that can run do run, cloud calls return, and a goroutine that
\* waits for m.mu gets it (sync.Mutex hands over to a starving waiter).
Fairness ==
  /\ WF_vars(Load)
  /\ \A p \in Goroutine : WF_vars(Continue(p)) /\ SF_vars(UpdateTaskStatus(p))

FairSpec == Spec /\ Fairness

-----------------------------------------------------------------------------
(* Properties                                                               *)

PcState   == {"idle", "save", "encode", "found", "run", "status",
              "clear", "forget", "stop"}
RunState  == [list : Seq(Task), pos : Nat \ {0}, once : BOOLEAN,
              tag : ScheduleId \cup {<<>>}, clear : Nat, until : Nat]
SaveState == [tasks : Seq(Task), schedules : Seq(Schedule),
              alias : SUBSET {"tasks", "schedules"}]
EditState == [idx : Nat \ {0}, id : TaskId, delete : BOOLEAN]

\* The type of every variable.
TypeOK ==
  /\ up \in {"down", "up", "nil"} /\ mu \in Goroutine \cup {NoOne}
  /\ tasks \in Seq(Task) /\ schedules \in Seq(Schedule) /\ jobs \in SUBSET Job
  /\ file \in File /\ now \in Clock
  /\ pc \in [Goroutine -> PcState] /\ run \in [Goroutine -> RunState]
  /\ save \in [Goroutine -> SaveState] /\ edit \in [Goroutine -> EditState]
  /\ fired \subseteq ScheduleId /\ raced \in BOOLEAN
  /\ requests \in 0..MaxRequests /\ crashes \in 0..MaxCrashes

\* A job that can still fire belongs to a schedule that is listed, so that
\* every job can be stopped through DeleteSchedule (ClearServiceAndTaskAll
\* empties the list one step before it drops the schedulers).
NoOrphanJob ==
  (\A p \in Goroutine : pc[p] # "stop") =>
    \A j \in jobs : \E i \in 1..Len(schedules) : schedules[i].id = j.tag

\* While the manager serves requests, every listed cron schedule has its job
\* with its own tasks: no schedule is listed and dead.  (A schedule written
\* twice by a race of saves comes back twice with one job.)
CronScheduleHasJob ==
  up = "up" /\ ~raced /\ (\A p \in Goroutine : pc[p] \notin {"clear", "forget", "stop"}) =>
    \A i \in 1..Len(schedules) :
       schedules[i].timing = "cron" => JobOf(schedules[i]) \in jobs

\* "run immediately once": until the process restarts, a one-time schedule that
\* has run has no job left.
FiredOnceIsOver ==
  crashes = 0 => \A j \in jobs : j.timing = "once" => j.tag \notin fired

\* A file that does not decode is there only while some save is between
\* truncating and writing (or after a crash, until it is moved away): with no
\* save in flight a crash loses nothing that was saved.
TornOnlyWhileSaving ==
  up = "up" /\ file.state = "torn" => \E p \in Goroutine : pc[p] = "encode"

\* The lists and the file name the same tasks (their statuses apart: a failed
\* RunTaskOnce does not save) and have the same schedules.
SameIds(ts, us) ==
  Len(ts) = Len(us) /\ \A i \in 1..Len(ts) : ts[i].id = us[i].id

\* When nothing is in progress the file lists what the memory lists, so that a
\* restart brings back every acknowledged change and nothing else, unless
\* somebody changed or saved the lists between another's copy and its write.
QuietFileCurrent ==
  up = "up" /\ ~raced /\ (\A p \in Goroutine : pc[p] = "idle") =>
    file.state # "torn" /\ SameIds(file.tasks, tasks) /\ file.schedules = schedules

\* A request or a run that started comes to its end unless the process dies.
EveryoneReturns == \A p \in Goroutine : pc[p] # "idle" ~> pc[p] = "idle"

(* What comments of task.go say and the code does not do.                    *)

\* "If a schedule with the same ScheduleID already exists, it rejects the
\* registration": no two listed schedules have the same ScheduleID.
ScheduleIdsDistinct ==
  \A i, k \in 1..Len(schedules) : schedules[i].id = schedules[k].id => i = k

\* "CreateSchedule creates a new schedule, saves it to the file": when nothing
\* is in progress every listed schedule is in the file.
ListedSchedulesSaved ==
  up = "up" /\ (\A p \in Goroutine : pc[p] = "idle") =>
    \A i \in 1..Len(schedules) : \E k \in 1..Len(file.schedules) :
       file.schedules[k].id = schedules[i].id

\* "GetFileScheduleManager provides access to the singleton instance": without
\* I/O errors, loading a file that the manager saved yields a manager.
RestartServes == up # "nil"

\* "UpdateTask updates an existing task by TaskID", "DeleteTask deletes a task by
\* its TaskID": the write of either leaves every other task as it was.
EditsOnlyItsTask ==
  [][\A p \in Goroutine : EditTask(p) =>
       \A i \in 1..Len(tasks) : tasks[i].id # edit[p].id =>
          \E k \in 1..Len(tasks') : tasks'[k] = tasks[i]]_vars
=============================================================================
