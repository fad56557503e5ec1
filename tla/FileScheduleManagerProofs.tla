--------------------- MODULE FileScheduleManagerProofs ---------------------
(* Theorems about FileScheduleManager, for every value of its constants. *)
EXTENDS FileScheduleManager, SequenceTheorems, TLAPS

(***************************************************************************)
(* Sequences: what the list operations return.                             *)
(***************************************************************************)

\* A slice header read through its array keeps its length and its element type.
LEMMA ThroughType ==
  ASSUME NEW S, NEW old \in Seq(S), NEW new \in Seq(S)
  PROVE  Through(old, new) \in Seq(S) /\ Len(Through(old, new)) = Len(old)
<1>1. \A i \in 1..Len(old) : (IF i <= Len(new) THEN new[i] ELSE old[i]) \in S
  OBVIOUS
<1>2. Through(old, new) \in [1..Len(old) -> S]
  BY <1>1 DEF Through
<1> QED
  BY <1>2

\* Removing the element at i shifts those after it.
LEMMA RemoveAtIs ==
  ASSUME NEW S, NEW s \in Seq(S), NEW i \in 1..Len(s)
  PROVE  /\ RemoveAt(s, i) \in Seq(S)
         /\ Len(RemoveAt(s, i)) = Len(s) - 1
         /\ \A k \in 1..Len(s)-1 : RemoveAt(s, i)[k] = IF k < i THEN s[k] ELSE s[k+1]
<1>0. i \in Nat /\ i >= 1 /\ i <= Len(s) /\ Len(s) \in Nat
  OBVIOUS
<1>a. \A k \in 1..Len(s) : s[k] \in S
  OBVIOUS
<1>1. PICK a : a = SubSeq(s, 1, i-1)
  OBVIOUS
<1>2. PICK b : b = SubSeq(s, i+1, Len(s))
  OBVIOUS
<1>3. a \in Seq(S) /\ Len(a) = i-1 /\ \A k \in 1..i-1 : a[k] = s[k]
  <2>1. \A k \in 1..i-1 : s[k] \in S
    BY <1>0, <1>a
  <2>2. /\ SubSeq(s, 1, i-1) \in Seq(S)
        /\ Len(SubSeq(s, 1, i-1)) = IF 1 <= i-1 THEN (i-1)-1+1 ELSE 0
        /\ \A k \in 1..(i-1)-1+1 : SubSeq(s, 1, i-1)[k] = s[1+k-1]
    BY <1>0, <2>1, SubSeqProperties
  <2> QED
    BY <1>0, <1>1, <2>2
<1>4. b \in Seq(S) /\ Len(b) = Len(s)-i /\ \A k \in 1..Len(s)-i : b[k] = s[i+k]
  <2>1. \A k \in i+1..Len(s) : s[k] \in S
    BY <1>0, <1>a
  <2>2. /\ SubSeq(s, i+1, Len(s)) \in Seq(S)
        /\ Len(SubSeq(s, i+1, Len(s))) = IF i+1 <= Len(s) THEN Len(s)-(i+1)+1 ELSE 0
        /\ \A k \in 1..Len(s)-(i+1)+1 : SubSeq(s, i+1, Len(s))[k] = s[(i+1)+k-1]
    BY <1>0, <2>1, SubSeqProperties
  <2> QED
    BY <1>0, <1>2, <2>2
<1>5. RemoveAt(s, i) = a \o b
  BY <1>1, <1>2 DEF RemoveAt
<1>6. /\ a \o b \in Seq(S)
      /\ Len(a \o b) = Len(a) + Len(b)
      /\ \A k \in 1..Len(a) + Len(b) :
           (a \o b)[k] = IF k <= Len(a) THEN a[k] ELSE b[k - Len(a)]
  BY <1>3, <1>4, ConcatProperties
<1>7. ASSUME NEW k \in 1..Len(s)-1
      PROVE  (a \o b)[k] = IF k < i THEN s[k] ELSE s[k+1]
  <2>1. CASE k < i
    BY <1>0, <1>3, <1>4, <1>6, <2>1
  <2>2. CASE ~(k < i)
    <3>1. k - (i-1) \in 1..Len(s)-i /\ i + (k - (i-1)) = k + 1
      BY <1>0, <2>2
    <3>2. b[k - (i-1)] = s[k+1]
      BY <1>4, <3>1
    <3> QED
      BY <1>0, <1>3, <1>4, <1>6, <2>2, <3>2
  <2> QED
    BY <2>1, <2>2
<1> QED
  BY <1>0, <1>3, <1>4, <1>5, <1>6, <1>7

\* Storing well-typed lists keeps the slices being encoded well typed.
LEMMA StoreType ==
  ASSUME TypeOK, NEW ts \in Seq(Task), NEW ss \in Seq(Schedule), NEW moved,
         Store(ts, ss, moved)
  PROVE  /\ tasks' \in Seq(Task) /\ schedules' \in Seq(Schedule)
         /\ save' \in [Goroutine -> SaveState]
<1>1. \A q \in Goroutine : /\ Through(save[q].tasks, ts) \in Seq(Task)
                           /\ Through(save[q].schedules, ss) \in Seq(Schedule)
  BY ThroughType DEF TypeOK, SaveState
<1> QED
  BY <1>1 DEF Store, TypeOK, SaveState

(***************************************************************************)
(* Types of the records that are stored.                                   *)
(***************************************************************************)

LEMMA NoStateType ==
  NoRun \in RunState /\ NoSave \in SaveState /\ NoEdit \in EditState
BY DEF NoRun, NoSave, NoEdit, RunState, SaveState, EditState, TaskId

\* A task made from a known id and a status of Status0, and one task in a list.
LEMMA NewTaskType ==
  ASSUME NEW id \in TaskId, NEW st \in Status0
  PROVE  NewTask(id, st) \in Task /\ <<NewTask(id, st)>> \in Seq(Task)
<1>1. st \in Statuses
  BY Assumptions DEF Statuses
<1> QED
  BY <1>1 DEF NewTask, Task

LEMMA StoredIdType ==
  ASSUME NEW id \in GivenId \cup {NoId}, NEW op \in Op, now \in Clock
  PROVE  id \in TaskId /\ StoredId(id, op) \in TaskId
BY DEF TaskId, StoredId

\* What CreateTask lists.
LEMMA ListedTaskType ==
  ASSUME TypeOK, NEW id \in GivenId \cup {NoId}, NEW op \in Op, NEW st \in Status0
  PROVE  Append(tasks, NewTask(StoredId(id, op), st)) \in Seq(Task)
<1>1. StoredId(id, op) \in TaskId
  BY StoredIdType DEF TypeOK
<1>2. NewTask(StoredId(id, op), st) \in Task
  BY <1>1, NewTaskType
<1> QED
  BY <1>2 DEF TypeOK

LEMMA ElementType ==
  ASSUME TypeOK
  PROVE  /\ \A i \in 1..Len(tasks) : tasks[i] \in Task /\ tasks[i].id \in TaskId
         /\ \A i \in 1..Len(schedules) :
              /\ schedules[i] \in Schedule /\ schedules[i].id \in ScheduleId
              /\ schedules[i].tasks \in Seq(Task)
<1>1. \A i \in 1..Len(tasks) : tasks[i] \in Task
  BY DEF TypeOK
<1>2. \A i \in 1..Len(schedules) : schedules[i] \in Schedule
  BY DEF TypeOK
<1> QED
  BY <1>1, <1>2 DEF Task, Schedule

\* A deferred unlock, the end of a run or of a step of a clear.
LEMMA ReturnType ==
  ASSUME TypeOK, NEW p \in Goroutine, Return(p)
  PROVE  /\ mu' \in Goroutine \cup {NoOne} /\ pc' \in [Goroutine -> PcState]
         /\ run' \in [Goroutine -> RunState] /\ edit' \in [Goroutine -> EditState]
BY NoStateType DEF TypeOK, Return, PcState

LEMMA ImageType ==
  ASSUME NEW ts \in Seq(Task), NEW ss \in Seq(Schedule)
  PROVE  Image(ts, ss) \in File /\ Torn \in File /\ Absent \in File
BY DEF Image, Torn, Absent, File

LEMMA InitType == Init => TypeOK
<1> SUFFICES ASSUME Init PROVE TypeOK
  OBVIOUS
<1>1. <<>> \in Seq(Task) /\ <<>> \in Seq(Schedule)
  OBVIOUS
<1>2. file \in File
  BY <1>1, ImageType DEF Init
<1>3. 0 \in Clock /\ 0 \in 0..MaxRequests /\ 0 \in 0..MaxCrashes
  BY Assumptions DEF Clock
<1> QED
  BY <1>1, <1>2, <1>3, NoStateType DEF Init, TypeOK, PcState

\* The variables a Request changes or leaves alone.
LEMMA RequestType ==
  ASSUME TypeOK, NEW p \in Goroutine, NEW kind, Request(p, kind)
  PROVE  /\ up' \in {"down", "up", "nil"} /\ now' \in Clock /\ raced' \in BOOLEAN
         /\ requests' \in 0..MaxRequests /\ crashes' \in 0..MaxCrashes
BY Assumptions DEF TypeOK, Request, Race, Overtakes

LEMMA LockType ==
  ASSUME TypeOK, NEW p \in Goroutine, Lock(p)
  PROVE  mu' \in Goroutine \cup {NoOne} /\ pc' \in [Goroutine -> PcState]
BY DEF TypeOK, Lock, PcState

(***************************************************************************)
(* Every step preserves the types.                                         *)
(***************************************************************************)

LEMMA SaveTypes ==
  ASSUME TypeOK, NEW p \in Goroutine, SaveOpen(p) \/ SaveEncode(p)
  PROVE  TypeOK'
<1>1. CASE SaveOpen(p)
  <2>1. CASE /\ file' = Torn
             /\ save' = [save EXCEPT ![p] = [tasks |-> tasks, schedules |-> schedules,
                                             alias |-> {"tasks", "schedules"}]]
             /\ pc' = [pc EXCEPT ![p] = "encode"]
             /\ Race(p)
             /\ UNCHANGED <<mu, run, edit>>
    <3>1. save' \in [Goroutine -> SaveState]
      BY <2>1 DEF TypeOK, SaveState
    <3>2. file' \in File
      BY <2>1, ImageType DEF TypeOK
    <3>3. raced' \in BOOLEAN /\ pc' \in [Goroutine -> PcState]
      BY <2>1 DEF TypeOK, Race, Overtakes, PcState
    <3> QED
      BY <1>1, <2>1, <3>1, <3>2, <3>3 DEF TypeOK, SaveOpen
  <2>2. CASE Return(p) /\ UNCHANGED <<file, save, raced>>
    BY <1>1, <2>2, ReturnType DEF TypeOK, SaveOpen
  <2> QED
    BY <1>1, <2>1, <2>2 DEF SaveOpen
<1>2. CASE SaveEncode(p)
  <2>1. file' \in File
    <3>1. save[p].tasks \in Seq(Task) /\ save[p].schedules \in Seq(Schedule)
      BY DEF TypeOK, SaveState
    <3> QED
      BY <1>2, <3>1, ImageType DEF SaveEncode
  <2>2. save' \in [Goroutine -> SaveState]
    BY <1>2, NoStateType DEF SaveEncode, TypeOK
  <2> QED
    BY <1>2, <2>1, <2>2, ReturnType DEF SaveEncode, TypeOK
<1> QED
  BY <1>1, <1>2

LEMMA CreateTaskType ==
  ASSUME TypeOK, NEW p \in Goroutine, CreateTask(p)
  PROVE  TypeOK'
<1>1. PICK id \in GivenId \cup {NoId}, op \in Op, st \in Status0, moved \in SUBSET {"tasks"} :
        /\ Request(p, "CreateTask") /\ Lock(p)
        /\ Store(Append(tasks, NewTask(StoredId(id, op), st)), schedules, moved)
        /\ UNCHANGED <<jobs, file, run, edit, fired>>
  BY DEF CreateTask
<1>2. Append(tasks, NewTask(StoredId(id, op), st)) \in Seq(Task) /\ schedules \in Seq(Schedule)
  BY ListedTaskType DEF TypeOK
<1> QED
  BY <1>1, <1>2, StoreType, RequestType, LockType DEF TypeOK

LEMMA RunTaskOnceType ==
  ASSUME TypeOK, NEW p \in Goroutine, RunTaskOnce(p)
  PROVE  TypeOK'
<1>1. PICK id \in GivenId \cup {NoId}, op \in Op, st \in Status0, moved \in SUBSET {"tasks"} :
        /\ Request(p, "RunTaskOnce")
        /\ run' = [run EXCEPT ![p] = [NoRun EXCEPT !.list = <<NewTask(id, st)>>, !.once = TRUE]]
        /\ \/ /\ pc' = [pc EXCEPT ![p] = "run"]
              /\ UNCHANGED <<mu, tasks, schedules, save>>
           \/ /\ Lock(p)
              /\ Store(Append(tasks, NewTask(StoredId(id, op), st)), schedules, moved)
        /\ UNCHANGED <<jobs, file, edit, fired>>
  BY DEF RunTaskOnce
<1>2. Append(tasks, NewTask(StoredId(id, op), st)) \in Seq(Task) /\ schedules \in Seq(Schedule)
  BY ListedTaskType DEF TypeOK
<1>3. run' \in [Goroutine -> RunState]
  <2>1. <<NewTask(id, st)>> \in Seq(Task)
    BY StoredIdType, NewTaskType DEF TypeOK
  <2>2. [NoRun EXCEPT !.list = <<NewTask(id, st)>>, !.once = TRUE] \in RunState
    BY <2>1, NoStateType DEF NoRun, RunState
  <2> QED
    BY <1>1, <2>2 DEF TypeOK
<1>4. CASE /\ pc' = [pc EXCEPT ![p] = "run"]
           /\ UNCHANGED <<mu, tasks, schedules, save>>
  BY <1>1, <1>3, <1>4, RequestType DEF TypeOK, PcState
<1>5. CASE /\ Lock(p)
           /\ Store(Append(tasks, NewTask(StoredId(id, op), st)), schedules, moved)
  BY <1>1, <1>2, <1>3, <1>5, StoreType, RequestType, LockType DEF TypeOK
<1> QED
  BY <1>1, <1>4, <1>5

LEMMA FindTaskType ==
  ASSUME TypeOK, NEW p \in Goroutine, FindTask(p)
  PROVE  TypeOK'
<1>1. PICK i \in 1..Len(tasks), del \in BOOLEAN :
        /\ Request(p, IF del THEN "DeleteTask" ELSE "UpdateTask")
        /\ edit' = [edit EXCEPT ![p] = [idx |-> i, id |-> tasks[i].id, delete |-> del]]
        /\ pc' = [pc EXCEPT ![p] = "found"]
        /\ UNCHANGED <<mu, tasks, schedules, jobs, file, run, save, fired>>
  BY DEF FindTask
<1>2. tasks[i].id \in TaskId
  BY ElementType
<1>3. edit' \in [Goroutine -> EditState]
  BY <1>1, <1>2 DEF TypeOK, EditState
<1> QED
  BY <1>1, <1>3, RequestType DEF TypeOK, PcState

LEMMA BodyIdType ==
  ASSUME NEW id \in TaskId
  PROVE  BodyId(id) \subseteq TaskId
BY DEF BodyId, TaskId

LEMMA EditTaskType ==
  ASSUME TypeOK, NEW p \in Goroutine, EditTask(p)
  PROVE  TypeOK'
<1> DEFINE i == edit[p].idx
<1>0. i \in Nat \ {0} /\ edit[p].id \in TaskId
  BY DEF TypeOK, EditState
<1>1. /\ raced' \in BOOLEAN
      /\ UNCHANGED <<up, mu, jobs, file, now, run, fired, requests, crashes>>
  BY DEF EditTask, Race, Overtakes, TypeOK
<1>2. CASE /\ i <= Len(tasks)
           /\ \/ Store(RemoveAt(tasks, i), schedules, {})
              \/ \E id \in BodyId(edit[p].id), st \in Status0 :
                   Store([tasks EXCEPT ![i] = NewTask(id, st)], schedules, {})
           /\ pc' = [pc EXCEPT ![p] = "save"]
           /\ edit' = edit
  <2>1. RemoveAt(tasks, i) \in Seq(Task)
    BY <1>0, <1>2, RemoveAtIs DEF TypeOK
  <2>2. \A id \in BodyId(edit[p].id), st \in Status0 :
          [tasks EXCEPT ![i] = NewTask(id, st)] \in Seq(Task)
    <3>1. \A id \in BodyId(edit[p].id), st \in Status0 : NewTask(id, st) \in Task
      BY <1>0, BodyIdType, NewTaskType
    <3>2. \A t \in Task : [tasks EXCEPT ![i] = t] \in Seq(Task)
      BY <1>0, <1>2 DEF TypeOK
    <3> QED
      BY <3>1, <3>2
  <2>3. /\ tasks' \in Seq(Task) /\ schedules' \in Seq(Schedule)
        /\ save' \in [Goroutine -> SaveState]
    BY <1>2, <2>1, <2>2, StoreType DEF TypeOK
  <2> QED
    BY <1>1, <1>2, <2>3 DEF TypeOK, PcState
<1>3. CASE /\ pc' = [pc EXCEPT ![p] = "idle"]
           /\ edit' = [edit EXCEPT ![p] = NoEdit]
           /\ UNCHANGED <<tasks, schedules, save>>
  BY <1>1, <1>3, NoStateType DEF TypeOK, PcState
<1> QED
  BY <1>2, <1>3 DEF EditTask

LEMMA ByTypeTypes ==
  ASSUME TypeOK, NEW p \in Goroutine, UpdateTasksByType(p) \/ DeleteTasksByType(p)
  PROVE  TypeOK'
<1>1. CASE UpdateTasksByType(p)
  <2>1. PICK i \in 1..Len(tasks) : \E id \in BodyId(tasks[i].id), st \in Status0 :
          /\ Request(p, "UpdateTasksByType") /\ Lock(p)
          /\ Store([tasks EXCEPT ![i] = NewTask(id, st)], schedules, {})
          /\ UNCHANGED <<jobs, file, run, edit, fired>>
    BY <1>1 DEF UpdateTasksByType
  <2>2. tasks[i].id \in TaskId
    BY ElementType
  <2>3. PICK id \in BodyId(tasks[i].id), st \in Status0 :
          /\ Request(p, "UpdateTasksByType") /\ Lock(p)
          /\ Store([tasks EXCEPT ![i] = NewTask(id, st)], schedules, {})
          /\ UNCHANGED <<jobs, file, run, edit, fired>>
    BY <2>1
  <2>4. NewTask(id, st) \in Task
    BY <2>2, BodyIdType, NewTaskType
  <2>5. [tasks EXCEPT ![i] = NewTask(id, st)] \in Seq(Task) /\ schedules \in Seq(Schedule)
    BY <2>4 DEF TypeOK
  <2> QED
    BY <2>3, <2>5, StoreType, RequestType, LockType DEF TypeOK
<1>2. CASE DeleteTasksByType(p)
  <2>1. PICK i \in 1..Len(tasks) :
          /\ Request(p, "DeleteTasksByType") /\ Lock(p)
          /\ Store(RemoveAt(tasks, i), schedules, {})
          /\ UNCHANGED <<jobs, file, run, edit, fired>>
    BY <1>2 DEF DeleteTasksByType
  <2>2. RemoveAt(tasks, i) \in Seq(Task) /\ schedules \in Seq(Schedule)
    BY RemoveAtIs DEF TypeOK
  <2> QED
    BY <2>1, <2>2, StoreType, RequestType, LockType DEF TypeOK
<1> QED
  BY <1>1, <1>2

\* The job of a schedule, and the end of CreateSchedule and UpdateSchedule.
LEMMA RegisterType ==
  ASSUME TypeOK, NEW p \in Goroutine, NEW s \in Schedule, NEW others \in SUBSET Job,
         RegisterAndSave(p, s, others)
  PROVE  /\ mu' \in Goroutine \cup {NoOne} /\ pc' \in [Goroutine -> PcState]
         /\ jobs' \in SUBSET Job
<1>1. JobOf(s) \in Job
  BY DEF JobOf, Job, Schedule
<1> QED
  BY <1>1, LockType DEF RegisterAndSave, TypeOK

LEMMA CreateScheduleType ==
  ASSUME TypeOK, NEW p \in Goroutine, CreateSchedule(p)
  PROVE  TypeOK'
<1> DEFINE tt(op, st) == NewTask(<<op, now>>, st)
           sc(op, timing, st) == [id |-> <<op, now>>, op |-> op, timing |-> timing,
                                  tasks |-> <<tt(op, st)>>]
<1>1. PICK op \in Op, timing \in Timing, st \in Status0, moved \in SUBSET {"tasks", "schedules"} :
        /\ Request(p, "CreateSchedule")
        /\ Store(Append(tasks, tt(op, st)), Append(schedules, sc(op, timing, st)), moved)
        /\ RegisterAndSave(p, sc(op, timing, st), jobs)
        /\ fired' = fired \ {<<op, now>>}
        /\ UNCHANGED <<file, run, edit>>
  BY DEF CreateSchedule
<1>2. <<op, now>> \in ScheduleId /\ <<op, now>> \in TaskId
  BY DEF TypeOK, ScheduleId, TaskId
<1>3. tt(op, st) \in Task /\ <<tt(op, st)>> \in Seq(Task)
  BY <1>2, NewTaskType
<1>4. sc(op, timing, st) \in Schedule
  BY <1>2, <1>3, Assumptions DEF Schedule
<1> HIDE DEF tt, sc
<1>5. Append(tasks, tt(op, st)) \in Seq(Task) /\ Append(schedules, sc(op, timing, st)) \in Seq(Schedule)
  BY <1>3, <1>4 DEF TypeOK
<1>6. jobs \in SUBSET Job /\ fired' \subseteq ScheduleId
  BY <1>1 DEF TypeOK
<1> QED
  BY <1>1, <1>4, <1>5, <1>6, StoreType, RequestType, RegisterType DEF TypeOK

LEMMA UpdateScheduleType ==
  ASSUME TypeOK, NEW p \in Goroutine, UpdateSchedule(p)
  PROVE  TypeOK'
<1> DEFINE sc(i, timing, st) == [schedules[i] EXCEPT !.timing = timing, !.tasks = <<NewTask(NoId, st)>>]
<1>1. PICK i \in 1..Len(schedules), timing \in Timing, st \in Status0 :
        /\ Request(p, "UpdateSchedule")
        /\ Store(<<NewTask(<<schedules[i].id, now>>, st)>>,
                 [schedules EXCEPT ![i] = sc(i, timing, st)], {"tasks"})
        /\ RegisterAndSave(p, sc(i, timing, st), JobsWithout(schedules[i].id))
        /\ fired' = fired \ {schedules[i].id}
        /\ UNCHANGED <<file, run, edit>>
  BY DEF UpdateSchedule
<1>2. schedules[i] \in Schedule
  BY DEF TypeOK
<1>3. <<schedules[i].id, now>> \in TaskId
  BY <1>2 DEF TypeOK, Schedule, TaskId
<1>4. <<NewTask(<<schedules[i].id, now>>, st)>> \in Seq(Task) /\ <<NewTask(NoId, st)>> \in Seq(Task)
  BY <1>3, NewTaskType DEF TaskId
<1>5. sc(i, timing, st) \in Schedule
  BY <1>2, <1>4, Assumptions DEF Schedule
<1> HIDE DEF sc
<1>6. [schedules EXCEPT ![i] = sc(i, timing, st)] \in Seq(Schedule)
  BY <1>5 DEF TypeOK
<1>7. JobsWithout(schedules[i].id) \in SUBSET Job /\ fired' \subseteq ScheduleId
  BY <1>1 DEF TypeOK, JobsWithout
<1> QED
  BY <1>1, <1>4, <1>5, <1>6, <1>7, StoreType, RequestType, RegisterType DEF TypeOK

LEMMA DeleteScheduleType ==
  ASSUME TypeOK, NEW p \in Goroutine, DeleteSchedule(p)
  PROVE  TypeOK'
<1>1. PICK i \in 1..Len(schedules) :
        /\ Request(p, "DeleteSchedule") /\ Lock(p)
        /\ jobs' = JobsWithout(schedules[i].id)
        /\ Store(tasks, RemoveAt(schedules, i), {})
        /\ UNCHANGED <<file, run, edit, fired>>
  BY DEF DeleteSchedule
<1>2. RemoveAt(schedules, i) \in Seq(Schedule) /\ tasks \in Seq(Task)
  BY RemoveAtIs DEF TypeOK
<1>3. jobs' \in SUBSET Job
  BY <1>1 DEF TypeOK, JobsWithout
<1> QED
  BY <1>1, <1>2, <1>3, StoreType, RequestType, LockType DEF TypeOK

LEMMA FireJobType ==
  ASSUME TypeOK, NEW p \in Goroutine, FireJob(p)
  PROVE  TypeOK'
<1>1. PICK j \in jobs :
        /\ pc' = [pc EXCEPT ![p] = "run"]
        /\ run' = [run EXCEPT ![p] = [NoRun EXCEPT !.list = j.tasks, !.tag = j.tag]]
        /\ jobs' = JobsAfterFiring(j)
        /\ fired' = IF j.timing = "once" THEN fired \cup {j.tag} ELSE fired
        /\ UNCHANGED <<up, mu, tasks, schedules, file, now, save, edit, raced, requests, crashes>>
  BY DEF FireJob
<1>2. j.tasks \in Seq(Task) /\ j.tag \in ScheduleId
  BY DEF TypeOK, Job
<1>3. [NoRun EXCEPT !.list = j.tasks, !.tag = j.tag] \in RunState
  BY <1>2, NoStateType DEF NoRun, RunState
<1>4. run' \in [Goroutine -> RunState] /\ pc' \in [Goroutine -> PcState]
  BY <1>1, <1>3 DEF TypeOK, PcState
<1>5. jobs' \in SUBSET Job /\ fired' \subseteq ScheduleId
  BY <1>1, <1>2 DEF TypeOK, JobsAfterFiring
<1> QED
  BY <1>1, <1>4, <1>5 DEF TypeOK

\* A run whose current task changes its status, and one that goes on.
LEMMA RunStateType ==
  ASSUME NEW r \in RunState
  PROVE  /\ [r EXCEPT !.pos = @ + 1] \in RunState
         /\ r.pos <= Len(r.list) => \A st \in Statuses :
              /\ r.list[r.pos] \in Task
              /\ [r EXCEPT !.list[r.pos].status = st] \in RunState
<1>1. [r EXCEPT !.pos = @ + 1] \in RunState
  BY DEF RunState
<1>2. ASSUME r.pos <= Len(r.list), NEW st \in Statuses
      PROVE  r.list[r.pos] \in Task /\ [r EXCEPT !.list[r.pos].status = st] \in RunState
  <2>1. r.list \in Seq(Task) /\ r.pos \in 1..Len(r.list)
    BY <1>2 DEF RunState
  <2>2. r.list[r.pos] \in Task
    BY <2>1
  <2>3. [r.list[r.pos] EXCEPT !.status = st] \in Task
    BY <2>2 DEF Task
  <2>4. [r.list EXCEPT ![r.pos].status = st] \in Seq(Task)
    BY <2>1, <2>3
  <2>5. [r EXCEPT !.list[r.pos].status = st] = [r EXCEPT !.list = [r.list EXCEPT ![r.pos].status = st]]
    BY DEF RunState
  <2> QED
    BY <2>2, <2>4, <2>5 DEF RunState
<1> QED
  BY <1>1, <1>2

LEMMA RunTaskType ==
  ASSUME TypeOK, NEW p \in Goroutine, RunTask(p)
  PROVE  TypeOK'
<1>0. run[p] \in RunState /\ run[p].pos <= Len(run[p].list)
  BY DEF TypeOK, RunTask
<1>1. CASE /\ \E result \in {"completed", "failed"} :
                run' = [run EXCEPT ![p].list[run[p].pos].status = result]
           /\ pc' = [pc EXCEPT ![p] = "status"]
  <2>1. PICK result \in {"completed", "failed"} :
          run' = [run EXCEPT ![p].list[run[p].pos].status = result]
    BY <1>1
  <2>2. run' = [run EXCEPT ![p] = [run[p] EXCEPT !.list[run[p].pos].status = result]]
    BY <2>1 DEF TypeOK
  <2>3. [run[p] EXCEPT !.list[run[p].pos].status = result] \in RunState
    BY <1>0, RunStateType DEF Statuses
  <2>4. run' \in [Goroutine -> RunState]
    BY <2>2, <2>3 DEF TypeOK
  <2> QED
    BY <1>1, <2>4 DEF RunTask, TypeOK, PcState
<1>2. CASE run' = [run EXCEPT ![p].pos = @ + 1] /\ pc' = pc
  <2>1. run' = [run EXCEPT ![p] = [run[p] EXCEPT !.pos = @ + 1]]
    BY <1>2 DEF TypeOK
  <2>2. run' \in [Goroutine -> RunState]
    BY <1>0, <2>1, RunStateType DEF TypeOK
  <2> QED
    BY <1>2, <2>2 DEF RunTask, TypeOK
<1>3. CASE run' = [run EXCEPT ![p] = NoRun] /\ pc' = [pc EXCEPT ![p] = "idle"]
  BY <1>3, NoStateType DEF RunTask, TypeOK, PcState
<1> QED
  BY <1>1, <1>2, <1>3 DEF RunTask

\* What updateTaskStatus stores.
LEMMA StatusListType ==
  ASSUME TypeOK, NEW i \in 1..Len(tasks), NEW st \in Statuses
  PROVE  [tasks EXCEPT ![i].status = st] \in Seq(Task)
<1>1. tasks[i] \in Task
  BY ElementType
<1>2. [tasks[i] EXCEPT !.status = st] \in Task
  BY <1>1 DEF Task
<1>3. [tasks EXCEPT ![i].status = st] = [tasks EXCEPT ![i] = [tasks[i] EXCEPT !.status = st]]
  BY DEF TypeOK
<1> QED
  BY <1>2, <1>3 DEF TypeOK

\* A goroutine about to store a status has run the task it stores it for, and
\* one in the third step of a clear is at one of the schedules or past them.
RunMatchesPc ==
  \A p \in Goroutine :
     /\ pc[p] = "status" => run[p].pos <= Len(run[p].list)
     /\ pc[p] = "clear" => run[p].clear > 0

LEMMA UpdateTaskStatusType ==
  ASSUME TypeOK, RunMatchesPc, NEW p \in Goroutine, UpdateTaskStatus(p)
  PROVE  TypeOK'
<1>0. run[p] \in RunState /\ run[p].pos <= Len(run[p].list)
  BY DEF TypeOK, RunMatchesPc, UpdateTaskStatus
<1>1. Current(p).status \in Statuses
  <2>1. run[p].list \in Seq(Task) /\ run[p].pos \in 1..Len(run[p].list)
    BY <1>0 DEF RunState
  <2>2. Current(p) \in Task
    BY <2>1 DEF Current
  <2> QED
    BY <2>2 DEF Task
<1>2. /\ tasks' \in Seq(Task) /\ schedules' \in Seq(Schedule)
      /\ save' \in [Goroutine -> SaveState]
  <2>1. CASE \E i \in 1..Len(tasks) :
                Store([tasks EXCEPT ![i].status = Current(p).status], schedules, {})
    BY <1>1, <2>1, StatusListType, StoreType DEF TypeOK
  <2>2. CASE UNCHANGED <<tasks, schedules, save>>
    BY <2>2 DEF TypeOK
  <2> QED
    BY <2>1, <2>2 DEF UpdateTaskStatus
<1>3. run' \in [Goroutine -> RunState] /\ pc' \in [Goroutine -> PcState]
  <2>1. CASE run' = [run EXCEPT ![p] = NoRun] /\ pc' = [pc EXCEPT ![p] = "idle"]
    BY <2>1, NoStateType DEF TypeOK, PcState
  <2>2. CASE run' = [run EXCEPT ![p].pos = @ + 1] /\ pc' = [pc EXCEPT ![p] = "run"]
    <3>1. run' = [run EXCEPT ![p] = [run[p] EXCEPT !.pos = @ + 1]]
      BY <2>2 DEF TypeOK
    <3> QED
      BY <1>0, <2>2, <3>1, RunStateType DEF TypeOK, PcState
  <2> QED
    BY <2>1, <2>2 DEF UpdateTaskStatus
<1> QED
  BY <1>2, <1>3 DEF UpdateTaskStatus, TypeOK

\* A clear turns tasks into delete tasks; their number stays.
LEMMA DeleteAllType ==
  ASSUME NEW list \in Seq(Task)
  PROVE  DeleteAll(list) \in Seq(Task) /\ Len(DeleteAll(list)) = Len(list)
<1>1. \A i \in 1..Len(list) : list[i] \in Task
  OBVIOUS
<1>2. \A i \in 1..Len(list) : ToDelete(list[i]) \in Task
  BY <1>1 DEF ToDelete, Task
<1>3. DeleteAll(list) \in [1..Len(list) -> Task]
  BY <1>2 DEF DeleteAll
<1> QED
  BY <1>3

LEMMA ClearTasksType ==
  ASSUME TypeOK, NEW p \in Goroutine, ClearTasks(p)
  PROVE  TypeOK'
<1> DEFINE Marked(nrdb, i) ==
             [ToDelete(tasks[i]) EXCEPT !.status = IF i \in nrdb THEN "inactive" ELSE @]
           MarkedList(nrdb) == [i \in 1..Len(tasks) |->
                     IF tasks[i].status = "failed" THEN tasks[i] ELSE Marked(nrdb, i)]
<1>0. PICK nrdb \in SUBSET (1..Len(tasks)) :
        /\ Request(p, "ClearServiceAndTaskAll")
        /\ Store(MarkedList(nrdb), schedules, {})
        /\ run' = [run EXCEPT ![p] = [NoRun EXCEPT !.list = MarkedList(nrdb), !.clear = 1]]
        /\ pc' = [pc EXCEPT ![p] = "run"]
        /\ UNCHANGED <<mu, jobs, file, edit, fired>>
  BY DEF ClearTasks
<1>a. PICK marked : marked = MarkedList(nrdb)
  OBVIOUS
<1>1. /\ marked = [i \in 1..Len(tasks) |->
                   IF tasks[i].status = "failed" THEN tasks[i] ELSE Marked(nrdb, i)]
      /\ Request(p, "ClearServiceAndTaskAll")
      /\ Store(marked, schedules, {})
      /\ run' = [run EXCEPT ![p] = [NoRun EXCEPT !.list = marked, !.clear = 1]]
      /\ pc' = [pc EXCEPT ![p] = "run"]
      /\ UNCHANGED <<mu, jobs, file, edit, fired>>
  BY <1>0, <1>a
<1>2. marked \in Seq(Task)
  <2>1. \A i \in 1..Len(tasks) : tasks[i] \in Task
    BY ElementType
  <2>2. \A i \in 1..Len(tasks) : Marked(nrdb, i) \in Task
    BY <2>1 DEF ToDelete, Task, Statuses
  <2> HIDE DEF Marked
  <2>3. marked \in [1..Len(tasks) -> Task]
    BY <1>1, <2>1, <2>2
  <2>4. Len(tasks) \in Nat
    BY DEF TypeOK
  <2> QED
    BY <2>3, <2>4
<1>3. [NoRun EXCEPT !.list = marked, !.clear = 1] \in RunState
  BY <1>2, NoStateType DEF NoRun, RunState
<1>4. run' \in [Goroutine -> RunState] /\ pc' \in [Goroutine -> PcState]
  BY <1>1, <1>3 DEF TypeOK, PcState
<1> QED
  BY <1>1, <1>2, <1>4, StoreType, RequestType DEF TypeOK

LEMMA ClearScheduleType ==
  ASSUME TypeOK, RunMatchesPc, NEW p \in Goroutine, ClearSchedule(p)
  PROVE  TypeOK'
<1> DEFINE k == run[p].clear
           n == IF k = 1 THEN Len(schedules) ELSE run[p].until
           list == DeleteAll(schedules[k].tasks)
<1>0. /\ raced' \in BOOLEAN
      /\ UNCHANGED <<up, mu, file, now, edit, fired, requests, crashes>>
  BY DEF ClearSchedule, Race, Overtakes, TypeOK
<1>1. k \in Nat \ {0} /\ n \in Nat
  BY DEF TypeOK, RunState, RunMatchesPc, ClearSchedule
<1>2. CASE /\ k \in 1..Len(schedules)
           /\ Store(tasks, [schedules EXCEPT ![k].tasks = list], {})
           /\ jobs' = {IF JobOf(schedules[k]) = j THEN [j EXCEPT !.tasks = list] ELSE j : j \in jobs}
           /\ run' = [q \in Goroutine |->
                 IF q = p THEN [NoRun EXCEPT !.list = list, !.clear = k + 1, !.until = n]
                 ELSE IF run[q].tag = schedules[k].id THEN [run[q] EXCEPT !.list = DeleteAll(@)]
                 ELSE run[q]]
           /\ pc' = [pc EXCEPT ![p] = "run"]
  <2>1. list \in Seq(Task)
    BY <1>2, ElementType, DeleteAllType
  <2>2. [schedules EXCEPT ![k].tasks = list] \in Seq(Schedule)
    <3>1. [schedules[k] EXCEPT !.tasks = list] \in Schedule
      BY <1>2, <2>1, ElementType DEF Schedule
    <3>2. [schedules EXCEPT ![k].tasks = list] = [schedules EXCEPT ![k] = [schedules[k] EXCEPT !.tasks = list]]
      BY DEF TypeOK
    <3> QED
      BY <1>2, <3>1, <3>2 DEF TypeOK
  <2>3. jobs' \in SUBSET Job
    <3>1. \A j \in jobs : j \in Job /\ [j EXCEPT !.tasks = list] \in Job
      BY <2>1 DEF TypeOK, Job
    <3> QED
      BY <1>2, <3>1
  <2>4. [NoRun EXCEPT !.list = list, !.clear = k + 1, !.until = n] \in RunState
    <3>1. \A l \in Seq(Task), c \in Nat, u \in Nat :
            [NoRun EXCEPT !.list = l, !.clear = c, !.until = u] \in RunState
      BY NoStateType DEF NoRun, RunState
    <3>2. k + 1 \in Nat /\ n \in Nat
      BY <1>1
    <3> QED
      BY <2>1, <3>1, <3>2, Zenon
  <2>5. \A q \in Goroutine : [run[q] EXCEPT !.list = DeleteAll(@)] \in RunState
    BY DeleteAllType DEF TypeOK, RunState
  <2>6. run' \in [Goroutine -> RunState]
    BY <1>2, <2>4, <2>5 DEF TypeOK
  <2>7. pc' \in [Goroutine -> PcState] /\ tasks \in Seq(Task)
    BY <1>2 DEF TypeOK, PcState
  <2> QED
    BY <1>0, <1>2, <2>2, <2>3, <2>6, <2>7, StoreType DEF TypeOK
<1>3. CASE /\ run' = [run EXCEPT ![p] = NoRun] /\ pc' = [pc EXCEPT ![p] = "idle"]
           /\ UNCHANGED <<tasks, schedules, save, jobs>>
  BY <1>0, <1>3, NoStateType DEF TypeOK, PcState
<1> QED
  BY <1>1, <1>2, <1>3 DEF ClearSchedule

LEMMA OtherTypes ==
  ASSUME TypeOK, NEW p \in Goroutine,
         RunDone(p) \/ ClearJobs(p) \/ ClearLists(p) \/ ClearSchedulers(p)
  PROVE  TypeOK'
<1>1. CASE RunDone(p)
  BY <1>1 DEF RunDone, TypeOK, PcState
<1>2. CASE ClearJobs(p)
  <2>1. jobs' \in SUBSET Job
    BY <1>2 DEF ClearJobs, TypeOK
  <2>2. run' \in [Goroutine -> RunState] /\ pc' \in [Goroutine -> PcState]
    BY <1>2, NoStateType DEF ClearJobs, TypeOK, PcState
  <2> QED
    BY <1>2, <2>1, <2>2 DEF ClearJobs, TypeOK
<1>3. CASE ClearLists(p)
  <2>1. Store(<<>>, <<>>, {"tasks", "schedules"}) /\ Race(p) /\ pc' = [pc EXCEPT ![p] = "stop"]
        /\ UNCHANGED <<up, mu, jobs, file, now, run, edit, fired, requests, crashes>>
    BY <1>3 DEF ClearLists
  <2>2. raced' \in BOOLEAN /\ pc' \in [Goroutine -> PcState]
    BY <2>1 DEF Race, Overtakes, TypeOK, PcState
  <2>3. <<>> \in Seq(Task) /\ <<>> \in Seq(Schedule)
    OBVIOUS
  <2> QED
    BY <2>1, <2>2, <2>3, StoreType DEF TypeOK
<1>4. CASE ClearSchedulers(p)
  BY <1>4 DEF ClearSchedulers, TypeOK, PcState
<1> QED
  BY <1>1, <1>2, <1>3, <1>4

LEMMA CrashType == ASSUME TypeOK, Crash PROVE TypeOK'
<1>1. <<>> \in Seq(Task) /\ <<>> \in Seq(Schedule)
  OBVIOUS
<1>2. file' \in File
  BY <1>1, ImageType DEF Crash, TypeOK
<1>3. crashes' \in 0..MaxCrashes
  BY Assumptions DEF Crash, TypeOK
<1>4. /\ pc' \in [Goroutine -> PcState] /\ run' \in [Goroutine -> RunState]
      /\ save' \in [Goroutine -> SaveState] /\ edit' \in [Goroutine -> EditState]
  BY NoStateType DEF Crash, PcState
<1> QED
  BY <1>1, <1>2, <1>3, <1>4 DEF Crash, TypeOK

LEMMA LoadType == ASSUME TypeOK, Load PROVE TypeOK'
<1>1. file.tasks \in Seq(Task) /\ file.schedules \in Seq(Schedule)
  BY DEF TypeOK, File
<1>2. \A i \in 1..Len(file.schedules) : JobOf(file.schedules[i]) \in Job
  <2>1. \A i \in 1..Len(file.schedules) : file.schedules[i] \in Schedule
    BY <1>1
  <2> QED
    BY <2>1 DEF JobOf, Job, Schedule
<1>3. /\ tasks' \in Seq(Task) /\ schedules' \in Seq(Schedule) /\ jobs' \in SUBSET Job
  BY <1>1, <1>2 DEF Load, TypeOK
<1>4. file' \in File
  <2>1. Absent \in File
    <3>1. <<>> \in Seq(Task) /\ <<>> \in Seq(Schedule)
      OBVIOUS
    <3> QED
      BY <3>1, ImageType
  <2> QED
    BY <2>1 DEF Load, LoadCorrupted, TypeOK
<1>5. up' \in {"down", "up", "nil"}
  BY DEF Load, LoadCorrupted
<1> QED
  BY <1>3, <1>4, <1>5 DEF Load, TypeOK

LEMMA TickType == ASSUME TypeOK, Tick PROVE TypeOK'
BY Assumptions DEF Tick, TypeOK, Clock

\* Every step keeps RunMatchesPc: a goroutine other than the one that moves
\* keeps its place and the length of its list.
LEMMA RunMatchesPcStep ==
  ASSUME TypeOK, RunMatchesPc, [Next]_vars
  PROVE  RunMatchesPc'
<1>1. ASSUME NEW p \in Goroutine, Handle(p) \/ FireJob(p)
      PROVE  RunMatchesPc'
  <2>1. /\ \A q \in Goroutine : q # p => pc'[q] = pc[q] /\ run'[q] = run[q]
        /\ pc'[p] \notin {"status", "clear"} \/ (pc'[p] = pc[p] /\ run'[p] = run[p])
    <3>1. CASE CreateTask(p)
      BY <3>1 DEF CreateTask, Lock, TypeOK
    <3>2. CASE RunTaskOnce(p)
      BY <3>2 DEF RunTaskOnce, Lock, TypeOK
    <3>3. CASE FindTask(p)
      BY <3>3 DEF FindTask, TypeOK
    <3>4. CASE UpdateTasksByType(p) \/ DeleteTasksByType(p)
      BY <3>4 DEF UpdateTasksByType, DeleteTasksByType, Lock, TypeOK
    <3>5. CASE CreateSchedule(p)
      BY <3>5 DEF CreateSchedule, RegisterAndSave, Lock, TypeOK
    <3>6. CASE UpdateSchedule(p)
      BY <3>6 DEF UpdateSchedule, RegisterAndSave, Lock, TypeOK
    <3>7. CASE DeleteSchedule(p)
      BY <3>7 DEF DeleteSchedule, Lock, TypeOK
    <3>8. CASE ClearTasks(p)
      BY <3>8 DEF ClearTasks, TypeOK
    <3>9. CASE FireJob(p)
      BY <3>9 DEF FireJob, TypeOK
    <3> QED
      BY <1>1, <3>1, <3>2, <3>3, <3>4, <3>5, <3>6, <3>7, <3>8, <3>9 DEF Handle
  <2> QED
    BY <2>1 DEF RunMatchesPc
<1>2. ASSUME NEW p \in Goroutine, Continue(p), ~ClearSchedule(p)
      PROVE  RunMatchesPc'
  <2>1. /\ \A q \in Goroutine : q # p => pc'[q] = pc[q] /\ run'[q] = run[q]
        /\ pc'[p] = "status" => run'[p].pos <= Len(run'[p].list)
        /\ pc'[p] = "clear" => run'[p].clear > 0
    <3>1. CASE SaveOpen(p)
      BY <3>1 DEF SaveOpen, Return, TypeOK
    <3>2. CASE SaveEncode(p)
      BY <3>2 DEF SaveEncode, Return, TypeOK
    <3>3. CASE EditTask(p)
      BY <3>3 DEF EditTask, TypeOK
    <3>4. CASE RunTask(p)
      <4>1. run[p] \in RunState /\ run[p].pos <= Len(run[p].list)
        BY <3>4 DEF TypeOK, RunTask
      <4>2. CASE \E result \in {"completed", "failed"} :
                   run' = [run EXCEPT ![p].list[run[p].pos].status = result]
        <5>1. PICK st : run' = [run EXCEPT ![p] = [run[p] EXCEPT !.list[run[p].pos].status = st]]
          BY <4>2 DEF TypeOK
        <5>2. LET r == [run[p] EXCEPT !.list[run[p].pos].status = st]
              IN  r.pos = run[p].pos /\ Len(r.list) = Len(run[p].list)
          BY <4>1 DEF RunState
        <5>3. run'[p].pos <= Len(run'[p].list) /\ \A q \in Goroutine : q # p => run'[q] = run[q]
          BY <4>1, <5>1, <5>2 DEF TypeOK
        <5> QED
          BY <3>4, <5>3 DEF RunTask, TypeOK
      <4>3. CASE ~\E result \in {"completed", "failed"} :
                   run' = [run EXCEPT ![p].list[run[p].pos].status = result]
        BY <3>4, <4>3 DEF RunTask, TypeOK
      <4> QED
        BY <4>2, <4>3
    <3>5. CASE UpdateTaskStatus(p)
      BY <3>5 DEF UpdateTaskStatus, TypeOK
    <3>6. CASE RunDone(p) \/ ClearLists(p) \/ ClearSchedulers(p)
      BY <3>6 DEF RunDone, ClearLists, ClearSchedulers, TypeOK
    <3>7. CASE ClearJobs(p)
      BY <3>7 DEF ClearJobs, TypeOK
    <3> QED
      BY <1>2, <3>1, <3>2, <3>3, <3>4, <3>5, <3>6, <3>7 DEF Continue
  <2> QED
    BY <2>1 DEF RunMatchesPc
<1>3. ASSUME NEW p \in Goroutine, ClearSchedule(p)
      PROVE  RunMatchesPc'
  <2>1. pc'[p] \notin {"status", "clear"} /\ \A q \in Goroutine : q # p => pc'[q] = pc[q]
    BY <1>3 DEF ClearSchedule, TypeOK
  <2>2. \A q \in Goroutine : q # p =>
          /\ run'[q].pos = run[q].pos /\ run'[q].clear = run[q].clear
          /\ Len(run'[q].list) = Len(run[q].list)
    <3>1. \A q \in Goroutine : run[q] \in RunState /\ Len(DeleteAll(run[q].list)) = Len(run[q].list)
      BY DeleteAllType DEF TypeOK, RunState
    <3>2. \A q \in Goroutine : q # p =>
            run'[q] = run[q] \/ run'[q] = [run[q] EXCEPT !.list = DeleteAll(@)]
      BY <1>3 DEF ClearSchedule, TypeOK
    <3> QED
      BY <3>1, <3>2 DEF RunState
  <2> QED
    BY <2>1, <2>2 DEF RunMatchesPc
<1>4. CASE Crash
  BY <1>4 DEF Crash, RunMatchesPc
<1>5. CASE Load \/ Tick \/ UNCHANGED vars
  BY <1>5 DEF Load, Tick, vars, RunMatchesPc
<1> QED
  BY <1>1, <1>2, <1>3, <1>4, <1>5 DEF Next, Continue

LEMMA TypeStep ==
  ASSUME TypeOK, RunMatchesPc, [Next]_vars
  PROVE  TypeOK'
<1>1. ASSUME NEW p \in Goroutine, Handle(p) PROVE TypeOK'
  BY <1>1, CreateTaskType, RunTaskOnceType, FindTaskType, ByTypeTypes, CreateScheduleType,
     UpdateScheduleType, DeleteScheduleType, ClearTasksType DEF Handle
<1>2. ASSUME NEW p \in Goroutine, Continue(p) PROVE TypeOK'
  BY <1>2, SaveTypes, EditTaskType, RunTaskType, UpdateTaskStatusType, OtherTypes,
     ClearScheduleType DEF Continue
<1>3. CASE UNCHANGED vars
  BY <1>3 DEF vars, TypeOK
<1> QED
  BY <1>1, <1>2, <1>3, FireJobType, CrashType, LoadType, TickType DEF Next

\* Type correctness.  TypeOK alone is not inductive: the status that
\* updateTaskStatus stores is read from the list at the current position.
THEOREM TypeInvariant == Spec => []TypeOK
<1>1. Init => TypeOK /\ RunMatchesPc
  BY InitType DEF Init, RunMatchesPc
<1>2. TypeOK /\ RunMatchesPc /\ [Next]_vars => TypeOK' /\ RunMatchesPc'
  BY TypeStep, RunMatchesPcStep
<1> QED
  BY <1>1, <1>2, PTL DEF Spec

(***************************************************************************)
(* Jobs and schedules.                                                     *)
(***************************************************************************)

\* Steps that list every id listed before, and register a job for none but a
\* listed one, make no job an orphan.
LEMMA NoOrphanKept ==
  ASSUME NoOrphanJob, TypeOK, \A q \in Goroutine : pc[q] = "stop" => pc'[q] = "stop",
         \A i \in 1..Len(schedules) : \E k \in 1..Len(schedules') : schedules'[k].id = schedules[i].id,
         \A j \in jobs' : \/ \E i \in jobs : i.tag = j.tag
                          \/ \E k \in 1..Len(schedules') : schedules'[k].id = j.tag
  PROVE  NoOrphanJob'
BY DEF NoOrphanJob

LEMMA NoOrphanStep ==
  ASSUME NoOrphanJob, TypeOK, TypeOK', [Next]_vars
  PROVE  NoOrphanJob'
<1>1. ASSUME schedules' = schedules, jobs' \subseteq jobs,
             \A q \in Goroutine : pc[q] = "stop" => pc'[q] = "stop"
      PROVE  NoOrphanJob'
  BY <1>1 DEF NoOrphanJob
<1>2. ASSUME NEW p \in Goroutine, NEW kind, Request(p, kind), pc' = [pc EXCEPT ![p] = pc'[p]]
      PROVE  \A q \in Goroutine : pc[q] = "stop" => pc'[q] = "stop"
  BY <1>2 DEF Request, TypeOK
<1>3. ASSUME NEW p \in Goroutine,
             \/ CreateTask(p) \/ RunTaskOnce(p) \/ FindTask(p)
             \/ UpdateTasksByType(p) \/ DeleteTasksByType(p) \/ ClearTasks(p)
      PROVE  NoOrphanJob'
  <2>1. schedules' = schedules /\ jobs' = jobs
    BY <1>3, ZenonT(40) DEF CreateTask, RunTaskOnce, FindTask, UpdateTasksByType, DeleteTasksByType,
                ClearTasks, Store
  <2>2. \A q \in Goroutine : pc[q] = "stop" => pc'[q] = "stop"
    BY <1>3 DEF CreateTask, RunTaskOnce, FindTask, UpdateTasksByType, DeleteTasksByType,
                ClearTasks, Request, Lock, TypeOK
  <2> QED
    BY <1>1, <2>1, <2>2
<1>4. ASSUME NEW p \in Goroutine,
             SaveOpen(p) \/ SaveEncode(p) \/ EditTask(p) \/ RunTask(p) \/ UpdateTaskStatus(p)
             \/ RunDone(p) \/ ClearJobs(p) \/ FireJob(p)
      PROVE  NoOrphanJob'
  <2>1. schedules' = schedules
    BY <1>4 DEF SaveOpen, SaveEncode, EditTask, RunTask, UpdateTaskStatus, RunDone, ClearJobs,
                FireJob, Store
  <2>2. jobs' \subseteq jobs
    BY <1>4 DEF SaveOpen, SaveEncode, EditTask, RunTask, UpdateTaskStatus, RunDone, ClearJobs,
                FireJob, JobsAfterFiring
  <2>3. \A q \in Goroutine : pc[q] = "stop" => pc'[q] = "stop"
    BY <1>4 DEF SaveOpen, SaveEncode, Return, EditTask, RunTask, UpdateTaskStatus, RunDone,
                ClearJobs, FireJob, TypeOK
  <2> QED
    BY <1>1, <2>1, <2>2, <2>3
<1>5. ASSUME NEW p \in Goroutine, CreateSchedule(p)
      PROVE  NoOrphanJob'
  <2> DEFINE tt(op, st) == NewTask(<<op, now>>, st)
             sc(op, timing, st) == [id |-> <<op, now>>, op |-> op, timing |-> timing,
                                    tasks |-> <<tt(op, st)>>]
  <2>0. PICK op \in Op, timing \in Timing, st \in Status0, moved \in SUBSET {"tasks", "schedules"} :
          /\ Store(Append(tasks, tt(op, st)), Append(schedules, sc(op, timing, st)), moved)
          /\ RegisterAndSave(p, sc(op, timing, st), jobs)
    BY <1>5 DEF CreateSchedule
  <2> HIDE DEF tt, sc
  <2>1. PICK s : schedules' = Append(schedules, s) /\ jobs' \subseteq jobs \cup {JobOf(s)}
    <3>1. schedules' = Append(schedules, sc(op, timing, st))
      BY <2>0 DEF Store
    <3>2. jobs' \subseteq jobs \cup {JobOf(sc(op, timing, st))}
      BY <2>0 DEF RegisterAndSave
    <3> QED
      BY <3>1, <3>2
  <2>2. \A q \in Goroutine : pc[q] = "stop" => pc'[q] = "stop"
    BY <1>5 DEF CreateSchedule, Request, RegisterAndSave, Lock, TypeOK
  <2>3. /\ Len(schedules') = Len(schedules) + 1 /\ schedules'[Len(schedules) + 1] = s
        /\ \A i \in 1..Len(schedules) : schedules'[i] = schedules[i]
    BY <2>1 DEF TypeOK
  <2>4. JobOf(s).tag = s.id
    BY DEF JobOf
  <2>5. /\ \A i \in 1..Len(schedules) : i \in 1..Len(schedules')
        /\ Len(schedules) + 1 \in 1..Len(schedules')
    BY <2>3
  <2>6. \A j \in jobs' : j \in jobs \/ j.tag = schedules'[Len(schedules) + 1].id
    BY <2>1, <2>3, <2>4
  <2> QED
    BY <2>2, <2>3, <2>5, <2>6, NoOrphanKept
<1>6. ASSUME NEW p \in Goroutine, UpdateSchedule(p)
      PROVE  NoOrphanJob'
  <2>1. PICK i \in 1..Len(schedules), timing \in Timing, st \in Status0 :
          LET s == [schedules[i] EXCEPT !.timing = timing, !.tasks = <<NewTask(NoId, st)>>] IN
          /\ schedules' = [schedules EXCEPT ![i] = s]
          /\ jobs' \subseteq JobsWithout(schedules[i].id) \cup {JobOf(s)}
    BY <1>6, ZenonT(40) DEF UpdateSchedule, RegisterAndSave, Store
  <2>2. \A q \in Goroutine : pc[q] = "stop" => pc'[q] = "stop"
    BY <1>6 DEF UpdateSchedule, Request, RegisterAndSave, Lock, TypeOK
  <2>3. schedules[i] \in Schedule
    BY ElementType
  <2>4. PICK s : s.id = schedules[i].id /\ schedules' = [schedules EXCEPT ![i] = s]
                 /\ jobs' \subseteq JobsWithout(schedules[i].id) \cup {JobOf(s)}
    BY <2>1, <2>3 DEF Schedule
  <2>5. Len(schedules') = Len(schedules)
        /\ \A k \in 1..Len(schedules) : schedules'[k].id = schedules[k].id
    BY <2>4 DEF TypeOK
  <2>6. \A j \in jobs' : j \in jobs \/ j.tag = schedules'[i].id
    BY <2>4, <2>5 DEF JobsWithout, JobOf
  <2> QED
    BY <2>2, <2>5, <2>6, NoOrphanKept
<1>7. ASSUME NEW p \in Goroutine, DeleteSchedule(p)
      PROVE  NoOrphanJob'
  <2>1. PICK i \in 1..Len(schedules) :
          jobs' = JobsWithout(schedules[i].id) /\ schedules' = RemoveAt(schedules, i)
    BY <1>7 DEF DeleteSchedule, Store
  <2>2. \A q \in Goroutine : pc[q] = "stop" => pc'[q] = "stop"
    BY <1>7 DEF DeleteSchedule, Request, Lock, TypeOK
  <2>3. /\ Len(schedules') = Len(schedules) - 1
        /\ \A k \in 1..Len(schedules)-1 :
             schedules'[k] = IF k < i THEN schedules[k] ELSE schedules[k+1]
    BY <2>1, RemoveAtIs DEF TypeOK
  <2>4. ASSUME NEW j \in jobs', \A q \in Goroutine : pc'[q] # "stop"
        PROVE  \E k \in 1..Len(schedules') : schedules'[k].id = j.tag
    <3>1. j \in jobs /\ j.tag # schedules[i].id
      BY <2>1 DEF JobsWithout
    <3>2. PICK k \in 1..Len(schedules) : schedules[k].id = j.tag
      BY <2>2, <2>4, <3>1 DEF NoOrphanJob
    <3>3. CASE k < i
      <4>1. k \in 1..Len(schedules') /\ schedules'[k] = schedules[k]
        BY <2>3, <3>3 DEF TypeOK
      <4> QED
        BY <3>2, <4>1
    <3>4. CASE ~(k < i)
      <4>1. k # i
        BY <3>1, <3>2
      <4>2. k \in Nat /\ i \in Nat /\ i >= 1 /\ k <= Len(schedules) /\ Len(schedules) \in Nat
        BY DEF TypeOK
      <4>3. k-1 \in 1..Len(schedules)-1 /\ ~(k-1 < i) /\ (k-1)+1 = k
        BY <3>4, <4>1, <4>2
      <4>4. k-1 \in 1..Len(schedules') /\ schedules'[k-1] = schedules[k]
        BY <2>3, <4>3
      <4> QED
        BY <3>2, <4>4
    <3> QED
      BY <3>3, <3>4
  <2> QED
    BY <2>4 DEF NoOrphanJob
<1>8. ASSUME NEW p \in Goroutine, ClearSchedule(p)
      PROVE  NoOrphanJob'
  <2>1. \A q \in Goroutine : pc[q] = "stop" => pc'[q] = "stop"
    BY <1>8 DEF ClearSchedule, TypeOK
  <2>a. PICK k : k = run[p].clear
    OBVIOUS
  <2>b. PICK list : list = DeleteAll(schedules[k].tasks)
    OBVIOUS
  <2>c. \/ UNCHANGED <<schedules, jobs>>
        \/ /\ Store(tasks, [schedules EXCEPT ![k].tasks = list], {})
           /\ jobs' = {IF JobOf(schedules[k]) = j THEN [j EXCEPT !.tasks = list] ELSE j : j \in jobs}
    BY <1>8, <2>a, <2>b DEF ClearSchedule
  <2>2. \/ UNCHANGED <<schedules, jobs>>
        \/ /\ schedules' = [schedules EXCEPT ![k].tasks = list]
           /\ jobs' = {IF JobOf(schedules[k]) = j THEN [j EXCEPT !.tasks = list] ELSE j : j \in jobs}
    BY <2>c DEF Store
  <2>3. Len(schedules') = Len(schedules)
        /\ \A i \in 1..Len(schedules) : schedules'[i].id = schedules[i].id
    <3>1. \A i \in 1..Len(schedules) : schedules[i] \in Schedule
      BY ElementType
    <3>2. \A i \in 1..Len(schedules) :
            schedules'[i] = schedules[i] \/ schedules'[i] = [schedules[i] EXCEPT !.tasks = list]
      BY <2>2 DEF TypeOK
    <3>3. Len(schedules') = Len(schedules)
      BY <2>2 DEF TypeOK
    <3> QED
      BY <3>1, <3>2, <3>3 DEF Schedule
  <2>4. \A j \in jobs' : \E i \in jobs : i.tag = j.tag
    <3>1. \A j \in jobs : j \in Job
      BY DEF TypeOK
    <3> QED
      BY <2>2, <3>1 DEF Job
  <2> QED
    BY <2>1, <2>3, <2>4, NoOrphanKept
<1>9. ASSUME NEW p \in Goroutine, ClearLists(p)
      PROVE  NoOrphanJob'
  BY <1>9 DEF ClearLists, NoOrphanJob, TypeOK
<1>10. ASSUME NEW p \in Goroutine, ClearSchedulers(p)
       PROVE  NoOrphanJob'
  BY <1>10 DEF ClearSchedulers, NoOrphanJob
<1>11. CASE Crash
  BY <1>11 DEF Crash, NoOrphanJob
<1>12. CASE Load
  <2>1. CASE UNCHANGED <<schedules, jobs>>
    BY <1>1, <1>12, <2>1 DEF Load
  <2>2. CASE ~UNCHANGED <<schedules, jobs>>
    BY <1>12, <2>2 DEF Load, NoOrphanJob, JobOf
  <2> QED
    BY <2>1, <2>2
<1>13. CASE Tick \/ UNCHANGED vars
  BY <1>1, <1>13 DEF Tick, vars
<1> QED
  BY <1>3, <1>4, <1>5, <1>6, <1>7, <1>8, <1>9, <1>10, <1>11, <1>12, <1>13
     DEF Next, Handle, Continue

\* Every job that can still fire belongs to a listed schedule, over any
\* interleaving of requests, refused registrations, runs, clears and restarts.
THEOREM NoOrphanJobInvariant == Spec => []NoOrphanJob
<1>1. Init => NoOrphanJob
  BY DEF Init, NoOrphanJob
<1>2. TypeOK /\ TypeOK' /\ NoOrphanJob /\ [Next]_vars => NoOrphanJob'
  BY NoOrphanStep
<1> QED
  BY <1>1, <1>2, TypeInvariant, PTL DEF Spec

(***************************************************************************)
(* The file and the memory.  Without failing file operations, with         *)
(* schedules that can be registered and without ClearServiceAndTaskAll,    *)
(* every operation that changes the lists goes on to save them.            *)
(***************************************************************************)

Orderly ==
  /\ IOErrors = FALSE
  /\ Timing \subseteq {"cron", "once"}
  /\ "ClearServiceAndTaskAll" \notin Workload

MemoryIs(ts, ss) == SameIds(ts, tasks) /\ ss = schedules

NoClear == \A p \in Goroutine : run[p].clear = 0 /\ pc[p] \notin {"clear", "forget", "stop"}

DownIsEmpty ==
  up = "down" => tasks = <<>> /\ schedules = <<>> /\ \A p \in Goroutine : pc[p] = "idle"

\* What is being written is what the memory lists; when nobody saves, the file is.
SavesCurrent ==
  up = "up" /\ ~raced =>
    /\ \A p \in Goroutine :
         pc[p] = "encode" => MemoryIs(save[p].tasks, save[p].schedules)
    /\ (\A p \in Goroutine : pc[p] \notin {"save", "encode"}) =>
         file.state # "torn" /\ MemoryIs(file.tasks, file.schedules)

\* A file that holds no document lists nothing.
OnlyWholeLists == file.state # "whole" => file.tasks = <<>> /\ file.schedules = <<>>

FileInv == NoClear /\ DownIsEmpty /\ OnlyWholeLists /\ SavesCurrent

\* A step of p that changes the lists and goes on to save them.
LEMMA ChangeThenSave ==
  ASSUME TypeOK, up' = up, NEW p \in Goroutine, Race(p),
         pc' = [pc EXCEPT ![p] = "save"]
  PROVE  SavesCurrent'
<1> SUFFICES ASSUME ~raced' PROVE \A q \in Goroutine : pc'[q] # "encode" /\ pc'[p] = "save"
  BY DEF SavesCurrent
<1> QED
  BY DEF Race, Overtakes, TypeOK

\* A step that leaves lists, copies and file alone, and does not leave a save.
LEMMA NothingStored ==
  ASSUME SavesCurrent, up' = up,
         UNCHANGED <<tasks, schedules, file, save>>,
         \A q \in Goroutine : pc'[q] = "encode" => pc[q] = "encode",
         (\A q \in Goroutine : pc'[q] \notin {"save", "encode"}) =>
            \A q \in Goroutine : pc[q] \notin {"save", "encode"},
         raced => raced'
  PROVE  SavesCurrent'
BY DEF SavesCurrent, MemoryIs

LEMMA SameIdsIsOrder ==
  /\ \A s : SameIds(s, s)
  /\ \A s, t, u : SameIds(s, t) /\ SameIds(t, u) => SameIds(s, u)
BY DEF SameIds

\* A status changes: the ids stay, in the lists and in the copies being encoded.
LEMMA StatusStored ==
  ASSUME TypeOK, SavesCurrent, NEW i \in 1..Len(tasks), NEW st \in Statuses,
         Store([tasks EXCEPT ![i].status = st], schedules, {}),
         UNCHANGED <<up, raced, file>>,
         \A q \in Goroutine : pc'[q] \in {"save", "encode"} <=> pc[q] \in {"save", "encode"},
         \A q \in Goroutine : pc'[q] = "encode" => pc[q] = "encode"
  PROVE  SavesCurrent'
<1>1. tasks' \in Seq(Task) /\ SameIds(tasks, tasks')
  <2>1. \A k \in 1..Len(tasks) : tasks[k] \in Task
    BY ElementType
  <2>2. tasks' = [tasks EXCEPT ![i].status = st]
    BY DEF Store
  <2>3. Len(tasks') = Len(tasks)
    BY <2>2 DEF TypeOK
  <2>4. \A k \in 1..Len(tasks) : tasks'[k] = tasks[k] \/ tasks'[k] = [tasks[k] EXCEPT !.status = st]
    BY <2>2 DEF TypeOK
  <2>5. \A k \in 1..Len(tasks) : tasks'[k].id = tasks[k].id
    BY <2>1, <2>4 DEF Task
  <2>6. tasks' \in Seq(Task)
    BY <2>2, StatusListType
  <2> QED
    BY <2>3, <2>5, <2>6 DEF SameIds
<1>2. schedules' = schedules
  BY DEF Store
<1>3. ASSUME NEW q \in Goroutine, MemoryIs(save[q].tasks, save[q].schedules)
      PROVE  MemoryIs(save[q].tasks, save[q].schedules)'
  <2>1. save[q].tasks \in Seq(Task) /\ save[q].schedules \in Seq(Schedule)
    BY DEF TypeOK, SaveState
  <2>2. /\ save'[q].tasks = save[q].tasks \/ save'[q].tasks = Through(save[q].tasks, tasks')
        /\ \/ save'[q].schedules = save[q].schedules
           \/ save'[q].schedules = Through(save[q].schedules, schedules)
    BY DEF Store
  <2>3. SameIds(save[q].tasks, tasks) /\ save[q].schedules = schedules
    BY <1>3 DEF MemoryIs
  <2>4. Through(schedules, schedules) = schedules
    <3>1. Through(schedules, schedules) = [k \in 1..Len(schedules) |-> schedules[k]]
      BY DEF Through, TypeOK
    <3> QED
      BY <3>1 DEF TypeOK
  <2>5. SameIds(Through(save[q].tasks, tasks'), tasks')
    <3>1. Len(Through(save[q].tasks, tasks')) = Len(save[q].tasks)
      BY <1>1, <2>1, ThroughType
    <3>2. Len(save[q].tasks) = Len(tasks')
      BY <1>1, <2>3 DEF SameIds
    <3>3. \A k \in 1..Len(save[q].tasks) : Through(save[q].tasks, tasks')[k] = tasks'[k]
      BY <1>1, <2>1, <3>2 DEF Through
    <3> QED
      BY <3>1, <3>2, <3>3 DEF SameIds
  <2>6. SameIds(save[q].tasks, tasks')
    BY <1>1, <2>3, SameIdsIsOrder
  <2> QED
    BY <1>2, <2>2, <2>3, <2>4, <2>5, <2>6 DEF MemoryIs
<1>4. SameIds(file.tasks, tasks) => SameIds(file.tasks, tasks')
  BY <1>1, SameIdsIsOrder
<1> QED
  BY <1>2, <1>3, <1>4 DEF SavesCurrent, MemoryIs

LEMMA SavesCurrentHandle ==
  ASSUME TypeOK, FileInv, Orderly, NEW p \in Goroutine, Handle(p)
  PROVE  SavesCurrent'
<1>1. CASE CreateTask(p)
  BY <1>1, ChangeThenSave DEF CreateTask, Request, Lock
<1>2. CASE RunTaskOnce(p)
  <2>1. CASE Lock(p)
    BY <1>2, <2>1, ChangeThenSave DEF RunTaskOnce, Request, Lock
  <2>2. CASE ~Lock(p)
    <3>1. /\ pc[p] = "idle" /\ up' = up /\ (raced => raced') /\ pc' = [pc EXCEPT ![p] = "run"]
          /\ UNCHANGED <<tasks, schedules, save, file>>
      BY <1>2, <2>2 DEF RunTaskOnce, Request, Race
    <3> QED
      BY <3>1, NothingStored DEF FileInv, TypeOK
  <2> QED
    BY <2>1, <2>2
<1>3. CASE FindTask(p)
  <2>1. /\ pc[p] = "idle" /\ up' = up /\ (raced => raced') /\ pc' = [pc EXCEPT ![p] = "found"]
        /\ UNCHANGED <<tasks, schedules, save, file>>
    BY <1>3 DEF FindTask, Request, Race
  <2> QED
    BY <2>1, NothingStored DEF FileInv, TypeOK
<1>4. CASE UpdateTasksByType(p) \/ DeleteTasksByType(p)
  BY <1>4, ChangeThenSave DEF UpdateTasksByType, DeleteTasksByType, Request, Lock
<1>5. CASE CreateSchedule(p)
  <2>1. PICK s : RegisterAndSave(p, s, jobs) /\ s.timing \in Timing
    BY <1>5 DEF CreateSchedule
  <2>2. Lock(p)
    BY <2>1 DEF RegisterAndSave, Registrable, Orderly
  <2> QED
    BY <1>5, <2>2, ChangeThenSave DEF CreateSchedule, Request, Lock
<1>6. CASE UpdateSchedule(p)
  <2>1. PICK i \in 1..Len(schedules), timing \in Timing, st \in Status0 :
          RegisterAndSave(p, [schedules[i] EXCEPT !.timing = timing, !.tasks = <<NewTask(NoId, st)>>],
                          JobsWithout(schedules[i].id))
    BY <1>6 DEF UpdateSchedule
  <2>2. schedules[i] \in Schedule
    BY ElementType
  <2>3. PICK s : s.timing = timing /\ RegisterAndSave(p, s, JobsWithout(schedules[i].id))
    BY <2>1, <2>2 DEF Schedule
  <2>4. Lock(p)
    BY <2>3 DEF RegisterAndSave, Registrable, Orderly
  <2> QED
    BY <1>6, <2>4, ChangeThenSave DEF UpdateSchedule, Request, Lock
<1>7. CASE DeleteSchedule(p)
  BY <1>7, ChangeThenSave DEF DeleteSchedule, Request, Lock
<1>8. CASE ClearTasks(p)
  BY <1>8 DEF ClearTasks, Request, Orderly
<1> QED
  BY <1>1, <1>2, <1>3, <1>4, <1>5, <1>6, <1>7, <1>8 DEF Handle

LEMMA SavesCurrentContinue ==
  ASSUME TypeOK, RunMatchesPc, FileInv, Orderly, NEW p \in Goroutine, Continue(p) \/ FireJob(p)
  PROVE  SavesCurrent'
<1>1. CASE SaveOpen(p)
  <2>1. /\ save' = [save EXCEPT ![p] = [tasks |-> tasks, schedules |-> schedules,
                                        alias |-> {"tasks", "schedules"}]]
        /\ pc' = [pc EXCEPT ![p] = "encode"]
        /\ Race(p) /\ UNCHANGED <<up, tasks, schedules>>
    BY <1>1 DEF SaveOpen, Orderly
  <2>2. pc'[p] = "encode" /\ save'[p].tasks = tasks /\ save'[p].schedules = schedules
    BY <2>1 DEF TypeOK
  <2>3. ~raced' => \A q \in Goroutine : pc'[q] = "encode" => q = p
    BY <2>1 DEF TypeOK, Race, Overtakes
  <2> QED
    BY <2>1, <2>2, <2>3, SameIdsIsOrder DEF SavesCurrent, MemoryIs
<1>2. CASE SaveEncode(p)
  <2>1. /\ pc[p] = "encode" /\ file' = Image(save[p].tasks, save[p].schedules)
        /\ UNCHANGED <<up, tasks, schedules, raced>>
        /\ save' = [save EXCEPT ![p] = NoSave]
    BY <1>2 DEF SaveEncode, Orderly
  <2>2. pc'[p] # "encode" /\ \A q \in Goroutine : q # p => pc'[q] = pc[q] /\ save'[q] = save[q]
    BY <1>2, <2>1 DEF SaveEncode, Return, TypeOK
  <2>3. /\ file'.state = "whole" /\ file'.tasks = save[p].tasks
        /\ file'.schedules = save[p].schedules
    BY <2>1 DEF Image
  <2>4. up = "up" /\ ~raced => MemoryIs(save[p].tasks, save[p].schedules)
    BY <2>1 DEF FileInv, SavesCurrent
  <2> QED
    BY <2>1, <2>2, <2>3, <2>4 DEF FileInv, SavesCurrent, MemoryIs
<1>3. CASE EditTask(p)
  <2>1. CASE pc' = [pc EXCEPT ![p] = "save"]
    BY <1>3, <2>1, ChangeThenSave DEF EditTask
  <2>2. CASE ~(pc' = [pc EXCEPT ![p] = "save"])
    <3>1. /\ pc[p] = "found" /\ up' = up /\ (raced => raced') /\ pc' = [pc EXCEPT ![p] = "idle"]
          /\ UNCHANGED <<tasks, schedules, save, file>>
      BY <1>3, <2>2 DEF EditTask, Race
    <3> QED
      BY <3>1, NothingStored DEF FileInv, TypeOK
  <2> QED
    BY <2>1, <2>2
<1>4. CASE RunTask(p)
  <2>1. /\ pc[p] = "run" /\ \E a \in {"run", "status", "idle"} : pc' = [pc EXCEPT ![p] = a]
        /\ UNCHANGED <<up, raced, tasks, schedules, save, file>>
    BY <1>4 DEF RunTask, TypeOK
  <2> QED
    BY <2>1, NothingStored DEF FileInv, TypeOK
<1>5. CASE UpdateTaskStatus(p)
  <2>1. /\ pc[p] = "status" /\ \E a \in {"run", "idle"} : pc' = [pc EXCEPT ![p] = a]
        /\ UNCHANGED <<up, raced, file>>
    BY <1>5 DEF UpdateTaskStatus
  <2>2. Current(p).status \in Statuses
    <3>1. run[p].list \in Seq(Task) /\ run[p].pos \in 1..Len(run[p].list)
      BY <2>1 DEF TypeOK, RunMatchesPc, RunState
    <3>2. Current(p) \in Task
      BY <3>1 DEF Current
    <3> QED
      BY <3>2 DEF Task
  <2>3. /\ \A q \in Goroutine : pc'[q] \in {"save", "encode"} <=> pc[q] \in {"save", "encode"}
        /\ \A q \in Goroutine : pc'[q] = "encode" => pc[q] = "encode"
    BY <2>1 DEF TypeOK
  <2>4. CASE \E i \in 1..Len(tasks) :
               Store([tasks EXCEPT ![i].status = Current(p).status], schedules, {})
    BY <2>1, <2>2, <2>3, <2>4, StatusStored DEF FileInv
  <2>5. CASE UNCHANGED <<tasks, schedules, save>>
    BY <2>1, <2>3, <2>5, NothingStored DEF FileInv
  <2> QED
    BY <1>5, <2>4, <2>5 DEF UpdateTaskStatus
<1>6. CASE RunDone(p)
  <2>1. /\ pc' = [pc EXCEPT ![p] = "save"]
        /\ UNCHANGED <<up, raced, tasks, schedules, save, file>>
    BY <1>6 DEF RunDone
  <2> QED
    BY <2>1, NothingStored DEF FileInv, TypeOK
<1>7. CASE FireJob(p)
  <2>1. /\ pc[p] = "idle" /\ pc' = [pc EXCEPT ![p] = "run"]
        /\ UNCHANGED <<up, raced, tasks, schedules, save, file>>
    BY <1>7 DEF FireJob
  <2> QED
    BY <2>1, NothingStored DEF FileInv, TypeOK
<1>8. CASE ClearSchedule(p) \/ ClearJobs(p) \/ ClearLists(p) \/ ClearSchedulers(p)
  BY <1>8 DEF ClearSchedule, ClearJobs, ClearLists, ClearSchedulers, FileInv, NoClear
<1> QED
  BY <1>1, <1>2, <1>3, <1>4, <1>5, <1>6, <1>7, <1>8 DEF Continue

LEMMA SavesCurrentLoad ==
  ASSUME TypeOK, FileInv, Orderly, Load
  PROVE  SavesCurrent'
<1>1. /\ tasks = <<>> /\ schedules = <<>> /\ \A p \in Goroutine : pc[p] = "idle"
      /\ pc' = pc
  BY DEF Load, FileInv, DownIsEmpty
<1>2. file' = file \/ file' = Absent
  BY DEF Load, LoadCorrupted
<1>3. CASE file.state = "whole"
  BY <1>1, <1>3, SameIdsIsOrder DEF Load, SavesCurrent, MemoryIs
<1>4. CASE file.state = "torn"
  <2>1. file' = Absent /\ UNCHANGED <<tasks, schedules>>
    BY <1>4 DEF Load, LoadCorrupted, Orderly
  <2> QED
    BY <1>1, <2>1, SameIdsIsOrder DEF Absent, SavesCurrent, MemoryIs
<1>5. CASE file.state = "absent"
  BY <1>1, <1>5, SameIdsIsOrder DEF Load, SavesCurrent, MemoryIs, FileInv, OnlyWholeLists
<1> QED
  BY <1>3, <1>4, <1>5 DEF TypeOK, File

\* The other parts of FileInv.
LEMMA OnlyWholeListsStep ==
  ASSUME OnlyWholeLists, [Next]_vars
  PROVE  OnlyWholeLists'
<1>1. file' = file \/ file' = Torn \/ file' = Absent \/ \E ts, ss : file' = Image(ts, ss)
  <2>1. ASSUME NEW p \in Goroutine, Handle(p)
        PROVE  file' = file
    BY <2>1 DEF Handle, CreateTask, RunTaskOnce, FindTask, UpdateTasksByType, DeleteTasksByType,
                CreateSchedule, UpdateSchedule, DeleteSchedule, ClearTasks
  <2>2. ASSUME NEW p \in Goroutine, SaveOpen(p)
        PROVE  file' = file \/ file' = Torn
    BY <2>2 DEF SaveOpen
  <2>3. ASSUME NEW p \in Goroutine, SaveEncode(p)
        PROVE  file' = Torn \/ \E ts, ss : file' = Image(ts, ss)
    BY <2>3 DEF SaveEncode
  <2>4. ASSUME NEW p \in Goroutine, Continue(p) \/ FireJob(p), ~SaveOpen(p), ~SaveEncode(p)
        PROVE  file' = file
    BY <2>4 DEF Continue, EditTask, RunTask, UpdateTaskStatus, RunDone, FireJob,
                ClearSchedule, ClearJobs, ClearLists, ClearSchedulers
  <2>5. CASE Crash \/ Load \/ Tick \/ UNCHANGED vars
    BY <2>5 DEF Crash, Load, LoadCorrupted, Tick, vars
  <2> QED
    BY <2>1, <2>2, <2>3, <2>4, <2>5 DEF Next
<1> QED
  BY <1>1 DEF OnlyWholeLists, Torn, Absent, Image

LEMMA NoClearStep ==
  ASSUME TypeOK, NoClear, "ClearServiceAndTaskAll" \notin Workload, [Next]_vars
  PROVE  NoClear'
<1>1. ASSUME NEW p \in Goroutine, Handle(p) \/ FireJob(p) \/ Continue(p)
      PROVE  /\ \A q \in Goroutine : q # p => pc'[q] = pc[q] /\ run'[q] = run[q]
             /\ run'[p].clear = 0 /\ pc'[p] \notin {"clear", "forget", "stop"}
  <2>1. run[p] \in RunState /\ run[p].clear = 0 /\ pc[p] \notin {"clear", "forget", "stop"}
    BY DEF NoClear, TypeOK
  <2>2. CASE CreateTask(p)
    BY <2>1, <2>2 DEF CreateTask, Lock, TypeOK
  <2>3. CASE RunTaskOnce(p)
    BY <2>1, <2>3 DEF RunTaskOnce, Lock, NoRun, TypeOK
  <2>4. CASE FindTask(p)
    BY <2>1, <2>4 DEF FindTask, TypeOK
  <2>5. CASE UpdateTasksByType(p) \/ DeleteTasksByType(p)
    BY <2>1, <2>5 DEF UpdateTasksByType, DeleteTasksByType, Lock, TypeOK
  <2>6. CASE CreateSchedule(p)
    BY <2>1, <2>6 DEF CreateSchedule, RegisterAndSave, Lock, TypeOK
  <2>7. CASE UpdateSchedule(p)
    BY <2>1, <2>7 DEF UpdateSchedule, RegisterAndSave, Lock, TypeOK
  <2>8. CASE DeleteSchedule(p)
    BY <2>1, <2>8 DEF DeleteSchedule, Lock, TypeOK
  <2>9. CASE ClearTasks(p)
    BY <2>9 DEF ClearTasks, Request
  <2>10. CASE FireJob(p)
    BY <2>1, <2>10 DEF FireJob, NoRun, TypeOK
  <2>11. CASE SaveOpen(p) \/ SaveEncode(p)
    BY <2>1, <2>11 DEF SaveOpen, SaveEncode, Return, NoRun, TypeOK
  <2>12. CASE EditTask(p)
    BY <2>1, <2>12 DEF EditTask, TypeOK
  <2>13. CASE RunTask(p)
    BY <2>1, <2>13 DEF RunTask, NoRun, TypeOK, RunState
  <2>14. CASE UpdateTaskStatus(p)
    BY <2>1, <2>14 DEF UpdateTaskStatus, NoRun, TypeOK, RunState
  <2>15. CASE RunDone(p)
    BY <2>1, <2>15 DEF RunDone, TypeOK
  <2>16. CASE ClearSchedule(p) \/ ClearJobs(p) \/ ClearLists(p) \/ ClearSchedulers(p)
    BY <2>1, <2>16 DEF ClearSchedule, ClearJobs, ClearLists, ClearSchedulers
  <2> QED
    BY <1>1, <2>2, <2>3, <2>4, <2>5, <2>6, <2>7, <2>8, <2>9, <2>10, <2>11, <2>12, <2>13, <2>14,
       <2>15, <2>16 DEF Handle, Continue
<1>2. CASE Crash
  BY <1>2 DEF Crash, NoClear, NoRun
<1>3. CASE Load \/ Tick \/ UNCHANGED vars
  BY <1>3 DEF Load, Tick, vars, NoClear
<1>4. ASSUME NEW p \in Goroutine, Handle(p) \/ FireJob(p) \/ Continue(p)
      PROVE  NoClear'
  BY <1>1, <1>4 DEF NoClear
<1> QED
  BY <1>2, <1>3, <1>4 DEF Next

LEMMA DownIsEmptyStep ==
  ASSUME TypeOK, DownIsEmpty, [Next]_vars
  PROVE  DownIsEmpty'
<1>1. ASSUME NEW p \in Goroutine, Handle(p)
      PROVE  up' = "up"
  BY <1>1 DEF Handle, CreateTask, RunTaskOnce, FindTask, UpdateTasksByType, DeleteTasksByType,
              CreateSchedule, UpdateSchedule, DeleteSchedule, ClearTasks, Request
<1>2. ASSUME NEW p \in Goroutine, FireJob(p) \/ Continue(p)
      PROVE  up' = up /\ up # "down"
  <2>1. up' = up
    BY <1>2 DEF FireJob, Continue, SaveOpen, SaveEncode, EditTask, RunTask, UpdateTaskStatus,
                RunDone, ClearSchedule, ClearJobs, ClearLists, ClearSchedulers
  <2>2. up = "down" => pc[p] = "idle" /\ ~FireJob(p)
    BY DEF DownIsEmpty, FireJob
  <2>3. Continue(p) => pc[p] # "idle"
    BY DEF Continue, SaveOpen, SaveEncode, EditTask, RunTask, UpdateTaskStatus,
           RunDone, ClearSchedule, ClearJobs, ClearLists, ClearSchedulers
  <2> QED
    BY <1>2, <2>1, <2>2, <2>3
<1>3. CASE Crash
  BY <1>3 DEF Crash, DownIsEmpty
<1>4. CASE Load
  BY <1>4 DEF Load, LoadCorrupted, DownIsEmpty
<1>5. CASE Tick \/ UNCHANGED vars
  BY <1>5 DEF Tick, vars, DownIsEmpty
<1> QED
  BY <1>1, <1>2, <1>3, <1>4, <1>5 DEF Next, DownIsEmpty

LEMMA FileInvStep ==
  ASSUME TypeOK, RunMatchesPc, FileInv, Orderly, [Next]_vars
  PROVE  FileInv'
<1>1. NoClear' /\ DownIsEmpty' /\ OnlyWholeLists'
  BY NoClearStep, DownIsEmptyStep, OnlyWholeListsStep DEF FileInv, Orderly
<1>2. ASSUME Crash PROVE SavesCurrent'
  BY <1>2 DEF Crash, SavesCurrent
<1>3. ASSUME Tick \/ UNCHANGED vars PROVE SavesCurrent'
  BY <1>3, NothingStored DEF Tick, vars, FileInv
<1>4. SavesCurrent'
  BY <1>2, <1>3, SavesCurrentHandle, SavesCurrentContinue, SavesCurrentLoad DEF Next
<1> QED
  BY <1>1, <1>4 DEF FileInv

\* Whenever nothing is in progress, and nobody changed or saved the lists
\* between another's copy and its write, the file lists what the memory lists:
\* a restart brings back every acknowledged change and nothing else.
THEOREM QuietFileCurrentInvariant ==
  ASSUME Orderly PROVE Spec => []QuietFileCurrent
<1>1. Init => FileInv /\ TypeOK /\ RunMatchesPc
  BY InitType DEF Init, FileInv, NoClear, NoRun, DownIsEmpty, OnlyWholeLists, Absent, SavesCurrent,
                  RunMatchesPc
<1>2. TypeOK /\ RunMatchesPc /\ FileInv /\ [Next]_vars => TypeOK' /\ RunMatchesPc' /\ FileInv'
  BY Orderly, TypeStep, RunMatchesPcStep, FileInvStep
<1>3. FileInv => QuietFileCurrent
  BY DEF FileInv, SavesCurrent, MemoryIs, QuietFileCurrent
<1> QED
  BY <1>1, <1>2, <1>3, PTL DEF Spec

(***************************************************************************)
(* Undecodable files.                                                      *)
(***************************************************************************)

\* With working file operations, a file that does not decode is there only
\* while a save is between truncating and writing it.
THEOREM TornOnlyWhileSavingInvariant ==
  ASSUME IOErrors = FALSE PROVE Spec => []TornOnlyWhileSaving
<1>1. Init => TornOnlyWhileSaving
  BY DEF Init, TornOnlyWhileSaving
<1>2. ASSUME TypeOK, TornOnlyWhileSaving, [Next]_vars
      PROVE  TornOnlyWhileSaving'
  <2>1. ASSUME NEW p \in Goroutine, UNCHANGED <<up, file>>, pc[p] # "encode",
               \A q \in Goroutine : q # p => pc'[q] = pc[q]
        PROVE  TornOnlyWhileSaving'
    BY <1>2, <2>1 DEF TornOnlyWhileSaving
  <2>2. ASSUME NEW p \in Goroutine, Handle(p)
        PROVE  TornOnlyWhileSaving'
    <3>1. UNCHANGED <<up, file>> /\ pc[p] # "encode"
      BY <2>2 DEF Handle, CreateTask, RunTaskOnce, FindTask, UpdateTasksByType, DeleteTasksByType,
                  CreateSchedule, UpdateSchedule, DeleteSchedule, ClearTasks, Request
    <3>2. \A q \in Goroutine : q # p => pc'[q] = pc[q]
      BY <1>2, <2>2, ZenonT(40) DEF Handle, CreateTask, RunTaskOnce, FindTask, UpdateTasksByType,
            DeleteTasksByType, CreateSchedule, UpdateSchedule, DeleteSchedule, ClearTasks,
            RegisterAndSave, Lock, TypeOK
    <3> QED
      BY <2>1, <3>1, <3>2
  <2>3. ASSUME NEW p \in Goroutine, SaveOpen(p)
        PROVE  TornOnlyWhileSaving'
    <3>1. pc'[p] = "encode"
      BY <1>2, <2>3 DEF SaveOpen, TypeOK
    <3> QED
      BY <3>1 DEF TornOnlyWhileSaving
  <2>4. ASSUME NEW p \in Goroutine, SaveEncode(p)
        PROVE  TornOnlyWhileSaving'
    BY <2>4 DEF SaveEncode, Image, TornOnlyWhileSaving
  <2>5. ASSUME NEW p \in Goroutine, Continue(p) \/ FireJob(p), ~SaveOpen(p), ~SaveEncode(p)
        PROVE  TornOnlyWhileSaving'
    <3>1. UNCHANGED <<up, file>> /\ pc[p] # "encode"
      BY <2>5 DEF Continue, EditTask, RunTask, UpdateTaskStatus, RunDone, FireJob,
                  ClearSchedule, ClearJobs, ClearLists, ClearSchedulers
    <3>2. \A q \in Goroutine : q # p => pc'[q] = pc[q]
      BY <1>2, <2>5 DEF Continue, EditTask, RunTask, UpdateTaskStatus, RunDone, FireJob,
                  ClearSchedule, ClearJobs, ClearLists, ClearSchedulers, TypeOK
    <3> QED
      BY <2>1, <3>1, <3>2
  <2>6. CASE Crash
    BY <2>6 DEF Crash, TornOnlyWhileSaving
  <2>7. CASE Load
    BY <1>2, <2>7 DEF Load, LoadCorrupted, Absent, TornOnlyWhileSaving, TypeOK, File
  <2>8. CASE Tick \/ UNCHANGED vars
    BY <1>2, <2>8 DEF Tick, vars, TornOnlyWhileSaving
  <2> QED
    BY <1>2, <2>2, <2>3, <2>4, <2>5, <2>6, <2>7, <2>8 DEF Next
<1> QED
  BY <1>1, <1>2, TypeInvariant, PTL DEF Spec

(***************************************************************************)
(* One-time schedules.  Callers use an OperationId once per second, so that *)
(* no two jobs carry the same tag; nothing is assumed of the requests, the *)
(* timings or the file operations.                                         *)
(***************************************************************************)

OneJobEach == \A j, k \in jobs : j.tag = k.tag => j = k
FiredIsOver == \A j \in jobs : j.timing = "once" => j.tag \notin fired

\* Before the first load there is no file whose jobs could come back.
NothingSaved == up = "down" => file.state = "absent" /\ jobs = {}

OnceInv == crashes = 0 => NothingSaved /\ OneJobEach /\ FiredIsOver

\* A step that registers no job and forgets no run.
LEMMA OnceKept ==
  ASSUME OnceInv, crashes' = 0 => crashes = 0, NothingSaved => NothingSaved',
         jobs' \subseteq jobs, fired' = fired
  PROVE  OnceInv'
BY DEF OnceInv, OneJobEach, FiredIsOver

\* A step that registers a job in the place of those with its tag, and takes
\* its schedule for one that has not run.
LEMMA OnceRegistered ==
  ASSUME OnceInv, crashes' = 0 => crashes = 0, up' # "down",
         NEW sid, NEW j, j.tag = sid, NEW others, \A k \in others : k \in jobs /\ k.tag # sid,
         jobs' \subseteq others \cup {j}, fired' = fired \ {sid}
  PROVE  OnceInv'
<1> SUFFICES ASSUME crashes' = 0
             PROVE  OneJobEach' /\ FiredIsOver'
  BY DEF OnceInv, NothingSaved
<1>1. OneJobEach /\ FiredIsOver
  BY DEF OnceInv
<1>2. OneJobEach'
  BY <1>1 DEF OneJobEach
<1>3. FiredIsOver'
  BY <1>1 DEF FiredIsOver
<1> QED
  BY <1>2, <1>3

LEMMA OnceStep ==
  ASSUME TypeOK, DownIsEmpty, OnceInv, Distinct = TRUE, [Next]_vars
  PROVE  OnceInv'
<1>1. ASSUME NEW p \in Goroutine, Handle(p)
      PROVE  up' = "up" /\ crashes' = crashes
  BY <1>1 DEF Handle, CreateTask, RunTaskOnce, FindTask, UpdateTasksByType, DeleteTasksByType,
              CreateSchedule, UpdateSchedule, DeleteSchedule, ClearTasks, Request
<1>2. ASSUME NEW p \in Goroutine, CreateSchedule(p)
      PROVE  OnceInv'
  <2> DEFINE sc(op, timing, st) == [id |-> <<op, now>>, op |-> op, timing |-> timing,
                                    tasks |-> <<NewTask(<<op, now>>, st)>>]
  <2>1. PICK op \in Op, timing \in Timing, st \in Status0 :
          /\ \A j \in jobs : j.tag # <<op, now>>
          /\ RegisterAndSave(p, sc(op, timing, st), jobs)
          /\ fired' = fired \ {<<op, now>>}
    BY <1>2 DEF CreateSchedule
  <2>2. JobOf(sc(op, timing, st)).tag = <<op, now>>
    BY DEF JobOf
  <2> HIDE DEF sc
  <2>3. jobs' \subseteq jobs \cup {JobOf(sc(op, timing, st))}
    BY <2>1 DEF RegisterAndSave
  <2>4. up' # "down" /\ (crashes' = 0 => crashes = 0)
    BY <1>1, <1>2 DEF Handle
  <2> QED
    BY <2>1, <2>2, <2>3, <2>4, OnceRegistered
<1>3. ASSUME NEW p \in Goroutine, UpdateSchedule(p)
      PROVE  OnceInv'
  <2>1. PICK i \in 1..Len(schedules), timing \in Timing, st \in Status0 :
          LET s == [schedules[i] EXCEPT !.timing = timing, !.tasks = <<NewTask(NoId, st)>>] IN
          /\ RegisterAndSave(p, s, JobsWithout(schedules[i].id))
          /\ fired' = fired \ {schedules[i].id}
    BY <1>3 DEF UpdateSchedule
  <2>2. schedules[i] \in Schedule
    BY ElementType
  <2>3. PICK s : s.id = schedules[i].id /\ RegisterAndSave(p, s, JobsWithout(schedules[i].id))
    BY <2>1, <2>2 DEF Schedule
  <2>4. PICK others : others = JobsWithout(schedules[i].id)
    OBVIOUS
  <2>5. \A k \in others : k \in jobs /\ k.tag # schedules[i].id
    BY <2>4 DEF JobsWithout
  <2>6. PICK j : j = JobOf(s)
    OBVIOUS
  <2>7. j.tag = schedules[i].id /\ jobs' \subseteq others \cup {j}
    BY <2>3, <2>4, <2>6 DEF JobOf, RegisterAndSave
  <2>8. fired' = fired \ {schedules[i].id}
    BY <2>1
  <2>9. up' # "down" /\ (crashes' = 0 => crashes = 0)
    BY <1>1, <1>3 DEF Handle
  <2> QED
    BY <2>5, <2>7, <2>8, <2>9, OnceRegistered
<1>4. ASSUME NEW p \in Goroutine, Handle(p), ~CreateSchedule(p), ~UpdateSchedule(p)
      PROVE  OnceInv'
  <2>1. jobs' \subseteq jobs /\ fired' = fired
    BY <1>4 DEF Handle, CreateTask, RunTaskOnce, FindTask, UpdateTasksByType, DeleteTasksByType,
                DeleteSchedule, ClearTasks, JobsWithout
  <2>2. up' = "up" /\ (crashes' = 0 => crashes = 0)
    BY <1>1, <1>4
  <2> QED
    BY <2>1, <2>2, OnceKept DEF NothingSaved
<1>5. ASSUME NEW p \in Goroutine, FireJob(p) \/ Continue(p)
      PROVE  up # "down" /\ up' = up /\ crashes' = crashes
  <2>1. up' = up /\ crashes' = crashes
    BY <1>5 DEF FireJob, Continue, SaveOpen, SaveEncode, EditTask, RunTask, UpdateTaskStatus,
                RunDone, ClearSchedule, ClearJobs, ClearLists, ClearSchedulers
  <2>2. Continue(p) => pc[p] # "idle"
    BY DEF Continue, SaveOpen, SaveEncode, EditTask, RunTask, UpdateTaskStatus,
           RunDone, ClearSchedule, ClearJobs, ClearLists, ClearSchedulers
  <2>3. FireJob(p) => up # "down"
    BY DEF FireJob
  <2> QED
    BY <1>5, <2>1, <2>2, <2>3 DEF DownIsEmpty
<1>6. ASSUME NEW p \in Goroutine, FireJob(p)
      PROVE  OnceInv'
  <2>1. PICK j \in jobs :
          /\ jobs' = JobsAfterFiring(j)
          /\ fired' = IF j.timing = "once" THEN fired \cup {j.tag} ELSE fired
    BY <1>6 DEF FireJob
  <2>2. up' # "down" /\ crashes' = crashes
    BY <1>5, <1>6
  <2>3. CASE j.timing = "once"
    <3>1. jobs' = jobs \ {j} /\ fired' = fired \cup {j.tag}
      BY <2>1, <2>3 DEF JobsAfterFiring
    <3> QED
      BY <2>2, <3>1 DEF OnceInv, NothingSaved, OneJobEach, FiredIsOver
  <2>4. CASE j.timing # "once"
    <3>1. jobs' = jobs /\ fired' = fired
      BY <2>1, <2>4 DEF JobsAfterFiring
    <3> QED
      BY <2>2, <3>1 DEF OnceInv, NothingSaved, OneJobEach, FiredIsOver
  <2> QED
    BY <2>3, <2>4
<1>7. ASSUME NEW p \in Goroutine, ClearSchedule(p)
      PROVE  OnceInv'
  <2>1. up' # "down" /\ crashes' = crashes /\ fired' = fired
    BY <1>5, <1>7 DEF Continue, ClearSchedule
  <2>a. PICK old : old = JobOf(schedules[run[p].clear])
    OBVIOUS
  <2>b. PICK list : list = DeleteAll(schedules[run[p].clear].tasks)
    OBVIOUS
  <2> DEFINE F(j) == IF old = j THEN [j EXCEPT !.tasks = list] ELSE j
  <2>2. jobs' = jobs \/ jobs' = {F(j) : j \in jobs}
    BY <1>7, <2>a, <2>b DEF ClearSchedule
  <2>3. \A j \in jobs : F(j).tag = j.tag /\ F(j).timing = j.timing
    BY DEF TypeOK, Job
  <2>4. CASE jobs' = jobs
    BY <2>1, <2>4, OnceKept DEF NothingSaved
  <2>5. CASE jobs' = {F(j) : j \in jobs}
    <3> HIDE DEF F
    <3>1. OneJobEach /\ FiredIsOver => OneJobEach' /\ FiredIsOver'
      BY <2>1, <2>3, <2>5 DEF OneJobEach, FiredIsOver
    <3> QED
      BY <2>1, <3>1 DEF OnceInv, NothingSaved
  <2> QED
    BY <2>2, <2>4, <2>5
<1>8. ASSUME NEW p \in Goroutine, Continue(p), ~ClearSchedule(p)
      PROVE  OnceInv'
  <2>1. jobs' \subseteq jobs /\ fired' = fired
    BY <1>8 DEF Continue, SaveOpen, SaveEncode, EditTask, RunTask, UpdateTaskStatus, RunDone,
                ClearJobs, ClearLists, ClearSchedulers
  <2>2. up' # "down" /\ (crashes' = 0 => crashes = 0)
    BY <1>5, <1>8
  <2> QED
    BY <2>1, <2>2, OnceKept DEF NothingSaved
<1>9. CASE Crash
  BY <1>9 DEF Crash, OnceInv, TypeOK
<1>10. CASE Load
  <2>1. crashes' = crashes /\ fired' = fired
    BY <1>10 DEF Load
  <2>2. up = "down" /\ up' # "down"
    BY <1>10 DEF Load, LoadCorrupted
  <2>3. crashes = 0 => jobs' = jobs
    BY <1>10, <2>2 DEF Load, OnceInv, NothingSaved
  <2> QED
    BY <2>1, <2>2, <2>3 DEF OnceInv, NothingSaved, OneJobEach, FiredIsOver
<1>11. CASE Tick \/ UNCHANGED vars
  BY <1>11, OnceKept DEF Tick, vars, NothingSaved
<1> QED
  BY <1>2, <1>3, <1>4, <1>6, <1>7, <1>8, <1>9, <1>10, <1>11 DEF Next

\* Until the process restarts, a one-time schedule that has run has no job left,
\* whatever is created, updated, deleted or cleared in between.
THEOREM FiredOnceIsOverInvariant ==
  ASSUME Distinct = TRUE PROVE Spec => []FiredOnceIsOver
<1>1. Init => OnceInv /\ DownIsEmpty
  BY DEF Init, Absent, OnceInv, NothingSaved, OneJobEach, FiredIsOver, DownIsEmpty
<1>2. TypeOK /\ DownIsEmpty /\ OnceInv /\ [Next]_vars => DownIsEmpty' /\ OnceInv'
  BY Distinct = TRUE, OnceStep, DownIsEmptyStep
<1>3. OnceInv => FiredOnceIsOver
  BY DEF OnceInv, FiredIsOver, FiredOnceIsOver
<1> QED
  BY <1>1, <1>2, <1>3, TypeInvariant, PTL DEF Spec

(***************************************************************************)
(* Schedules and their jobs.  Callers use an OperationId once per second   *)
(* and nobody asks for ClearServiceAndTaskAll.  A job is found by the id   *)
(* of its schedule, so ids have to stay distinct: in the list, in the file *)
(* a restart reads it from, and so in every copy on its way to the file.   *)
(***************************************************************************)

DistinctIds(ss) == \A i, k \in 1..Len(ss) : ss[i].id = ss[k].id => i = k
WrittenIsListed == \A p \in Goroutine : pc[p] = "encode" => save[p].schedules = schedules
CronRegistered ==
  \A i \in 1..Len(schedules) : schedules[i].timing = "cron" => JobOf(schedules[i]) \in jobs

CronInv ==
  ~raced => /\ DistinctIds(schedules) /\ DistinctIds(file.schedules)
            /\ WrittenIsListed
            /\ up = "up" => CronRegistered

\* Somebody who changes the lists while nobody else encodes leaves nobody who does.
LEMMA NobodyWrites ==
  ASSUME TypeOK, NEW p \in Goroutine, Race(p), ~raced', NEW s, s # "encode",
         pc' = [pc EXCEPT ![p] = s]
  PROVE  WrittenIsListed' /\ ~raced
BY DEF Race, Overtakes, WrittenIsListed, TypeOK

\* A step that leaves schedules and cron jobs alone.
LEMMA CronKept ==
  ASSUME CronInv, schedules' = schedules, ~raced' => ~raced,
         \A j \in jobs : j.timing = "cron" => j \in jobs',
         up' = "up" => up = "up",
         ~raced' => (DistinctIds(file.schedules) => DistinctIds(file'.schedules)),
         ~raced' => (WrittenIsListed => WrittenIsListed')
  PROVE  CronInv'
<1> SUFFICES ASSUME ~raced'
             PROVE  /\ DistinctIds(schedules') /\ DistinctIds(file'.schedules)
                    /\ WrittenIsListed' /\ (up' = "up" => CronRegistered')
  BY DEF CronInv
<1>1. /\ DistinctIds(schedules) /\ DistinctIds(file.schedules)
      /\ WrittenIsListed /\ (up = "up" => CronRegistered)
  BY DEF CronInv
<1>2. CronRegistered => CronRegistered'
  BY DEF CronRegistered, JobOf
<1> QED
  BY <1>1, <1>2

LEMMA CronCreate ==
  ASSUME TypeOK, CronInv, Distinct = TRUE, NEW p \in Goroutine, CreateSchedule(p)
  PROVE  CronInv'
<1> DEFINE sc(op, timing, st) == [id |-> <<op, now>>, op |-> op, timing |-> timing,
                                  tasks |-> <<NewTask(<<op, now>>, st)>>]
<1>1. PICK op \in Op, timing \in Timing, st \in Status0 :
        /\ \A i \in 1..Len(schedules) : schedules[i].id # <<op, now>>
        /\ schedules' = Append(schedules, sc(op, timing, st))
        /\ RegisterAndSave(p, sc(op, timing, st), jobs)
  BY ZenonT(40) DEF CreateSchedule, Store
<1>2. sc(op, timing, st).id = <<op, now>>
  OBVIOUS
<1> HIDE DEF sc
<1>3. PICK s : s = sc(op, timing, st)
  OBVIOUS
<1>4. /\ \A i \in 1..Len(schedules) : schedules[i].id # s.id
      /\ schedules' = Append(schedules, s)
      /\ RegisterAndSave(p, s, jobs)
  BY <1>1, <1>2, <1>3
<1>5. /\ Len(schedules') = Len(schedules) + 1 /\ schedules'[Len(schedules) + 1] = s
      /\ \A i \in 1..Len(schedules) : schedules'[i] = schedules[i]
  BY <1>4 DEF TypeOK
<1>6. Len(schedules) \in Nat
  BY DEF TypeOK
<1>7. \A i \in 1..Len(schedules') : i \in 1..Len(schedules) \/ i = Len(schedules) + 1
  BY <1>5, <1>6
<1>8. pc[p] = "idle" /\ Race(p) /\ file' = file /\ up = "up"
  BY DEF CreateSchedule, Request
<1>9. PICK a \in {"save", "idle"} : pc' = [pc EXCEPT ![p] = a]
  BY <1>4, <1>8 DEF RegisterAndSave, Lock, TypeOK
<1>10. ASSUME ~raced' PROVE CronInv'
  <2>1. WrittenIsListed' /\ ~raced
    BY <1>8, <1>9, <1>10, NobodyWrites
  <2>2. DistinctIds(schedules) /\ DistinctIds(file.schedules) /\ CronRegistered
    BY <1>8, <2>1 DEF CronInv
  <2>3. DistinctIds(schedules')
    <3>1. ASSUME NEW i \in 1..Len(schedules'), NEW k \in 1..Len(schedules'),
                 schedules'[i].id = schedules'[k].id
          PROVE  i = k
      <4>1. CASE i \in 1..Len(schedules) /\ k \in 1..Len(schedules)
        BY <1>5, <2>2, <3>1, <4>1 DEF DistinctIds
      <4>2. CASE i \in 1..Len(schedules) /\ k = Len(schedules) + 1
        BY <1>4, <1>5, <3>1, <4>2
      <4>3. CASE i = Len(schedules) + 1 /\ k \in 1..Len(schedules)
        BY <1>4, <1>5, <3>1, <4>3
      <4>4. CASE i = Len(schedules) + 1 /\ k = Len(schedules) + 1
        BY <4>4
      <4> QED
        BY <1>7, <4>1, <4>2, <4>3, <4>4
    <3> QED
      BY <3>1 DEF DistinctIds
  <2>4. CronRegistered'
    <3>1. s.timing = "cron" => JobOf(s) \in jobs'
      BY <1>4 DEF RegisterAndSave, Registrable
    <3>2. jobs \subseteq jobs'
      BY <1>4 DEF RegisterAndSave
    <3>3. ASSUME NEW i \in 1..Len(schedules'), schedules'[i].timing = "cron"
          PROVE  JobOf(schedules'[i]) \in jobs'
      <4>1. CASE i \in 1..Len(schedules)
        BY <1>5, <2>2, <3>2, <3>3, <4>1 DEF CronRegistered
      <4>2. CASE i = Len(schedules) + 1
        BY <1>5, <3>1, <3>3, <4>2
      <4> QED
        BY <1>7, <4>1, <4>2
    <3>4. \A i \in 1..Len(schedules') : schedules'[i].timing = "cron" => JobOf(schedules'[i]) \in jobs'
      BY <3>3
    <3> QED
      BY <3>4 DEF CronRegistered, JobOf
  <2> QED
    BY <1>8, <2>1, <2>2, <2>3, <2>4 DEF CronInv
<1> QED
  BY <1>10 DEF CronInv

LEMMA CronUpdate ==
  ASSUME TypeOK, CronInv, NEW p \in Goroutine, UpdateSchedule(p)
  PROVE  CronInv'
<1>1. PICK i \in 1..Len(schedules), timing \in Timing, st \in Status0 :
        LET s == [schedules[i] EXCEPT !.timing = timing, !.tasks = <<NewTask(NoId, st)>>] IN
        /\ schedules' = [schedules EXCEPT ![i] = s]
        /\ RegisterAndSave(p, s, JobsWithout(schedules[i].id))
  BY DEF UpdateSchedule, Store
<1>2. schedules[i] \in Schedule
  BY ElementType
<1>3. PICK s : /\ s.id = schedules[i].id /\ schedules' = [schedules EXCEPT ![i] = s]
               /\ RegisterAndSave(p, s, JobsWithout(schedules[i].id))
  BY <1>1, <1>2 DEF Schedule
<1>4. /\ Len(schedules') = Len(schedules) /\ schedules'[i] = s
      /\ \A k \in 1..Len(schedules) : k # i => schedules'[k] = schedules[k]
      /\ \A k \in 1..Len(schedules) : schedules'[k].id = schedules[k].id
  BY <1>3 DEF TypeOK
<1>5. pc[p] = "idle" /\ Race(p) /\ file' = file /\ up = "up"
  BY DEF UpdateSchedule, Request
<1>6. PICK a \in {"save", "idle"} : pc' = [pc EXCEPT ![p] = a]
  BY <1>3, <1>5 DEF RegisterAndSave, Lock, TypeOK
<1>7. ASSUME ~raced' PROVE CronInv'
  <2>1. WrittenIsListed' /\ ~raced
    BY <1>5, <1>6, <1>7, NobodyWrites
  <2>2. DistinctIds(schedules) /\ DistinctIds(file.schedules) /\ CronRegistered
    BY <1>5, <2>1 DEF CronInv
  <2>3. DistinctIds(schedules')
    BY <1>4, <2>2 DEF DistinctIds
  <2>4. s.timing = "cron" => JobOf(s) \in jobs'
    BY <1>3 DEF RegisterAndSave, Registrable
  <2>5. JobsWithout(schedules[i].id) \subseteq jobs'
    BY <1>3 DEF RegisterAndSave
  <2>6. ASSUME NEW k \in 1..Len(schedules), schedules'[k].timing = "cron"
        PROVE  JobOf(schedules'[k]) \in jobs'
    <3>1. CASE k = i
      BY <1>4, <2>4, <2>6, <3>1
    <3>2. CASE k # i
      <4>1. schedules'[k] = schedules[k] /\ JobOf(schedules[k]) \in jobs
        BY <1>4, <2>2, <2>6, <3>2 DEF CronRegistered
      <4>2. JobOf(schedules[k]).tag # schedules[i].id
        BY <2>2, <3>2 DEF DistinctIds, JobOf
      <4> QED
        BY <2>5, <4>1, <4>2 DEF JobsWithout
    <3> QED
      BY <3>1, <3>2
  <2>7. \A k \in 1..Len(schedules') : schedules'[k].timing = "cron" => JobOf(schedules'[k]) \in jobs'
    BY <1>4, <2>6
  <2>8. CronRegistered'
    BY <2>7 DEF CronRegistered, JobOf
  <2> QED
    BY <1>5, <2>1, <2>2, <2>3, <2>8 DEF CronInv
<1> QED
  BY <1>7 DEF CronInv

LEMMA CronDelete ==
  ASSUME TypeOK, CronInv, NEW p \in Goroutine, DeleteSchedule(p)
  PROVE  CronInv'
<1>1. PICK i \in 1..Len(schedules) :
        jobs' = JobsWithout(schedules[i].id) /\ schedules' = RemoveAt(schedules, i)
  BY DEF DeleteSchedule, Store
<1>2. /\ Len(schedules') = Len(schedules) - 1
      /\ \A k \in 1..Len(schedules)-1 :
           schedules'[k] = IF k < i THEN schedules[k] ELSE schedules[k+1]
  BY <1>1, RemoveAtIs DEF TypeOK
<1> DEFINE Old(k) == IF k < i THEN k ELSE k+1
<1>3. Len(schedules) \in Nat /\ i \in Nat
  BY DEF TypeOK
<1>4. \A k \in 1..Len(schedules') :
        Old(k) \in 1..Len(schedules) /\ Old(k) # i /\ schedules'[k] = schedules[Old(k)]
  BY <1>2, <1>3
<1>5. \A k, l \in 1..Len(schedules') : Old(k) = Old(l) => k = l
  BY <1>2, <1>3
<1> HIDE DEF Old
<1>6. /\ pc[p] = "idle" /\ Race(p) /\ file' = file /\ up = "up"
      /\ pc' = [pc EXCEPT ![p] = "save"]
  BY DEF DeleteSchedule, Request, Lock
<1>7. ASSUME ~raced' PROVE CronInv'
  <2>1. WrittenIsListed' /\ ~raced
    <3>1. PICK a \in {"save"} : pc' = [pc EXCEPT ![p] = a]
      BY <1>6
    <3> QED
      BY <1>6, <1>7, <3>1, NobodyWrites
  <2>2. DistinctIds(schedules) /\ DistinctIds(file.schedules) /\ CronRegistered
    BY <1>6, <2>1 DEF CronInv
  <2>3. DistinctIds(schedules')
    BY <1>4, <1>5, <2>2 DEF DistinctIds
  <2>4. ASSUME NEW k \in 1..Len(schedules'), schedules'[k].timing = "cron"
        PROVE  JobOf(schedules'[k]) \in jobs'
    <3>1. PICK l \in 1..Len(schedules) : l # i /\ schedules'[k] = schedules[l]
      BY <1>4
    <3>2. JobOf(schedules[l]) \in jobs
      BY <2>2, <2>4, <3>1 DEF CronRegistered
    <3>3. JobOf(schedules[l]).tag # schedules[i].id
      BY <2>2, <3>1 DEF DistinctIds, JobOf
    <3> QED
      BY <1>1, <3>1, <3>2, <3>3 DEF JobsWithout
  <2>5. CronRegistered'
    <3>1. \A k \in 1..Len(schedules') : schedules'[k].timing = "cron" => JobOf(schedules'[k]) \in jobs'
      BY <2>4
    <3> QED
      BY <3>1 DEF CronRegistered, JobOf
  <2> QED
    BY <1>6, <2>1, <2>2, <2>3, <2>5 DEF CronInv
<1> QED
  BY <1>7 DEF CronInv

\* The other requests and the steps of a goroutine leave the schedules as they are.
LEMMA CronOther ==
  ASSUME TypeOK, CronInv, NEW p \in Goroutine,
         \/ CreateTask(p) \/ RunTaskOnce(p) \/ FindTask(p)
         \/ UpdateTasksByType(p) \/ DeleteTasksByType(p) \/ EditTask(p)
         \/ RunTask(p) \/ RunDone(p) \/ FireJob(p)
  PROVE  CronInv'
<1>1. schedules' = schedules /\ file' = file /\ up' = up
  BY ZenonT(40) DEF CreateTask, RunTaskOnce, FindTask, UpdateTasksByType, DeleteTasksByType, EditTask,
         RunTask, RunDone, FireJob, Request, Store
<1>2. \A j \in jobs : j.timing = "cron" => j \in jobs'
  <2>1. CASE FireJob(p)
    BY <2>1 DEF FireJob, JobsAfterFiring
  <2>2. CASE ~FireJob(p)
    <3>1. jobs' = jobs
      BY <2>2 DEF CreateTask, RunTaskOnce, FindTask, UpdateTasksByType, DeleteTasksByType, EditTask,
                  RunTask, RunDone
    <3> QED
      BY <3>1
  <2> QED
    BY <2>1, <2>2
<1>3. PICK a : a # "encode" /\ pc' = [pc EXCEPT ![p] = a]
  <2>1. CASE CreateTask(p) \/ UpdateTasksByType(p) \/ DeleteTasksByType(p)
    <3>1. pc' = [pc EXCEPT ![p] = "save"]
      BY <2>1 DEF CreateTask, UpdateTasksByType, DeleteTasksByType, Lock
    <3> QED
      BY <3>1
  <2>2. CASE RunTaskOnce(p)
    <3>1. pc' = [pc EXCEPT ![p] = "save"] \/ pc' = [pc EXCEPT ![p] = "run"]
      BY <2>2 DEF RunTaskOnce, Lock
    <3> QED
      BY <3>1
  <2>3. CASE FindTask(p)
    BY <2>3 DEF FindTask
  <2>4. CASE EditTask(p)
    <3>1. pc' = [pc EXCEPT ![p] = "save"] \/ pc' = [pc EXCEPT ![p] = "idle"]
      BY <2>4 DEF EditTask
    <3> QED
      BY <3>1
  <2>5. CASE RunTask(p)
    <3>1. \/ pc' = [pc EXCEPT ![p] = "status"] \/ pc' = [pc EXCEPT ![p] = "idle"]
          \/ pc[p] = "run" /\ pc' = [pc EXCEPT ![p] = "run"]
      BY <2>5 DEF RunTask, TypeOK
    <3> QED
      BY <3>1
  <2>6. CASE RunDone(p)
    BY <2>6 DEF RunDone
  <2>7. CASE FireJob(p)
    BY <2>7 DEF FireJob
  <2> QED
    BY <2>1, <2>2, <2>3, <2>4, <2>5, <2>6, <2>7
<1>4. CASE Race(p)
  <2>1. ~raced' => WrittenIsListed' /\ ~raced
    BY <1>3, <1>4, NobodyWrites
  <2> QED
    BY <1>1, <1>2, <2>1, CronKept
<1>5. CASE raced' = raced /\ save' = save
  <2>1. WrittenIsListed => WrittenIsListed'
    BY <1>1, <1>3, <1>5 DEF WrittenIsListed, TypeOK
  <2> QED
    BY <1>1, <1>2, <1>5, <2>1, CronKept
<1>6. Race(p) \/ (raced' = raced /\ save' = save)
  BY DEF CreateTask, RunTaskOnce, FindTask, UpdateTasksByType, DeleteTasksByType, EditTask,
         RunTask, RunDone, FireJob, Request
<1> QED
  BY <1>4, <1>5, <1>6

\* A status is stored in the tasks; a copy being encoded keeps its schedules.
LEMMA CronStatus ==
  ASSUME TypeOK, CronInv, NEW p \in Goroutine, UpdateTaskStatus(p)
  PROVE  CronInv'
<1>1. UNCHANGED <<schedules, jobs, file, up, raced>>
  BY DEF UpdateTaskStatus, Store
<1>2. \A q \in Goroutine : pc'[q] = "encode" => pc[q] = "encode"
  BY DEF UpdateTaskStatus, TypeOK
<1>3. Through(schedules, schedules) = schedules
  <2>1. Through(schedules, schedules) = [k \in 1..Len(schedules) |-> schedules[k]]
    BY DEF Through, TypeOK
  <2> QED
    BY <2>1 DEF TypeOK
<1>4. \A q \in Goroutine : \/ save'[q].schedules = save[q].schedules
                           \/ save'[q].schedules = Through(save[q].schedules, schedules)
  <2>1. CASE save' = save
    BY <2>1
  <2>2. CASE save' # save
    <3>1. PICK ts : Store(ts, schedules, {})
      BY <2>2 DEF UpdateTaskStatus
    <3> QED
      BY <3>1 DEF Store
  <2> QED
    BY <2>1, <2>2
<1>5. WrittenIsListed => WrittenIsListed'
  BY <1>1, <1>2, <1>3, <1>4 DEF WrittenIsListed
<1> QED
  BY <1>1, <1>5, CronKept

\* A save copies the list, and writes a copy nobody has changed the list under.
LEMMA CronSave ==
  ASSUME TypeOK, CronInv, NEW p \in Goroutine, SaveOpen(p) \/ SaveEncode(p)
  PROVE  CronInv'
<1>1. UNCHANGED <<schedules, jobs, up>>
  BY DEF SaveOpen, SaveEncode
<1>2. DistinctIds(Torn.schedules)
  BY DEF DistinctIds, Torn
<1>3. CASE SaveOpen(p)
  <2>1. CASE pc' = [pc EXCEPT ![p] = "encode"] /\ file' = Torn /\ Race(p)
             /\ save' = [save EXCEPT ![p] = [tasks |-> tasks, schedules |-> schedules,
                                             alias |-> {"tasks", "schedules"}]]
    <3>1. save'[p].schedules = schedules /\ \A q \in Goroutine : q # p => pc'[q] = pc[q]
      BY <2>1 DEF TypeOK
    <3>2. ~raced' => ~raced /\ \A q \in Goroutine : q # p => pc[q] # "encode"
      BY <2>1 DEF Race, Overtakes
    <3>3. ~raced' => WrittenIsListed'
      BY <1>1, <3>1, <3>2 DEF WrittenIsListed
    <3> QED
      BY <1>1, <1>2, <2>1, <3>2, <3>3, CronKept
  <2>2. CASE Return(p) /\ UNCHANGED <<file, save, raced>>
    <3>1. WrittenIsListed => WrittenIsListed'
      BY <1>1, <2>2 DEF Return, WrittenIsListed, TypeOK
    <3> QED
      BY <1>1, <2>2, <3>1, CronKept
  <2> QED
    BY <1>3, <2>1, <2>2 DEF SaveOpen
<1>4. CASE SaveEncode(p)
  <2>1. /\ pc[p] = "encode" /\ raced' = raced
        /\ file'.schedules = save[p].schedules \/ file' = Torn
    BY <1>4 DEF SaveEncode, Image
  <2>2. pc'[p] # "encode" /\ \A q \in Goroutine : q # p => pc'[q] = pc[q] /\ save'[q] = save[q]
    BY <1>4 DEF SaveEncode, Return, TypeOK
  <2>3. WrittenIsListed => WrittenIsListed'
    BY <1>1, <2>2 DEF WrittenIsListed
  <2>4. ~raced => DistinctIds(schedules) /\ WrittenIsListed
    BY DEF CronInv
  <2>5. ~raced' => DistinctIds(file'.schedules)
    BY <1>2, <2>1, <2>4 DEF WrittenIsListed
  <2> QED
    BY <1>1, <2>1, <2>3, <2>5, CronKept
<1> QED
  BY <1>3, <1>4

\* A load registers what it lists, or leaves no manager.
LEMMA CronLoad ==
  ASSUME TypeOK, DownIsEmpty, CronInv, Load
  PROVE  CronInv'
<1>1. /\ tasks = <<>> /\ schedules = <<>> /\ \A p \in Goroutine : pc[p] = "idle"
      /\ UNCHANGED <<pc, save, raced>>
  BY DEF Load, DownIsEmpty
<1>2. WrittenIsListed'
  BY <1>1 DEF WrittenIsListed
<1>3. CASE schedules' = schedules
  <2>1. DistinctIds(Absent.schedules)
    BY DEF DistinctIds, Absent
  <2>2. file' = file \/ file' = Absent
    BY DEF Load, LoadCorrupted
  <2>3. DistinctIds(schedules') /\ CronRegistered'
    BY <1>1, <1>3 DEF DistinctIds, CronRegistered
  <2> QED
    BY <1>1, <1>2, <2>1, <2>2, <2>3 DEF CronInv
<1>4. CASE schedules' # schedules
  <2> DEFINE n == {i \in 1..Len(file.schedules) :
                     \A k \in 1..i : Registrable(file.schedules[k])}
  <2>1. /\ schedules' = file.schedules /\ file' = file
        /\ jobs' = {JobOf(file.schedules[i]) : i \in n}
        /\ up' = IF n = 1..Len(file.schedules) THEN "up" ELSE "nil"
    BY <1>4 DEF Load
  <2> HIDE DEF n
  <2>2. up' = "up" => \A i \in 1..Len(file.schedules) : JobOf(file.schedules[i]) \in jobs'
    BY <2>1
  <2>3. up' = "up" => CronRegistered'
    BY <2>1, <2>2 DEF CronRegistered, JobOf
  <2> QED
    BY <1>1, <1>2, <2>1, <2>3 DEF CronInv
<1> QED
  BY <1>3, <1>4

LEMMA CronStep ==
  ASSUME TypeOK, DownIsEmpty, NoClear, CronInv, Distinct = TRUE,
         "ClearServiceAndTaskAll" \notin Workload, [Next]_vars
  PROVE  CronInv'
<1>1. ASSUME NEW p \in Goroutine, Handle(p) PROVE CronInv'
  <2>1. ~ClearTasks(p)
    BY DEF ClearTasks, Request
  <2> QED
    BY <1>1, <2>1, CronCreate, CronUpdate, CronDelete, CronOther DEF Handle
<1>2. ASSUME NEW p \in Goroutine, FireJob(p) \/ Continue(p) PROVE CronInv'
  <2>1. ~(ClearSchedule(p) \/ ClearJobs(p) \/ ClearLists(p) \/ ClearSchedulers(p))
    BY DEF ClearSchedule, ClearJobs, ClearLists, ClearSchedulers, NoClear
  <2> QED
    BY <1>2, <2>1, CronOther, CronStatus, CronSave DEF Continue
<1>3. CASE Crash
  <2>1. /\ up' = "down" /\ raced' = raced /\ schedules' = <<>>
        /\ \A p \in Goroutine : pc'[p] # "encode"
        /\ file' = file \/ file' = Torn
    BY <1>3 DEF Crash
  <2>2. DistinctIds(schedules') /\ DistinctIds(Torn.schedules) /\ WrittenIsListed'
    BY <2>1 DEF DistinctIds, Torn, WrittenIsListed
  <2> QED
    BY <2>1, <2>2 DEF CronInv
<1>4. CASE Tick \/ UNCHANGED vars
  <2>1. UNCHANGED <<up, schedules, jobs, file, pc, save, raced>>
    BY <1>4 DEF Tick, vars
  <2> QED
    BY <2>1 DEF CronInv, WrittenIsListed, CronRegistered, JobOf
<1> QED
  BY <1>1, <1>2, <1>3, <1>4, CronLoad DEF Next

\* While the manager serves requests every listed cron schedule has its job with
\* its own tasks, whatever is updated, deleted, refused, saved or reloaded: no
\* schedule is listed and dead, until a race of saves has written one twice.
THEOREM CronScheduleHasJobInvariant ==
  ASSUME Distinct = TRUE, "ClearServiceAndTaskAll" \notin Workload
  PROVE  Spec => []CronScheduleHasJob
<1>1. Init => CronInv /\ DownIsEmpty /\ NoClear
  BY DEF Init, Absent, NoRun, CronInv, DistinctIds, WrittenIsListed, CronRegistered,
         DownIsEmpty, NoClear
<1>2. TypeOK /\ DownIsEmpty /\ NoClear /\ CronInv /\ [Next]_vars
        => DownIsEmpty' /\ NoClear' /\ CronInv'
  BY Distinct = TRUE, "ClearServiceAndTaskAll" \notin Workload,
     CronStep, DownIsEmptyStep, NoClearStep
<1>3. CronInv => CronScheduleHasJob
  BY DEF CronInv, CronRegistered, CronScheduleHasJob
<1> QED
  BY <1>1, <1>2, <1>3, TypeInvariant, PTL DEF Spec

=============================================================================
