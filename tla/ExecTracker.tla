----------------------------- MODULE ExecTracker -----------------------------
(***************************************************************************)
(* The execution tracker (service/task/execTracker.go): the in-memory map  *)
(* of executions in progress, the rows of tbexecutionlog, and the last     *)
(* failure cause kept per trace id for the HTTP layer.                     *)
(*                                                                         *)
(* An execution is one call of track (a task of a handler or of a job) or  *)
(* of Track (a create or delete called directly by a handler), together    *)
(* with the way its caller answers.                                        *)
(***************************************************************************)
EXTENDS Integers, Sequences

CONSTANTS
  Op,             \* executions
  Trace,          \* trace ids of requests (TracingMiddleware)
  NoTrace,        \* the empty trace id of a job
  NoCause,        \* no failure cause
  Kind,           \* the kinds of execution that occur
  Ends,           \* the ways fn ends that occur
  DistinctTraces, \* whether no two requests get one trace id
  DBMayFail,      \* whether config.DB may be nil or refuse a statement
  IOErrors,       \* whether task.json may not be writable
  MaxClock,       \* bound: seconds that pass
  MaxCrashes      \* bound: crashes of the process

\* "task": a generate, migrate or restore handler; "backup": a backup handler,
\* which also marks the backup record; "direct": a handler that calls Track;
\* "job": a task of RunTasks.
Kinds == {"task", "backup", "direct", "job"}

ASSUME Assumptions ==
  /\ NoTrace \notin Trace
  /\ NoCause \notin Op
  /\ Kind \subseteq Kinds /\ Ends \subseteq {"ok", "error", "panic"}
  /\ DistinctTraces \in BOOLEAN /\ DBMayFail \in BOOLEAN /\ IOErrors \in BOOLEAN
  /\ MaxClock \in Nat /\ MaxCrashes \in Nat

VARIABLES
  seq,      \* the last key given
  running,  \* the map of executions in progress: pairs <<key, execution>>
  lastErr,  \* trace id -> the execution whose failure cause is kept
  log,      \* tbexecutionlog
  now,      \* the wall clock, in the seconds of a datetime column
  pc,       \* what each execution does next
  kind, trace, key,
  began,    \* reqAt
  ended,    \* FinishedAt
  outcome,  \* how fn ended
  answer,   \* the cause in the answer of the handler
  crashes   \* crashes so far

vars == <<seq, running, lastErr, log, now, pc, kind, trace, key, began, ended,
          outcome, answer, crashes>>

Row == [op : Op, result : {"success", "failed"}, cause : Op \cup {NoCause},
        from : 0..MaxClock, to : 0..MaxClock]

Init ==
  /\ seq = 0 /\ running = {} /\ log = <<>> /\ now = 0 /\ crashes = 0
  /\ lastErr = [t \in Trace |-> NoCause]
  /\ pc = [o \in Op |-> "idle"] /\ kind = [o \in Op |-> "job"]
  /\ trace = [o \in Op |-> NoTrace] /\ key = [o \in Op |-> 0]
  /\ began = [o \in Op |-> 0] /\ ended = [o \in Op |-> 0]
  /\ outcome = [o \in Op |-> "none"] /\ answer = [o \in Op |-> NoCause]

-----------------------------------------------------------------------------
Goto(o, next) == pc' = [pc EXCEPT ![o] = next]

\* Mutant: the deferred function does not handle a panic.
ResultOf_NoRecover(out) == CASE out = "ok" -> "success"
                             [] out = "error" -> "failed"
                             [] OTHER -> "none"

\* The result written for an outcome of fn; a panic is swallowed and failed.
ResultOf(out) == CASE out = "ok" -> "success"
                   [] out \in {"error", "panic"} -> "failed"
                   [] OTHER -> "none"

Failed(o) == outcome[o] \in {"error", "panic"}
CauseOf(o) == IF Failed(o) THEN o ELSE NoCause

\* Every request has a trace id of its own, made by TracingMiddleware; a job has none.
TraceFor(k, t) ==
  IF k = "job" THEN t = NoTrace
  ELSE /\ t \in Trace
       /\ DistinctTraces => \A o \in Op : trace[o] # t

\* Mutant: the key is the start time.
Begin_KeyIsTime(o) ==
  /\ pc[o] = "idle"
  /\ \E k \in Kind, t \in Trace \cup {NoTrace} :
       /\ TraceFor(k, t)
       /\ kind' = [kind EXCEPT ![o] = k]
       /\ trace' = [trace EXCEPT ![o] = t]
  /\ key' = [key EXCEPT ![o] = now + 1]
  /\ began' = [began EXCEPT ![o] = now]
  /\ Goto(o, "enter")
  /\ UNCHANGED <<seq, running, lastErr, log, now, ended, outcome, answer, crashes>>

\* A request or a job comes to its track or Track: the next key is drawn.
Begin(o) ==
  /\ pc[o] = "idle"
  /\ \E k \in Kind, t \in Trace \cup {NoTrace} :
       /\ TraceFor(k, t)
       /\ kind' = [kind EXCEPT ![o] = k]
       /\ trace' = [trace EXCEPT ![o] = t]
  /\ seq' = seq + 1
  /\ key' = [key EXCEPT ![o] = seq + 1]
  /\ began' = [began EXCEPT ![o] = now]
  /\ Goto(o, "enter")
  /\ UNCHANGED <<running, lastErr, log, now, ended, outcome, answer, crashes>>

\* RunTaskOnce returns false for an inactive or failed task before it tracks anything.
Skip(o) ==
  /\ pc[o] = "idle"
  /\ \E k \in Kind \cap {"task", "backup"}, t \in Trace :
       /\ TraceFor(k, t)
       /\ kind' = [kind EXCEPT ![o] = k]
       /\ trace' = [trace EXCEPT ![o] = t]
  /\ Goto(o, "answer")
  /\ UNCHANGED <<seq, running, lastErr, log, now, key, began, ended, outcome, answer, crashes>>

\* t.running[key] = ..., under t.mu.
Enter(o) ==
  /\ pc[o] = "enter"
  /\ running' = {e \in running : e[1] # key[o]} \cup {<<key[o], o>>}
  /\ Goto(o, "fn")
  /\ UNCHANGED <<seq, lastErr, log, now, kind, trace, key, began, ended, outcome, answer, crashes>>

\* fn returns nil or an error, or panics.
FnReturns(o) ==
  /\ pc[o] = "fn"
  /\ \E out \in Ends : outcome' = [outcome EXCEPT ![o] = out]
  /\ Goto(o, "store")
  /\ UNCHANGED <<seq, running, lastErr, log, now, kind, trace, key, began, ended, answer, crashes>>

\* Mutant: the cause of a panic is not kept.
StoreErr_ErrorOnly(o) ==
  /\ pc[o] = "store"
  /\ lastErr' = IF outcome[o] = "error" /\ trace[o] # NoTrace
                  THEN [lastErr EXCEPT ![trace[o]] = o] ELSE lastErr
  /\ Goto(o, "finish")
  /\ UNCHANGED <<seq, running, log, now, kind, trace, key, began, ended, outcome, answer, crashes>>

\* storeErr keeps the cause of a failure for the HTTP layer.
StoreErr(o) ==
  /\ pc[o] = "store"
  /\ lastErr' = IF Failed(o) /\ trace[o] # NoTrace
                  THEN [lastErr EXCEPT ![trace[o]] = o] ELSE lastErr
  /\ Goto(o, "finish")
  /\ UNCHANGED <<seq, running, log, now, kind, trace, key, began, ended, outcome, answer, crashes>>

\* finish: delete(t.running, key), under t.mu; then FinishedAt is read.
Finish(o) ==
  /\ pc[o] = "finish"
  /\ running' = {e \in running : e[1] # key[o]}
  /\ ended' = [ended EXCEPT ![o] = now]
  /\ Goto(o, "insert")
  /\ UNCHANGED <<seq, lastErr, log, now, kind, trace, key, began, outcome, answer, crashes>>

RowOf(o) == [op |-> o, result |-> ResultOf(outcome[o]), cause |-> CauseOf(o),
             from |-> began[o], to |-> ended[o]]

\* Mutant: an insert that reports an error is tried again.
Insert_Retry(o) ==
  /\ pc[o] = "insert"
  /\ log' = Append(log, RowOf(o))
  /\ Goto(o, "answer") \/ (DBMayFail /\ Len(log) < 2 /\ UNCHANGED pc)
  /\ UNCHANGED <<seq, running, lastErr, now, kind, trace, key, began, ended, outcome, answer, crashes>>

\* finish: the row is inserted; without a database, or on an error, it is not.
Insert(o) ==
  /\ pc[o] = "insert"
  /\ \/ log' = Append(log, RowOf(o))
     \/ DBMayFail /\ UNCHANGED log
  /\ Goto(o, "answer")
  /\ UNCHANGED <<seq, running, lastErr, now, kind, trace, key, began, ended, outcome, answer, crashes>>

\* Mutant: Load instead of LoadAndDelete.
LastError_Load(o) == answer' = [answer EXCEPT ![o] = lastErr[trace[o]]] /\ UNCHANGED lastErr

\* LastError, through taskErrMsg: the cause of the trace is returned and dropped.
LastError(o) ==
  /\ answer' = [answer EXCEPT ![o] = lastErr[trace[o]]]
  /\ lastErr' = [lastErr EXCEPT ![trace[o]] = NoCause]

\* Track returned to its handler, or track to RunTasks: nobody asks for LastError.
AnswerDirectly(o) ==
  /\ kind[o] \in {"direct", "job"}
  /\ answer' = [answer EXCEPT ![o] = IF kind[o] = "direct" THEN CauseOf(o) ELSE NoCause]
  /\ UNCHANGED lastErr

\* RunTaskOnce returned true.
AnswerSuccess(o) ==
  /\ kind[o] \in {"task", "backup"} /\ outcome[o] = "ok"
  /\ UNCHANGED <<lastErr, answer>>

\* RunTaskOnce returned false: the task was skipped, failed, or was not saved.
AnswerFailure(o) ==
  /\ kind[o] \in {"task", "backup"} /\ (outcome[o] = "ok" => IOErrors)
  /\ LastError(o)

\* MarkStatus failed: a backup handler answers that error instead.
AnswerMarkFailed(o) ==
  /\ kind[o] = "backup" /\ DBMayFail
  /\ UNCHANGED <<lastErr, answer>>

Answer(o) ==
  /\ pc[o] = "answer"
  /\ AnswerDirectly(o) \/ AnswerSuccess(o) \/ AnswerFailure(o) \/ AnswerMarkFailed(o)
  /\ Goto(o, "done")
  /\ UNCHANGED <<seq, running, log, now, kind, trace, key, began, ended, outcome, crashes>>

Tick ==
  /\ now < MaxClock /\ now' = now + 1
  /\ UNCHANGED <<seq, running, lastErr, log, pc, kind, trace, key, began, ended, outcome,
                 answer, crashes>>

\* The process dies and starts again: what was in memory is gone.
Crash ==
  /\ crashes < MaxCrashes /\ crashes' = crashes + 1
  /\ seq' = 0 /\ running' = {} /\ lastErr' = [t \in Trace |-> NoCause]
  /\ pc' = [o \in Op |-> IF pc[o] \in {"idle", "done"} THEN pc[o] ELSE "lost"]
  /\ UNCHANGED <<log, now, kind, trace, key, began, ended, outcome, answer>>

Step(o) == \/ Begin(o) \/ Skip(o) \/ Enter(o) \/ FnReturns(o) \/ StoreErr(o)
           \/ Finish(o) \/ Insert(o) \/ Answer(o)

Next == Tick \/ Crash \/ \E o \in Op : Step(o)

Spec == Init /\ [][Next]_vars

-----------------------------------------------------------------------------
\* Types.
TypeOK ==
  /\ seq \in Nat /\ running \subseteq Nat \X Op /\ log \in Seq(Row)
  /\ lastErr \in [Trace -> Op \cup {NoCause}]
  /\ now \in 0..MaxClock /\ crashes \in 0..MaxCrashes
  /\ pc \in [Op -> {"idle", "enter", "fn", "store", "finish", "insert", "answer", "done", "lost"}]
  /\ kind \in [Op -> Kinds] /\ trace \in [Op -> Trace \cup {NoTrace}] /\ key \in [Op -> Nat]
  /\ began \in [Op -> 0..MaxClock] /\ ended \in [Op -> 0..MaxClock]
  /\ outcome \in [Op -> {"none", "ok", "error", "panic"}]
  /\ answer \in [Op -> Op \cup {NoCause}]

\* The map of running executions holds exactly the executions between their
\* registration and the delete in finish: concurrent calls of track neither
\* overwrite each other's entry nor remove it, and none is left behind.
Executing == {o \in Op : pc[o] \in {"fn", "store", "finish"}}
RunningIsExact == running = {<<key[o], o>> : o \in Executing}

\* The log is the write-once log: an execution gets at most one row, after its
\* result is confirmed, with that result, whatever crashes or errors happen.
ResultLog == INSTANCE ExecLog WITH
  verdict <- [o \in Op |-> ResultOf(outcome[o])],
  rows <- [i \in DOMAIN log |-> <<log[i].op, log[i].result>>]
WriteOnce == ResultLog!Spec

\* A handler that answers the failure of its task answers the cause of that
\* very task, and never the cause of another request; the cause comes through
\* lastErr, which other requests write and consume at the same time.
CauseSurfaced ==
  \A o \in Op : /\ answer[o] \in {o, NoCause}
                /\ (pc[o] = "done" /\ kind[o] = "task" /\ Failed(o)) => answer[o] = o

\* A cause is consumed with the answer: once a task handler has answered,
\* nothing is left for its trace id.
Answered(o) == pc[o] = "done" /\ trace[o] # NoTrace
TaskCausesConsumed == \A o \in Op : Answered(o) /\ kind[o] = "task" => lastErr[trace[o]] = NoCause

\* What the comment of lastErr says: a cause is consumed by the HTTP layer.
\* The handlers that call Track answer without asking for it.
CausesConsumed == \A o \in Op : Answered(o) => lastErr[trace[o]] = NoCause
=============================================================================
