--------------------------- MODULE ExecutionProofs ---------------------------
(***************************************************************************)
(* Proofs about ExecTracker and ExecHistory, for every set of executions   *)
(* and traces, every page size and every bound.                            *)
(***************************************************************************)
EXTENDS ExecHistory, SequenceTheorems, FiniteSetTheorems, TLAPS

(***************************************************************************)
(* Types, and the outcome that the steps after fn rely on.                 *)
(***************************************************************************)

OutcomeKnown ==
  \A o \in Op : /\ pc[o] \in {"idle", "enter", "fn"} => outcome[o] = "none"
                /\ pc[o] \in {"store", "finish", "insert"} => outcome[o] # "none"

\* Requests have a trace id, and an idle execution none.
Traced ==
  \A o \in Op : /\ pc[o] = "idle" => trace[o] = NoTrace
                /\ (pc[o] # "idle" /\ kind[o] # "job") => trace[o] \in Trace

TypeInv == TypeOK /\ OutcomeKnown /\ Traced

LEMMA InitTypeInv == Init => TypeInv
  BY Assumptions DEF Init, TypeInv, TypeOK, OutcomeKnown, Traced, Kinds

\* Only FnReturns changes an outcome; nothing else reaches a step after fn.
LEMMA StepTypeInv == ASSUME TypeInv, NEW o \in Op, Step(o) PROVE TypeInv'
<1> USE DEF TypeInv, TypeOK, OutcomeKnown, Traced, Goto
<1>1. CASE Begin(o)
  BY <1>1, Assumptions DEF Begin, TraceFor
<1>2. CASE Skip(o)
  BY <1>2, Assumptions DEF Skip, TraceFor
<1>3. CASE Enter(o)
  BY <1>3 DEF Enter
<1>4. CASE FnReturns(o)
  BY <1>4, Assumptions DEF FnReturns
<1>5. CASE StoreErr(o)
  BY <1>5 DEF StoreErr
<1>6. CASE Finish(o)
  BY <1>6 DEF Finish
<1>7. CASE Insert(o)
  <2>1. RowOf(o) \in Row
    BY <1>7 DEF Insert, RowOf, Row, ResultOf, CauseOf
  <2>2. log \in Seq(Row)
    OBVIOUS
  <2>3. Append(log, RowOf(o)) \in Seq(Row)
    BY ONLY <2>1, <2>2, AppendProperties
  <2>4. log' \in Seq(Row)
    BY <1>7, <2>2, <2>3 DEF Insert
  <2> QED
    BY <1>7, <2>4 DEF Insert
<1>8. CASE Answer(o)
  <2>1. /\ answer' \in [Op -> Op \cup {NoCause}]
        /\ lastErr' \in [Trace -> Op \cup {NoCause}]
    <3>1. CASE AnswerDirectly(o)
      BY <3>1 DEF AnswerDirectly, CauseOf
    <3>2. CASE AnswerSuccess(o)
      BY <3>2 DEF AnswerSuccess
    <3>3. CASE AnswerFailure(o)
      <4>1. trace[o] \in Trace
        BY <1>8, <3>3 DEF Answer, AnswerFailure
      <4> QED
        BY <3>3, <4>1 DEF AnswerFailure, LastError
    <3>4. CASE AnswerMarkFailed(o)
      BY <3>4 DEF AnswerMarkFailed
    <3> QED
      BY <1>8, <3>1, <3>2, <3>3, <3>4 DEF Answer
  <2> QED
    BY <1>8, <2>1 DEF Answer
<1> QED
  BY <1>1, <1>2, <1>3, <1>4, <1>5, <1>6, <1>7, <1>8 DEF Step

LEMMA TickTypeInv == ASSUME TypeInv, Tick PROVE TypeInv'
  BY Assumptions DEF TypeInv, TypeOK, OutcomeKnown, Traced, Tick

LEMMA CrashTypeInv == ASSUME TypeInv, Crash PROVE TypeInv'
  BY Assumptions DEF TypeInv, TypeOK, OutcomeKnown, Traced, Crash

LEMMA NextTypeInv == ASSUME TypeInv, [Next]_vars PROVE TypeInv'
<1>1. CASE UNCHANGED vars
  BY <1>1 DEF TypeInv, TypeOK, OutcomeKnown, Traced, vars
<1> QED
  BY <1>1, StepTypeInv, TickTypeInv, CrashTypeInv DEF Next

\* The variables keep their types: the rows of the log always tell a result.
THEOREM TypeInvariant == Spec => []TypeOK
<1>1. TypeInv => TypeOK
  BY DEF TypeInv
<1> QED
  BY <1>1, InitTypeInv, NextTypeInv, PTL DEF Spec

(***************************************************************************)
(* The map of executions in progress.  Keys come from a counter, so two    *)
(* executions that still use theirs have different ones; a crash empties   *)
(* the map and starts the counter again.                                   *)
(***************************************************************************)

UsesKey == {"enter", "fn", "store", "finish"}

KeysDistinct ==
  /\ \A o \in Op : pc[o] \in UsesKey => key[o] <= seq
  /\ \A a, b \in Op : (pc[a] \in UsesKey /\ pc[b] \in UsesKey /\ key[a] = key[b]) => a = b

RunningInv == KeysDistinct /\ RunningIsExact

\* A step that leaves keys and map alone and moves o between steps on one side of the map.
LEMMA RunningKept ==
  ASSUME TypeInv, RunningInv, NEW o \in Op,
         UNCHANGED <<seq, running, key>>,
         \A a \in Op \ {o} : pc'[a] = pc[a],
         (pc'[o] \in UsesKey) => (pc[o] \in UsesKey),
         (pc'[o] \in {"fn", "store", "finish"}) <=> (pc[o] \in {"fn", "store", "finish"})
  PROVE  RunningInv'
<1>1. KeysDistinct'
  <2>1. \A a \in Op : pc'[a] \in UsesKey => pc[a] \in UsesKey
    OBVIOUS
  <2> QED
    BY <2>1 DEF RunningInv, KeysDistinct
<1>2. Executing' = Executing
  BY DEF Executing
<1>3. RunningIsExact'
  BY <1>2 DEF RunningInv, RunningIsExact
<1> QED
  BY <1>1, <1>3 DEF RunningInv

LEMMA StepRunning == ASSUME TypeInv, RunningInv, NEW o \in Op, Step(o) PROVE RunningInv'
<1> USE DEF TypeInv, TypeOK, UsesKey
<1>1. CASE Begin(o)
  <2>1. /\ key'[o] = seq + 1 /\ seq' = seq + 1 /\ running' = running
        /\ \A a \in Op \ {o} : key'[a] = key[a] /\ pc'[a] = pc[a]
        /\ pc'[o] = "enter" /\ pc[o] = "idle"
    BY <1>1 DEF Begin, Goto
  <2>2. KeysDistinct'
    <3>1. seq \in Nat /\ \A a \in Op : key[a] \in Nat
      OBVIOUS
    <3>2. \A a \in Op \ {o} : pc'[a] \in UsesKey => key'[a] <= seq
      BY <2>1 DEF RunningInv, KeysDistinct
    <3>3. ASSUME NEW a \in Op, pc'[a] \in UsesKey PROVE key'[a] <= seq'
      <4>1. CASE a = o
        BY ONLY <2>1, <3>1, <4>1
      <4>2. CASE a # o
        <5>1. key'[a] \in Nat /\ key'[a] <= seq
          BY <2>1, <3>1, <3>2, <3>3, <4>2
        <5> QED
          BY ONLY <2>1, <3>1, <5>1
      <4> QED
        BY <4>1, <4>2
    <3>4. \A a \in Op \ {o} : pc'[a] \in UsesKey => key'[a] # key'[o]
      BY <2>1, <3>1, <3>2
    <3>5. ASSUME NEW a \in Op, NEW b \in Op, pc'[a] \in UsesKey, pc'[b] \in UsesKey,
                 key'[a] = key'[b]
          PROVE  a = b
      BY <2>1, <3>4, <3>5 DEF RunningInv, KeysDistinct
    <3> QED
      BY <3>3, <3>5 DEF KeysDistinct
  <2>3. Executing' = Executing /\ o \notin Executing
    BY <2>1 DEF Executing
  <2>4. \A a \in Executing : key'[a] = key[a]
    BY <2>1, <2>3 DEF Executing
  <2>5. RunningIsExact'
    BY <2>1, <2>3, <2>4 DEF RunningInv, RunningIsExact
  <2> QED
    BY <2>2, <2>5 DEF RunningInv
<1>2. CASE Skip(o)
  BY <1>2, RunningKept DEF Skip, Goto
<1>3. CASE Enter(o)
  <2>1. /\ key' = key /\ seq' = seq /\ pc[o] = "enter" /\ pc'[o] = "fn"
        /\ \A a \in Op \ {o} : pc'[a] = pc[a]
    BY <1>3 DEF Enter, Goto
  <2>2. KeysDistinct'
    BY <2>1 DEF RunningInv, KeysDistinct
  <2>3. Executing' = Executing \cup {o} /\ o \notin Executing
    BY <2>1 DEF Executing
  <2>4. \A e \in running : e[1] # key[o]
    BY <2>1 DEF RunningInv, KeysDistinct, RunningIsExact, Executing
  <2>5. running' = running \cup {<<key[o], o>>}
    BY <1>3, <2>4 DEF Enter
  <2>6. RunningIsExact'
    BY <2>1, <2>3, <2>5 DEF RunningInv, RunningIsExact
  <2> QED
    BY <2>2, <2>6 DEF RunningInv
<1>4. CASE FnReturns(o)
  BY <1>4, RunningKept DEF FnReturns, Goto
<1>5. CASE StoreErr(o)
  BY <1>5, RunningKept DEF StoreErr, Goto
<1>6. CASE Finish(o)
  <2>1. /\ key' = key /\ seq' = seq /\ pc[o] = "finish" /\ pc'[o] = "insert"
        /\ \A a \in Op \ {o} : pc'[a] = pc[a]
    BY <1>6 DEF Finish, Goto
  <2>2. KeysDistinct'
    BY <2>1 DEF RunningInv, KeysDistinct
  <2>3. Executing' = Executing \ {o}
    BY <2>1 DEF Executing
  <2>4. \A a \in Executing : key[a] = key[o] <=> a = o
    BY <2>1 DEF RunningInv, KeysDistinct, Executing
  <2>5. running' = {e \in {<<key[a], a>> : a \in Executing} : e[1] # key[o]}
    BY <1>6 DEF Finish, RunningInv, RunningIsExact
  <2>6. running' = {<<key[a], a>> : a \in Executing \ {o}}
    BY <2>4, <2>5
  <2>7. RunningIsExact'
    BY <2>1, <2>3, <2>6 DEF RunningIsExact
  <2> QED
    BY <2>2, <2>7 DEF RunningInv
<1>7. CASE Insert(o)
  BY <1>7, RunningKept DEF Insert, Goto
<1>8. CASE Answer(o)
  BY <1>8, RunningKept DEF Answer, Goto
<1> QED
  BY <1>1, <1>2, <1>3, <1>4, <1>5, <1>6, <1>7, <1>8 DEF Step

LEMMA NextRunning == ASSUME TypeInv, RunningInv, [Next]_vars PROVE RunningInv'
<1> USE DEF RunningInv, KeysDistinct, RunningIsExact, Executing, UsesKey
<1>1. CASE UNCHANGED vars
  BY <1>1 DEF vars
<1>2. CASE Tick
  BY <1>2 DEF Tick
<1>3. CASE Crash
  <2>1. \A o \in Op : pc'[o] \notin UsesKey
    BY <1>3 DEF Crash, TypeInv, TypeOK
  <2> QED
    BY <1>3, <2>1 DEF Crash
<1> QED
  BY <1>1, <1>2, <1>3, StepRunning DEF Next

\* At every moment the map of executions in progress holds exactly the executions
\* that have registered and not finished: track and Track called concurrently do
\* not lose, overwrite or leave an entry.
THEOREM RunningIsExactInvariant == Spec => []RunningIsExact
<1>1. Init => RunningInv
  BY DEF Init, RunningInv, KeysDistinct, RunningIsExact, Executing, UsesKey
<1>2. RunningInv => RunningIsExact
  BY DEF RunningInv
<1> QED
  BY <1>1, <1>2, InitTypeInv, NextTypeInv, NextRunning, PTL DEF Spec

(***************************************************************************)
(* The causes.  With a trace id per request, an entry of lastErr belongs   *)
(* to the one execution with that trace id, which has failed; and until    *)
(* that execution answers, nobody else writes or consumes it.              *)
(***************************************************************************)

TracesDistinct == \A a, b \in Op : (trace[a] = trace[b] /\ trace[a] # NoTrace) => a = b

Attributed ==
  \A t \in Trace : lastErr[t] # NoCause => trace[lastErr[t]] = t /\ Failed(lastErr[t])

Kept == \A o \in Op :
  (pc[o] \in {"finish", "insert", "answer"} /\ kind[o] # "job" /\ Failed(o))
    => lastErr[trace[o]] = o

CauseInv == TracesDistinct /\ Attributed /\ Kept /\ CauseSurfaced /\ TaskCausesConsumed

\* A request that begins takes a trace id nobody had.
LEMMA ArrivalCause ==
  ASSUME DistinctTraces = TRUE, TypeInv, CauseInv, NEW o \in Op, pc[o] = "idle",
         NEW k \in Kind, NEW t \in Trace \cup {NoTrace}, TraceFor(k, t),
         kind' = [kind EXCEPT ![o] = k], trace' = [trace EXCEPT ![o] = t],
         pc' \in {[pc EXCEPT ![o] = "enter"], [pc EXCEPT ![o] = "answer"]},
         UNCHANGED <<lastErr, outcome, answer>>
  PROVE  CauseInv'
<1> USE DEF TypeInv, TypeOK
<1>1. /\ trace'[o] = t /\ \A a \in Op \ {o} : trace'[a] = trace[a] /\ kind'[a] = kind[a]
      /\ \A a \in Op \ {o} : pc'[a] = pc[a]
      /\ pc'[o] \in {"enter", "answer"}
  OBVIOUS
<1>2. \A a \in Op : Failed(a)' <=> Failed(a)
  BY DEF Failed
<1>3. ~Failed(o)
  BY DEF OutcomeKnown, Failed
<1>4. TracesDistinct'
  <2>1. t # NoTrace => \A a \in Op : trace[a] # t
    BY DEF TraceFor
  <2> QED
    BY <1>1, <2>1 DEF CauseInv, TracesDistinct
<1>5. Attributed'
  BY <1>1, <1>2, <1>3 DEF CauseInv, Attributed
<1>6. Kept'
  BY <1>1, <1>2, <1>3 DEF CauseInv, Kept
<1>7. CauseSurfaced' /\ TaskCausesConsumed'
  BY <1>1, <1>2 DEF CauseInv, CauseSurfaced, TaskCausesConsumed, Answered
<1> QED
  BY <1>4, <1>5, <1>6, <1>7 DEF CauseInv

\* Until storeErr nothing is kept of an execution; then its cause is.
LEMMA StoreErrCause ==
  ASSUME TypeInv, CauseInv, NEW o \in Op, StoreErr(o) PROVE CauseInv'
<1> USE DEF TypeInv, TypeOK
<1>1. /\ pc[o] = "store" /\ pc'[o] = "finish"
      /\ \A a \in Op \ {o} : pc'[a] = pc[a]
      /\ UNCHANGED <<kind, trace, outcome, answer>>
  BY DEF StoreErr, Goto
<1>2. \A a \in Op : Failed(a)' <=> Failed(a)
  BY <1>1 DEF Failed
<1>3. /\ (Failed(o) /\ trace[o] # NoTrace) =>
            lastErr'[trace[o]] = o /\ \A t \in Trace \ {trace[o]} : lastErr'[t] = lastErr[t]
      /\ ~(Failed(o) /\ trace[o] # NoTrace) => lastErr' = lastErr
  BY <1>1 DEF StoreErr
<1>4. kind[o] # "job" => trace[o] \in Trace
  BY <1>1 DEF Traced
<1>5. \A a \in Op \ {o} : trace[a] # NoTrace => trace[a] # trace[o]
  BY DEF CauseInv, TracesDistinct
<1>6. TracesDistinct'
  BY <1>1 DEF CauseInv, TracesDistinct
<1>7. Attributed'
  <2>1. ASSUME NEW t \in Trace, lastErr'[t] # NoCause
        PROVE  trace[lastErr'[t]] = t /\ outcome[lastErr'[t]] \in {"error", "panic"}
    <3>1. CASE Failed(o) /\ t = trace[o]
      BY <1>3, <3>1, Assumptions DEF Failed
    <3>2. CASE ~(Failed(o) /\ t = trace[o])
      <4>1. lastErr'[t] = lastErr[t]
        BY <1>3, <3>2
      <4> QED
        BY <2>1, <4>1 DEF CauseInv, Attributed, Failed
    <3> QED
      BY <3>1, <3>2
  <2> QED
    BY <1>1, <2>1 DEF Attributed, Failed
<1>8. Kept'
  <2>1. ASSUME NEW a \in Op, pc'[a] \in {"finish", "insert", "answer"}, kind[a] # "job", Failed(a)
        PROVE  lastErr'[trace[a]] = a
    <3>1. CASE a = o
      BY <1>3, <1>4, <2>1, <3>1, Assumptions
    <3>2. CASE a # o
      <4>1. trace[a] \in Trace /\ lastErr[trace[a]] = a
        BY <1>1, <2>1, <3>2 DEF CauseInv, Kept, Traced
      <4> QED
        BY <1>3, <1>5, <3>2, <4>1, Assumptions
    <3> QED
      BY <3>1, <3>2
  <2> QED
    BY <1>1, <1>2, <2>1 DEF Kept
<1>9. CauseSurfaced'
  BY <1>1, <1>2 DEF CauseInv, CauseSurfaced
<1>10. TaskCausesConsumed'
  <2>1. ASSUME NEW a \in Op, pc'[a] = "done", trace[a] # NoTrace, kind[a] = "task"
        PROVE  lastErr'[trace[a]] = NoCause
    <3>1. a # o /\ pc[a] = "done"
      BY <1>1, <2>1
    <3>2. trace[a] \in Trace /\ lastErr[trace[a]] = NoCause
      BY <2>1, <3>1 DEF CauseInv, TaskCausesConsumed, Answered
    <3> QED
      BY <1>3, <1>5, <2>1, <3>1, <3>2
  <2> QED
    BY <1>1, <2>1 DEF TaskCausesConsumed, Answered
<1> QED
  BY <1>6, <1>7, <1>8, <1>9, <1>10 DEF CauseInv

\* The answer of a failed task consumes the cause of that very task.
LEMMA AnswerCause == ASSUME TypeInv, CauseInv, NEW o \in Op, Answer(o) PROVE CauseInv'
<1> USE DEF TypeInv, TypeOK
<1>1. /\ pc[o] = "answer" /\ pc'[o] = "done"
      /\ \A a \in Op \ {o} : pc'[a] = pc[a]
      /\ UNCHANGED <<kind, trace, outcome>>
  BY DEF Answer, Goto
<1>2. \A a \in Op : Failed(a)' <=> Failed(a)
  BY <1>1 DEF Failed
<1>3. \A a \in Op \ {o} : trace[a] # NoTrace => trace[a] # trace[o]
  BY DEF CauseInv, TracesDistinct
<1>4. trace[o] \in Trace => lastErr[trace[o]] \in {o, NoCause}
  BY <1>3, Assumptions DEF CauseInv, Attributed
<1>5. /\ \A a \in Op \ {o} : answer'[a] = answer[a]
      /\ answer'[o] \in {o, NoCause, answer[o]}
      /\ kind[o] = "task" /\ Failed(o) => answer'[o] = o
      /\ kind[o] = "task" => lastErr'[trace[o]] = NoCause
      /\ \/ lastErr' = lastErr
         \/ trace[o] \in Trace /\ lastErr' = [lastErr EXCEPT ![trace[o]] = NoCause]
  <2>1. CASE AnswerDirectly(o)
    BY <2>1 DEF AnswerDirectly, CauseOf
  <2>2. CASE AnswerSuccess(o)
    <3>1. trace[o] \in Trace /\ ~Failed(o)
      BY <1>1, <2>2 DEF AnswerSuccess, Traced, Failed
    <3>2. lastErr[trace[o]] = NoCause
      BY <1>4, <3>1, Assumptions DEF CauseInv, Attributed
    <3> QED
      BY <2>2, <3>1, <3>2 DEF AnswerSuccess
  <2>3. CASE AnswerFailure(o)
    <3>1. trace[o] \in Trace
      BY <1>1, <2>3 DEF AnswerFailure, Traced
    <3>2. answer'[o] = lastErr[trace[o]] /\ lastErr' = [lastErr EXCEPT ![trace[o]] = NoCause]
      BY <2>3 DEF AnswerFailure, LastError
    <3>3. kind[o] = "task" /\ Failed(o) => lastErr[trace[o]] = o
      BY <1>1 DEF CauseInv, Kept
    <3> QED
      BY <1>4, <2>3, <3>1, <3>2, <3>3 DEF AnswerFailure, LastError
  <2>4. CASE AnswerMarkFailed(o)
    BY <2>4 DEF AnswerMarkFailed
  <2> QED
    BY <2>1, <2>2, <2>3, <2>4 DEF Answer
<1>6. \A t \in Trace : lastErr'[t] = lastErr[t] \/ (lastErr'[t] = NoCause /\ t = trace[o])
  BY <1>5
<1>7. TracesDistinct'
  BY <1>1 DEF CauseInv, TracesDistinct
<1>8. Attributed'
  <2>1. ASSUME NEW t \in Trace, lastErr'[t] # NoCause
        PROVE  trace[lastErr'[t]] = t /\ outcome[lastErr'[t]] \in {"error", "panic"}
    BY <1>6, <2>1 DEF CauseInv, Attributed, Failed
  <2> QED
    BY <1>1, <2>1 DEF Attributed, Failed
<1>9. Kept'
  <2>1. ASSUME NEW a \in Op, pc'[a] \in {"finish", "insert", "answer"}, kind[a] # "job", Failed(a)
        PROVE  lastErr'[trace[a]] = a
    <3>1. a # o /\ trace[a] \in Trace /\ lastErr[trace[a]] = a
      BY <1>1, <2>1 DEF CauseInv, Kept, Traced
    <3> QED
      BY <1>3, <1>6, <3>1, Assumptions
  <2> QED
    BY <1>1, <1>2, <2>1 DEF Kept
<1>11. TaskCausesConsumed'
  <2>1. ASSUME NEW a \in Op, pc'[a] = "done", trace[a] # NoTrace, kind[a] = "task"
        PROVE  lastErr'[trace[a]] = NoCause
    <3>1. CASE a = o
      BY <1>5, <2>1, <3>1
    <3>2. CASE a # o
      <4>1. trace[a] \in Trace /\ lastErr[trace[a]] = NoCause
        BY <1>1, <2>1, <3>2 DEF CauseInv, TaskCausesConsumed, Answered
      <4> QED
        BY <1>6, <4>1
    <3> QED
      BY <3>1, <3>2
  <2> QED
    BY <1>1, <2>1 DEF TaskCausesConsumed, Answered
<1>12. CauseSurfaced'
  <2>1. ASSUME NEW a \in Op
        PROVE  /\ answer'[a] \in {a, NoCause}
               /\ (pc'[a] = "done" /\ kind[a] = "task" /\ Failed(a)) => answer'[a] = a
    <3>1. /\ answer[a] \in {a, NoCause}
          /\ (pc[a] = "done" /\ kind[a] = "task" /\ Failed(a)) => answer[a] = a
      BY DEF CauseInv, CauseSurfaced
    <3>2. CASE a = o
      BY <1>5, <3>1, <3>2
    <3>3. CASE a # o
      BY <1>1, <1>5, <3>1, <3>3
    <3> QED
      BY <3>2, <3>3
  <2> QED
    BY <1>1, <1>2, <2>1 DEF CauseSurfaced
<1> QED
  BY <1>7, <1>8, <1>9, <1>11, <1>12 DEF CauseInv

\* Steps that write no cause and answer nothing.
LEMMA QuietCause ==
  ASSUME TypeInv, CauseInv, NEW o \in Op,
         UNCHANGED <<kind, trace, lastErr, answer>>,
         \A a \in Op \ {o} : pc'[a] = pc[a] /\ outcome'[a] = outcome[a],
         pc'[o] # "done",
         pc'[o] \in {"finish", "insert", "answer"} => pc[o] \in {"finish", "insert", "answer"},
         outcome'[o] = outcome[o] \/ (outcome[o] = "none" /\ pc'[o] = "store")
  PROVE  CauseInv'
<1> USE DEF TypeInv, TypeOK
<1>1. \A a \in Op : Failed(a) => Failed(a)'
  BY DEF Failed
<1>2. \A a \in Op : pc'[a] \in {"finish", "insert", "answer", "done"} => (Failed(a)' <=> Failed(a))
  BY DEF Failed
<1>3. TracesDistinct'
  BY DEF CauseInv, TracesDistinct
<1>4. Attributed'
  BY <1>1 DEF CauseInv, Attributed
<1>5. Kept'
  BY <1>2 DEF CauseInv, Kept
<1>6. CauseSurfaced'
  BY <1>2 DEF CauseInv, CauseSurfaced
<1>7. TaskCausesConsumed'
  BY DEF CauseInv, TaskCausesConsumed, Answered
<1> QED
  BY <1>3, <1>4, <1>5, <1>6, <1>7 DEF CauseInv

LEMMA StepCause ==
  ASSUME DistinctTraces = TRUE, TypeInv, CauseInv, NEW o \in Op, Step(o) PROVE CauseInv'
<1> USE DEF Goto
<1>0. pc \in [Op -> {"idle", "enter", "fn", "store", "finish", "insert", "answer", "done", "lost"}]
      /\ outcome \in [Op -> {"none", "ok", "error", "panic"}]
  BY DEF TypeInv, TypeOK
<1>1. CASE Begin(o)
  BY <1>0, <1>1, ArrivalCause DEF Begin
<1>2. CASE Skip(o)
  BY <1>0, <1>2, ArrivalCause DEF Skip
<1>3. CASE Enter(o)
  BY <1>0, <1>3, QuietCause DEF Enter
<1>4. CASE FnReturns(o)
  BY <1>0, <1>4, QuietCause DEF FnReturns, TypeInv, OutcomeKnown
<1>5. CASE StoreErr(o)
  BY <1>5, StoreErrCause
<1>6. CASE Finish(o)
  BY <1>0, <1>6, QuietCause DEF Finish
<1>7. CASE Insert(o)
  BY <1>0, <1>7, QuietCause DEF Insert
<1>8. CASE Answer(o)
  BY <1>8, AnswerCause
<1> QED
  BY <1>1, <1>2, <1>3, <1>4, <1>5, <1>6, <1>7, <1>8 DEF Step

LEMMA NextCause ==
  ASSUME DistinctTraces = TRUE, TypeInv, CauseInv, [Next]_vars PROVE CauseInv'
<1> USE DEF CauseInv, TracesDistinct, Attributed, Kept, CauseSurfaced, TaskCausesConsumed,
            Answered, Failed
<1>1. CASE UNCHANGED vars
  BY <1>1 DEF vars
<1>2. CASE Tick
  BY <1>2 DEF Tick
<1>3. CASE Crash
  <2>1. /\ UNCHANGED <<kind, trace, outcome, answer>>
        /\ \A t \in Trace : lastErr'[t] = NoCause
        /\ \A o \in Op : /\ pc'[o] \in {"idle", "done", "lost"}
                         /\ pc'[o] = "done" => pc[o] = "done"
    BY <1>3 DEF Crash, TypeInv, TypeOK
  <2>2. \A o \in Op : trace[o] # NoTrace => trace[o] \in Trace
    BY DEF TypeInv, TypeOK
  <2> QED
    BY <2>1, <2>2
<1> QED
  BY <1>1, <1>2, <1>3, StepCause DEF Next

\* With a trace id per request, a task handler that answers a failure answers
\* the cause of its own task, and no answer carries the cause of another request.
THEOREM CauseSurfacedInvariant ==
  ASSUME DistinctTraces = TRUE PROVE Spec => []CauseSurfaced
<1>1. Init => CauseInv
  BY DEF Init, CauseInv, TracesDistinct, Attributed, Kept, CauseSurfaced, TaskCausesConsumed,
         Answered
<1>2. CauseInv => CauseSurfaced
  BY DEF CauseInv
<1>3. TypeInv /\ CauseInv /\ [Next]_vars => CauseInv'
  BY NextCause
<1> QED
  BY <1>1, <1>2, <1>3, InitTypeInv, NextTypeInv, PTL DEF Spec

\* With a trace id per request, no cause outlives the answer of its task handler.
THEOREM TaskCausesConsumedInvariant ==
  ASSUME DistinctTraces = TRUE PROVE Spec => []TaskCausesConsumed
<1>1. Init => CauseInv
  BY DEF Init, CauseInv, TracesDistinct, Attributed, Kept, CauseSurfaced, TaskCausesConsumed,
         Answered
<1>2. CauseInv => TaskCausesConsumed
  BY DEF CauseInv
<1>3. TypeInv /\ CauseInv /\ [Next]_vars => CauseInv'
  BY NextCause
<1> QED
  BY <1>1, <1>2, <1>3, InitTypeInv, NextTypeInv, PTL DEF Spec

(***************************************************************************)
(* The log implements the write-once log: an execution that has a row is   *)
(* past its insert and never comes back to it.                             *)
(***************************************************************************)

RowsOfEnded == \A i \in DOMAIN log : pc[log[i].op] \in {"answer", "done", "lost"}

\* The variables of ExecLog as functions of those of ExecTracker.
Verdict == [o \in Op |-> ResultOf(outcome[o])]
Rows == [i \in DOMAIN log |-> <<log[i].op, log[i].result>>]

LEMMA RowsLength ==
  ASSUME TypeInv
  PROVE  Rows \in Seq(Op \X {"success", "failed"}) /\ Len(Rows) = Len(log)
<1>1. log \in Seq(Row)
  BY DEF TypeInv, TypeOK
<1>2. DOMAIN log = 1..Len(log) /\ Len(log) \in Nat
  BY <1>1
<1>3. \A i \in DOMAIN log : log[i] \in Row
  BY <1>1, <1>2, ElementOfSeq
<1>4. Rows \in [1..Len(log) -> Op \X {"success", "failed"}]
  BY <1>2, <1>3 DEF Rows, Row
<1> QED
  BY <1>2, <1>4

LEMMA NextRowsOfEnded ==
  ASSUME TypeInv, RowsOfEnded, [Next]_vars PROVE RowsOfEnded'
<1>1. log \in Seq(Row) /\ DOMAIN log = 1..Len(log) /\ Len(log) \in Nat
  BY DEF TypeInv, TypeOK
<1>2. \A i \in DOMAIN log : log[i].op \in Op
  <2>1. \A i \in DOMAIN log : log[i] \in Row
    BY <1>1, ElementOfSeq
  <2> QED
    BY <2>1 DEF Row
<1>3. pc \in [Op -> {"idle", "enter", "fn", "store", "finish", "insert", "answer", "done", "lost"}]
  BY DEF TypeInv, TypeOK
<1>4. CASE log' = log
  <2>1. \A a \in Op : pc[a] \in {"answer", "done", "lost"} => pc'[a] \in {"answer", "done", "lost"}
    <3>1. CASE UNCHANGED pc
      BY <3>1
    <3>2. CASE Crash
      BY <1>3, <3>2 DEF Crash
    <3>3. ASSUME NEW o \in Op, Step(o)
          PROVE  \A a \in Op : pc[a] \in {"answer", "done", "lost"} => pc'[a] \in {"answer", "done", "lost"}
      BY <1>3, <3>3 DEF Step, Begin, Skip, Enter, FnReturns, StoreErr, Finish, Insert, Answer, Goto
    <3> QED
      BY <3>1, <3>2, <3>3 DEF Next, Tick, vars
  <2> QED
    BY <1>2, <1>4, <2>1 DEF RowsOfEnded
<1>5. ASSUME NEW o \in Op, Insert(o), log' = Append(log, RowOf(o))
      PROVE  RowsOfEnded'
  <2>1. RowOf(o) \in Row
    BY <1>5 DEF Insert, RowOf, Row, ResultOf, CauseOf, TypeInv, TypeOK, OutcomeKnown
  <2>2. /\ DOMAIN log' = 1..(Len(log) + 1)
        /\ \A i \in 1..Len(log) : log'[i] = log[i]
        /\ log'[Len(log) + 1] = RowOf(o)
    BY <1>1, <1>5, <2>1, AppendProperties
  <2>3. pc'[o] = "answer" /\ \A a \in Op \ {o} : pc'[a] = pc[a]
    BY <1>3, <1>5 DEF Insert, Goto
  <2>4. RowOf(o).op = o
    BY DEF RowOf
  <2>5. ASSUME NEW i \in DOMAIN log' PROVE pc'[log'[i].op] \in {"answer", "done", "lost"}
    <3>1. CASE i \in 1..Len(log)
      BY <1>1, <1>2, <2>2, <2>3, <3>1 DEF RowsOfEnded
    <3>2. CASE i = Len(log) + 1
      BY <2>2, <2>3, <2>4, <3>2
    <3> QED
      BY <1>1, <2>2, <3>1, <3>2
  <2> QED
    BY <2>5 DEF RowsOfEnded
<1>6. log' = log \/ \E o \in Op : Insert(o) /\ log' = Append(log, RowOf(o))
  BY DEF Next, Step, Tick, Crash, Begin, Skip, Enter, FnReturns, StoreErr, Finish, Insert, Answer, vars
<1> QED
  BY <1>4, <1>5, <1>6

LEMMA InitRefines == Init => ResultLog!Init
<1> SUFFICES ASSUME Init PROVE ResultLog!Init
  OBVIOUS
<1>1. Verdict = [o \in Op |-> "none"]
  BY DEF Init, Verdict, ResultOf
<1>2. Rows = <<>>
  BY DEF Init, Rows
<1> QED
  BY <1>1, <1>2 DEF ResultLog!Init, Verdict, Rows

\* fn returns: the verdict of o is confirmed.
LEMMA FnReturnsRefines ==
  ASSUME TypeInv, NEW o \in Op, FnReturns(o) PROVE ResultLog!Confirm(o)
<1>1. /\ outcome \in [Op -> {"none", "ok", "error", "panic"}] /\ outcome[o] = "none"
      /\ log' = log
  BY DEF FnReturns, TypeInv, TypeOK, OutcomeKnown
<1>2. PICK out \in {"ok", "error", "panic"} : outcome' = [outcome EXCEPT ![o] = out]
  BY Assumptions DEF FnReturns
<1>3. Verdict[o] = "none" /\ ResultOf(out) \in {"success", "failed"}
  BY <1>1, <1>2 DEF Verdict, ResultOf
<1>4. Verdict' = [Verdict EXCEPT ![o] = ResultOf(out)]
  BY <1>1, <1>2 DEF Verdict, ResultOf
<1>5. Rows' = Rows
  BY <1>1 DEF Rows
<1> QED
  BY <1>3, <1>4, <1>5 DEF ResultLog!Confirm, ResultLog!Results, Verdict, Rows

\* The row is inserted: the verdict is recorded, for the first time.
LEMMA InsertRefines ==
  ASSUME TypeInv, RowsOfEnded, NEW o \in Op, Insert(o), log' = Append(log, RowOf(o))
  PROVE  ResultLog!Record(o)
<1>1. log \in Seq(Row) /\ DOMAIN log = 1..Len(log) /\ Len(log) \in Nat
  BY DEF TypeInv, TypeOK
<1>2. RowOf(o) \in Row
  BY DEF Insert, RowOf, Row, ResultOf, CauseOf, TypeInv, TypeOK, OutcomeKnown
<1>3. /\ DOMAIN log' = 1..(Len(log) + 1)
      /\ \A i \in 1..Len(log) : log'[i] = log[i]
      /\ log'[Len(log) + 1] = RowOf(o)
  BY <1>1, <1>2, AppendProperties
<1>4. Verdict[o] = RowOf(o).result /\ RowOf(o).op = o /\ Verdict[o] \in {"success", "failed"}
  BY <1>2 DEF Verdict, RowOf, Row
<1>5. <<o, Verdict[o]>> \in Op \X {"success", "failed"}
  BY <1>4
<1>6. Rows \in Seq(Op \X {"success", "failed"}) /\ Len(Rows) = Len(log)
  BY RowsLength
<1>7. /\ Append(Rows, <<o, Verdict[o]>>) \in Seq(Op \X {"success", "failed"})
      /\ Len(Append(Rows, <<o, Verdict[o]>>)) = Len(log) + 1
      /\ \A i \in 1..Len(log) : Append(Rows, <<o, Verdict[o]>>)[i] = Rows[i]
      /\ Append(Rows, <<o, Verdict[o]>>)[Len(log) + 1] = <<o, Verdict[o]>>
  BY <1>5, <1>6, AppendProperties
<1>8. Rows' = [i \in 1..(Len(log) + 1) |-> <<log'[i].op, log'[i].result>>]
  BY <1>3 DEF Rows
<1>9. \A i \in 1..(Len(log) + 1) :
        <<log'[i].op, log'[i].result>> = Append(Rows, <<o, Verdict[o]>>)[i]
  <2>1. ASSUME NEW i \in 1..Len(log)
        PROVE  <<log'[i].op, log'[i].result>> = Append(Rows, <<o, Verdict[o]>>)[i]
    BY <1>1, <1>3, <1>7, <2>1 DEF Rows
  <2>2. <<log'[Len(log)+1].op, log'[Len(log)+1].result>> = <<o, Verdict[o]>>
    BY <1>3, <1>4
  <2> QED
    BY <1>1, <1>7, <2>1, <2>2
<1>10. Rows' = Append(Rows, <<o, Verdict[o]>>)
  <2>1. PICK longer : longer = Append(Rows, <<o, Verdict[o]>>)
    OBVIOUS
  <2>2. longer \in Seq(Op \X {"success", "failed"}) /\ Len(longer) = Len(log) + 1
    BY <1>7, <2>1
  <2>3. longer = [i \in 1..(Len(log) + 1) |-> longer[i]]
    BY <2>2
  <2>4. Rows' = [i \in 1..(Len(log) + 1) |-> longer[i]]
    BY <1>8, <1>9, <2>1
  <2> QED
    BY <2>1, <2>3, <2>4
<1>11. Verdict' = Verdict
  BY DEF Insert, Verdict
<1>12. \A i \in DOMAIN Rows : Rows[i][1] # o
  <2>1. pc[o] = "insert"
    BY DEF Insert
  <2>2. \A i \in DOMAIN log : log[i].op # o
    BY <2>1 DEF RowsOfEnded
  <2> QED
    BY <2>2 DEF Rows
<1>13. Verdict[o] # "none"
  BY <1>4
<1> QED
  BY <1>10, <1>11, <1>12, <1>13 DEF ResultLog!Record, Verdict, Rows

\* Every step confirms a verdict, records one, or is not seen in the log.
LEMMA NextRefines ==
  ASSUME TypeInv, RowsOfEnded, [Next]_vars PROVE [ResultLog!Next]_<<Verdict, Rows>>
<1>1. \/ UNCHANGED <<outcome, log>>
      \/ \E o \in Op : FnReturns(o)
      \/ \E o \in Op : Insert(o) /\ log' = Append(log, RowOf(o))
  BY DEF Next, Step, Tick, Crash, Begin, Skip, Enter, StoreErr, Finish, Insert, Answer, vars
<1>2. CASE UNCHANGED <<outcome, log>>
  BY <1>2 DEF Verdict, Rows
<1>3. ASSUME NEW o \in Op, FnReturns(o) PROVE ResultLog!Next
  BY <1>3, FnReturnsRefines DEF ResultLog!Next
<1>4. ASSUME NEW o \in Op, Insert(o), log' = Append(log, RowOf(o)) PROVE ResultLog!Next
  BY <1>4, InsertRefines DEF ResultLog!Next
<1> QED
  BY <1>1, <1>2, <1>3, <1>4

\* tbexecutionlog is a write-once log of confirmed results, through concurrent
\* executions, failing inserts and crashes.
THEOREM TrackerImplementsExecLog == Spec => WriteOnce
<1>1. Init => RowsOfEnded
  BY DEF Init, RowsOfEnded
<1>2. TypeInv /\ RowsOfEnded /\ [Next]_vars => [ResultLog!Next]_<<Verdict, Rows>>
  BY NextRefines
<1> QED
  BY <1>1, <1>2, InitTypeInv, NextTypeInv, NextRowsOfEnded, InitRefines, PTL
     DEF Spec, WriteOnce, ResultLog!Spec, Verdict, Rows

(***************************************************************************)
(* The history.  Rows are only added to the log, but anywhere in the order *)
(* of a page: an execution is inserted some time after it has finished.    *)
(***************************************************************************)

LEMMA LogRows ==
  ASSUME TypeInv
  PROVE  /\ DOMAIN log = 1..Len(log) /\ Len(log) \in Nat /\ IsFiniteSet(DOMAIN log)
         /\ \A i \in DOMAIN log : log[i].op \in Op /\ log[i].from \in Nat /\ log[i].to \in Nat
<1>1. log \in Seq(Row)
  BY DEF TypeInv, TypeOK
<1>2. DOMAIN log = 1..Len(log) /\ Len(log) \in Nat /\ \A i \in DOMAIN log : log[i] \in Row
  BY <1>1
<1>3. IsFiniteSet(1..Len(log))
  BY <1>2, FS_Interval
<1>4. \A r \in Row : r.op \in Op /\ r.from \in Nat /\ r.to \in Nat
  BY Assumptions DEF Row
<1>5. \A i \in DOMAIN log : log[i].op \in Op /\ log[i].from \in Nat /\ log[i].to \in Nat
  BY <1>2, <1>4
<1>6. IsFiniteSet(DOMAIN log)
  BY <1>2, <1>3, Zenon
<1> QED
  BY <1>2, <1>5, <1>6

\* The log stays as it is, or gets one row.
LEMMA LogGrows ==
  ASSUME TypeInv, [Next]_vars
  PROVE  /\ DOMAIN log \subseteq DOMAIN log'
         /\ \A i \in DOMAIN log : log'[i] = log[i]
<1>1. CASE log' = log
  BY <1>1
<1>2. ASSUME NEW o \in Op, log' = Append(log, RowOf(o))
      PROVE  DOMAIN log \subseteq DOMAIN log' /\ \A i \in DOMAIN log : log'[i] = log[i]
  <2>1. log \in Seq(Row)
    BY DEF TypeInv, TypeOK
  <2>2. PICK r : r = RowOf(o)
    OBVIOUS
  <2>3. log' = Append(log, r) /\ Len(log) \in Nat /\ DOMAIN log = 1..Len(log)
    BY <1>2, <2>1, <2>2
  <2>4. /\ DOMAIN Append(log, r) = 1..Len(log)+1
        /\ \A i \in 1..Len(log) : Append(log, r)[i] = log[i]
    BY <2>1
  <2> QED
    BY <2>3, <2>4
<1>3. ASSUME NEW o \in Op, Step(o) PROVE log' = log \/ log' = Append(log, RowOf(o))
  BY <1>3 DEF Step, Begin, Skip, Enter, FnReturns, StoreErr, Finish, Insert, Answer
<1>4. log' = log \/ \E o \in Op : log' = Append(log, RowOf(o))
  BY <1>3 DEF Next, Tick, Crash, vars
<1> QED
  BY <1>1, <1>2, <1>4

\* The rows that come before a row, whatever the order of ties.
Before(q, i) ==
  {j \in Matching(q) : IF q.desc THEN log[j].to > log[i].to ELSE log[j].to < log[i].to}

LEMMA FiniteRows ==
  ASSUME TypeInv, NEW q
  PROVE  /\ Matching(q) \subseteq DOMAIN log
         /\ IsFiniteSet(Matching(q)) /\ Cardinality(Matching(q)) \in Nat
         /\ \A i : IsFiniteSet(Before(q, i)) /\ Cardinality(Before(q, i)) \in Nat
<1>1. Matching(q) \subseteq DOMAIN log /\ \A i : Before(q, i) \subseteq DOMAIN log
  BY DEF Matching, Before
<1>2. ASSUME NEW S, S \subseteq DOMAIN log PROVE IsFiniteSet(S) /\ Cardinality(S) \in Nat
  <2>1. IsFiniteSet(DOMAIN log) /\ S \in SUBSET (DOMAIN log)
    BY <1>2, LogRows
  <2>2. IsFiniteSet(S)
    BY <2>1, FS_Subset
  <2> QED
    BY <2>2, FS_CardinalityType
<1> QED
  BY <1>1, <1>2

LEMMA FiniteNext ==
  ASSUME TypeInv', NEW q
  PROVE  /\ IsFiniteSet(Matching(q)') /\ Cardinality(Matching(q)') \in Nat
         /\ \A i : IsFiniteSet(Before(q, i)') /\ Cardinality(Before(q, i)') \in Nat
<1>1. log' \in Seq(Row)
  BY DEF TypeInv, TypeOK
<1>2. DOMAIN log' = 1..Len(log') /\ Len(log') \in Nat
  BY <1>1
<1>3. IsFiniteSet(1..Len(log'))
  BY <1>2, FS_Interval
<1>4. IsFiniteSet(DOMAIN log')
  BY <1>2, <1>3, Zenon
<1>5. Matching(q)' \subseteq DOMAIN log' /\ \A i : Before(q, i)' \subseteq DOMAIN log'
  BY DEF Matching, Before
<1>6. ASSUME NEW S, S \subseteq DOMAIN log' PROVE IsFiniteSet(S) /\ Cardinality(S) \in Nat
  <2>1. S \in SUBSET (DOMAIN log')
    BY <1>6
  <2>2. IsFiniteSet(S)
    BY <1>4, <2>1, FS_Subset
  <2> QED
    BY <2>2, FS_CardinalityType
<1> QED
  BY <1>5, <1>6

\* An inserted row adds to the count of a query, and to what comes before a row.
LEMMA CountsGrow ==
  ASSUME TypeInv, TypeInv', [Next]_vars, NEW q
  PROVE  /\ Matching(q) \subseteq Matching(q)'
         /\ Cardinality(Matching(q)) <= Cardinality(Matching(q)')
         /\ \A i \in DOMAIN log : Cardinality(Before(q, i)) <= Cardinality(Before(q, i)')
<1>1. DOMAIN log \subseteq DOMAIN log' /\ \A i \in DOMAIN log : log'[i] = log[i]
  BY LogGrows
<1>2. Matching(q) \subseteq Matching(q)'
  BY <1>1 DEF Matching
<1>3. ASSUME NEW i \in DOMAIN log PROVE Before(q, i) \subseteq Before(q, i)'
  <2>1. \A j \in Matching(q) : j \in DOMAIN log
    BY DEF Matching
  <2> QED
    BY <1>1, <1>2, <2>1 DEF Before
<1>4. IsFiniteSet(Matching(q)') /\ \A i : IsFiniteSet(Before(q, i)')
  BY FiniteNext
<1> QED
  BY <1>2, <1>3, <1>4, FS_Subset

\* A row that shares its time with no other has one place in every order of the page.
LEMMA Place ==
  ASSUME TypeInv, NEW q, NEW s \in Orders(q), NEW i \in Matching(q),
         \A j \in Matching(q) \ {i} : log[j].to # log[i].to
  PROVE  \E k \in 1..Cardinality(Matching(q)) : s[k] = i /\ Cardinality(Before(q, i)) = k - 1
<1> DEFINE rows == Matching(q)
           n    == Cardinality(rows)
<1>1. IsFiniteSet(rows) /\ n \in Nat /\ \A j \in rows : log[j].to \in Nat
  BY FiniteRows, LogRows
<1>2. s \in [1..n -> rows] /\ \A a, b \in 1..n : a < b => s[a] # s[b] /\ InOrder(q, s[a], s[b])
  BY DEF Orders
<1> HIDE DEF rows, n
<1>3. \A a, b \in 1..n : a # b => s[a] # s[b]
  <2>1. \A a, b \in 1..n : a # b => a < b \/ b < a
    BY <1>1
  <2> QED
    BY <1>2, <2>1
<1>4. s \in Surjection(1..n, rows)
  <2>1. s \in Injection(1..n, rows)
    BY <1>2, <1>3 DEF Injection, IsInjective
  <2>2. Cardinality(1..n) = n /\ IsFiniteSet(1..n)
    BY <1>1, FS_Interval
  <2> QED
    BY <1>1, <2>1, <2>2, FS_Injection DEF n
<1>5. PICK k \in 1..n : s[k] = i
  BY <1>4 DEF Surjection, rows
<1>6. ASSUME NEW a \in 1..n PROVE a < k <=> s[a] \in Before(q, i)
  <2>1. a \in Int /\ k \in Int /\ s[a] \in rows /\ i \in rows
    BY <1>1, <1>2 DEF rows
  <2>2. CASE a < k
    <3>1. s[a] # i /\ InOrder(q, s[a], i)
      BY <1>2, <1>5, <2>2
    <3>2. log[s[a]].to # log[i].to
      BY <2>1, <3>1 DEF rows
    <3> QED
      BY <1>1, <2>1, <2>2, <3>1, <3>2 DEF InOrder, Before, rows
  <2>3. CASE a = k
    BY <1>1, <1>5, <2>1, <2>3 DEF Before
  <2>4. CASE k < a
    <3>1. InOrder(q, i, s[a])
      BY <1>2, <1>5, <2>4
    <3> QED
      BY <1>1, <2>1, <2>4, <3>1 DEF InOrder, Before
  <2> QED
    BY <2>1, <2>2, <2>3, <2>4
<1>7. PICK f : f = [a \in 1..k-1 |-> s[a]]
  OBVIOUS
<1>8. \A a \in 1..k-1 : a \in 1..n /\ a < k
  BY <1>1
<1>9. f \in Bijection(1..k-1, Before(q, i))
  <2>1. f \in Injection(1..k-1, Before(q, i))
    BY <1>3, <1>6, <1>7, <1>8 DEF Injection, IsInjective
  <2>2. ASSUME NEW j \in Before(q, i) PROVE \E a \in 1..k-1 : f[a] = j
    <3>1. j \in rows
      BY DEF Before, rows
    <3>2. PICK a \in 1..n : s[a] = j
      BY <1>4, <3>1 DEF Surjection
    <3>3. a < k
      BY <1>6, <3>2
    <3>4. a \in 1..k-1
      BY <1>1, <3>3
    <3> QED
      BY <1>7, <3>2, <3>4
  <2>3. f \in Surjection(1..k-1, Before(q, i))
    BY <2>1, <2>2 DEF Surjection, Injection
  <2> QED
    BY <2>1, <2>3 DEF Bijection
<1>10. IsFiniteSet(1..k-1) /\ Cardinality(1..k-1) = k - 1
  BY <1>1, FS_Interval
<1>11. Cardinality(Before(q, i)) = k - 1
  BY <1>9, <1>10, FS_Bijection DEF ExistsBijection
<1> QED
  BY <1>5, <1>11 DEF rows, n

\* The pages that an answer promises are those that begin before its count.
LEMMA Paging ==
  ASSUME NEW page \in Nat \ {0}, NEW size \in Nat \ {0}, NEW count \in Nat
  PROVE  /\ (page - 1) * size \in Nat
         /\ page <= TotalPages(count, size) => (page - 1) * size < count
         /\ ((page + 1) - 1) * size = (page - 1) * size + size
<1>1. (page - 1) * size \in Nat
  <2>1. PICK m \in Nat : m = page - 1
    OBVIOUS
  <2>2. m * size \in Nat
    OBVIOUS
  <2> QED
    BY <2>1, <2>2
<1>2. ((page + 1) - 1) * size = (page - 1) * size + size
  OBVIOUS
<1>3. ASSUME page <= TotalPages(count, size) PROVE (page - 1) * size < count
  <2>1. PICK n : n = count + size - 1
    OBVIOUS
  <2>2. n \in Nat /\ page <= n \div size
    BY <1>3, <2>1 DEF TotalPages
  <2>3. PICK m : m = n \div size
    OBVIOUS
  <2>4. m \in Nat /\ m * size <= n
    BY <2>2, <2>3
  <2>5. page * size <= m * size
    <3>1. PICK d \in Nat : m = page + d
      <4>1. m - page \in Nat /\ m = page + (m - page)
        BY <2>2, <2>3, <2>4
      <4> QED
        BY <4>1
    <3>2. m * size = page * size + d * size /\ d * size \in Nat /\ page * size \in Nat
      BY <3>1
    <3> QED
      BY <3>2
  <2>6. (page - 1) * size = page * size - size /\ page * size \in Nat /\ m * size \in Nat
    BY <2>4
  <2> QED
    BY <2>1, <2>4, <2>5, <2>6
<1> QED
  BY <1>1, <1>2, <1>3

LEMMA MinOfTwo ==
  ASSUME NEW a \in Int, NEW b \in Int
  PROVE  Min({a, b}) = IF a <= b THEN a ELSE b
<1>1. PICK c : c = IF a <= b THEN a ELSE b
  OBVIOUS
<1>2. c \in {a, b} /\ \A y \in {a, b} : c <= y
  BY <1>1
<1>3. \A x \in {a, b} : (\A y \in {a, b} : x <= y) => x = c
  BY <1>1
<1> QED
  BY <1>1, <1>2, <1>3 DEF Min

\* What a page holds of an order s of n rows: what lies behind the offset, up to
\* the size of a page.
Slice(c, s, n, offset, size) ==
  /\ n <= offset => Len(c) = 0
  /\ n > offset => Len(c) = (IF offset + size <= n THEN size ELSE n - offset)
  /\ \A k \in 1..n : k > offset /\ k <= offset + size => \E i \in DOMAIN c : c[i] = s[k]

LEMMA SliceIs ==
  ASSUME NEW S, NEW n \in Nat, NEW s \in [1..n -> S], NEW offset \in Nat, NEW size \in Nat,
         NEW last \in Int, last = (IF offset + size <= n THEN offset + size ELSE n), size >= 1
  PROVE  Slice(SubSeq(s, offset + 1, last), s, n, offset, size)
<1>1. PICK first \in Int : first = offset + 1
  OBVIOUS
<1>2. PICK c : c = SubSeq(s, first, last)
  OBVIOUS
<1>3. first >= 1 /\ last <= n
  BY <1>1
<1>4. /\ c \in Seq(S)
      /\ Len(c) = IF first <= last THEN last - first + 1 ELSE 0
      /\ \A i \in 1..last - first + 1 : c[i] = s[first + i - 1]
  BY <1>2, <1>3
<1>5. ASSUME NEW k \in 1..n, k > offset, k <= offset + size
      PROVE  \E i \in DOMAIN c : c[i] = s[k]
  <2>1. PICK i \in Int : i = k - offset
    OBVIOUS
  <2>2. i \in 1..last - first + 1 /\ first + i - 1 = k /\ first <= last
    BY <1>1, <1>5, <2>1
  <2>3. DOMAIN c = 1..Len(c)
    BY <1>4
  <2>4. i \in DOMAIN c
    BY <1>4, <2>2, <2>3
  <2>5. c[i] = s[k]
    BY <1>4, <2>2
  <2> QED
    BY <2>4, <2>5
<1>6. n <= offset => Len(c) = 0
  BY <1>1, <1>4
<1>7. n > offset => Len(c) = (IF offset + size <= n THEN size ELSE n - offset)
  BY <1>1, <1>4
<1> QED
  BY <1>1, <1>2, <1>5, <1>6, <1>7 DEF Slice

(***************************************************************************)
(* The invariant of a walk.                                                *)
(***************************************************************************)

Query == [from : Nat, to : Nat, desc : BOOLEAN, page : Nat, size : Nat]
Offset == (query.page - 1) * query.size

WalkTyped ==
  /\ query \in Query /\ total \in Nat
  /\ reader \in {"idle", "count", "find", "end"}
  /\ reader # "idle" => query.page # 0 /\ query.size # 0
  /\ reader = "idle" => reply = NoReply /\ present = {}

\* The count that a page is read with is not more than there is to find.
Counted == reader = "find" => total <= Cardinality(Matching(query))

\* The execution is still ahead of the walk: what comes before it fills the pages read.
Ahead(o) ==
  \E i \in Matching(query) : log[i].op = o /\ Offset <= Cardinality(Before(query, i))
Walked ==
  \A o \in present : Alone(o) => o \in seen \/ (reader # "end" /\ Ahead(o))

HInv == TypeInv /\ WalkTyped /\ Counted /\ PromisedPage /\ Walked

LEMMA InitHInv == HInit => HInv
<1> SUFFICES ASSUME HInit PROVE HInv
  OBVIOUS
<1>1. TypeInv
  BY InitTypeInv DEF HInit
<1>2. WalkTyped
  BY DEF HInit, WalkTyped, Query
<1>3. Counted /\ PromisedPage /\ Walked
  BY DEF HInit, Counted, PromisedPage, Walked, NoReply
<1> QED
  BY <1>1, <1>2, <1>3 DEF HInv

\* The tracker goes on.
LEMMA TrackerHInv ==
  ASSUME HInv, [Next]_vars, UNCHANGED historyVars
  PROVE  HInv'
<1>1. TypeInv /\ TypeInv'
  BY NextTypeInv DEF HInv
<1>2. UNCHANGED <<reader, query, total, reply, present, seen>>
  BY DEF historyVars
<1>3. WalkTyped'
  BY <1>2 DEF HInv, WalkTyped
<1>4. PICK q : q = query /\ q = query'
  BY <1>2
<1>5. Counted'
  <2>1. CASE reader = "find"
    <3>1. total <= Cardinality(Matching(q)) /\ total \in Nat
      BY <1>4, <2>1 DEF HInv, Counted, WalkTyped
    <3>2. Cardinality(Matching(q)) <= Cardinality(Matching(q)')
      BY <1>1, CountsGrow
    <3>3. Cardinality(Matching(q)) \in Nat
      BY <1>1, FiniteRows
    <3>4. Cardinality(Matching(q)') \in Nat
      BY <1>1, FiniteNext
    <3>5. total <= Cardinality(Matching(q)')
      BY <3>1, <3>2, <3>3, <3>4
    <3>6. Matching(q)' = Matching(query)'
      BY <1>4 DEF Matching
    <3> QED
      BY <1>2, <3>5, <3>6 DEF Counted
  <2> QED
    BY <1>2, <2>1 DEF Counted
<1>6. PromisedPage'
  BY <1>2 DEF HInv, PromisedPage
<1>7. ASSUME NEW o \in present', Alone(o)', o \notin seen' PROVE reader' # "end" /\ Ahead(o)'
  <2>1. Alone(o)
    BY <1>1, LogGrows, <1>7 DEF Alone
  <2>2. reader # "end" /\ Ahead(o)
    BY <1>2, <1>7, <2>1 DEF HInv, Walked
  <2>3. PICK i \in Matching(q) : log[i].op = o /\ Offset <= Cardinality(Before(q, i))
    BY <1>4, <2>2 DEF Ahead
  <2>4. i \in DOMAIN log /\ i \in Matching(q)' /\ log'[i] = log[i]
    BY <1>1, CountsGrow, LogGrows, <2>3 DEF Matching
  <2>5. Offset <= Cardinality(Before(q, i)')
    <3>1. Cardinality(Before(q, i)) <= Cardinality(Before(q, i)')
      BY <1>1, <2>4, CountsGrow
    <3>2. Cardinality(Before(q, i)) \in Nat
      BY <1>1, FiniteRows
    <3>3. Cardinality(Before(q, i)') \in Nat
      BY <1>1, FiniteNext
    <3>4. Offset \in Int
      BY DEF HInv, WalkTyped, Offset, Query
    <3> QED
      BY <2>3, <3>1, <3>2, <3>3, <3>4
  <2>6. Offset' = Offset
    BY <1>2 DEF Offset
  <2>7. Matching(q)' = Matching(query)' /\ Before(q, i)' = Before(query, i)'
    BY <1>4 DEF Matching, Before
  <2> QED
    BY <1>2, <2>2, <2>3, <2>4, <2>5, <2>6, <2>7 DEF Ahead
<1>8. Walked'
  BY <1>7 DEF Walked
<1> QED
  BY <1>1, <1>3, <1>5, <1>6, <1>8 DEF HInv

\* The walk goes on: the tracker's variables stay as they are.
LEMMA StartWalkHInv ==
  ASSUME HInv, StartWalk, UNCHANGED vars
  PROVE  HInv'
<1>1. TypeInv /\ TypeInv' /\ log' = log
  BY NextTypeInv DEF HInv, vars
<1>2. PICK from \in 0..MaxClock, to \in 0..MaxClock, desc \in BOOLEAN, size \in RequestedSize :
        LET p == NormalizePaging(0, size) IN
        /\ query' = [from |-> from, to |-> to, desc |-> desc, page |-> p[1], size |-> p[2]]
        /\ present' = {log[i].op : i \in {j \in DOMAIN log : During(log[j], from, to)}}
  BY DEF StartWalk
<1>3. PICK z \in Nat \ {0} :
        query' = [from |-> from, to |-> to, desc |-> desc, page |-> 1, size |-> z]
  <2>1. /\ NormalizePaging(0, size)[1] = 1
        /\ NormalizePaging(0, size)[2] \in Nat \ {0}
    BY HistoryAssumptions DEF NormalizePaging
  <2> QED
    BY <1>2, <2>1
<1>4. reader = "idle" /\ reader' = "count" /\ UNCHANGED <<total, reply, seen>>
  BY DEF StartWalk
<1>5. from \in Nat /\ to \in Nat
  BY Assumptions
<1>6. WalkTyped'
  BY <1>3, <1>4, <1>5 DEF HInv, WalkTyped, Query
<1>7. Counted' /\ PromisedPage'
  BY <1>4 DEF HInv, WalkTyped, Counted, PromisedPage, NoReply
<1>8. ASSUME NEW o \in present' PROVE Ahead(o)'
  <2>1. PICK i \in DOMAIN log : During(log[i], from, to) /\ log[i].op = o
    BY <1>2
  <2>2. log[i].from \in Nat /\ log[i].to \in Nat
    BY <1>1, LogRows
  <2>3. log[i].to >= from /\ log[i].from <= to
    BY <1>5, <2>1, <2>2 DEF During
  <2>4. i \in Matching(query)'
    BY <1>1, <1>3, <2>3 DEF Matching
  <2>5. Offset' = 0
    BY <1>3 DEF Offset
  <2>6. Cardinality(Before(query, i)') \in Nat
    BY <1>1, <1>3, FiniteNext
  <2>7. 0 <= Cardinality(Before(query, i)')
    BY <2>6
  <2> QED
    BY <1>1, <2>1, <2>4, <2>5, <2>7 DEF Ahead
<1>9. Walked'
  BY <1>4, <1>8 DEF Walked
<1> QED
  BY <1>1, <1>6, <1>7, <1>9 DEF HInv

LEMMA CountHInv ==
  ASSUME HInv, Count, UNCHANGED vars
  PROVE  HInv'
<1>1. TypeInv /\ TypeInv' /\ log' = log
  BY NextTypeInv DEF HInv, vars
<1>2. /\ reader = "count" /\ reader' = "find" /\ UNCHANGED <<query, reply, present, seen>>
      /\ total' = Cardinality(Matching(query))
  BY DEF Count
<1>3. total' \in Nat
  BY <1>1, <1>2, FiniteRows
<1>4. WalkTyped'
  BY <1>2, <1>3 DEF HInv, WalkTyped
<1>5. Matching(query)' = Matching(query) /\ \A i : Before(query, i)' = Before(query, i)
  BY <1>1, <1>2 DEF Matching, Before
<1>6. Counted'
  BY <1>2, <1>3, <1>5 DEF Counted
<1>7. PromisedPage'
  BY <1>2 DEF HInv, PromisedPage
<1>8. Walked'
  BY <1>1, <1>2, <1>5 DEF HInv, Walked, Ahead, Offset, Alone
<1> QED
  BY <1>1, <1>4, <1>6, <1>7, <1>8 DEF HInv

LEMMA FindHInv ==
  ASSUME HInv, Find, UNCHANGED vars
  PROVE  HInv'
<1>1. TypeInv /\ TypeInv' /\ log' = log
  BY NextTypeInv DEF HInv, vars
<1>2. PICK s \in Orders(query) :
        LET content == Window(s, query.page, query.size) IN
        /\ reply' = [page |-> query.page, total |-> total, content |-> content]
        /\ seen' = seen \cup {log[content[k]].op : k \in DOMAIN content}
        /\ reader' = IF content = <<>> THEN "end" ELSE "count"
        /\ query' = [query EXCEPT !.page = @ + 1]
  BY DEF Find
<1>3. PICK c : c = Window(s, query.page, query.size)
  OBVIOUS
<1>4. /\ reply' = [page |-> query.page, total |-> total, content |-> c]
      /\ seen' = seen \cup {log[c[k]].op : k \in DOMAIN c}
      /\ reader' = IF c = <<>> THEN "end" ELSE "count"
      /\ query' = [query EXCEPT !.page = @ + 1]
      /\ reader = "find" /\ total' = total /\ present' = present
  BY <1>2, <1>3 DEF Find
<1>5. PICK page \in Nat \ {0}, size \in Nat \ {0} : page = query.page /\ size = query.size
  BY <1>4 DEF HInv, WalkTyped, Query
<1>6. /\ query'.page = page + 1 /\ query'.size = size /\ query'.from = query.from
      /\ query'.to = query.to /\ query'.desc = query.desc /\ query' \in Query
  BY <1>4, <1>5 DEF HInv, WalkTyped, Query
<1>7. WalkTyped'
  BY <1>4, <1>6 DEF HInv, WalkTyped
<1>8. Counted'
  BY <1>4 DEF Counted
<1>9. PICK offset \in Nat : offset = (page - 1) * size
  BY Paging
<1>10. Offset = offset /\ Offset' = offset + size
  BY <1>5, <1>6, <1>9, Paging DEF Offset
<1>11. PICK n \in Nat : n = Cardinality(Matching(query))
  BY <1>1, FiniteRows
<1>12. s \in [1..n -> Matching(query)]
  BY <1>11 DEF Orders
<1>13. Slice(c, s, n, offset, size)
  <2>1. PICK S : S = Matching(query)
    OBVIOUS
  <2>2. PICK last \in Int : last = (IF offset + size <= n THEN offset + size ELSE n)
    OBVIOUS
  <2>3. s \in [1..n -> S] /\ size >= 1 /\ size \in Nat /\ offset \in Nat /\ last \in Int
    BY <1>12, <2>1
  <2>4. last = (IF offset + size <= n THEN offset + size ELSE n)
    BY <2>2
  <2>5. Len(s) = n
    BY <2>3
  <2>6. Min({offset + size, Len(s)}) = last
    BY <2>4, <2>5, MinOfTwo
  <2>7. c = SubSeq(s, offset + 1, last)
    BY <1>3, <1>5, <1>9, <2>6 DEF Window
  <2>8. Slice(SubSeq(s, offset + 1, last), s, n, offset, size)
    BY <2>3, <2>4, SliceIs
  <2> QED
    BY <2>7, <2>8
<1>14. PromisedPage'
  <2>1. total \in Nat /\ total <= n
    BY <1>4, <1>11 DEF HInv, WalkTyped, Counted
  <2>2. reply'.page = page /\ reply'.total = total /\ reply'.content = c
    BY <1>4, <1>5
  <2>3. page <= TotalPages(total, size) => Len(c) > 0
    <3>1. page <= TotalPages(total, size) => offset < total
      BY <1>9, <2>1, Paging
    <3> QED
      BY <1>13, <2>1, <3>1 DEF Slice
  <2>4. Len(c) >= Min({size, total - offset})
    <3>1. Min({size, total - offset}) = IF size <= total - offset THEN size ELSE total - offset
      BY <2>1, MinOfTwo
    <3> QED
      BY <1>13, <2>1, <3>1 DEF Slice
  <2> QED
    BY <1>6, <1>9, <2>2, <2>3, <2>4 DEF PromisedPage
<1>15. Matching(query)' = Matching(query) /\ \A i : Before(query, i)' = Before(query, i)
  BY <1>1, <1>6 DEF Matching, Before
<1>16. ASSUME NEW o \in present, Alone(o), o \notin seen' PROVE reader' # "end" /\ Ahead(o)'
  <2>1. Ahead(o)
    BY <1>4, <1>16 DEF HInv, Walked
  <2>2. PICK i \in Matching(query) : log[i].op = o /\ offset <= Cardinality(Before(query, i))
    BY <1>10, <2>1 DEF Ahead
  <2>3. \A j \in Matching(query) \ {i} : log[j].to # log[i].to
    BY <1>16, <2>2 DEF Alone, Matching
  <2>4. PICK k \in 1..n : s[k] = i /\ Cardinality(Before(query, i)) = k - 1
    BY <1>1, <1>11, <2>3, Place
  <2>5. k > offset
    BY <2>2, <2>4
  <2>6. ~(k <= offset + size)
    <3>1. SUFFICES ASSUME k <= offset + size PROVE FALSE
      OBVIOUS
    <3>2. PICK m \in DOMAIN c : c[m] = s[k]
      BY <1>13, <2>5, <3>1 DEF Slice
    <3>3. log[c[m]].op = o
      BY <2>2, <2>4, <3>2
    <3> QED
      BY <1>4, <1>16, <3>3
  <2>7. Len(c) = size
    BY <1>13, <2>5, <2>6 DEF Slice
  <2>8. c # <<>>
    BY <2>7
  <2>9. offset + size <= Cardinality(Before(query, i))
    BY <2>4, <2>6
  <2> QED
    BY <1>1, <1>4, <1>10, <1>15, <2>2, <2>8, <2>9 DEF Ahead
<1>17. Walked'
  BY <1>1, <1>4, <1>16 DEF Walked, Alone
<1> QED
  BY <1>1, <1>7, <1>8, <1>14, <1>17 DEF HInv

LEMMA NextHInv == HInv /\ [HNext]_<<vars, historyVars>> => HInv'
<1> SUFFICES ASSUME HInv, [HNext]_<<vars, historyVars>> PROVE HInv'
  OBVIOUS
<1>1. CASE UNCHANGED <<vars, historyVars>>
  BY <1>1, TrackerHInv
<1>2. CASE HNext
  BY <1>2, TrackerHInv, StartWalkHInv, CountHInv, FindHInv DEF HNext
<1> QED
  BY <1>1, <1>2

\* A page of the history within the totalPages of its own answer is as full as
\* totalCount says, although executions are logged between its two statements.
THEOREM PromisedPageInvariant == HSpec => []PromisedPage
<1>1. HInv => PromisedPage
  BY DEF HInv
<1> QED
  BY <1>1, InitHInv, NextHInv, PTL DEF HSpec

\* A walk through the pages misses no execution that was logged when it began,
\* however many are logged meanwhile and wherever they move the rows: unless it
\* finished in one second with another.
THEOREM WalkSeesAllInvariant == HSpec => []WalkSeesAll
<1>1. HInv => WalkSeesAll
  BY DEF HInv, Walked, WalkSeesAll
<1> QED
  BY <1>1, InitHInv, NextHInv, PTL DEF HSpec
=============================================================================
