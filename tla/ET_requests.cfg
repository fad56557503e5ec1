\* Executions of every kind, in parallel, with database errors and a crash.
CONSTANTS
  o1 = o1  o2 = o2  t1 = t1  t2 = t2
  NoTrace = NoTrace  NoCause = NoCause
  Op = {o1, o2}
  Trace = {t1, t2}
  Kind = {"task", "backup", "direct", "job"}
  Ends = {"ok", "error", "panic"}
  DistinctTraces = TRUE
  DBMayFail = TRUE
  IOErrors = TRUE
  MaxClock = 1
  MaxCrashes = 1
SYMMETRY Symmetry
SPECIFICATION Spec
INVARIANTS TypeOK RunningIsExact CauseSurfaced TaskCausesConsumed
PROPERTIES WriteOnce
CHECK_DEADLOCK FALSE
