\* A create or delete that fails: its cause stays in lastErr.
CONSTANTS
  o1 = o1  o2 = o2  t1 = t1  t2 = t2
  NoTrace = NoTrace  NoCause = NoCause
  Op = {o1}
  Trace = {t1}
  Kind = {"direct"}
  Ends = {"ok", "error", "panic"}
  DistinctTraces = TRUE
  DBMayFail = FALSE
  IOErrors = FALSE
  MaxClock = 1
  MaxCrashes = 0
SPECIFICATION Spec
INVARIANTS CausesConsumed
CHECK_DEADLOCK FALSE
