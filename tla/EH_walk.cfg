\* A client walks the history while jobs are logged.
CONSTANTS
  o1 = o1  o2 = o2  o3 = o3
  NoTrace = NoTrace  NoCause = NoCause
  Op = {o1, o2, o3}
  Trace = {}
  Kind = {"job"}
  Ends = {"ok"}
  DistinctTraces = TRUE
  DBMayFail = FALSE
  IOErrors = FALSE
  MaxClock = 1
  MaxCrashes = 0
  DefaultSize = 1
  MaxSize = 2
  RequestedSize = {0, 3}
SYMMETRY Symmetry
SPECIFICATION HSpec
INVARIANTS PromisedPage WalkSeesAll
CHECK_DEADLOCK FALSE
