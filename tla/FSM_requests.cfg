\* Every kind of request in parallel with the jobs and a crash; no file errors.
CONSTANTS
  p1 = p1  p2 = p2  o1 = o1  o2 = o2  g1 = g1
  NoId = NoId  NoOne = NoOne
  Goroutine = {p1, p2}
  Op = {o1}
  GivenId = {g1}
  Workload = {"RunTaskOnce", "DeleteTask", "CreateSchedule", "UpdateSchedule", "DeleteSchedule"}
  Timing = {"cron", "once"}
  Status0 = {"active"}
  IOErrors = FALSE
  Distinct = TRUE
  MaxClock = 1
  MaxRequests = 3
  MaxCrashes = 1
SYMMETRY Symmetry
SPECIFICATION Spec
INVARIANTS TypeOK NoOrphanJob CronScheduleHasJob FiredOnceIsOver TornOnlyWhileSaving QuietFileCurrent
CHECK_DEADLOCK FALSE
