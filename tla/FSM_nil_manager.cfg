\* A schedule that was refused, another save, a restart.
CONSTANTS
  p1 = p1  p2 = p2  o1 = o1  o2 = o2  g1 = g1
  NoId = NoId  NoOne = NoOne
  Goroutine = {p1}
  Op = {o1}
  GivenId = {g1}
  Workload = {"CreateSchedule", "CreateTask"}
  Timing = {"cron", "badzone"}
  Status0 = {"active"}
  IOErrors = FALSE
  Distinct = TRUE
  MaxClock = 0
  MaxRequests = 2
  MaxCrashes = 1
SYMMETRY Symmetry
SPECIFICATION Spec
INVARIANTS RestartServes
CHECK_DEADLOCK FALSE
