\* Bad schedules, file errors, a crash, a clear: everything that was started ends.
CONSTANTS
  p1 = p1  p2 = p2  o1 = o1  o2 = o2  g1 = g1
  NoId = NoId  NoOne = NoOne
  Goroutine = {p1, p2}
  Op = {o1}
  GivenId = {g1}
  Workload = {"CreateTask", "RunTaskOnce", "UpdateTask", "UpdateTasksByType", "DeleteTasksByType", "CreateSchedule", "UpdateSchedule", "ClearServiceAndTaskAll"}
  Timing = {"once", "badcron", "badzone"}
  Status0 = {"active", "inactive"}
  IOErrors = TRUE
  Distinct = TRUE
  MaxClock = 0
  MaxRequests = 2
  MaxCrashes = 1
SPECIFICATION FairSpec
PROPERTIES EveryoneReturns
CHECK_DEADLOCK FALSE
