\* A task edited while another is deleted.
CONSTANTS
  p1 = p1  p2 = p2  o1 = o1  o2 = o2  g1 = g1
  NoId = NoId  NoOne = NoOne
  Goroutine = {p1, p2}
  Op = {o1}
  GivenId = {g1}
  Workload = {"CreateTask", "UpdateTask", "DeleteTask"}
  Timing = {"cron"}
  Status0 = {"active"}
  IOErrors = FALSE
  Distinct = TRUE
  MaxClock = 0
  MaxRequests = 4
  MaxCrashes = 0
SPECIFICATION FairSpec
PROPERTIES EditsOnlyItsTask
CHECK_DEADLOCK FALSE
