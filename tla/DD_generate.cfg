\* One request for any one format, with two workers and two numbers of two files.
CONSTANTS
  Request = {r1}
  Worker = {w1, w2}
  Size = 2
  Pieces = 2
  Kinds = {"sql", "csv", "txt", "png", "gif", "zip", "json", "xml"}
  MaxKinds = 1
SPECIFICATION FairSpec
INVARIANTS GeneratedIsWhole SuccessLeavesNothing
PROPERTIES GenerationReturns
CHECK_DEADLOCK FALSE
