\* One instance of Alibaba RDS: its row does not stay pending.
CONSTANTS
  p1 = p1  p2 = p2  i1 = i1  i2 = i2  i3 = i3  n1 = n1
  NoId = NoId
  Request = {p1, p2}
  Id = {i1}
  Name = {n1}
  Kinds <- OnlyAlibabaRds
  MaxRequests = 3
SPECIFICATION Spec
PROPERTIES PendingEnds
CHECK_DEADLOCK FALSE
