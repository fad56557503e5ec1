\* Every provider, two requests at a time, two instances of one name (three of AWS), a crash.
CONSTANTS
  p1 = p1  p2 = p2  i1 = i1  i2 = i2  i3 = i3  n1 = n1
  NoId = NoId
  Request = {p1, p2}
  Id = {i1, i2, i3}
  Name = {n1}
  Kinds <- AllKinds
  MaxRequests = 3
SPECIFICATION Spec
INVARIANTS NothingRunsUnrecorded AccountFlagHonest RowsPerName
CONSTRAINT FewInstances
SYMMETRY Symmetry
CHECK_DEADLOCK FALSE
