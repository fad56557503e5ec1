\* A table of DynamoDB that goes when the task that deleted it has ended.
CONSTANTS
  p1 = p1  p2 = p2  x = x  y = y  a = a  b = b
  Old = Old  Empty = Empty  Nobody = Nobody  NoTable = NoTable  Torn = Torn
  Task = {p1}
  Table = {x}
  Item = {a}
  Engines <- ToDynamo
  Sources <- OneSource
  Ops = {"delete"}
  ListLimit = 1
  Big = {}
SPECIFICATION Spec
PROPERTIES NothingAfterTheEnd
CHECK_DEADLOCK FALSE
