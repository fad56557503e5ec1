\* Two operations at a time on the buckets of two namespaces with two keys, every provider.
CONSTANTS
  Client = {c1, c2}
  Ns = {n1, n2}
  Key = {k1, k2}
  BatchSize = 1
  Engines = {"s3fs", "gcpfs", "alibabafs", "ibmfs", "ktfs", "tencentfs"}
SYMMETRY Symmetry
SPECIFICATION Spec
INVARIANTS TypeOK CreatedExists DeletedHasGone
PROPERTIES DropSparesNewcomers
