\* The namespace is switched while a task deletes a bucket.
CONSTANTS
  Client = {c1}
  Ns = {n1, n2}
  Key = {k1, k2}
  BatchSize = 2
  Engines = {"s3fs"}
SPECIFICATION Spec
INVARIANT DropsWhatItListed
