\* Two handlers, kernels in two buckets.
SPECIFICATION Spec
CONSTANTS
  b1 = b1  b2 = b2  h1 = h1  h2 = h2
  Bucket = {b1, b2}
  None = None  Http = Http  Empty = Empty
  Handler = {h1, h2}
  Config <- TwoBuckets
  UseSQL = FALSE
  ClientFails = FALSE
  MaxFaults = 0
  MaxChanges = 1
INVARIANTS SignedWhereNamed
