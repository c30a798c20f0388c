SPECIFICATION Spec
CONSTANTS
  Commands = {c1}
  Links = {l1, l2}
  Reuse = {}
  None = None
  AckTimeout = 1
  RetryLimit = 1
  Grace = 2
  AuthTimeout = 1
  GcTtl = 2
  SlowDb = TRUE
  MaxSends = 2
  MaxLapses = 1
  MaxForgets = 0
SYMMETRY Symmetry
INVARIANTS
  TypeOK
  NoStranded
  OfflineIsTemporary
PROPERTY PromiseKept
