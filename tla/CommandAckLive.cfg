SPECIFICATION FairSpec
CONSTANTS
  Commands = {c1}
  Links = {l1}
  Reuse = {l1}
  None = None
  AckTimeout = 2
  RetryLimit = 1
  Grace = 3
  AuthTimeout = 1
  GcTtl = 5
  SlowDb = TRUE
  MaxSends = 1
  MaxLapses = 1
  MaxForgets = 1
PROPERTY CommandSettles
