SPECIFICATION FairSpec
CONSTANTS
  Commands = {c1}
  Runtimes = {r1, r2}
  None = None
  MaxRestarts = 1
  ResendCap = 1
PROPERTY WaitingSendsSettle
\* A session whose runtimes are all used up and whose user is silent stops.
CHECK_DEADLOCK FALSE
