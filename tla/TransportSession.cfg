SPECIFICATION Spec
CONSTANTS
  Commands = {c1, c2}
  Runtimes = {r1, r2}
  None = None
  MaxRestarts = 1
  ResendCap = 1
SYMMETRY Symmetry
INVARIANTS
  TypeOK
  IdleMeansDrained
  NotWedged
  MapHoldsLive
  WaitsInOnePlace
PROPERTY ResendHandsOver
\* A session whose runtimes are all used up and whose user is silent stops.
CHECK_DEADLOCK FALSE
