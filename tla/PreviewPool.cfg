SPECIFICATION FairSpec
CONSTANTS
  Jobs = {j1, j2, j3}
  NoJob = NoJob
  Workers = 2
  QueueCap = 1
  Recycle = 2
  MaxStarts = 1
  MaxFaults = 2
INVARIANTS
  TypeOK
  JobsHeldOnce
  NeverWedged
  OneThreadPerSlot
  AnswersAreOwn
PROPERTIES
  KeepsItsPromise
CHECK_DEADLOCK FALSE
