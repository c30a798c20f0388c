SPECIFICATION FairSpec
CONSTANTS
  Targets = {t1, t2}
  Initiator = brain
  Foreign = {t2}
  Cycles = 2
  CycleLength = 1
  GateSends = 2
  Cancels = 1
  None = None
INVARIANTS
  TypeOK
  InFlightIsReachable
  HopsAccounted
  FewLatePrompts
PROPERTIES
  IsADiscussion
  LeavesTheTable
