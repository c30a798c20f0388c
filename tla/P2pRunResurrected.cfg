SPECIFICATION FairSpec
CONSTANTS
  Targets = {t1}
  Initiator = brain
  Foreign = {}
  Cycles = 2
  CycleLength = 1
  GateSends = 2
  Cancels = 1
  None = None
PROPERTY StaysCancelled
