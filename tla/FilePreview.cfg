SPECIFICATION FairSpec
CONSTANTS
  Requests = {r1, r2, r3}
  Paths = {p1, p2}
  Writers = {w1}
  AttachedCap = 2
  MaxVersion = 1
INVARIANTS
  TypeOK
  ReadYourWrites
  AnsweredOnce
  CacheIsFresh
  WaitingReadsHaveOneJob
PROPERTIES
  ServesFreshReads
CHECK_DEADLOCK FALSE
