SPECIFICATION AnsweringSpec
CONSTANTS
  Tasks = {t1, t2}
  Jobs = {j1, j2}
  Audits = {a1}
  Prompt = Prompt
  None = None
  MaxContinue = 1
  MaxStreak = 1
  MaxAuditLoops = 1
  ResendCap = 2
  QueueCap = 1
INVARIANTS
  TypeOK
  OffMeansInert
  IntentIsQueued
  RunIsDriven
PROPERTY IdleTaskIsDecided
