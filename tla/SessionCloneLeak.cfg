SPECIFICATION Spec
CONSTANTS
  Runs = {r1}
  Grown = {r1}
  Names = {a}
  MaxSubs = 2
  Subs <- MCSubs
  NoName = NoName
INVARIANTS
  NothingRunsOn
CHECK_DEADLOCK FALSE
