SPECIFICATION FairSpec
CONSTANTS
  Runs = {r1, r2}
  Grown = {r1}
  Names = {a, b}
  MaxSubs = 2
  Subs <- MCSubs
  NoName = NoName
INVARIANTS
  TypeOK
  OneOwnerPerName
  SuccessIsWhole
  LeftoversAreOwed
PROPERTIES
  KeepsTheTransaction
CHECK_DEADLOCK FALSE
