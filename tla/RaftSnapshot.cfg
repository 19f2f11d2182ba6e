SPECIFICATION Spec
CONSTANTS
  s1 = s1
  s2 = s2
  s3 = s3
  Server = {s1, s2, s3}
  Nil = Nil
  Command = {c}
  LateReplies = FALSE
  MaxTerm = 1
  Electable <- OnlyFirst
  MaxIndex <- TwoEntries
  MaxApply = 2
  MaxSnapshot = 2
  MaxRestarts = 0
  MaxInFlight = 2
CONSTRAINT SecondOnlyStores
INVARIANTS
  TypeOK
  
PROPERTIES
  ApplyForward
CHECK_DEADLOCK FALSE
