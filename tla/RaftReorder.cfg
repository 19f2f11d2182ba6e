SPECIFICATION Spec
CONSTANTS
  s1 = s1
  s2 = s2
  s3 = s3
  Server = {s1, s2, s3}
  Nil = Nil
  Command = {c}
  LateReplies = FALSE
  MaxTerm = 1
  Electable <- OnlyFirst
  MaxIndex <- TwoEntries
  MaxApply = 0
  MaxSnapshot = 0
  MaxRestarts = 0
  MaxInFlight = 3
SYMMETRY Symmetry
INVARIANTS
  MatchIndexSound
PROPERTIES
  CommittedKept
CHECK_DEADLOCK FALSE
