SPECIFICATION Spec
CONSTANTS
  s1 = s1
  s2 = s2
  s3 = s3
  Server = {s1, s2, s3}
  Nil = Nil
  Command = {c}
  LateReplies = TRUE
  MaxTerm = 2
  Electable <- OnlyFirst
  MaxIndex <- OneEntry
  MaxApply = 1
  MaxSnapshot = 1
  MaxRestarts = 0
  MaxInFlight = 2
SYMMETRY Symmetry
INVARIANTS
  MatchIndexSound
CHECK_DEADLOCK FALSE
