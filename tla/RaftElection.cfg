SPECIFICATION Spec
CONSTANTS
  s1 = s1
  s2 = s2
  s3 = s3
  Server = {s1, s2, s3}
  Nil = Nil
  Command = {c}
  LateReplies = TRUE
  MaxTerm = 2
  Electable <- Anyone
  MaxIndex <- NoEntries
  MaxApply = 0
  MaxSnapshot = 0
  MaxRestarts = 1
  MaxInFlight = 2
SYMMETRY Symmetry
INVARIANTS
  ElectionSafety
PROPERTIES
  VoteOnce
CHECK_DEADLOCK FALSE
