SPECIFICATION Spec
CONSTANTS
  s1 = s1
  s2 = s2
  s3 = s3
  Server = {s1, s2}
  Nil = Nil
  Command = {c}
  LateReplies = FALSE
  MaxTerm = 2
  Electable <- Anyone
  MaxIndex <- OneEntry
  MaxApply = 1
  MaxSnapshot = 1
  MaxRestarts = 1
  MaxInFlight = 2
SYMMETRY Symmetry
INVARIANTS
  IndexOrder
  Durable
CHECK_DEADLOCK FALSE
