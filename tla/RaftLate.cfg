SPECIFICATION Spec
CONSTANTS
  s1 = s1
  s2 = s2
  s3 = s3
  Server = {s1, s2, s3}
  Nil = Nil
  Command = {c}
  LateReplies = TRUE
  MaxTerm = 3
  Electable <- ThirdLast
  MaxIndex <- TwoNoneOne
  MaxApply = 0
  MaxSnapshot = 0
  MaxRestarts = 0
  MaxInFlight = 2
PROPERTIES
  MatchForward
CHECK_DEADLOCK FALSE
CONSTRAINT SecondOnlyVotes
