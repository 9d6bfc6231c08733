CONSTANTS
  u1 = u1
  t1 = t1
  s1 = s1
  User = {u1}
  Task = {t1}
  Submission = {s1}
  Owner <- MCOwner
  ProblemOf <- MCProblemOf
  Vector <- MCVector
  Multiplier = {1}
  Retries = 1
  MaxRows = 5
  MaxCommit = 1
  Faults = {}
  MaxImports = 1
  CommitLost = FALSE
SPECIFICATION FairSpec
PROPERTIES ScoredIsShown
