CONSTANTS
  u1 = u1
  t1 = t1
  s1 = s1
  User = {u1}
  Task = {t1}
  Submission = {s1}
  Owner <- MCOwner
  ProblemOf <- MCProblemOf
  Vector <- MCVector
  Multiplier = {1, 4}
  Retries = 1
  MaxRows = 3
  MaxCommit = 1
  Faults <- AllFaults
  MaxImports = 2
  CommitLost = TRUE
SPECIFICATION Spec
INVARIANTS TypeOK HandledIsCurrent UnknownTaskWasLost
