CONSTANTS
  u1 = u1
  u2 = u2
  t1 = t1
  t2 = t2
  s1 = s1
  s2 = s2
  s3 = s3
  s4 = s4
  User = {u1, u2}
  Task = {t1, t2}
  Submission = {s1, s2, s3, s4}
  Owner <- MCOwner
  ProblemOf <- MCProblemOf
  Vector <- MCVector
  Multiplier <- MCMultiplier
  Dataset <- MCDataset
  Full = 2
SPECIFICATION Spec
INVARIANTS TypeOK BaseIsBest TotalIsSum EverySubmissionCounts ScoreUsesMultiplier MarksAgree
PROPERTIES ScoreMovesTogether NewSubmissionNeverLowers
