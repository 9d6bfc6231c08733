CONSTANTS
  p1 = p1
  p2 = p2
  w1 = w1
  w2 = w2
  Person = {p1, p2}
  UserId = {1, 2, 3}
  Task = {t1}
  Submission = {s1}
  Writer = {w1, w2}
  MaxWrites = 3
  MaxStarts = 3
  OldIds <- MCOldIds
  CmsIds <- MCCmsIds
SYMMETRY Symmetry
SPECIFICATION Spec
INVARIANTS NothingMissed VersionsAreTrue RowsKeepOwners RefusedForIds
