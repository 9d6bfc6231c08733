CONSTANTS
  r1 = r1
  r2 = r2
  n1 = n1
  n2 = n2
  e1 = e1
  e2 = e2
  Request = {r1, r2}
  Name = {n1, n2}
  Email = {e1, e2}
  MaxId = 3
SYMMETRY Symmetry
SPECIFICATION Spec
INVARIANTS TypeOK AccountsMatch AccountsDiffer NameHasOneFate GivenTokensWork
