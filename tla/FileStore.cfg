CONSTANTS
  n1 = n1
  n2 = n2
  c1 = c1
  c2 = c2
  Request = {r1, r2}
  Name = {n1, n2}
  Content = {c1, c2}
  Sendable <- MCSendable
  None = None
  MaxSubmissions = 2
  MaxFaults = 1
SPECIFICATION FairSpec
INVARIANTS WholeOrNothing
PROPERTIES Ends SomeoneStores
