CONSTANTS
  c1 = c1
  c2 = c2
  w1 = w1
  Client = {c1, c2}
  Worker = {w1}
  Size = 3
  MaxFaults = 4
SPECIFICATION Spec
INVARIANTS TypeOK Accounted FaultCostsOne
PROPERTY Served
