\* The real clock only: no time is mocked.
CONSTANTS
  r1 = r1
  r2 = r2
  u1 = u1
  Request = {r1, r2}
  User = {u1}
  UserOf <- MCUserOf
  Cooldown = 2
  TicksPerMs = 2
  MaxTime = 8
  Debug = FALSE
  None = None
SPECIFICATION Spec
INVARIANTS CooldownKept
