\* Every fault, one task and one submission, at most three rows.
CONSTANTS
  Task = {t1}
  Submission = {s1}
  Retries = 2
  MaxRows = 3
  MaxCommit = 2
  Faults <- AllFaults
SPECIFICATION FairSpec
INVARIANTS TypeOK ExclusiveCustody NoLostWakeup
PROPERTIES TasksFirst DeliversAtMostOnce Settles
