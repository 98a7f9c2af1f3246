SPECIFICATION FairSpec
CONSTANTS
  Tasks = {t1, t2}
  Workers = {w1}
  NoWorker = NoWorker
  Managers = {m1, m2}
  Operators = {o1}
  Nobody = Nobody
  NoChild = NoChild
  MaxAttempts = 2
  MaxCrashes = 1
  MaxCommands = 2
PROPERTIES
  CompletedByOwner
  OwnedRunFinishes
CHECK_DEADLOCK FALSE
