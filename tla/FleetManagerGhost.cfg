SPECIFICATION FairSpec
CONSTANTS
  Tasks = {t1}
  Workers = {w1}
  NoWorker = NoWorker
  Managers = {m1, m2}
  Operators = {o1}
  Nobody = Nobody
  NoChild = NoChild
  MaxAttempts = 2
  MaxCrashes = 0
  MaxCommands = 2
PROPERTIES
  NoGhostRunningTask
CHECK_DEADLOCK FALSE
