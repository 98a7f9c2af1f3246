SPECIFICATION Spec
CONSTANTS
  Tasks = {t1}
  Workers = {w1}
  NoWorker = NoWorker
  Managers = {m1, m2}
  Operators = {o1}
  Nobody = Nobody
  NoChild = NoChild
  MaxAttempts = 1
  MaxCrashes = 1
  MaxCommands = 2
PROPERTIES
  LaunchedOnce
CHECK_DEADLOCK FALSE
SYMMETRY Symmetry
