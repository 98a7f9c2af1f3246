SPECIFICATION Spec
CONSTANTS
  Tasks = {t1, t2}
  Workers = {w1, w2}
  NoWorker = NoWorker
  Managers = {m1, m2}
  Operators = {o1}
  Nobody = Nobody
  NoChild = NoChild
  MaxAttempts = 2
  MaxCrashes = 0
  MaxCommands = 3
INVARIANTS
  ManagerInv
  CompletedByItsChild
  NoChildLeftBehind
  StoppedRunStaysStopped
PROPERTIES
  LaunchedOnce
CHECK_DEADLOCK FALSE
SYMMETRY Symmetry
