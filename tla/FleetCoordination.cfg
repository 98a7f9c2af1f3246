SPECIFICATION FairSpec
CONSTANTS
  r1 = r1  r2 = r2  t1 = t1  t2 = t2  w1 = w1  w2 = w2
  Runs = {r1, r2}
  Tasks = {t1, t2}
  Workers = {w1, w2}
  Priority <- T1First
  NoWorker = NoWorker  NoRecord = NoRecord  NoChild = NoChild  Idle = Idle
  MaxAttempts = 3
  Scenarios <- MCScenarios
INVARIANTS
  RegistryInv
  ExclusiveWriters
PROPERTIES
  ChildIsRegistered
  FailsOnlyIfPrepared
  ContendedWorkStarts
