SPECIFICATION Spec
CONSTANTS
  r1 = r1
  t1 = t1
  t2 = t2
  Runs = {r1}
  Tasks = {t1, t2}
  RunOf <- MCRunOf
  Workers = {w1}
  NoWorker = NoWorker
  Channels = {}
  Clients = {c1}
  Nobody = Nobody
  NoVersion = NoVersion
  InitialEvents <- MCInitialEvents
  MaxActive = 2
  MaxAttempts = 2
  MaxSeq = 3
  MaxTime = 1
  ClockLag = 0
INVARIANTS
  TypeOK
  WorkerExclusive
PROPERTIES
  ImplementsTaskAttempts
CHECK_DEADLOCK FALSE
SYMMETRY Symmetry
