SPECIFICATION CompactingSpec
CONSTANTS
  r1 = r1
  t1 = t1
  Runs = {r1}
  Tasks = {t1}
  RunOf <- MCRunOf
  Workers = {w1}
  NoWorker = NoWorker
  Channels = {ch}
  Clients = {c1, c2}
  Nobody = Nobody
  NoVersion = NoVersion
  InitialEvents <- MCInitialEvents
  MaxActive = 1
  MaxAttempts = 2
  MaxSeq = 5
  MaxTime = 1
  ClockLag = 0
INVARIANTS
  CompactionPreserves
PROPERTIES
  LateDecisionLoses
CHECK_DEADLOCK FALSE
SYMMETRY Symmetry
