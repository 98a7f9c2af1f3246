SPECIFICATION Spec
CONSTANTS
  r1 = r1
  t1 = t1
  t2 = t2
  Runs = {r1}
  Tasks = {t1}
  RunOf <- MCRunOf1
  Workers = {w1, w2}
  NoWorker = NoWorker
  Channels = {ch}
  Clients = {c1}
  Nobody = Nobody
  NoVersion = NoVersion
  InitialEvents <- MCInitialEvents
  MaxActive = 2
  MaxAttempts = 3
  MaxSeq = 4
  MaxTime = 2
  ClockLag = 0
INVARIANTS
  OutcomeInv
  TerminalShown
PROPERTIES
  SequenceIsGapless
CHECK_DEADLOCK FALSE
SYMMETRY Symmetry
