SPECIFICATION FairSpec
CONSTANTS
  t1 = t1  t2 = t2  r1 = r1  r2 = r2
  Tasks = {t1, t2}
  Channels = {slack, webhook}
  Resumers = {r1, r2}
  MaxAttempts = 2
  Timeout = 1
  MaxLag = 1
  Scenarios <- MCScenarios
INVARIANTS
  RecoveryInv
PROPERTIES
  HealthyIsLeftAlone
  ExhaustedIsEscalated
  CreatedRunEnds
CHECK_DEADLOCK FALSE
