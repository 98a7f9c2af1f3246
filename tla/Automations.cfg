SPECIFICATION FairSpec
CONSTANTS
  a1 = a1  a2 = a2  g1 = g1  g2 = g2
  Automations = {a1, a2}
  Triggers = {g1, g2}
  Absent = Absent  Deleted = Deleted  Nothing = Nothing  Manual = Manual
  MaxTime = 2
  Scenarios <- MCScenarios
INVARIANTS
  AutomationInv
PROPERTIES
  EverySlotRuns
  UserWins
  TriggersHold
  DueWorkIsDone
  RunsFollowTasks
