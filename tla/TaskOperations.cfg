SPECIFICATION FairOperationSpec
CONSTANTS
  w1 = w1  w2 = w2
  Tasks = {1, 2, 3}
  Workers = {w1, w2}
  Absent = Absent
  Down = Down
  Scenarios <- MCScenarios
INVARIANTS
  QueueInv
  RunsOnce
  AnswersHold
  SequenceIsStable
  NoFalseEnd
PROPERTIES
  EveryTaskEnds
  OperationSettles
CHECK_DEADLOCK FALSE
