--------------------------- MODULE MCFleetRecovery --------------------------
(* FleetRecovery on small instances: two processes resume a run of one      *)
(* task, or one resumes a run of two.                                       *)
EXTENDS FleetRecovery

CONSTANTS t1, t2, r1, r2

TwoResumers ==
  [tasks |-> {t1}, resumers |-> {r1, r2}, hang |-> TRUE, lag |-> 0, crashes |-> 0]

TwoTasks ==
  [tasks |-> {t1, t2}, resumers |-> {r1}, hang |-> FALSE, lag |-> 0, crashes |-> 0]

MCScenarios ==
  {[TwoResumers EXCEPT !.lag = 1],
   [TwoResumers EXCEPT !.crashes = 1, !.hang = FALSE],
   [TwoTasks EXCEPT !.crashes = 1]}
=============================================================================
