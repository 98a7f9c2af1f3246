------------------------ MODULE MCFleetCoordination ------------------------
(* FleetCoordination on small instances: one run has both tasks and both    *)
(* workers, or two runs have one of each and write to the same files.       *)
EXTENDS FleetCoordination

CONSTANTS r1, r2, t1, t2, w1, w2

OneRun ==
  [run_of |-> [x \in Tasks \cup Workers |-> r1], overlap |-> {},
   crashes |-> 0, busy |-> 0, restarts |-> 0, revivals |-> 0]

TwoRuns ==
  [OneRun EXCEPT !.run_of = [x \in Tasks \cup Workers |-> IF x \in {t1, w1} THEN r1 ELSE r2],
                 !.overlap = {{t1, t2}}]

MCScenarios ==
  {[OneRun EXCEPT !.crashes = 1, !.restarts = 2],
   [OneRun EXCEPT !.busy = 1, !.revivals = 1],
   [TwoRuns EXCEPT !.crashes = 1, !.restarts = 1],
   [TwoRuns EXCEPT !.busy = 1, !.revivals = 1]}

T1First == [t \in Tasks |-> IF t = t1 THEN 1 ELSE 2]
============================================================================
