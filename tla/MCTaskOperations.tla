-------------------------- MODULE MCTaskOperations --------------------------
(* TaskOperations on small instances: tasks of other callers, or one task   *)
(* of a session.                                                           *)
EXTENDS TaskOperations, TLC

CONSTANTS w1, w2

ByOthers(pool, tasks) ==
  [pool |-> pool, session |-> {}, others |-> tasks,
   crashes |-> 0, errors |-> 0, refusals |-> 0]

BySession(pool) == [ByOthers(pool, {}) EXCEPT !.session = {1}]

(* Two workers for two tasks with a crash; a queue of three for one worker; *)
(* failing writes; a session's task with refused adds and crashes.          *)
MCScenarios ==
  {[ByOthers({w1, w2}, 1..2) EXCEPT !.crashes = 1],
   ByOthers({w1}, 1..3),
   [ByOthers({w1}, 1..2) EXCEPT !.crashes = 1, !.errors = 1, !.refusals = 1],
   [BySession({w1}) EXCEPT !.crashes = 1, !.refusals = 1]}
=============================================================================
