--------------------------- MODULE MCAutomations ---------------------------
(* Automations on small instances: one automation under commands and        *)
(* faults, a watcher, two automations at once, triggers.                    *)
EXTENDS Automations

CONSTANTS a1, a2, g1, g2

Quiet ==
  [automations |-> {}, watchers |-> {}, triggers |-> {}, clock |-> MaxTime,
   commands |-> 0, calls |-> 0, faults |-> 0]

MCScenarios ==
  {[Quiet EXCEPT !.automations = {a1}, !.commands = 2, !.faults = 1],
   [Quiet EXCEPT !.automations = {a1}, !.watchers = {a1}, !.faults = 2],
   [Quiet EXCEPT !.automations = {a1}, !.commands = 1, !.calls = 1],
   [Quiet EXCEPT !.automations = {a1, a2}, !.clock = 1, !.faults = 1],
   [Quiet EXCEPT !.triggers = {g1, g2}, !.commands = 1, !.faults = 1]}
============================================================================
