--------------------------- MODULE TaskOperations ---------------------------
(***************************************************************************)
(* The background tasks together with the session that created them: the   *)
(* operations of its Work Graph (work_graph/runtime.rs, reducer.rs), one   *)
(* per task, which follow the tasks by what the manager reports.           *)
(*                                                                         *)
(* The task_create tool registers the operation, adds the task and reports *)
(* the record it got; task_cancel reports likewise.  The panel of the      *)
(* terminal lists the tasks now and then and reports each.  The graph is   *)
(* saved with its session; a restart brings the last saved one back, and   *)
(* the engine then lists the tasks, reports them, and marks an operation   *)
(* Stale whose task it does not find.  Listing and reporting are separate  *)
(* steps, so that a report can be older than the last one.                 *)
(***************************************************************************)
EXTENDS BackgroundTasks

VARIABLES
  operation,   \* operation[t]: the node bound to task t, or Absent
  saved,       \* the operations of the saved session
  call,        \* call[t]: a tool call under way for t, or Absent
  panel,       \* the listing the panel has still to report, or Absent
  restore      \* the same for the engine's restore of the session, or Due

operationVars == <<operation, saved, call, panel, restore>>
allVars == <<vars, operationVars>>

Due == [tasks |-> Absent, left |-> Tasks]   \* the session is not restored yet
Unseen == [owner_state |-> "None", seq |-> 0]
Operations ==
  [state: {"Initializing", "Active", "Completed", "Failed", "Cancelled", "Stale"},
   seen: [owner_state: {"None", "Queued", "Running"} \cup Ended, seq: Nat]]
Calls == [step: {"Registered", "Reported", "Refused", "Forced"}, task: Records \cup {Absent}]

(* What stands for no operation is none. *)
ASSUME OperationAssumption == Absent \notin Operations

OperationTypeOK ==
  /\ operation \in [Tasks -> Operations \cup {Absent}]
  /\ saved \in [Tasks -> Operations \cup {Absent}]
  /\ call \in [Tasks -> Calls \cup {Absent}]

OperationInit ==
  /\ Init
  /\ operation = [t \in Tasks |-> Absent]
  /\ saved = operation
  /\ call = [t \in Tasks |-> Absent]
  /\ panel = Absent
  /\ restore = Absent

(***************************************************************************)
(* The graph.                                                              *)
(***************************************************************************)
(* The node state that a task's status stands for. *)
StateOf(status) ==
  CASE status = "Queued" -> "Initializing"
    [] status = "Running" -> "Active"
    [] status = "Canceled" -> "Cancelled"
    [] OTHER -> status

(* A Cancelled node keeps its state (V9); Completed and Failed ones do not. *)
MoveTo(node, state) ==
  IF node.state = "Cancelled" THEN node ELSE [node EXCEPT !.state = state]

(* apply_observation_to_snapshot: a report older than the last one is       *)
(* refused; the same one again only brings a Stale node back.               *)
Accepts(node, status, seq) ==
  \/ seq > node.seen.seq
  \/ seq = node.seen.seq /\ node.state = "Stale" /\ status = node.seen.owner_state

OwnerReported(node, status, seq) ==
  IF Accepts(node, status, seq)
  THEN [MoveTo(node, StateOf(status)) EXCEPT !.seen = [owner_state |-> status, seq |-> seq]]
  ELSE node

IgnoreMissing(node) == node   \* fault: a missing owner changes nothing

OwnerMissing(node) == MoveTo(node, "Stale")

ForcedAlways(node, outcome) ==   \* fault: a requested cancellation counts as done
  MoveTo(node, "Cancelled")

(* CancelUpdate: only a forced cancellation moves the node. *)
CancelUpdate(node, outcome) ==
  IF outcome = "Forced" THEN MoveTo(node, "Cancelled") ELSE node

IsLive(node) == node # Absent /\ node.state \in {"Initializing", "Active"}
IsCandidate(node) == IsLive(node) \/ (node # Absent /\ node.state = "Stale")
Candidates(graph) == {t \in Tasks : IsCandidate(graph[t])}

(***************************************************************************)
(* The tools.  The engine runs them after the session is restored.         *)
(***************************************************************************)
Calling(t, step, task) == call' = [call EXCEPT ![t] = [step |-> step, task |-> task]]
InCall(t, step) == call[t] # Absent /\ call[t].step = step

(* execute_create: the operation exists before its task. *)
Register(t) ==
  /\ t \in used.scenario.session
  /\ IsNewId(t) /\ operation[t] = Absent /\ call[t] = Absent /\ restore = Absent
  /\ operation' = [operation EXCEPT ![t] = [state |-> "Initializing", seen |-> Unseen]]
  /\ Calling(t, "Registered", Absent)
  /\ UNCHANGED <<vars, saved, panel, restore>>

Create(t) ==
  /\ InCall(t, "Registered")
  /\ \/ Add(t) /\ Calling(t, "Reported", NewRecord)
     \/ AddFails(t) /\ Calling(t, "Refused", Absent)
  /\ UNCHANGED <<operation, saved, panel, restore>>

(* execute_cancel. *)
CancelByTool(t) ==
  /\ t \in used.scenario.session
  /\ call[t] = Absent /\ restore = Absent
  /\ Cancel(t)
  /\ Calling(t, IF Disposition(t) = "Forced" THEN "Forced" ELSE "Reported", mgr'.tasks[t])
  /\ UNCHANGED <<operation, saved, panel, restore>>

(* What the manager returned, as an observation of the operation. *)
ReportCall(t) ==
  /\ \E step \in {"Reported", "Refused", "Forced"} : InCall(t, step)
  /\ LET node == CancelUpdate(operation[t], call[t].step)
         task == call[t].task
     IN operation' =
          IF operation[t] = Absent THEN operation
          ELSE [operation EXCEPT ![t] =
                 IF task = Absent THEN OwnerReported(node, "Failed", 1)
                                  ELSE OwnerReported(node, task.status, task.seq)]
  /\ call' = [call EXCEPT ![t] = Absent]
  /\ UNCHANGED <<vars, saved, panel, restore>>

(***************************************************************************)
(* The panel and the restored session.                                     *)
(***************************************************************************)
Rest(listing, t) ==
  IF listing.left = {t} THEN Absent ELSE [listing EXCEPT !.left = @ \ {t}]

ListForPanel ==
  /\ IsUp /\ panel = Absent /\ restore # Due
  /\ \E t \in Tasks : operation[t] # Absent   \* or the reports change nothing
  /\ panel' = [tasks |-> mgr.tasks, left |-> Tasks]
  /\ UNCHANGED <<vars, operation, saved, call, restore>>

ReportPanel(t) ==
  /\ panel # Absent /\ t \in panel.left
  /\ LET task == panel.tasks[t] IN
       operation' =
         IF task = Absent \/ operation[t] = Absent THEN operation
         ELSE [operation EXCEPT ![t] = OwnerReported(@, task.status, task.seq)]
  /\ panel' = Rest(panel, t)
  /\ UNCHANGED <<vars, saved, call, restore>>

(* reconcile_restored_work_bindings: only live and Stale operations. *)
ListForRestore ==
  /\ IsUp /\ restore = Due
  /\ restore' = [tasks |-> mgr.tasks, left |-> Candidates(operation)]
  /\ UNCHANGED <<vars, operation, saved, call, panel>>

ReportRestored(t) ==
  /\ restore \notin {Absent, Due} /\ t \in restore.left
  /\ LET task == restore.tasks[t] IN
       operation' = [operation EXCEPT ![t] =
         IF task = Absent THEN OwnerMissing(@) ELSE OwnerReported(@, task.status, task.seq)]
  /\ restore' = Rest(restore, t)
  /\ UNCHANGED <<vars, saved, call, panel>>

(* persist_pending_work_checkpoint: the session with its graph. *)
SaveSession ==
  /\ IsUp /\ restore # Due /\ saved # operation
  /\ saved' = operation
  /\ UNCHANGED <<vars, operation, call, panel, restore>>

(***************************************************************************)
(* The manager's own steps.  What the session has not saved dies with the  *)
(* process, and the saved session is restored when it is up again.         *)
(***************************************************************************)
LoseSession ==
  /\ operation' = saved
  /\ call' = [t \in Tasks |-> Absent]
  /\ panel' = Absent
  /\ restore' = IF Candidates(saved) = {} THEN Absent ELSE Due
  /\ UNCHANGED saved

SessionFollows == IF IsUp /\ mgr' = Down THEN LoseSession ELSE UNCHANGED operationVars

CreateCrashes(t) == InCall(t, "Registered") /\ AddCrashes(t) /\ LoseSession
CancelCrashes(t) == t \in used.scenario.session /\ CancelFails(t) /\ SessionFollows

(* Tasks of other callers (automations, the HTTP API) have no operation. *)
CallByOther(t) == t \in used.scenario.others /\ Call(t) /\ SessionFollows

Work(w) == WorkerStep(w) /\ SessionFollows

Process == ProcessStep /\ SessionFollows

OperationNext ==
  \/ \E t \in Tasks :
       \/ Register(t) \/ Create(t) \/ CreateCrashes(t)
       \/ CancelByTool(t) \/ CancelCrashes(t) \/ ReportCall(t)
       \/ ReportPanel(t) \/ ReportRestored(t) \/ CallByOther(t)
  \/ ListForPanel \/ ListForRestore \/ SaveSession
  \/ \E w \in Workers : Work(w)
  \/ Process

(* The tools return, the panel refreshes, a saved session is restored;      *)
(* workers run and deadlines pass, but the executor need not return.        *)
CallStep(t) == Create(t) \/ ReportCall(t)
PanelStep == ListForPanel \/ \E t \in Tasks : ReportPanel(t)
RestoreStep == ListForRestore \/ \E t \in Tasks : ReportRestored(t)

OperationFairness ==
  /\ WF_allVars(\E t \in Tasks : CallStep(t))
  /\ WF_allVars(PanelStep) /\ WF_allVars(RestoreStep)
  /\ \A w \in Workers :
       WF_allVars((Advance(w) \/ Interrupt(w) \/ Terminalize(w)) /\ SessionFollows)
  /\ WF_allVars(Boot /\ SessionFollows)

OperationSpec == OperationInit /\ [][OperationNext]_allVars
FairOperationSpec == OperationSpec /\ OperationFairness

(***************************************************************************)
(* Properties.                                                             *)
(***************************************************************************)
(* The queue of the manager is exact, and the two modules well typed. *)
QueueInv == TypeOK /\ OperationTypeOK /\ QueueIsExact

Owner(t) == IF IsUp THEN mgr.tasks[t] ELSE disk.file[t]

(* The graph is never ahead of a task, nor contradicts it: the last report  *)
(* an operation has taken in is not newer than the task, and of the same    *)
(* sequence only if of the same status, over restarts of the process.       *)
(* Failing writes are left out: a step whose write failed is lost by a      *)
(* restart, and the next one reuses its number.                             *)
SequenceIsStable ==
  used.errors = 0 =>
  \A t \in Tasks, graph \in {operation, saved} :
    graph[t] # Absent /\ graph[t].seen.seq > 0 /\ told[t] # "Refused" =>
      /\ Owner(t) # Absent
      /\ graph[t].seen.seq <= Owner(t).seq
      /\ graph[t].seen.seq = Owner(t).seq => graph[t].seen.owner_state = Owner(t).status

(* An operation is shown as ended only if its task ended that way or was    *)
(* never added: no report that is late, repeated or only requested a        *)
(* cancellation ends it.  (Failing writes apart: a restart takes an end     *)
(* back that was not written.)                                              *)
NoFalseEnd ==
  \A t \in Tasks :
    operation[t] # Absent /\ operation[t].state \in {"Completed", "Failed", "Cancelled"} =>
      \/ told[t] = "Refused" /\ operation[t].state = "Failed"
      \/ Owner(t) # Absent /\ operation[t].state = StateOf(Owner(t).status)

IsSettled(t) ==
  IF Owner(t) = Absent THEN operation[t].state \in {"Stale", "Failed"}
  ELSE Owner(t).status \in Ended /\ operation[t].state = StateOf(Owner(t).status)

(* An operation ends up in agreement with its task, or Stale or Failed if   *)
(* it has none, even if the process dies between the registration and the   *)
(* task, the add is refused or the executor hangs.                          *)
OperationSettles ==
  []<>(IsUp /\ (\/ used.errors > 0 \/ mgr.stopping
               \/ \A t \in Tasks : operation[t] # Absent => IsSettled(t)))
=============================================================================
