---------------------------- MODULE FleetRecords ----------------------------
(***************************************************************************)
(* The durable vocabulary of the fleet control plane: the records that     *)
(* fleet/ledger.rs appends to .hakus/fleet.jsonl and apply_record, the     *)
(* fold step by which every reader rebuilds a FleetLedgerState from them.  *)
(*                                                                         *)
(* A task belongs to one run (RunOf).  Timestamps are the whole seconds    *)
(* the code writes; Never stands for an absent optional timestamp.         *)
(***************************************************************************)
EXTENDS Integers, Sequences

CONSTANTS
  Runs,       \* fleet runs
  Tasks,      \* tasks, globally named (run_id:task_id)
  RunOf,      \* the run a task is enqueued under
  Workers,    \* logical worker ids
  NoWorker,   \* leased_to = None, and the empty worker id of a queued cancel
  Channels    \* alert channels of the tasks' alert policy

ASSUME RunOfAssumption == RunOf \in [Tasks -> Runs]
ASSUME NoWorkerAssumption == NoWorker \notin Workers

Never == 0

TaskLedgerStatuses == {"Enqueued", "Leased", "Completed", "Failed", "Cancelled"}
TerminalStatuses == {"Completed", "Failed", "Cancelled"}
RunStatuses == {"Queued", "Running", "Completed", "Failed", "Cancelled"}
WorkerStatuses == {"Unknown", "Online", "Busy", "Draining", "Unhealthy"}

(* Event payloads.  "Running" also stands for ModelWait, RunningTool,       *)
(* WorkflowEvent and Heartbeat, which every reader treats like it.          *)
BusyPayloads == {"Leased", "Starting", "Running", "Restarted"}
ProgressPayloads == BusyPayloads \cup {"Artifact", "Stale", "Interrupted"}
TerminalPayloads == TerminalStatuses
Payloads == ProgressPayloads \cup TerminalPayloads \cup {"Escalated"}

(***************************************************************************)
(* Shapes.                                                                 *)
(***************************************************************************)
TaskStates ==
  [status: TaskLedgerStatuses \cup {"Absent"}, lifecycle_seq: Nat,
   leased_to: Workers \cup {NoWorker}, leased_at: Nat, completed_at: Nat,
   lease_deadline: Nat, attempts: Nat]

NoTask ==
  [status |-> "Absent", lifecycle_seq |-> 0, leased_to |-> NoWorker,
   leased_at |-> Never, completed_at |-> Never, lease_deadline |-> Never,
   attempts |-> 0]

Events ==
  [worker: Workers, task: Tasks, seq: Nat, payload: Payloads, timestamp: Nat]

Receipts == [attempt: Nat, terminal_seq: Nat]
NoReceipt == [attempt |-> 0, terminal_seq |-> 0]

Alerts == [task: Tasks, attempt: Nat, channel: Channels]

States ==
  [runs: SUBSET Runs,
   run_status: [Runs -> RunStatuses],
   tasks: [Tasks -> TaskStates],
   workers: [Workers -> WorkerStatuses],
   heartbeats: [Workers -> Nat],
   latest_seq: [Workers -> [Tasks -> Nat]],
   latest_payload: [Workers -> [Tasks -> Payloads \cup {"None"}]],
   receipts: [Tasks -> Receipts],
   alerts: SUBSET Alerts]

EmptyState ==
  [runs |-> {},
   run_status |-> [r \in Runs |-> "Queued"],
   tasks |-> [t \in Tasks |-> NoTask],
   workers |-> [w \in Workers |-> "Unknown"],
   heartbeats |-> [w \in Workers |-> Never],
   latest_seq |-> [w \in Workers |-> [t \in Tasks |-> 0]],
   latest_payload |-> [w \in Workers |-> [t \in Tasks |-> "None"]],
   receipts |-> [t \in Tasks |-> NoReceipt],
   alerts |-> {}]

(***************************************************************************)
(* Records.                                                                *)
(***************************************************************************)
RunCreated(r) == [kind |-> "RunCreated", run |-> r]
RunStatusChanged(r, status) ==
  [kind |-> "RunStatusChanged", run |-> r, status |-> status]
TaskEnqueued(t) == [kind |-> "TaskEnqueued", task |-> t]
TaskLeased(t, w, at, expires) ==
  [kind |-> "TaskLeased", task |-> t, worker |-> w,
   leased_at |-> at, lease_expires_at |-> expires]
TaskCompletedOrFailed(t, w, at, status) ==
  [kind |-> "TaskCompletedOrFailed", task |-> t, worker |-> w,
   timestamp |-> at, status |-> status]
EventAppended(e) == [kind |-> "EventAppended", event |-> e]
TaskAttemptFinalized(e, final_status, receipt) ==
  [kind |-> "TaskAttemptFinalized", event |-> e,
   final_status |-> final_status, receipt |-> receipt]
HeartbeatRecord(w, at) ==
  [kind |-> "Heartbeat", worker |-> w, timestamp |-> at]
AlertSent(t, channel, w, attempt, seq, at) ==
  [kind |-> "AlertSent", task |-> t, channel |-> channel, worker |-> w,
   attempt |-> attempt, seq |-> seq, timestamp |-> at]

Records ==
  [kind: {"RunCreated"}, run: Runs]
  \cup [kind: {"RunStatusChanged"}, run: Runs, status: RunStatuses]
  \cup [kind: {"TaskEnqueued"}, task: Tasks]
  \cup [kind: {"TaskLeased"}, task: Tasks, worker: Workers,
        leased_at: Nat, lease_expires_at: Nat]
  \cup [kind: {"TaskCompletedOrFailed"}, task: Tasks,
        worker: Workers \cup {NoWorker}, timestamp: Nat,
        status: TerminalStatuses]
  \cup [kind: {"EventAppended"}, event: Events]
  \cup [kind: {"TaskAttemptFinalized"}, event: Events,
        final_status: TerminalStatuses \cup {"None"}, receipt: Receipts]
  \cup [kind: {"Heartbeat"}, worker: Workers, timestamp: Nat]
  \cup [kind: {"AlertSent"}, task: Tasks, channel: Channels, worker: Workers,
        attempt: Nat, seq: Nat, timestamp: Nat]

(***************************************************************************)
(* Queries every transaction makes of the rebuilt state.                   *)
(***************************************************************************)
IsTerminal(s, t) == s.tasks[t].status \in TerminalStatuses
IsOpen(s, t) == s.tasks[t].status \in {"Enqueued", "Leased"}
HoldsLease(s, t, w) ==
  s.tasks[t].status = "Leased" /\ s.tasks[t].leased_to = w
TasksOf(s, r) == {t \in Tasks : RunOf[t] = r /\ s.tasks[t].status # "Absent"}
ActiveTasks(s, r) == {t \in TasksOf(s, r) : s.tasks[t].status = "Leased"}
HasOpenWork(s, r) == \E t \in TasksOf(s, r) : IsOpen(s, t)

(* next_worker_event: the next sequence number of the (worker, task) key. *)
NextEvent(s, w, t, at, payload) ==
  [worker |-> w, task |-> t, seq |-> s.latest_seq[w][t] + 1,
   payload |-> payload, timestamp |-> at]

(***************************************************************************)
(* apply_record.                                                           *)
(***************************************************************************)
MarkTaskTerminal(s, t, w, at, status) ==
  LET old == s.tasks[t] IN
  IF old.status = "Absent" THEN s
  ELSE [s EXCEPT !.tasks[t] =
         [old EXCEPT
            !.status = status,
            !.lifecycle_seq = IF old.status = status THEN @ ELSE @ + 1,
            !.leased_to = IF w = NoWorker THEN @ ELSE w,
            !.completed_at = at]]

WorkerOfflineAfter(payload, status) ==   \* fault: an underived worker status
  IF payload \in TerminalPayloads THEN "Offline" ELSE status

WorkerStatusAfter(payload, status) ==
  CASE payload \in BusyPayloads     -> "Busy"
    [] payload = "Interrupted"      -> "Draining"
    [] payload = "Stale"            -> "Unhealthy"
    [] payload \in TerminalPayloads -> "Online"
    [] OTHER                        -> status

(* A late progress event must never resurrect a terminal task. *)
RegressesUnlessRunning(s, e) ==   \* fault: "Running" missing from the list
  IsTerminal(s, e.task) /\ e.payload \in ProgressPayloads \ {"Running"}

RegressesTerminalState(s, e) ==
  IsTerminal(s, e.task) /\ e.payload \in ProgressPayloads

ApplyEvent(s, e) ==
  LET w == e.worker
      t == e.task
      late == RegressesTerminalState(s, e)
      newer == e.seq > s.latest_seq[w][t]
      logged == [s EXCEPT
        !.latest_seq[w][t] = IF newer THEN e.seq ELSE @,
        !.latest_payload[w][t] = IF newer /\ ~late THEN e.payload ELSE @,
        !.workers[w] = IF late THEN @ ELSE WorkerStatusAfter(e.payload, @)]
  IN IF e.payload \in TerminalPayloads
     THEN MarkTaskTerminal(logged, t, w, e.timestamp, e.payload)
     ELSE logged

ApplyLease(s, r) ==
  LET old == s.tasks[r.task]
      same == /\ old.status = "Leased"
              /\ old.leased_to = r.worker
              /\ old.leased_at = r.leased_at
  IN IF old.status = "Absent" THEN s
     ELSE [s EXCEPT !.tasks[r.task] =
            [old EXCEPT
               !.lifecycle_seq = IF same THEN @ ELSE @ + 1,
               !.status = "Leased",
               !.leased_to = r.worker,
               !.leased_at = r.leased_at,
               !.lease_deadline = r.lease_expires_at,
               !.attempts = @ + 1]]

ApplyEnqueue(s, t) ==
  IF s.tasks[t].status # "Absent" THEN s
  ELSE [s EXCEPT !.tasks[t] = [NoTask EXCEPT !.status = "Enqueued",
                                             !.lifecycle_seq = 1]]

ApplyHeartbeat(s, r) ==
  [s EXCEPT !.heartbeats[r.worker] = r.timestamp,
            !.workers[r.worker] = IF @ = "Busy" THEN @ ELSE "Online"]

ApplyFinalized(s, r) ==
  LET e == r.event
      finished == ApplyEvent(s, e)
      settled == IF r.final_status = "None" THEN finished
                 ELSE MarkTaskTerminal(finished, e.task, e.worker,
                                       e.timestamp, r.final_status)
  IN [settled EXCEPT !.receipts[e.task] = r.receipt]

ApplyAlert(s, r) ==
  LET alert == [task |-> r.task, attempt |-> r.attempt, channel |-> r.channel]
      escalated == [worker |-> r.worker, task |-> r.task, seq |-> r.seq,
                    payload |-> "Escalated", timestamp |-> r.timestamp]
  IN IF alert \in s.alerts THEN s
     ELSE ApplyEvent([s EXCEPT !.alerts = @ \cup {alert}], escalated)

apply_record(s, r) ==
  CASE r.kind = "RunCreated" -> [s EXCEPT !.runs = @ \cup {r.run}]
    [] r.kind = "RunStatusChanged" -> [s EXCEPT !.run_status[r.run] = r.status]
    [] r.kind = "TaskEnqueued" -> ApplyEnqueue(s, r.task)
    [] r.kind = "TaskLeased" -> ApplyLease(s, r)
    [] r.kind = "TaskCompletedOrFailed" ->
         MarkTaskTerminal(s, r.task, r.worker, r.timestamp, r.status)
    [] r.kind = "EventAppended" -> ApplyEvent(s, r.event)
    [] r.kind = "TaskAttemptFinalized" -> ApplyFinalized(s, r)
    [] r.kind = "Heartbeat" -> ApplyHeartbeat(s, r)
    [] r.kind = "AlertSent" -> ApplyAlert(s, r)
=============================================================================
