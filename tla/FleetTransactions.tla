-------------------------- MODULE FleetTransactions -------------------------
(***************************************************************************)
(* The transactions of fleet/ledger.rs.  Each of them rebuilds the state   *)
(* under the write lock, returns early unless its compare-and-set guard    *)
(* holds, and otherwise appends a batch of records with one write.  Here a *)
(* transaction is the guard, an operator of the rebuilt state s, and the   *)
(* sequence of records it appends; at is the caller's timestamp, read      *)
(* before the lock is taken.                                               *)
(***************************************************************************)
EXTENDS FleetRecords, FiniteSets

(* What a caller remembers of a task when it decides to change it. *)
Versions ==
  [task: Tasks, worker: Workers, status: TaskLedgerStatuses,
   attempts: Nat, seq: Nat, heartbeat: Nat]

VersionOf(s, t) ==
  LET w == s.tasks[t].leased_to IN
  [task |-> t, worker |-> w, status |-> s.tasks[t].status,
   attempts |-> s.tasks[t].attempts, seq |-> s.latest_seq[w][t],
   heartbeat |-> s.heartbeats[w]]

VersionIs(s, v) ==
  /\ s.tasks[v.task].status = v.status
  /\ s.tasks[v.task].leased_to = v.worker
  /\ s.tasks[v.task].attempts = v.attempts
  /\ s.latest_seq[v.worker][v.task] = v.seq
  /\ s.heartbeats[v.worker] = v.heartbeat

(* The weaker guard of a live process: its own lease and attempt. *)
AttemptIsLeased(s, t, w, attempts) ==
  HoldsLease(s, t, w) /\ s.tasks[t].attempts = attempts

OtherLeaseOf(s, t, w) == \E u \in Tasks \ {t} : HoldsLease(s, u, w)

(* start_task_if_enqueued *)
CanStart(s, t, w, max_active) ==
  /\ s.tasks[t].status = "Enqueued"
  /\ \A u \in Tasks : ~HoldsLease(s, u, w)
  /\ Cardinality(ActiveTasks(s, RunOf[t])) < max_active

StartRecords(s, t, w, at, payloads) ==
  <<TaskLeased(t, w, at, Never)>>
  \o [i \in 1..Len(payloads) |->
        EventAppended([NextEvent(s, w, t, at, payloads[i])
                         EXCEPT !.seq = s.latest_seq[w][t] + i])]
  \o <<HeartbeatRecord(w, at)>>

(* append_event_if_leased *)
CanAppendProgress(s, t, w, attempts) == AttemptIsLeased(s, t, w, attempts)

EventRecords(s, t, w, at, payload) ==
  <<EventAppended(NextEvent(s, w, t, at, payload))>>

(* append_event_if_lease_unchanged, append_terminal_event_if_lease_unchanged *)
CanAppendVersioned(s, v) == v.status = "Leased" /\ VersionIs(s, v)

(* finalize_task_attempt_if_leased: the terminal event, the verifier's      *)
(* verdict and the receipt are one record.                                  *)
CanFinalize(s, t, w, attempts) == AttemptIsLeased(s, t, w, attempts)

FinalizeInTwo(s, t, w, attempts, at, payload, final_status) ==   \* fault: event, then receipt
  LET e == NextEvent(s, w, t, at, payload) IN
  <<EventAppended(e),
    TaskAttemptFinalized(e, final_status,
      [attempt |-> attempts, terminal_seq |-> e.seq])>>

FinalizeRecords(s, t, w, attempts, at, payload, final_status) ==
  LET e == NextEvent(s, w, t, at, payload) IN
  <<TaskAttemptFinalized(e, final_status,
      [attempt |-> attempts, terminal_seq |-> e.seq])>>

(* restart_task_if_unchanged_with_callback *)
CanRestartBusy(s, v) == VersionIs(s, v)   \* fault: the worker may be busy

CanRestart(s, v) ==
  /\ VersionIs(s, v)
  /\ ~OtherLeaseOf(s, v.task, v.worker)

RestartSameSeq(s, v, at, expires) ==   \* fault: both events numbered alike
  LET restarted == NextEvent(s, v.worker, v.task, at, "Restarted")
  IN <<TaskLeased(v.task, v.worker, at, expires), EventAppended(restarted),
       EventAppended([restarted EXCEPT !.payload = "Running"]),
       HeartbeatRecord(v.worker, at)>>

RestartRecords(s, v, at, expires) ==
  LET restarted == NextEvent(s, v.worker, v.task, at, "Restarted")
      running == [restarted EXCEPT !.seq = @ + 1, !.payload = "Running"]
  IN <<TaskLeased(v.task, v.worker, at, expires),
       EventAppended(restarted), EventAppended(running),
       HeartbeatRecord(v.worker, at)>>

(* cancel_task_if_active: expected is NoWorker for a run-wide stop, and the *)
(* one live worker an operator interrupts otherwise.                        *)
CanCancel(s, t, expected) ==
  /\ IsOpen(s, t)
  /\ expected # NoWorker => HoldsLease(s, t, expected)

CancelRecords(s, t, at) ==
  LET w == s.tasks[t].leased_to IN
  IF w = NoWorker
  THEN <<TaskCompletedOrFailed(t, NoWorker, at, "Cancelled")>>
  ELSE LET interrupted == NextEvent(s, w, t, at, "Interrupted")
           cancelled == [interrupted EXCEPT !.seq = @ + 1,
                                            !.payload = "Cancelled"]
       IN <<EventAppended(interrupted), EventAppended(cancelled)>>

(* record_failed_attempt_alert_once *)
CanAlert(s, t, w, attempts, channel) ==
  /\ s.tasks[t].status = "Failed"
  /\ s.tasks[t].leased_to = w
  /\ s.tasks[t].attempts = attempts
  /\ [task |-> t, attempt |-> attempts, channel |-> channel] \notin s.alerts

AlertRecords(s, t, w, attempts, channel, at) ==
  <<AlertSent(t, channel, w, attempts, s.latest_seq[w][t] + 1, at)>>
=============================================================================
