-------------------------- MODULE FleetLedgerProofs -------------------------
(***************************************************************************)
(* Proofs about FleetLedger, for every set of runs, tasks, workers and     *)
(* clients and every bound: types, the exclusive lease of a worker, the    *)
(* numbering of events, what stands beside the outcome of a task, what     *)
(* readers see of it, that FleetLedger implements TaskAttempts, and        *)
(* decisions on old snapshots.                                             *)
(*                                                                         *)
(* All but the first two rest on one invariant, LedgerInv, about the batch *)
(* that a writer has under way and the state it was computed from.         *)
(***************************************************************************)
EXTENDS FleetLedger, TLAPS

(***************************************************************************)
(* apply_record maps ledger states to ledger states.                       *)
(***************************************************************************)
(* Updating one task by a well-typed task state keeps the state typed. *)
LEMMA TaskUpdateType ==
  ASSUME NEW s \in States, NEW t \in Tasks, NEW ts \in TaskStates
  PROVE  [s EXCEPT !.tasks[t] = ts] \in States
BY DEF States

(* A terminal outcome keeps the state typed. *)
LEMMA MarkTaskTerminalType ==
  ASSUME NEW s \in States, NEW t \in Tasks, NEW w \in Workers \cup {NoWorker},
         NEW at \in Nat, NEW status \in TerminalStatuses
  PROVE  MarkTaskTerminal(s, t, w, at, status) \in States
<1> DEFINE old == s.tasks[t]
           seq == IF old.status = status THEN old.lifecycle_seq
                  ELSE old.lifecycle_seq + 1
           owner == IF w = NoWorker THEN old.leased_to ELSE w
           new == [old EXCEPT !.status = status, !.lifecycle_seq = seq,
                              !.leased_to = owner, !.completed_at = at]
<1>1. old \in TaskStates
  BY DEF States
<1>2. seq \in Nat /\ owner \in Workers \cup {NoWorker}
  BY <1>1 DEF TaskStates
<1>3. status \in TaskLedgerStatuses
  BY DEF TaskLedgerStatuses, TerminalStatuses
<1>4. MarkTaskTerminal(s, t, w, at, status) =
        IF old.status = "Absent" THEN s ELSE [s EXCEPT !.tasks[t] = new]
  BY DEF MarkTaskTerminal
<1>5. new \in TaskStates
  <2> HIDE DEF old, seq, owner
  <2> QED
    BY <1>1, <1>2, <1>3 DEF TaskStates
<1> HIDE DEF new
<1> QED
  BY <1>4, <1>5, TaskUpdateType

(* A lease keeps the state typed. *)
LEMMA ApplyLeaseType ==
  ASSUME NEW s \in States, NEW r \in Records, r.kind = "TaskLeased"
  PROVE  ApplyLease(s, r) \in States
<1> DEFINE old == s.tasks[r.task]
           same == /\ old.status = "Leased"
                   /\ old.leased_to = r.worker
                   /\ old.leased_at = r.leased_at
           seq == IF same THEN old.lifecycle_seq ELSE old.lifecycle_seq + 1
           attempts == old.attempts + 1
           new == [old EXCEPT !.lifecycle_seq = seq,
                              !.status = "Leased",
                              !.leased_to = r.worker,
                              !.leased_at = r.leased_at,
                              !.lease_deadline = r.lease_expires_at,
                              !.attempts = attempts]
<1>1. /\ r.task \in Tasks /\ r.worker \in Workers
      /\ r.leased_at \in Nat /\ r.lease_expires_at \in Nat
  BY DEF Records
<1>2. old \in TaskStates
  BY <1>1 DEF States
<1>3. seq \in Nat /\ attempts \in Nat
  BY <1>2 DEF TaskStates
<1>4. ApplyLease(s, r) =
        IF old.status = "Absent" THEN s ELSE [s EXCEPT !.tasks[r.task] = new]
  BY DEF ApplyLease
<1>5. new \in TaskStates
  <2> HIDE DEF old, seq, attempts
  <2> QED
    BY <1>1, <1>2, <1>3 DEF TaskStates, TaskLedgerStatuses
<1> HIDE DEF new
<1> QED
  BY <1>1, <1>4, <1>5, TaskUpdateType

(* Enqueueing keeps the state typed. *)
LEMMA ApplyEnqueueType ==
  ASSUME NEW s \in States, NEW t \in Tasks
  PROVE  ApplyEnqueue(s, t) \in States
<1> DEFINE new == [NoTask EXCEPT !.status = "Enqueued", !.lifecycle_seq = 1]
<1>1. new \in TaskStates
  BY DEF NoTask, TaskStates, TaskLedgerStatuses, Never
<1>2. ApplyEnqueue(s, t) =
        IF s.tasks[t].status # "Absent" THEN s ELSE [s EXCEPT !.tasks[t] = new]
  BY DEF ApplyEnqueue
<1> HIDE DEF new
<1> QED
  BY <1>1, <1>2, TaskUpdateType

(* The sequence and worker bookkeeping of an event keeps the state typed. *)
LEMMA EventLogType ==
  ASSUME NEW s \in States, NEW w \in Workers, NEW t \in Tasks, NEW seq \in Nat,
         NEW payload \in Payloads \cup {"None"}, NEW status \in WorkerStatuses
  PROVE  [s EXCEPT !.latest_seq[w][t] = seq,
                   !.latest_payload[w][t] = payload,
                   !.workers[w] = status] \in States
BY DEF States

(* An event keeps the state typed. *)
LEMMA ApplyEventType ==
  ASSUME NEW s \in States, NEW e \in Events
  PROVE  ApplyEvent(s, e) \in States
<1> DEFINE w == e.worker
           t == e.task
           late == RegressesTerminalState(s, e)
           newer == e.seq > s.latest_seq[w][t]
           seq == IF newer THEN e.seq ELSE s.latest_seq[w][t]
           payload == IF newer /\ ~late THEN e.payload ELSE s.latest_payload[w][t]
           status == IF late THEN s.workers[w]
                     ELSE WorkerStatusAfter(e.payload, s.workers[w])
           logged == [s EXCEPT !.latest_seq[w][t] = seq,
                               !.latest_payload[w][t] = payload,
                               !.workers[w] = status]
<1>1. /\ w \in Workers /\ t \in Tasks /\ e.seq \in Nat
      /\ e.payload \in Payloads /\ e.timestamp \in Nat
  BY DEF Events
<1>2. /\ s.latest_seq[w][t] \in Nat
      /\ s.latest_payload[w][t] \in Payloads \cup {"None"}
      /\ s.workers[w] \in WorkerStatuses
  BY <1>1 DEF States
<1>3. status \in WorkerStatuses
  BY <1>2 DEF WorkerStatusAfter, WorkerStatuses
<1>4. seq \in Nat /\ payload \in Payloads \cup {"None"}
  BY <1>1, <1>2
<1>5. logged \in States
  <2> HIDE DEF w, t, seq, payload, status
  <2> QED
    BY <1>1, <1>3, <1>4, EventLogType
<1>6. ApplyEvent(s, e) = IF e.payload \in TerminalPayloads
                         THEN MarkTaskTerminal(logged, t, w, e.timestamp, e.payload)
                         ELSE logged
  BY DEF ApplyEvent
<1> HIDE DEF logged, w, t
<1> QED
  BY <1>1, <1>5, <1>6, MarkTaskTerminalType DEF TerminalPayloads

(* Recording a receipt keeps the state typed. *)
LEMMA ReceiptUpdateType ==
  ASSUME NEW s \in States, NEW t \in Tasks, NEW receipt \in Receipts
  PROVE  [s EXCEPT !.receipts[t] = receipt] \in States
BY DEF States

(* A finalized attempt keeps the state typed. *)
LEMMA ApplyFinalizedType ==
  ASSUME NEW s \in States, NEW r \in Records, r.kind = "TaskAttemptFinalized"
  PROVE  ApplyFinalized(s, r) \in States
<1> DEFINE finished == ApplyEvent(s, r.event)
           settled == IF r.final_status = "None" THEN finished
                      ELSE MarkTaskTerminal(finished, r.event.task, r.event.worker,
                                            r.event.timestamp, r.final_status)
<1>1. /\ r.event \in Events /\ r.receipt \in Receipts
      /\ r.final_status \in TerminalStatuses \cup {"None"}
  BY DEF Records
<1>2. /\ r.event.task \in Tasks /\ r.event.worker \in Workers
      /\ r.event.timestamp \in Nat
  BY <1>1 DEF Events
<1>3. finished \in States
  BY <1>1, ApplyEventType
<1>4. settled \in States
  <2> HIDE DEF finished
  <2> QED
    BY <1>1, <1>2, <1>3, MarkTaskTerminalType
<1>5. ApplyFinalized(s, r) = [settled EXCEPT !.receipts[r.event.task] = r.receipt]
  BY DEF ApplyFinalized
<1> HIDE DEF settled
<1> QED
  BY <1>1, <1>2, <1>4, <1>5, ReceiptUpdateType

(* An alert keeps the state typed. *)
LEMMA ApplyAlertType ==
  ASSUME NEW s \in States, NEW r \in Records, r.kind = "AlertSent"
  PROVE  ApplyAlert(s, r) \in States
<1> DEFINE alert == [task |-> r.task, attempt |-> r.attempt, channel |-> r.channel]
           escalated == [worker |-> r.worker, task |-> r.task, seq |-> r.seq,
                         payload |-> "Escalated", timestamp |-> r.timestamp]
           noted == [s EXCEPT !.alerts = @ \cup {alert}]
<1>1. /\ r.task \in Tasks /\ r.channel \in Channels /\ r.worker \in Workers
      /\ r.attempt \in Nat /\ r.seq \in Nat /\ r.timestamp \in Nat
  BY DEF Records
<1>2. alert \in Alerts /\ escalated \in Events
  BY <1>1 DEF Alerts, Events, Payloads
<1>3. noted \in States
  BY <1>2 DEF States
<1>4. ApplyAlert(s, r) = IF alert \in s.alerts THEN s ELSE ApplyEvent(noted, escalated)
  BY DEF ApplyAlert
<1> HIDE DEF noted, escalated, alert
<1> QED
  BY <1>2, <1>3, <1>4, ApplyEventType

(* A heartbeat keeps the state typed. *)
LEMMA ApplyHeartbeatType ==
  ASSUME NEW s \in States, NEW r \in Records, r.kind = "Heartbeat"
  PROVE  ApplyHeartbeat(s, r) \in States
<1>1. r.worker \in Workers /\ r.timestamp \in Nat
  BY DEF Records
<1> QED
  BY <1>1 DEF ApplyHeartbeat, States, WorkerStatuses

(* Folding any record into a ledger state gives a ledger state. *)
LEMMA ApplyRecordType ==
  ASSUME NEW s \in States, NEW r \in Records
  PROVE  apply_record(s, r) \in States
<1>1. CASE r.kind = "RunCreated"
  <2>1. r.run \in Runs
    BY <1>1 DEF Records
  <2> QED
    BY <1>1, <2>1 DEF apply_record, States
<1>2. CASE r.kind = "RunStatusChanged"
  <2>1. r.run \in Runs /\ r.status \in RunStatuses
    BY <1>2 DEF Records
  <2> QED
    BY <1>2, <2>1 DEF apply_record, States
<1>3. CASE r.kind = "TaskEnqueued"
  <2>1. r.task \in Tasks
    BY <1>3 DEF Records
  <2> QED
    BY <1>3, <2>1, ApplyEnqueueType DEF apply_record
<1>4. CASE r.kind = "TaskLeased"
  BY <1>4, ApplyLeaseType DEF apply_record
<1>5. CASE r.kind = "TaskCompletedOrFailed"
  <2>1. /\ r.task \in Tasks /\ r.worker \in Workers \cup {NoWorker}
        /\ r.timestamp \in Nat /\ r.status \in TerminalStatuses
    BY <1>5 DEF Records
  <2> QED
    BY <1>5, <2>1, MarkTaskTerminalType DEF apply_record
<1>6. CASE r.kind = "EventAppended"
  <2>1. r.event \in Events
    BY <1>6 DEF Records
  <2> QED
    BY <1>6, <2>1, ApplyEventType DEF apply_record
<1>7. CASE r.kind = "TaskAttemptFinalized"
  BY <1>7, ApplyFinalizedType DEF apply_record
<1>8. CASE r.kind = "Heartbeat"
  BY <1>8, ApplyHeartbeatType DEF apply_record
<1>9. CASE r.kind = "AlertSent"
  BY <1>9, ApplyAlertType DEF apply_record
<1>10. r.kind \in {"RunCreated", "RunStatusChanged", "TaskEnqueued", "TaskLeased",
                   "TaskCompletedOrFailed", "EventAppended",
                   "TaskAttemptFinalized", "Heartbeat", "AlertSent"}
  BY DEF Records
<1> QED
  BY <1>1, <1>2, <1>3, <1>4, <1>5, <1>6, <1>7, <1>8, <1>9, <1>10

(***************************************************************************)
(* Type correctness.                                                       *)
(***************************************************************************)
(* The next event of a key is an event. *)
LEMMA NextEventType ==
  ASSUME NEW s \in States, NEW w \in Workers, NEW t \in Tasks, NEW at \in Nat,
         NEW payload \in Payloads
  PROVE  /\ NextEvent(s, w, t, at, payload) \in Events
         /\ \A q \in Nat : [NextEvent(s, w, t, at, payload) EXCEPT !.seq = q] \in Events
<1>1. s.latest_seq[w][t] \in Nat
  BY DEF States
<1> QED
  BY <1>1 DEF NextEvent, Events

(* The batch that starts a task is a sequence of records. *)
LEMMA StartRecordsType ==
  ASSUME NEW s \in States, NEW t \in Tasks, NEW w \in Workers, NEW at \in Nat
  PROVE  StartRecords(s, t, w, at, InitialEvents) \in Seq(Records)
<1> DEFINE n == Len(InitialEvents)
           event(i) == [NextEvent(s, w, t, at, InitialEvents[i])
                          EXCEPT !.seq = s.latest_seq[w][t] + i]
           events == [i \in 1..n |-> EventAppended(event(i))]
<1>1. n \in Nat /\ \A i \in 1..n : InitialEvents[i] \in Payloads
  BY InitialEventsAssumption DEF Payloads
<1>2. s.latest_seq[w][t] \in Nat
  BY DEF States
<1>3. ASSUME NEW i \in 1..n PROVE event(i) \in Events
  <2>1. InitialEvents[i] \in Payloads /\ s.latest_seq[w][t] + i \in Nat
    BY <1>1, <1>2
  <2> DEFINE payload == InitialEvents[i]
             q == s.latest_seq[w][t] + i
  <2> HIDE DEF payload, q
  <2>2. [NextEvent(s, w, t, at, payload) EXCEPT !.seq = q] \in Events
    BY <2>1, NextEventType DEF payload, q
  <2> QED
    BY <2>2 DEF payload, q
<1> HIDE DEF event
<1>4. \A i \in 1..n : EventAppended(event(i)) \in Records
  BY <1>3 DEF EventAppended, Records
<1>5. events \in Seq(Records)
  BY <1>1, <1>4
<1>6. TaskLeased(t, w, at, Never) \in Records
  BY DEF TaskLeased, Records, Never
<1>7. HeartbeatRecord(w, at) \in Records
  BY DEF HeartbeatRecord, Records
<1>8. StartRecords(s, t, w, at, InitialEvents) =
        <<TaskLeased(t, w, at, Never)>> \o events \o <<HeartbeatRecord(w, at)>>
  BY DEF StartRecords, event
<1> HIDE DEF events
<1> QED
  BY <1>5, <1>6, <1>7, <1>8

(* A single event is a batch of one record. *)
LEMMA EventRecordsType ==
  ASSUME NEW s \in States, NEW t \in Tasks, NEW w \in Workers, NEW at \in Nat,
         NEW payload \in Payloads
  PROVE  EventRecords(s, t, w, at, payload) \in Seq(Records)
<1> DEFINE e == NextEvent(s, w, t, at, payload)
<1>1. e \in Events
  BY NextEventType
<1> HIDE DEF e
<1>2. EventAppended(e) \in Records
  BY <1>1 DEF EventAppended, Records
<1> QED
  BY <1>2 DEF EventRecords, e

(* Finalization is a batch of one record. *)
LEMMA FinalizeRecordsType ==
  ASSUME NEW s \in States, NEW t \in Tasks, NEW w \in Workers, NEW attempts \in Nat,
         NEW at \in Nat, NEW payload \in TerminalStatuses,
         NEW final_status \in TerminalStatuses \cup {"None"}
  PROVE  FinalizeRecords(s, t, w, attempts, at, payload, final_status) \in Seq(Records)
<1> DEFINE e == NextEvent(s, w, t, at, payload)
           receipt == [attempt |-> attempts, terminal_seq |-> e.seq]
<1>1. e \in Events
  BY NextEventType DEF Payloads, TerminalPayloads
<1>2. receipt \in Receipts
  <2>1. e.seq \in Nat
    BY <1>1 DEF Events
  <2> HIDE DEF e
  <2> QED
    BY <2>1 DEF Receipts
<1> HIDE DEF e, receipt
<1>3. TaskAttemptFinalized(e, final_status, receipt) \in Records
  BY <1>1, <1>2 DEF TaskAttemptFinalized, Records
<1> QED
  BY <1>3 DEF FinalizeRecords, e, receipt

(* The event after an event is an event. *)
LEMMA FollowingEventType ==
  ASSUME NEW e \in Events, NEW payload \in Payloads
  PROVE  [e EXCEPT !.seq = @ + 1, !.payload = payload] \in Events
<1> DEFINE q == e.seq + 1
<1>1. q \in Nat
  BY DEF Events
<1> HIDE DEF q
<1>2. [e EXCEPT !.seq = q, !.payload = payload] \in Events
  BY <1>1 DEF Events
<1> QED
  BY <1>2 DEF q

(* A restart is a lease, two events and a heartbeat. *)
LEMMA RestartRecordsType ==
  ASSUME NEW s \in States, NEW v \in Versions, NEW at \in Nat
  PROVE  RestartRecords(s, v, at, Never) \in Seq(Records)
<1> DEFINE restarted == NextEvent(s, v.worker, v.task, at, "Restarted")
           running == [restarted EXCEPT !.seq = @ + 1, !.payload = "Running"]
<1>1. v.task \in Tasks /\ v.worker \in Workers
  BY DEF Versions
<1>2. restarted \in Events
  BY <1>1, NextEventType DEF Payloads, ProgressPayloads, BusyPayloads
<1>3. running \in Events
  <2>1. "Running" \in Payloads
    BY DEF Payloads, ProgressPayloads, BusyPayloads
  <2> HIDE DEF restarted
  <2> QED
    BY <1>2, <2>1, FollowingEventType
<1> HIDE DEF restarted, running
<1>4. EventAppended(restarted) \in Records /\ EventAppended(running) \in Records
  BY <1>2, <1>3 DEF EventAppended, Records
<1>5. TaskLeased(v.task, v.worker, at, Never) \in Records
  BY <1>1 DEF TaskLeased, Records, Never
<1>6. HeartbeatRecord(v.worker, at) \in Records
  BY <1>1 DEF HeartbeatRecord, Records
<1> QED
  BY <1>4, <1>5, <1>6 DEF RestartRecords, restarted, running

(* A cancellation is one terminal record, or an interruption and its end. *)
LEMMA CancelRecordsType ==
  ASSUME NEW s \in States, NEW t \in Tasks, NEW at \in Nat
  PROVE  CancelRecords(s, t, at) \in Seq(Records)
<1> DEFINE w == s.tasks[t].leased_to
           interrupted == NextEvent(s, w, t, at, "Interrupted")
           cancelled == [interrupted EXCEPT !.seq = @ + 1, !.payload = "Cancelled"]
<1>1. w \in Workers \cup {NoWorker}
  BY DEF States, TaskStates
<1>2. CASE w = NoWorker
  <2>1. TaskCompletedOrFailed(t, NoWorker, at, "Cancelled") \in Records
    BY DEF TaskCompletedOrFailed, Records, TerminalStatuses
  <2> QED
    BY <1>2, <2>1 DEF CancelRecords
<1>3. CASE w # NoWorker
  <2>1. w \in Workers
    BY <1>1, <1>3
  <2>2. interrupted \in Events
    <3> HIDE DEF w
    <3> QED
      BY <2>1, NextEventType DEF Payloads, ProgressPayloads
  <2>3. cancelled \in Events
    <3>1. "Cancelled" \in Payloads
      BY DEF Payloads, TerminalPayloads, TerminalStatuses
    <3> HIDE DEF interrupted
    <3> QED
      BY <2>2, <3>1, FollowingEventType
  <2> HIDE DEF interrupted, cancelled
  <2>4. EventAppended(interrupted) \in Records /\ EventAppended(cancelled) \in Records
    BY <2>2, <2>3 DEF EventAppended, Records
  <2> QED
    BY <1>3, <2>4 DEF CancelRecords, interrupted, cancelled
<1> QED
  BY <1>2, <1>3

(* An alert is a batch of one record. *)
LEMMA AlertRecordsType ==
  ASSUME NEW s \in States, NEW t \in Tasks, NEW w \in Workers, NEW attempts \in Nat,
         NEW channel \in Channels, NEW at \in Nat
  PROVE  AlertRecords(s, t, w, attempts, channel, at) \in Seq(Records)
<1>1. s.latest_seq[w][t] + 1 \in Nat
  BY DEF States
<1>2. AlertSent(t, channel, w, attempts, s.latest_seq[w][t] + 1, at) \in Records
  BY <1>1 DEF AlertSent, Records
<1> QED
  BY <1>2 DEF AlertRecords

(* A snapshot of a task a worker holds or held is a version. *)
LEMMA VersionOfType ==
  ASSUME NEW s \in States, NEW t \in Tasks, s.tasks[t].status # "Absent",
         s.tasks[t].leased_to # NoWorker
  PROVE  VersionOf(s, t) \in Versions
<1>1. s.tasks[t] \in TaskStates
  BY DEF States
<1>2. s.tasks[t].leased_to \in Workers
  BY <1>1 DEF TaskStates
<1> QED
  BY <1>1, <1>2 DEF VersionOf, Versions, States, TaskStates

(* Nothing has happened in a fresh ledger. *)
LEMMA InitType == Init => TypeOK
<1> SUFFICES ASSUME Init PROVE TypeOK
  OBVIOUS
<1>1. NoTask \in TaskStates
  BY DEF NoTask, TaskStates, TaskLedgerStatuses, Never
<1>2. NoReceipt \in Receipts
  BY DEF NoReceipt, Receipts
<1>3. EmptyState \in States
  BY <1>1, <1>2 DEF EmptyState, States, RunStatuses, WorkerStatuses, Never
<1> QED
  BY <1>3 DEF Init, TypeOK

(* Taking the lock with a typed batch keeps the variables typed. *)
LEMMA WriteType ==
  ASSUME TypeOK, NEW c \in Clients \cup {Nobody}, NEW records \in Seq(Records),
         Write(c, records), seen' \in [Clients -> Versions \cup {NoVersion}],
         UNCHANGED missed
  PROVE  TypeOK'
BY DEF Write, TypeOK

(* A decision that has been taken is a version. *)
LEMMA SeenType ==
  ASSUME TypeOK, NEW c \in Clients, seen[c] # NoVersion
  PROVE  /\ seen[c] \in Versions
         /\ seen[c].task \in Tasks
         /\ seen[c].worker \in Workers
         /\ seen[c].seq \in Nat
<1>1. seen[c] \in Versions
  BY DEF TypeOK
<1> QED
  BY <1>1 DEF Versions

(* Moving a decision past the client's own event keeps it a version. *)
LEMMA NextVersionType ==
  ASSUME NEW v \in Versions
  PROVE  [v EXCEPT !.seq = @ + 1] \in Versions
<1> DEFINE q == v.seq + 1
<1>1. q \in Nat
  BY DEF Versions
<1> HIDE DEF q
<1>2. [v EXCEPT !.seq = q] \in Versions
  BY <1>1 DEF Versions
<1> QED
  BY <1>2 DEF q

(* Every step keeps the variables typed. *)
LEMMA NextType == TypeOK /\ [Next]_vars => TypeOK'
<1> SUFFICES ASSUME TypeOK, [Next]_vars PROVE TypeOK'
  OBVIOUS
<1> USE DEF WriteUnseen
<1>0. /\ state \in States /\ batch \in Seq(Records) /\ now \in Nat
      /\ writer \in Clients \cup {Nobody}
      /\ seen \in [Clients -> Versions \cup {NoVersion}]
      /\ missed \in [Clients -> SUBSET {"Heartbeat", "Task"}]
  BY DEF TypeOK
<1>at. \A at \in Timestamps : at \in Nat
  BY <1>0 DEF Timestamps
<1>1. CASE Produce
  <2>1. ASSUME NEW r \in Runs, CreateRun(r) PROVE TypeOK'
    <3>1. <<RunCreated(r)>> \in Seq(Records)
      <4>1. RunCreated(r) \in Records
        BY DEF RunCreated, Records
      <4> QED
        BY <4>1
    <3> QED
      BY <1>0, <2>1, <3>1, WriteType DEF CreateRun
  <2>2. ASSUME NEW t \in Tasks, Enqueue(t) PROVE TypeOK'
    <3>1. <<TaskEnqueued(t)>> \in Seq(Records)
      <4>1. TaskEnqueued(t) \in Records
        BY DEF TaskEnqueued, Records
      <4> QED
        BY <4>1
    <3> QED
      BY <1>0, <2>2, <3>1, WriteType DEF Enqueue
  <2> QED
    BY <1>1, <2>1, <2>2 DEF Produce
<1>2. CASE Execute
  <2> SUFFICES ASSUME NEW t \in Tasks, NEW w \in Workers, NEW at \in Timestamps,
                      \/ StartTask(t, w, at)
                      \/ ClaimNext(t, w, at)
                      \/ LateProgress(t, w, at)
                      \/ \E k \in 1..MaxAttempts :
                           \/ Progress(t, w, k, at)
                           \/ \E outcome \in TerminalStatuses,
                                 verdict \in {"None", "Failed"} :
                                outcome # verdict
                                  /\ Finalize(t, w, k, at, outcome, verdict)
                           \/ \E channel \in Channels : Alert(t, w, k, channel, at)
               PROVE  TypeOK'
    BY <1>2 DEF Execute
  <2>at. at \in Nat
    BY <1>at
  <2>p. "Running" \in Payloads
    BY DEF Payloads, ProgressPayloads, BusyPayloads
  <2>1. CASE StartTask(t, w, at)
    BY <1>0, <2>1, <2>at, StartRecordsType, WriteType DEF StartTask
  <2>2. CASE ClaimNext(t, w, at)
    <3>1. <<TaskLeased(t, w, at, Never)>> \in Seq(Records)
      <4>1. TaskLeased(t, w, at, Never) \in Records
        BY <2>at DEF TaskLeased, Records, Never
      <4> QED
        BY <4>1
    <3> QED
      BY <1>0, <2>2, <3>1, WriteType DEF ClaimNext
  <2>3. CASE LateProgress(t, w, at)
    BY <1>0, <2>3, <2>at, <2>p, EventRecordsType, WriteType DEF LateProgress
  <2>4. ASSUME NEW k \in 1..MaxAttempts, Progress(t, w, k, at) PROVE TypeOK'
    BY <1>0, <2>4, <2>at, <2>p, EventRecordsType, WriteType DEF Progress
  <2>5. ASSUME NEW k \in 1..MaxAttempts, NEW outcome \in TerminalStatuses,
               NEW verdict \in {"None", "Failed"},
               Finalize(t, w, k, at, outcome, verdict)
        PROVE  TypeOK'
    <3>1. verdict \in TerminalStatuses \cup {"None"} /\ k \in Nat
      BY BoundsAssumption DEF TerminalStatuses
    <3>2. FinalizeRecords(state, t, w, k, at, outcome, verdict) \in Seq(Records)
      BY <1>0, <2>at, <3>1, FinalizeRecordsType
    <3> QED
      BY <1>0, <2>5, <3>2, WriteType DEF Finalize
  <2>6. ASSUME NEW k \in 1..MaxAttempts, NEW channel \in Channels,
               Alert(t, w, k, channel, at)
        PROVE  TypeOK'
    <3>1. k \in Nat
      BY BoundsAssumption
    <3>2. AlertRecords(state, t, w, k, channel, at) \in Seq(Records)
      BY <1>0, <2>at, <3>1, AlertRecordsType
    <3> QED
      BY <1>0, <2>6, <3>2, WriteType DEF Alert
  <2> QED
    BY <2>1, <2>2, <2>3, <2>4, <2>5, <2>6
<1>3. CASE Operate
  <2>1. ASSUME NEW at \in Timestamps, NEW w \in Workers, Heartbeat(w, at)
        PROVE  TypeOK'
    <3>1. <<HeartbeatRecord(w, at)>> \in Seq(Records)
      <4>1. HeartbeatRecord(w, at) \in Records
        BY <1>at DEF HeartbeatRecord, Records
      <4> QED
        BY <4>1
    <3> QED
      BY <1>0, <2>1, <3>1, WriteType DEF Heartbeat
  <2>2. ASSUME NEW at \in Timestamps, NEW t \in Tasks,
               NEW expected \in Workers \cup {NoWorker}, Cancel(t, expected, at)
        PROVE  TypeOK'
    BY <1>0, <1>at, <2>2, CancelRecordsType, WriteType DEF Cancel
  <2> QED
    BY <1>3, <2>1, <2>2 DEF Operate
<1>4. CASE Decide
  <2>1. ASSUME NEW c \in Clients, NEW t \in Tasks, Observe(c, t) PROVE TypeOK'
    <3>1. VersionOf(state, t) \in Versions
      BY <1>0, <2>1, VersionOfType DEF Observe
    <3> QED
      BY <1>0, <2>1, <3>1 DEF Observe, TypeOK
  <2>2. ASSUME NEW c \in Clients, NEW at \in Timestamps, Restart(c, at) PROVE TypeOK'
    <3>1. RestartRecords(state, seen[c], at, Never) \in Seq(Records)
      BY <1>0, <1>at, <2>2, SeenType, RestartRecordsType DEF Restart
    <3> QED
      BY <1>0, <2>2, <3>1, WriteType DEF Restart, WriteSeen
  <2>3. ASSUME NEW c \in Clients, NEW at \in Timestamps, MarkStale(c, at) PROVE TypeOK'
    <3>1. "Stale" \in Payloads
      BY DEF Payloads, ProgressPayloads
    <3>2. EventRecords(state, seen[c].task, seen[c].worker, at, "Stale") \in Seq(Records)
      BY <1>0, <1>at, <2>3, <3>1, SeenType, EventRecordsType DEF MarkStale
    <3>3. seen' \in [Clients -> Versions \cup {NoVersion}]
      BY <1>0, <2>3, SeenType, NextVersionType DEF MarkStale
    <3> QED
      BY <1>0, <2>3, <3>2, <3>3, WriteType DEF MarkStale
  <2>4. ASSUME NEW c \in Clients, NEW at \in Timestamps, FailExhausted(c, at)
        PROVE  TypeOK'
    <3>1. "Failed" \in Payloads
      BY DEF Payloads, TerminalPayloads, TerminalStatuses
    <3>2. EventRecords(state, seen[c].task, seen[c].worker, at, "Failed") \in Seq(Records)
      BY <1>0, <1>at, <2>4, <3>1, SeenType, EventRecordsType DEF FailExhausted
    <3> QED
      BY <1>0, <2>4, <3>2, WriteType DEF FailExhausted, WriteSeen
  <2> QED
    BY <1>4, <2>1, <2>2, <2>3, <2>4 DEF Decide
<1>5. CASE Persist
  <2>1. batch # <<>> /\ Head(batch) \in Records /\ Tail(batch) \in Seq(Records)
    BY <1>0, <1>5 DEF Persist
  <2>2. state' \in States
    BY <1>0, <1>5, <2>1, ApplyRecordType DEF Persist
  <2>3. \A c \in Clients :
          NewsFor(Head(batch), seen[c].task, seen[c].worker)
            \in SUBSET {"Heartbeat", "Task"}
    BY DEF NewsFor
  <2>4. missed' \in [Clients -> SUBSET {"Heartbeat", "Task"}]
    BY <1>0, <1>5, <2>3 DEF Persist
  <2> QED
    BY <1>0, <1>5, <2>1, <2>2, <2>4 DEF Persist, TypeOK
<1>6. CASE Cut
  BY <1>0, <1>6 DEF Cut, TypeOK
<1>7. CASE Tick
  BY <1>0, <1>7 DEF Tick, TypeOK
<1>8. CASE UNCHANGED vars
  BY <1>0, <1>8 DEF vars, TypeOK
<1> QED
  BY <1>1, <1>2, <1>3, <1>4, <1>5, <1>6, <1>7, <1>8 DEF Next

(* For every number of processes, tasks and workers, every record a         *)
(* transaction appends and every state a reader rebuilds is well formed:    *)
(* no sequence of cut batches leads the fold of apply_record outside the    *)
(* states the code's types describe.                                        *)
THEOREM TypeCorrect == Spec => []TypeOK
<1> QED
  BY InitType, NextType, PTL DEF Spec

(***************************************************************************)
(* Mutual exclusion of workers.                                            *)
(***************************************************************************)
(* A terminal outcome gives no worker a lease. *)
LEMMA MarkTaskTerminalLeases ==
  ASSUME NEW s \in States, NEW t \in Tasks, NEW w \in Workers \cup {NoWorker},
         NEW at \in Nat, NEW status \in TerminalStatuses,
         NEW u \in Tasks, NEW v \in Workers,
         HoldsLease(MarkTaskTerminal(s, t, w, at, status), u, v)
  PROVE  HoldsLease(s, u, v)
<1>1. CASE s.tasks[t].status = "Absent"
  BY <1>1 DEF MarkTaskTerminal
<1>2. CASE s.tasks[t].status # "Absent"
  <2> DEFINE new == MarkTaskTerminal(s, t, w, at, status)
  <2>1. new.tasks[t].status = status /\ \A x \in Tasks \ {t} : new.tasks[x] = s.tasks[x]
    BY <1>2 DEF MarkTaskTerminal, States, TaskStates
  <2>2. status # "Leased"
    BY DEF TerminalStatuses
  <2> HIDE DEF new
  <2>3. HoldsLease(new, u, v)
    BY DEF new
  <2> QED
    BY <2>1, <2>2, <2>3 DEF HoldsLease
<1> QED
  BY <1>1, <1>2

(* An event gives no worker a lease. *)
LEMMA ApplyEventLeases ==
  ASSUME NEW s \in States, NEW e \in Events, NEW u \in Tasks, NEW v \in Workers,
         HoldsLease(ApplyEvent(s, e), u, v)
  PROVE  HoldsLease(s, u, v)
<1> DEFINE w == e.worker
           t == e.task
           late == RegressesTerminalState(s, e)
           newer == e.seq > s.latest_seq[w][t]
           seq == IF newer THEN e.seq ELSE s.latest_seq[w][t]
           payload == IF newer /\ ~late THEN e.payload ELSE s.latest_payload[w][t]
           status == IF late THEN s.workers[w]
                     ELSE WorkerStatusAfter(e.payload, s.workers[w])
           logged == [s EXCEPT !.latest_seq[w][t] = seq,
                               !.latest_payload[w][t] = payload,
                               !.workers[w] = status]
<1>1. /\ w \in Workers /\ t \in Tasks /\ e.seq \in Nat
      /\ e.payload \in Payloads /\ e.timestamp \in Nat
  BY DEF Events
<1>2. /\ s.latest_seq[w][t] \in Nat
      /\ s.latest_payload[w][t] \in Payloads \cup {"None"}
      /\ s.workers[w] \in WorkerStatuses
  BY <1>1 DEF States
<1>3. status \in WorkerStatuses
  BY <1>2 DEF WorkerStatusAfter, WorkerStatuses
<1>4. seq \in Nat /\ payload \in Payloads \cup {"None"}
  BY <1>1, <1>2
<1>5. ApplyEvent(s, e) = IF e.payload \in TerminalPayloads
                         THEN MarkTaskTerminal(logged, t, w, e.timestamp, e.payload)
                         ELSE logged
  BY DEF ApplyEvent
<1>6. logged \in States /\ logged.tasks = s.tasks
  <2> HIDE DEF w, t, seq, payload, status
  <2>1. logged \in States
    BY <1>1, <1>3, <1>4, EventLogType
  <2>2. logged.tasks = s.tasks
    BY DEF States
  <2> QED
    BY <2>1, <2>2
<1> HIDE DEF logged, w, t
<1>7. HoldsLease(logged, u, v)
  <2>1. CASE e.payload \in TerminalPayloads
    BY <1>1, <1>5, <1>6, <2>1, MarkTaskTerminalLeases DEF TerminalPayloads
  <2>2. CASE e.payload \notin TerminalPayloads
    BY <1>5, <2>2
  <2> QED
    BY <2>1, <2>2
<1> QED
  BY <1>6, <1>7 DEF HoldsLease

(* A lease reaches a worker only by the TaskLeased record that names both.  *)
LEMMA LeaseOrigin ==
  ASSUME NEW s \in States, NEW r \in Records, NEW u \in Tasks, NEW v \in Workers,
         HoldsLease(apply_record(s, r), u, v)
  PROVE  \/ HoldsLease(s, u, v)
         \/ r.kind = "TaskLeased" /\ r.task = u /\ r.worker = v
<1>1. CASE r.kind \in {"RunCreated", "RunStatusChanged", "Heartbeat"}
  <2>1. apply_record(s, r).tasks = s.tasks
    BY <1>1 DEF apply_record, ApplyHeartbeat, States
  <2> QED
    BY <2>1 DEF HoldsLease
<1>2. CASE r.kind = "TaskEnqueued"
  <2>1. r.task \in Tasks /\ apply_record(s, r) = ApplyEnqueue(s, r.task)
    BY <1>2 DEF Records, apply_record
  <2> DEFINE new == ApplyEnqueue(s, r.task)
  <2>2. \/ new = s
        \/ new.tasks[r.task].status = "Enqueued"
             /\ \A x \in Tasks \ {r.task} : new.tasks[x] = s.tasks[x]
    BY <2>1 DEF ApplyEnqueue, NoTask, States
  <2> HIDE DEF new
  <2>3. HoldsLease(new, u, v)
    BY <2>1 DEF new
  <2> QED
    BY <2>2, <2>3 DEF HoldsLease
<1>3. CASE r.kind = "TaskLeased"
  <2>1. r.task \in Tasks /\ apply_record(s, r) = ApplyLease(s, r)
    BY <1>3 DEF Records, apply_record
  <2> DEFINE new == ApplyLease(s, r)
  <2>2. \/ new = s
        \/ new.tasks[r.task].leased_to = r.worker
             /\ \A x \in Tasks \ {r.task} : new.tasks[x] = s.tasks[x]
    BY <2>1 DEF ApplyLease, States, TaskStates
  <2> HIDE DEF new
  <2>3. HoldsLease(new, u, v)
    BY <2>1 DEF new
  <2> QED
    BY <1>3, <2>2, <2>3 DEF HoldsLease
<1>4. CASE r.kind = "TaskCompletedOrFailed"
  <2>1. /\ r.task \in Tasks /\ r.worker \in Workers \cup {NoWorker}
        /\ r.timestamp \in Nat /\ r.status \in TerminalStatuses
    BY <1>4 DEF Records
  <2>2. apply_record(s, r) = MarkTaskTerminal(s, r.task, r.worker, r.timestamp, r.status)
    BY <1>4 DEF apply_record
  <2>3. HoldsLease(MarkTaskTerminal(s, r.task, r.worker, r.timestamp, r.status), u, v)
    BY <2>2
  <2>4. HoldsLease(s, u, v)
    <3> HIDE DEF HoldsLease
    <3> QED
      BY <2>1, <2>3, MarkTaskTerminalLeases
  <2> QED
    BY <2>4
<1>5. CASE r.kind = "EventAppended"
  <2>1. r.event \in Events /\ apply_record(s, r) = ApplyEvent(s, r.event)
    BY <1>5 DEF Records, apply_record
  <2> QED
    BY <2>1, ApplyEventLeases
<1>6. CASE r.kind = "TaskAttemptFinalized"
  <2> DEFINE finished == ApplyEvent(s, r.event)
             settled == IF r.final_status = "None" THEN finished
                        ELSE MarkTaskTerminal(finished, r.event.task, r.event.worker,
                                              r.event.timestamp, r.final_status)
  <2>1. /\ r.event \in Events /\ r.receipt \in Receipts
        /\ r.final_status \in TerminalStatuses \cup {"None"}
    BY <1>6 DEF Records
  <2>2. /\ r.event.task \in Tasks /\ r.event.worker \in Workers
        /\ r.event.timestamp \in Nat
    BY <2>1 DEF Events
  <2>3. finished \in States
    BY <2>1, ApplyEventType
  <2>4. settled \in States
    <3> HIDE DEF finished
    <3> QED
      BY <2>1, <2>2, <2>3, MarkTaskTerminalType
  <2>5. apply_record(s, r) = [settled EXCEPT !.receipts[r.event.task] = r.receipt]
    BY <1>6 DEF apply_record, ApplyFinalized
  <2>6. HoldsLease(settled, u, v)
    <3> HIDE DEF settled
    <3>1. apply_record(s, r).tasks = settled.tasks
      BY <2>1, <2>2, <2>4, <2>5 DEF States
    <3> QED
      BY <3>1 DEF HoldsLease
  <2>7. HoldsLease(finished, u, v)
    <3> HIDE DEF finished
    <3>1. CASE r.final_status = "None"
      BY <2>6, <3>1
    <3>2. CASE r.final_status # "None"
      BY <2>1, <2>2, <2>3, <2>6, <3>2, MarkTaskTerminalLeases
    <3> QED
      BY <3>1, <3>2
  <2> QED
    BY <2>1, <2>7, ApplyEventLeases
<1>7. CASE r.kind = "AlertSent"
  <2> DEFINE alert == [task |-> r.task, attempt |-> r.attempt, channel |-> r.channel]
             escalated == [worker |-> r.worker, task |-> r.task, seq |-> r.seq,
                           payload |-> "Escalated", timestamp |-> r.timestamp]
             alerts == s.alerts \cup {alert}
             noted == [s EXCEPT !.alerts = alerts]
  <2>1. /\ r.task \in Tasks /\ r.channel \in Channels /\ r.worker \in Workers
        /\ r.attempt \in Nat /\ r.seq \in Nat /\ r.timestamp \in Nat
    BY <1>7 DEF Records
  <2>2. alert \in Alerts /\ escalated \in Events
    BY <2>1 DEF Alerts, Events, Payloads
  <2>3. alerts \in SUBSET Alerts
    BY <2>2 DEF States
  <2>4. noted \in States /\ noted.tasks = s.tasks
    <3> HIDE DEF alerts
    <3> QED
      BY <2>3 DEF States
  <2>5. apply_record(s, r) = IF alert \in s.alerts THEN s ELSE ApplyEvent(noted, escalated)
    BY <1>7 DEF apply_record, ApplyAlert
  <2> HIDE DEF noted, escalated, alert
  <2>6. HoldsLease(s, u, v) \/ HoldsLease(noted, u, v)
    <3>1. CASE alert \in s.alerts
      BY <2>5, <3>1
    <3>2. CASE alert \notin s.alerts
      BY <2>2, <2>4, <2>5, <3>2, ApplyEventLeases
    <3> QED
      BY <3>1, <3>2
  <2> QED
    BY <2>4, <2>6 DEF HoldsLease
<1> QED
  BY <1>1, <1>2, <1>3, <1>4, <1>5, <1>6, <1>7 DEF Records

(* A batch without a lease keeps LeaseInFlight, whatever is in the state. *)
LEMMA NoLeaseWrite ==
  ASSUME NEW c, NEW records, Write(c, records), WorkerExclusive,
         \A i \in 1..Len(records) : records[i].kind # "TaskLeased"
  PROVE  ExclusionInv'
BY DEF Write, ExclusionInv, WorkerExclusive, LeaseInFlight, HoldsLease

(* A batch that starts with a lease may follow if the worker is free. *)
LEMMA LeaseWrite ==
  ASSUME NEW c, NEW records, Write(c, records), WorkerExclusive,
         \A i \in 1..Len(records) : records[i].kind = "TaskLeased" => i = 1,
         \A u \in Tasks \ {records[1].task} : ~HoldsLease(state, u, records[1].worker)
  PROVE  ExclusionInv'
BY DEF Write, ExclusionInv, WorkerExclusive, LeaseInFlight, HoldsLease

(* The durable prefix of a batch never gives a worker a second task. *)
LEMMA PersistExclusion ==
  ASSUME TypeOK, ExclusionInv, Persist
  PROVE  ExclusionInv'
<1>1. /\ state \in States /\ batch \in Seq(Records) /\ batch # <<>>
      /\ Head(batch) \in Records /\ Head(batch) = batch[1] /\ 1 \in 1..Len(batch)
      /\ state' = apply_record(state, Head(batch)) /\ batch' = Tail(batch)
  BY DEF TypeOK, Persist
<1>2. \A u \in Tasks, v \in Workers :
        HoldsLease(state', u, v) =>
          \/ HoldsLease(state, u, v)
          \/ batch[1].kind = "TaskLeased" /\ batch[1].task = u /\ batch[1].worker = v
  BY <1>1, LeaseOrigin
<1>3. WorkerExclusive'
  <2> SUFFICES ASSUME NEW t \in Tasks, NEW u \in Tasks, NEW w \in Workers,
                      HoldsLease(state', t, w), HoldsLease(state', u, w)
               PROVE  t = u
    BY DEF WorkerExclusive, HoldsLease
  <2>1. batch[1].kind = "TaskLeased" =>
          \A x \in Tasks \ {batch[1].task} : ~HoldsLease(state, x, batch[1].worker)
    BY <1>1 DEF ExclusionInv, LeaseInFlight
  <2>2. HoldsLease(state, t, w) /\ HoldsLease(state, u, w) => t = u
    BY DEF ExclusionInv, WorkerExclusive
  <2> QED
    BY <1>2, <2>1, <2>2
<1>4. \A i \in 1..Len(Tail(batch)) : Tail(batch)[i].kind # "TaskLeased"
  <2> SUFFICES ASSUME NEW i \in 1..Len(Tail(batch))
               PROVE  Tail(batch)[i].kind # "TaskLeased"
    OBVIOUS
  <2>1. i + 1 \in 1..Len(batch) /\ Tail(batch)[i] = batch[i + 1] /\ i + 1 # 1
    BY <1>1
  <2> QED
    BY <2>1 DEF ExclusionInv, LeaseInFlight
<1>5. LeaseInFlight'
  BY <1>1, <1>4 DEF LeaseInFlight
<1> QED
  BY <1>3, <1>5 DEF ExclusionInv

(* Only the first record of the batch that starts a task is a lease. *)
LEMMA StartRecordsShape ==
  ASSUME NEW s \in States, NEW t \in Tasks, NEW w \in Workers, NEW at \in Nat
  PROVE  LET records == StartRecords(s, t, w, at, InitialEvents) IN
         /\ records[1].task = t /\ records[1].worker = w
         /\ \A i \in 1..Len(records) : records[i].kind = "TaskLeased" => i = 1
<1> DEFINE n == Len(InitialEvents)
           event(i) == [NextEvent(s, w, t, at, InitialEvents[i])
                          EXCEPT !.seq = s.latest_seq[w][t] + i]
           appended(i) == EventAppended(event(i))
           events == [i \in 1..n |-> appended(i)]
           lease == TaskLeased(t, w, at, Never)
           beat == HeartbeatRecord(w, at)
           records == StartRecords(s, t, w, at, InitialEvents)
<1>1. n \in Nat
  BY InitialEventsAssumption
<1>2. records = <<lease>> \o events \o <<beat>>
  BY DEF StartRecords
<1>3. \A i \in 1..n : appended(i).kind = "EventAppended"
  BY DEF EventAppended
<1>4. lease.task = t /\ lease.worker = w /\ beat.kind = "Heartbeat"
  BY DEF TaskLeased, HeartbeatRecord
<1> HIDE DEF lease, beat, appended, n, records
<1>5. Len(records) = n + 2 /\ records[1] = lease /\ records[n + 2] = beat
      /\ \A i \in 2..(n + 1) : records[i] = appended(i - 1)
  BY <1>1, <1>2
<1>6. \A i \in 1..Len(records) : records[i].kind = "TaskLeased" => i = 1
  <2> SUFFICES ASSUME NEW i \in 1..Len(records), i # 1
               PROVE  records[i].kind # "TaskLeased"
    OBVIOUS
  <2>1. CASE i = n + 2
    BY <1>4, <1>5, <2>1
  <2>2. CASE i \in 2..(n + 1)
    BY <1>1, <1>3, <1>5, <2>2
  <2> QED
    BY <1>1, <1>5, <2>1, <2>2
<1> QED
  BY <1>4, <1>5, <1>6 DEF records

(* A cancellation leases nothing. *)
LEMMA CancelRecordsShape ==
  ASSUME NEW s, NEW t, NEW at
  PROVE  \A i \in 1..Len(CancelRecords(s, t, at)) :
           CancelRecords(s, t, at)[i].kind # "TaskLeased"
<1> DEFINE w == s.tasks[t].leased_to
           interrupted == NextEvent(s, w, t, at, "Interrupted")
           cancelled == [interrupted EXCEPT !.seq = @ + 1, !.payload = "Cancelled"]
<1> HIDE DEF interrupted, cancelled
<1>1. CancelRecords(s, t, at) =
        IF w = NoWorker THEN <<TaskCompletedOrFailed(t, NoWorker, at, "Cancelled")>>
        ELSE <<EventAppended(interrupted), EventAppended(cancelled)>>
  BY DEF CancelRecords, interrupted, cancelled
<1> QED
  BY <1>1 DEF TaskCompletedOrFailed, EventAppended

(* The lease of a restart is its first record. *)
LEMMA RestartRecordsShape ==
  ASSUME NEW s, NEW v, NEW at
  PROVE  LET records == RestartRecords(s, v, at, Never) IN
         /\ records[1].task = v.task /\ records[1].worker = v.worker
         /\ \A i \in 1..Len(records) : records[i].kind = "TaskLeased" => i = 1
<1> DEFINE restarted == NextEvent(s, v.worker, v.task, at, "Restarted")
           running == [restarted EXCEPT !.seq = @ + 1, !.payload = "Running"]
<1> HIDE DEF restarted, running
<1>1. RestartRecords(s, v, at, Never) =
        <<TaskLeased(v.task, v.worker, at, Never), EventAppended(restarted),
          EventAppended(running), HeartbeatRecord(v.worker, at)>>
  BY DEF RestartRecords, restarted, running
<1> QED
  BY <1>1 DEF TaskLeased, EventAppended, HeartbeatRecord

(* Every step of every process preserves mutual exclusion. *)
LEMMA NextExclusion == TypeOK /\ ExclusionInv /\ [Next]_vars => ExclusionInv'
<1> SUFFICES ASSUME TypeOK, ExclusionInv, [Next]_vars PROVE ExclusionInv'
  OBVIOUS
<1> USE DEF WriteUnseen
<1>0. /\ state \in States /\ now \in Nat /\ WorkerExclusive
      /\ \A at \in Timestamps : at \in Nat
  BY DEF TypeOK, Timestamps, ExclusionInv
<1>1. CASE Produce
  <2>1. ASSUME NEW r \in Runs, CreateRun(r) PROVE ExclusionInv'
    BY <1>0, <2>1, NoLeaseWrite DEF CreateRun, RunCreated
  <2>2. ASSUME NEW t \in Tasks, Enqueue(t) PROVE ExclusionInv'
    BY <1>0, <2>2, NoLeaseWrite DEF Enqueue, TaskEnqueued
  <2> QED
    BY <1>1, <2>1, <2>2 DEF Produce
<1>2. CASE Execute
  <2> SUFFICES ASSUME NEW t \in Tasks, NEW w \in Workers, NEW at \in Timestamps,
                      \/ StartTask(t, w, at)
                      \/ ClaimNext(t, w, at)
                      \/ LateProgress(t, w, at)
                      \/ \E k \in 1..MaxAttempts :
                           \/ Progress(t, w, k, at)
                           \/ \E outcome \in TerminalStatuses,
                                 verdict \in {"None", "Failed"} :
                                outcome # verdict
                                  /\ Finalize(t, w, k, at, outcome, verdict)
                           \/ \E channel \in Channels : Alert(t, w, k, channel, at)
               PROVE  ExclusionInv'
    BY <1>2 DEF Execute
  <2>1. CASE StartTask(t, w, at)
    <3>1. \A u \in Tasks : ~HoldsLease(state, u, w)
      BY <2>1 DEF StartTask, CanStart
    <3>2. Write(Nobody, StartRecords(state, t, w, at, InitialEvents))
      BY <2>1 DEF StartTask
    <3> QED
      BY <1>0, <3>1, <3>2, StartRecordsShape, LeaseWrite
  <2>2. CASE ClaimNext(t, w, at)
    <3>1. \A u \in Tasks : ~HoldsLease(state, u, w)
      BY <2>2 DEF ClaimNext
    <3>2. Write(Nobody, <<TaskLeased(t, w, at, Never)>>)
      BY <2>2 DEF ClaimNext
    <3>3. TaskLeased(t, w, at, Never).worker = w
      BY DEF TaskLeased
    <3> QED
      BY <1>0, <3>1, <3>2, <3>3, LeaseWrite
  <2>3. CASE LateProgress(t, w, at)
    BY <1>0, <2>3, NoLeaseWrite DEF LateProgress, EventRecords, EventAppended
  <2>4. ASSUME NEW k \in 1..MaxAttempts, Progress(t, w, k, at) PROVE ExclusionInv'
    BY <1>0, <2>4, NoLeaseWrite DEF Progress, EventRecords, EventAppended
  <2>5. ASSUME NEW k \in 1..MaxAttempts, NEW outcome, NEW verdict,
               Finalize(t, w, k, at, outcome, verdict)
        PROVE  ExclusionInv'
    BY <1>0, <2>5, NoLeaseWrite DEF Finalize, FinalizeRecords, TaskAttemptFinalized
  <2>6. ASSUME NEW k \in 1..MaxAttempts, NEW channel \in Channels,
               Alert(t, w, k, channel, at)
        PROVE  ExclusionInv'
    BY <1>0, <2>6, NoLeaseWrite DEF Alert, AlertRecords, AlertSent
  <2> QED
    BY <2>1, <2>2, <2>3, <2>4, <2>5, <2>6
<1>3. CASE Operate
  <2>1. ASSUME NEW at \in Timestamps, NEW w \in Workers, Heartbeat(w, at)
        PROVE  ExclusionInv'
    BY <1>0, <2>1, NoLeaseWrite DEF Heartbeat, HeartbeatRecord
  <2>2. ASSUME NEW at \in Timestamps, NEW t \in Tasks,
               NEW expected \in Workers \cup {NoWorker}, Cancel(t, expected, at)
        PROVE  ExclusionInv'
    BY <1>0, <2>2, CancelRecordsShape, NoLeaseWrite DEF Cancel
  <2> QED
    BY <1>3, <2>1, <2>2 DEF Operate
<1>4. CASE Decide
  <2>1. ASSUME NEW c \in Clients, NEW t \in Tasks, Observe(c, t) PROVE ExclusionInv'
    BY <2>1 DEF Observe, ExclusionInv, WorkerExclusive, LeaseInFlight, HoldsLease
  <2>2. ASSUME NEW c \in Clients, NEW at \in Timestamps, Restart(c, at)
        PROVE  ExclusionInv'
    <3>1. \A u \in Tasks \ {seen[c].task} : ~HoldsLease(state, u, seen[c].worker)
      BY <2>2 DEF Restart, CanRestart, OtherLeaseOf
    <3>2. Write(c, RestartRecords(state, seen[c], at, Never))
      BY <2>2 DEF Restart, WriteSeen
    <3> QED
      BY <1>0, <3>1, <3>2, RestartRecordsShape, LeaseWrite
  <2>3. ASSUME NEW c \in Clients, NEW at \in Timestamps, MarkStale(c, at)
        PROVE  ExclusionInv'
    BY <1>0, <2>3, NoLeaseWrite DEF MarkStale, EventRecords, EventAppended
  <2>4. ASSUME NEW c \in Clients, NEW at \in Timestamps, FailExhausted(c, at)
        PROVE  ExclusionInv'
    BY <1>0, <2>4, NoLeaseWrite DEF FailExhausted, WriteSeen, EventRecords, EventAppended
  <2> QED
    BY <1>4, <2>1, <2>2, <2>3, <2>4 DEF Decide
<1>5. CASE Persist
  BY <1>5, PersistExclusion
<1>6. CASE Cut
  BY <1>6 DEF Cut, ExclusionInv, WorkerExclusive, LeaseInFlight, HoldsLease
<1>7. CASE Tick
  BY <1>7 DEF Tick, ExclusionInv, WorkerExclusive, LeaseInFlight, HoldsLease
<1>8. CASE UNCHANGED vars
  BY <1>8 DEF vars, ExclusionInv, WorkerExclusive, LeaseInFlight, HoldsLease
<1> QED
  BY <1>1, <1>2, <1>3, <1>4, <1>5, <1>6, <1>7, <1>8 DEF Next

(* For every number of processes, tasks, workers and runs: a logical worker *)
(* is leased to at most one task, whatever interleaving of starts, claims,  *)
(* restarts and cut batches the ledger went through.                        *)
THEOREM WorkersAreExclusive == Spec => []WorkerExclusive
<1>1. Init => ExclusionInv
  BY DEF Init, EmptyState, NoTask, ExclusionInv, WorkerExclusive, LeaseInFlight,
         HoldsLease
<1>2. ExclusionInv => WorkerExclusive
  BY DEF ExclusionInv
<1> QED
  BY <1>1, <1>2, NextExclusion, TypeCorrect, PTL DEF Spec

(***************************************************************************)
(* The batch under way fits the state.                                     *)
(***************************************************************************)
(* A task that no worker has taken has no attempts. *)
Fresh(s) ==
  \A t \in Tasks :
    s.tasks[t].status \in {"Absent", "Enqueued"} =>
      s.tasks[t].leased_to = NoWorker /\ s.tasks[t].attempts = 0

(* The event at place i of batch b comes this many after the latest one. *)
Offset(b, i) == IF b[1].kind = "TaskLeased" THEN i - 1 ELSE i

(* A lease opens its batch; it takes a queued task, or keeps the worker of  *)
(* the task, and the worker is free of others.                              *)
LeaseFits(s, b, i) ==
  LET r == b[i] IN
  /\ i = 1
  /\ s.tasks[r.task].status = "Enqueued" \/ s.tasks[r.task].leased_to = r.worker
  /\ \A u \in Tasks \ {r.task} : ~HoldsLease(s, u, r.worker)

(* Events are of the worker that has the task, or is just getting it.  They *)
(* are numbered one by one.  A terminal one ends its batch and is about a   *)
(* lease.                                                                   *)
EventFits(s, b, i) ==
  LET e == b[i].event IN
  /\ e.seq = s.latest_seq[e.worker][e.task] + Offset(b, i)
  /\ \A j \in 1..Len(b) : b[j].kind = "EventAppended" =>
       b[j].event.worker = e.worker /\ b[j].event.task = e.task
  /\ \/ s.tasks[e.task].leased_to = e.worker
     \/ b[1].kind = "TaskLeased" /\ b[1].task = e.task /\ b[1].worker = e.worker
  /\ \/ e.payload \in ProgressPayloads
     \/ /\ e.payload \in {"Failed", "Cancelled"} /\ i = Len(b)
        /\ b[1].kind = "EventAppended"
        /\ HoldsLease(s, e.task, e.worker)

(* The receipt is for the current attempt and names its own event. *)
FinalizationFits(s, r) ==
  LET e == r.event IN
  /\ AttemptIsLeased(s, e.task, e.worker, r.receipt.attempt)
  /\ e.seq = s.latest_seq[e.worker][e.task] + 1
  /\ e.payload \in TerminalPayloads /\ r.final_status \in {"None", "Failed"}
  /\ r.receipt.terminal_seq = e.seq

(* A task without a worker is cancelled without an event. *)
CancellationFits(s, r) ==
  /\ r.status = "Cancelled" /\ r.worker = NoWorker
  /\ IsOpen(s, r.task) /\ s.tasks[r.task].leased_to = NoWorker

(* An alert is new and about the current attempt, which failed. *)
AlertFits(s, r) ==
  /\ CanAlert(s, r.task, r.worker, r.attempt, r.channel)
  /\ r.seq = s.latest_seq[r.worker][r.task] + 1

(* Batch b is one that a transaction computes from s, or the rest of one. *)
FitsAt(s, b, i) ==
  LET kind == b[i].kind IN
  /\ kind \notin {"TaskLeased", "EventAppended"} => i = Len(b)
  /\ kind = "TaskLeased" => LeaseFits(s, b, i)
  /\ kind = "EventAppended" => EventFits(s, b, i)
  /\ kind = "TaskAttemptFinalized" => Len(b) = 1 /\ FinalizationFits(s, b[i])
  /\ kind = "TaskCompletedOrFailed" => Len(b) = 1 /\ CancellationFits(s, b[i])
  /\ kind = "AlertSent" => Len(b) = 1 /\ AlertFits(s, b[i])

Fits(s, b) == \A i \in 1..Len(b) : FitsAt(s, b, i)

LedgerInv == Fresh(state) /\ Fits(state, batch)

(***************************************************************************)
(* What a record does to the state, as far as the invariants can see.      *)
(***************************************************************************)
SameLog(s, n) ==
  n.latest_seq = s.latest_seq /\ n.latest_payload = s.latest_payload

SameNotes(s, n) == n.receipts = s.receipts /\ n.alerts = s.alerts

SameTasksBut(s, n, t) == \A u \in Tasks \ {t} : n.tasks[u] = s.tasks[u]

(* Task t ended with a status, on worker w if there is one. *)
Ended(s, n, t, w, status) ==
  /\ SameTasksBut(s, n, t)
  /\ n.tasks[t].attempts = s.tasks[t].attempts
  /\ IF s.tasks[t].status = "Absent" THEN n.tasks[t] = s.tasks[t]
     ELSE /\ n.tasks[t].status = status
          /\ n.tasks[t].leased_to = IF w = NoWorker THEN s.tasks[t].leased_to ELSE w

(* A new event of a task was logged, and shown unless it came too late. *)
Logged(s, n, e) ==
  /\ \A w \in Workers, t \in Tasks :
       w # e.worker \/ t # e.task =>
         /\ n.latest_seq[w][t] = s.latest_seq[w][t]
         /\ n.latest_payload[w][t] = s.latest_payload[w][t]
  /\ n.latest_seq[e.worker][e.task] = e.seq
  /\ n.latest_payload[e.worker][e.task] =
       IF RegressesTerminalState(s, e) THEN s.latest_payload[e.worker][e.task]
       ELSE e.payload

(* A terminal outcome changes one task and neither log nor notes. *)
LEMMA MarkTaskTerminalEffect ==
  ASSUME NEW s \in States, NEW t \in Tasks, NEW w \in Workers \cup {NoWorker},
         NEW at \in Nat, NEW status \in TerminalStatuses
  PROVE  LET n == MarkTaskTerminal(s, t, w, at, status) IN
         Ended(s, n, t, w, status) /\ SameLog(s, n) /\ SameNotes(s, n)
<1> DEFINE n == MarkTaskTerminal(s, t, w, at, status)
<1>1. CASE s.tasks[t].status = "Absent"
  <2>1. n = s
    BY <1>1 DEF MarkTaskTerminal
  <2> HIDE DEF n
  <2> QED
    BY <1>1, <2>1 DEF Ended, SameTasksBut, SameLog, SameNotes, n
<1>2. CASE s.tasks[t].status # "Absent"
  <2> DEFINE old == s.tasks[t]
             seq == IF old.status = status THEN old.lifecycle_seq
                    ELSE old.lifecycle_seq + 1
             owner == IF w = NoWorker THEN old.leased_to ELSE w
             new == [old EXCEPT !.status = status, !.lifecycle_seq = seq,
                                !.leased_to = owner, !.completed_at = at]
  <2>1. old \in TaskStates
    BY DEF States
  <2>2. n = [s EXCEPT !.tasks[t] = new]
    BY <1>2 DEF MarkTaskTerminal
  <2>3. new.status = status /\ new.leased_to = owner /\ new.attempts = old.attempts
    <3> HIDE DEF old, seq, owner
    <3> QED
      BY <2>1 DEF TaskStates
  <2> HIDE DEF new, n
  <2>4. /\ n.tasks[t] = new /\ SameTasksBut(s, n, t)
        /\ SameLog(s, n) /\ SameNotes(s, n)
    BY <2>2 DEF States, SameTasksBut, SameLog, SameNotes
  <2> QED
    BY <1>2, <2>3, <2>4 DEF Ended, n
<1> QED
  BY <1>1, <1>2

(* An event with a new number is logged; a terminal one ends its task. *)
LEMMA ApplyEventEffect ==
  ASSUME NEW s \in States, NEW e \in Events,
         e.seq > s.latest_seq[e.worker][e.task]
  PROVE  LET n == ApplyEvent(s, e) IN
         /\ SameNotes(s, n) /\ Logged(s, n, e)
         /\ e.payload \in TerminalPayloads => Ended(s, n, e.task, e.worker, e.payload)
         /\ e.payload \notin TerminalPayloads => n.tasks = s.tasks
<1> DEFINE w == e.worker
           t == e.task
           late == RegressesTerminalState(s, e)
           newer == e.seq > s.latest_seq[w][t]
           seq == IF newer THEN e.seq ELSE s.latest_seq[w][t]
           payload == IF newer /\ ~late THEN e.payload ELSE s.latest_payload[w][t]
           status == IF late THEN s.workers[w]
                     ELSE WorkerStatusAfter(e.payload, s.workers[w])
           logged == [s EXCEPT !.latest_seq[w][t] = seq,
                               !.latest_payload[w][t] = payload,
                               !.workers[w] = status]
           n == ApplyEvent(s, e)
<1>1. /\ w \in Workers /\ t \in Tasks /\ e.seq \in Nat
      /\ e.payload \in Payloads /\ e.timestamp \in Nat
  BY DEF Events
<1>2. /\ s.latest_seq[w][t] \in Nat
      /\ s.latest_payload[w][t] \in Payloads \cup {"None"}
      /\ s.workers[w] \in WorkerStatuses
  BY <1>1 DEF States
<1>3. status \in WorkerStatuses
  BY <1>2 DEF WorkerStatusAfter, WorkerStatuses
<1>4. /\ seq \in Nat /\ payload \in Payloads \cup {"None"} /\ seq = e.seq
      /\ payload = IF late THEN s.latest_payload[w][t] ELSE e.payload
  BY <1>1, <1>2
<1>5. n = IF e.payload \in TerminalPayloads
          THEN MarkTaskTerminal(logged, t, w, e.timestamp, e.payload)
          ELSE logged
  BY DEF ApplyEvent
<1>6. /\ logged \in States /\ logged.tasks = s.tasks /\ SameNotes(s, logged)
      /\ Logged(s, logged, e)
  <2>1. logged \in States
    <3> HIDE DEF w, t, seq, payload, status
    <3> QED
      BY <1>1, <1>3, <1>4, EventLogType
  <2>2. logged.tasks = s.tasks /\ SameNotes(s, logged)
    <3> HIDE DEF w, t, seq, payload, status
    <3> QED
      BY DEF States, SameNotes
  <2>3. /\ logged.latest_seq[w][t] = seq /\ logged.latest_payload[w][t] = payload
        /\ \A v \in Workers, u \in Tasks : v # w \/ u # t =>
             /\ logged.latest_seq[v][u] = s.latest_seq[v][u]
             /\ logged.latest_payload[v][u] = s.latest_payload[v][u]
    <3> HIDE DEF w, t, seq, payload, status
    <3> QED
      BY <1>1 DEF States
  <2>4. Logged(s, logged, e)
    <3> HIDE DEF logged
    <3> QED
      BY <1>4, <2>3 DEF Logged
  <2> QED
    BY <2>1, <2>2, <2>4
<1> HIDE DEF logged, w, t, n
<1>7. CASE e.payload \in TerminalPayloads
  <2>1. n = MarkTaskTerminal(logged, t, w, e.timestamp, e.payload)
    BY <1>5, <1>7
  <2>2. /\ Ended(logged, n, t, w, e.payload) /\ SameLog(logged, n)
        /\ SameNotes(logged, n)
    BY <1>1, <1>6, <1>7, <2>1, MarkTaskTerminalEffect DEF TerminalPayloads
  <2>3. Ended(s, n, t, w, e.payload)
    BY <1>6, <2>2 DEF Ended, SameTasksBut
  <2>4. Logged(s, n, e) /\ SameNotes(s, n)
    BY <1>6, <2>2 DEF Logged, SameLog, SameNotes
  <2> QED
    BY <1>7, <2>3, <2>4 DEF n, t, w
<1>8. CASE e.payload \notin TerminalPayloads
  BY <1>5, <1>6, <1>8 DEF n
<1> QED
  BY <1>7, <1>8

(* A finalized attempt ends the task as the verdict says, or the event, and *)
(* files the receipt.                                                       *)
LEMMA ApplyFinalizedEffect ==
  ASSUME NEW s \in States, NEW r \in Records, r.kind = "TaskAttemptFinalized",
         r.event.seq > s.latest_seq[r.event.worker][r.event.task],
         r.event.payload \in TerminalPayloads
  PROVE  LET n == ApplyFinalized(s, r)
             e == r.event
             status == IF r.final_status = "None" THEN e.payload ELSE r.final_status
         IN
         /\ Ended(s, n, e.task, e.worker, status)
         /\ Logged(s, n, e) /\ n.alerts = s.alerts
         /\ n.receipts[e.task] = r.receipt
         /\ \A u \in Tasks \ {e.task} : n.receipts[u] = s.receipts[u]
<1> DEFINE e == r.event
           status == IF r.final_status = "None" THEN e.payload ELSE r.final_status
           finished == ApplyEvent(s, e)
           settled == IF r.final_status = "None" THEN finished
                      ELSE MarkTaskTerminal(finished, e.task, e.worker, e.timestamp,
                                            r.final_status)
           n == ApplyFinalized(s, r)
<1>1. /\ e \in Events /\ r.receipt \in Receipts
      /\ r.final_status \in TerminalStatuses \cup {"None"}
  BY DEF Records
<1>2. e.task \in Tasks /\ e.worker \in Workers /\ e.timestamp \in Nat
  BY <1>1 DEF Events
<1>3. /\ finished \in States /\ SameNotes(s, finished) /\ Logged(s, finished, e)
      /\ Ended(s, finished, e.task, e.worker, e.payload)
  BY <1>1, ApplyEventType, ApplyEventEffect
<1>4. /\ settled \in States /\ SameNotes(s, settled) /\ Logged(s, settled, e)
      /\ Ended(s, settled, e.task, e.worker, status)
  <2> HIDE DEF finished, e
  <2>1. CASE r.final_status = "None"
    BY <1>3, <2>1
  <2>2. CASE r.final_status # "None"
    <3>1. r.final_status \in TerminalStatuses
      BY <1>1, <2>2
    <3>2. /\ settled \in States
          /\ Ended(finished, settled, e.task, e.worker, r.final_status)
          /\ SameLog(finished, settled) /\ SameNotes(finished, settled)
      BY <1>2, <1>3, <2>2, <3>1, MarkTaskTerminalType, MarkTaskTerminalEffect
    <3>3. finished.tasks[e.task].status = "Absent" <=> s.tasks[e.task].status = "Absent"
      BY <1>3, e.payload \in TerminalPayloads
      DEF Ended, TerminalPayloads, TerminalStatuses, e
    <3>4. Ended(s, settled, e.task, e.worker, status)
      <4> HIDE DEF settled
      <4> QED
        BY <1>2, <1>3, <2>2, <3>2, <3>3, NoWorkerAssumption DEF Ended, SameTasksBut
    <3>5. Logged(s, settled, e) /\ SameNotes(s, settled)
      <4> HIDE DEF settled
      <4> QED
        BY <1>3, <3>2 DEF Logged, SameLog, SameNotes
    <3> QED
      BY <3>2, <3>4, <3>5
  <2> QED
    BY <2>1, <2>2
<1>5. n = [settled EXCEPT !.receipts[e.task] = r.receipt]
  BY DEF ApplyFinalized
<1> HIDE DEF settled, n, e, status
<1>6. /\ n.tasks = settled.tasks /\ SameLog(settled, n) /\ n.alerts = settled.alerts
      /\ n.receipts[e.task] = r.receipt
      /\ \A u \in Tasks \ {e.task} : n.receipts[u] = settled.receipts[u]
  BY <1>2, <1>4, <1>5 DEF States, SameLog
<1>7. Ended(s, n, e.task, e.worker, status)
  BY <1>4, <1>6 DEF Ended, SameTasksBut
<1>8. Logged(s, n, e)
  BY <1>4, <1>6 DEF Logged, SameLog
<1> QED
  BY <1>4, <1>6, <1>7, <1>8 DEF SameNotes, e, n, status

(* A new alert is noted and logged as an escalation of its task. *)
LEMMA ApplyAlertEffect ==
  ASSUME NEW s \in States, NEW r \in Records, r.kind = "AlertSent",
         r.seq > s.latest_seq[r.worker][r.task],
         [task |-> r.task, attempt |-> r.attempt, channel |-> r.channel] \notin s.alerts
  PROVE  LET n == ApplyAlert(s, r)
             e == [worker |-> r.worker, task |-> r.task, seq |-> r.seq,
                   payload |-> "Escalated", timestamp |-> r.timestamp]
         IN
         /\ n.tasks = s.tasks /\ n.receipts = s.receipts /\ Logged(s, n, e)
         /\ n.alerts = s.alerts \cup
              {[task |-> r.task, attempt |-> r.attempt, channel |-> r.channel]}
<1> DEFINE alert == [task |-> r.task, attempt |-> r.attempt, channel |-> r.channel]
           e == [worker |-> r.worker, task |-> r.task, seq |-> r.seq,
                 payload |-> "Escalated", timestamp |-> r.timestamp]
           alerts == s.alerts \cup {alert}
           noted == [s EXCEPT !.alerts = alerts]
           n == ApplyAlert(s, r)
<1>1. /\ r.task \in Tasks /\ r.channel \in Channels /\ r.worker \in Workers
      /\ r.attempt \in Nat /\ r.seq \in Nat /\ r.timestamp \in Nat
  BY DEF Records
<1>2. alert \in Alerts /\ e \in Events /\ e.payload \notin TerminalPayloads
  BY <1>1 DEF Alerts, Events, Payloads, TerminalPayloads, TerminalStatuses
<1>3. e.seq = r.seq /\ e.worker = r.worker /\ e.task = r.task
  OBVIOUS
<1>4. alerts \in SUBSET Alerts
  BY <1>2 DEF States
<1>5. /\ noted \in States /\ noted.tasks = s.tasks /\ noted.alerts = alerts
      /\ noted.receipts = s.receipts /\ SameLog(s, noted)
  <2> HIDE DEF alerts
  <2> QED
    BY <1>4 DEF States, SameLog
<1>6. n = ApplyEvent(noted, e)
  BY DEF ApplyAlert
<1> HIDE DEF noted, e, alerts, alert, n
<1>7. /\ SameNotes(noted, n) /\ Logged(noted, n, e) /\ n.tasks = noted.tasks
  <2>1. e.seq > noted.latest_seq[e.worker][e.task]
    BY <1>3, <1>5 DEF SameLog
  <2> QED
    BY <1>2, <1>5, <1>6, <2>1, ApplyEventEffect
<1>8. Logged(s, n, e)
  BY <1>5, <1>7 DEF Logged, SameLog, RegressesTerminalState, IsTerminal
<1> QED
  BY <1>5, <1>7, <1>8 DEF SameNotes, e, n, alerts, alert

(* A lease of a known task counts one more attempt of it. *)
LEMMA ApplyLeaseEffect ==
  ASSUME NEW s \in States, NEW r \in Records, r.kind = "TaskLeased",
         s.tasks[r.task].status # "Absent"
  PROVE  LET n == ApplyLease(s, r) IN
         /\ SameTasksBut(s, n, r.task) /\ SameLog(s, n) /\ SameNotes(s, n)
         /\ n.tasks[r.task].status = "Leased" /\ n.tasks[r.task].leased_to = r.worker
         /\ n.tasks[r.task].attempts = s.tasks[r.task].attempts + 1
<1> DEFINE old == s.tasks[r.task]
           same == /\ old.status = "Leased"
                   /\ old.leased_to = r.worker
                   /\ old.leased_at = r.leased_at
           seq == IF same THEN old.lifecycle_seq ELSE old.lifecycle_seq + 1
           attempts == old.attempts + 1
           new == [old EXCEPT !.lifecycle_seq = seq,
                              !.status = "Leased",
                              !.leased_to = r.worker,
                              !.leased_at = r.leased_at,
                              !.lease_deadline = r.lease_expires_at,
                              !.attempts = attempts]
           n == ApplyLease(s, r)
<1>1. r.task \in Tasks
  BY DEF Records
<1>2. old \in TaskStates
  BY <1>1 DEF States
<1>3. n = [s EXCEPT !.tasks[r.task] = new]
  BY DEF ApplyLease
<1>4. new.status = "Leased" /\ new.leased_to = r.worker /\ new.attempts = attempts
  <2> HIDE DEF old, seq, attempts
  <2> QED
    BY <1>2 DEF TaskStates
<1> HIDE DEF new, n
<1>5. /\ n.tasks[r.task] = new /\ SameTasksBut(s, n, r.task)
      /\ SameLog(s, n) /\ SameNotes(s, n)
  BY <1>1, <1>3 DEF States, SameTasksBut, SameLog, SameNotes
<1> QED
  BY <1>4, <1>5 DEF n

(* An enqueued task has no worker and no attempts. *)
LEMMA ApplyEnqueueEffect ==
  ASSUME NEW s \in States, NEW t \in Tasks
  PROVE  LET n == ApplyEnqueue(s, t) IN
         /\ SameTasksBut(s, n, t) /\ SameLog(s, n) /\ SameNotes(s, n)
         /\ IF s.tasks[t].status # "Absent" THEN n.tasks[t] = s.tasks[t]
            ELSE /\ n.tasks[t].status = "Enqueued"
                 /\ n.tasks[t].leased_to = NoWorker /\ n.tasks[t].attempts = 0
<1> DEFINE new == [NoTask EXCEPT !.status = "Enqueued", !.lifecycle_seq = 1]
           n == ApplyEnqueue(s, t)
<1>1. new.status = "Enqueued" /\ new.leased_to = NoWorker /\ new.attempts = 0
  BY DEF NoTask
<1>2. n = IF s.tasks[t].status # "Absent" THEN s ELSE [s EXCEPT !.tasks[t] = new]
  BY DEF ApplyEnqueue
<1> HIDE DEF new, n
<1>3. /\ SameTasksBut(s, n, t) /\ SameLog(s, n) /\ SameNotes(s, n)
      /\ n.tasks[t] = IF s.tasks[t].status # "Absent" THEN s.tasks[t] ELSE new
  BY <1>2 DEF States, SameTasksBut, SameLog, SameNotes
<1> QED
  BY <1>1, <1>3 DEF n

(* The other records are about runs and heartbeats only. *)
LEMMA QuietEffect ==
  ASSUME NEW s \in States, NEW r \in Records,
         r.kind \in {"RunCreated", "RunStatusChanged", "Heartbeat"}
  PROVE  LET n == apply_record(s, r) IN
         n.tasks = s.tasks /\ SameLog(s, n) /\ SameNotes(s, n)
BY DEF apply_record, ApplyHeartbeat, States, SameLog, SameNotes

(***************************************************************************)
(* Every transaction computes a batch that fits the state it read.         *)
(***************************************************************************)
(* A record about runs, queues or heartbeats fits as a batch of its own. *)
LEMMA PlainRecordFits ==
  ASSUME NEW s, NEW r,
         r.kind \in {"RunCreated", "RunStatusChanged", "TaskEnqueued", "Heartbeat"}
  PROVE  Fits(s, <<r>>)
BY DEF Fits, FitsAt

(* Progress of the task's worker fits; an outcome does during its lease. *)
LEMMA EventRecordsFit ==
  ASSUME NEW s \in States, NEW t \in Tasks, NEW w \in Workers, NEW at, NEW payload,
         s.tasks[t].leased_to = w,
         \/ payload \in ProgressPayloads
         \/ payload \in {"Failed", "Cancelled"} /\ HoldsLease(s, t, w)
  PROVE  Fits(s, EventRecords(s, t, w, at, payload))
<1> DEFINE e == NextEvent(s, w, t, at, payload)
           b == EventRecords(s, t, w, at, payload)
<1>1. /\ e.worker = w /\ e.task = t /\ e.payload = payload
      /\ e.seq = s.latest_seq[w][t] + 1
  BY DEF NextEvent
<1>2. b = <<EventAppended(e)>>
  BY DEF EventRecords
<1> HIDE DEF e, b
<1>3. Len(b) = 1 /\ b[1].kind = "EventAppended" /\ b[1].event = e
  BY <1>2 DEF EventAppended
<1>4. EventFits(s, b, 1)
  BY <1>1, <1>3 DEF EventFits, Offset
<1>5. FitsAt(s, b, 1)
  BY <1>3, <1>4 DEF FitsAt
<1> QED
  BY <1>3, <1>5 DEF Fits, b

(* A queued task may start on a free worker. *)
LEMMA StartRecordsFit ==
  ASSUME NEW s \in States, NEW t \in Tasks, NEW w \in Workers, NEW at \in Nat,
         s.tasks[t].status = "Enqueued", \A u \in Tasks : ~HoldsLease(s, u, w)
  PROVE  Fits(s, StartRecords(s, t, w, at, InitialEvents))
<1> DEFINE n == Len(InitialEvents)
           event(i) == [NextEvent(s, w, t, at, InitialEvents[i])
                          EXCEPT !.seq = s.latest_seq[w][t] + i]
           appended(i) == EventAppended(event(i))
           events == [i \in 1..n |-> appended(i)]
           lease == TaskLeased(t, w, at, Never)
           beat == HeartbeatRecord(w, at)
           b == StartRecords(s, t, w, at, InitialEvents)
<1>1. n \in Nat /\ \A i \in 1..n : InitialEvents[i] \in ProgressPayloads
  BY InitialEventsAssumption
<1>2. b = <<lease>> \o events \o <<beat>>
  BY DEF StartRecords
<1>3. ASSUME NEW i \in 1..n
      PROVE  /\ event(i).worker = w /\ event(i).task = t
             /\ event(i).payload = InitialEvents[i]
             /\ event(i).seq = s.latest_seq[w][t] + i
  BY DEF NextEvent
<1>4. \A i \in 1..n : appended(i).kind = "EventAppended" /\ appended(i).event = event(i)
  BY DEF EventAppended
<1>5. /\ lease.kind = "TaskLeased" /\ lease.task = t /\ lease.worker = w
      /\ beat.kind = "Heartbeat"
  BY DEF TaskLeased, HeartbeatRecord
<1> HIDE DEF lease, beat, appended, n, b, event
<1>6. /\ Len(b) = n + 2 /\ b[1] = lease /\ b[n + 2] = beat
      /\ \A i \in 2..(n + 1) : b[i] = appended(i - 1)
  BY <1>1, <1>2
<1>7. FitsAt(s, b, 1)
  BY <1>5, <1>6 DEF FitsAt, LeaseFits
<1>8. ASSUME NEW i \in 2..(n + 1) PROVE FitsAt(s, b, i)
  <2>1. i - 1 \in 1..n /\ b[i].kind = "EventAppended" /\ b[i].event = event(i - 1)
    BY <1>1, <1>4, <1>6
  <2>2. \A j \in 1..Len(b) : b[j].kind = "EventAppended" =>
          b[j].event.worker = w /\ b[j].event.task = t
    <3> SUFFICES ASSUME NEW j \in 1..Len(b), b[j].kind = "EventAppended"
                 PROVE  b[j].event.worker = w /\ b[j].event.task = t
      OBVIOUS
    <3>1. j \in 2..(n + 1)
      BY <1>1, <1>5, <1>6
    <3>2. j - 1 \in 1..n /\ b[j].event = event(j - 1)
      BY <1>1, <1>4, <1>6, <3>1
    <3> QED
      BY <1>3, <3>2
  <2>3. EventFits(s, b, i)
    BY <1>1, <1>3, <1>5, <1>6, <2>1, <2>2 DEF EventFits, Offset
  <2> QED
    BY <2>1, <2>3 DEF FitsAt
<1>9. FitsAt(s, b, n + 2)
  BY <1>1, <1>5, <1>6 DEF FitsAt
<1> QED
  BY <1>1, <1>6, <1>7, <1>8, <1>9 DEF Fits, b

(* A worker may take a queued task itself. *)
LEMMA ClaimFits ==
  ASSUME NEW s, NEW t \in Tasks, NEW w \in Workers, NEW at,
         s.tasks[t].status = "Enqueued", \A u \in Tasks : ~HoldsLease(s, u, w)
  PROVE  Fits(s, <<TaskLeased(t, w, at, Never)>>)
<1> DEFINE lease == TaskLeased(t, w, at, Never)
<1>1. lease.kind = "TaskLeased" /\ lease.task = t /\ lease.worker = w
  BY DEF TaskLeased
<1> HIDE DEF lease
<1>2. Fits(s, <<lease>>)
  BY <1>1 DEF Fits, FitsAt, LeaseFits
<1> QED
  BY <1>2 DEF lease

(* A task restarts on its own worker if that one is free of others. *)
LEMMA RestartRecordsFit ==
  ASSUME NEW s \in States, NEW v \in Versions, NEW at, CanRestart(s, v)
  PROVE  Fits(s, RestartRecords(s, v, at, Never))
<1> DEFINE restarted == NextEvent(s, v.worker, v.task, at, "Restarted")
           running == [restarted EXCEPT !.seq = @ + 1, !.payload = "Running"]
           lease == TaskLeased(v.task, v.worker, at, Never)
           beat == HeartbeatRecord(v.worker, at)
           b == RestartRecords(s, v, at, Never)
<1>1. v.task \in Tasks /\ v.worker \in Workers
  BY DEF Versions
<1>2. s.latest_seq[v.worker][v.task] \in Nat
  BY <1>1 DEF States
<1>3. /\ restarted.worker = v.worker /\ restarted.task = v.task
      /\ restarted.payload = "Restarted"
      /\ restarted.seq = s.latest_seq[v.worker][v.task] + 1
      /\ running.worker = v.worker /\ running.task = v.task
      /\ running.payload = "Running"
      /\ running.seq = s.latest_seq[v.worker][v.task] + 2
  BY <1>2 DEF NextEvent
<1>4. /\ lease.kind = "TaskLeased" /\ lease.task = v.task /\ lease.worker = v.worker
      /\ beat.kind = "Heartbeat"
  BY DEF TaskLeased, HeartbeatRecord
<1>5. b = <<lease, EventAppended(restarted), EventAppended(running), beat>>
  BY DEF RestartRecords
<1>6. /\ s.tasks[v.task].leased_to = v.worker
      /\ \A u \in Tasks \ {v.task} : ~HoldsLease(s, u, v.worker)
  BY DEF CanRestart, VersionIs, OtherLeaseOf
<1> HIDE DEF restarted, running, lease, beat, b
<1>7. /\ Len(b) = 4 /\ b[1] = lease /\ b[4] = beat
      /\ b[2].kind = "EventAppended" /\ b[2].event = restarted
      /\ b[3].kind = "EventAppended" /\ b[3].event = running
  BY <1>5 DEF EventAppended
<1>8. FitsAt(s, b, 1)
  BY <1>4, <1>6, <1>7 DEF FitsAt, LeaseFits
<1>9. \A j \in 1..Len(b) : b[j].kind = "EventAppended" =>
        b[j].event.worker = v.worker /\ b[j].event.task = v.task
  BY <1>3, <1>4, <1>7
<1>10. FitsAt(s, b, 2)
  <2>1. EventFits(s, b, 2)
    BY <1>3, <1>4, <1>6, <1>7, <1>9
    DEF EventFits, Offset, ProgressPayloads, BusyPayloads
  <2> QED
    BY <1>7, <2>1 DEF FitsAt
<1>11. FitsAt(s, b, 3)
  <2>1. EventFits(s, b, 3)
    BY <1>3, <1>4, <1>6, <1>7, <1>9
    DEF EventFits, Offset, ProgressPayloads, BusyPayloads
  <2> QED
    BY <1>7, <2>1 DEF FitsAt
<1>12. FitsAt(s, b, 4)
  BY <1>4, <1>7 DEF FitsAt
<1> QED
  BY <1>7, <1>8, <1>10, <1>11, <1>12 DEF Fits, b

(* An open task is cancelled with its lease, or without a worker. *)
LEMMA CancelRecordsFit ==
  ASSUME NEW s \in States, Fresh(s), NEW t \in Tasks, NEW at, IsOpen(s, t)
  PROVE  Fits(s, CancelRecords(s, t, at))
<1> DEFINE w == s.tasks[t].leased_to
           interrupted == NextEvent(s, w, t, at, "Interrupted")
           cancelled == [interrupted EXCEPT !.seq = @ + 1, !.payload = "Cancelled"]
           b == CancelRecords(s, t, at)
<1>1. w \in Workers \cup {NoWorker}
  BY DEF States, TaskStates
<1>2. CASE w = NoWorker
  <2> DEFINE r == TaskCompletedOrFailed(t, NoWorker, at, "Cancelled")
  <2>1. b = <<r>>
    BY <1>2 DEF CancelRecords
  <2>2. /\ r.kind = "TaskCompletedOrFailed" /\ r.task = t /\ r.worker = NoWorker
        /\ r.status = "Cancelled"
    BY DEF TaskCompletedOrFailed
  <2> HIDE DEF r, b
  <2>3. Fits(s, b)
    BY <1>2, <2>1, <2>2 DEF Fits, FitsAt, CancellationFits
  <2> QED
    BY <2>3 DEF b
<1>3. CASE w # NoWorker
  <2>1. w \in Workers
    BY <1>1, <1>3
  <2>2. s.latest_seq[w][t] \in Nat
    BY <2>1 DEF States
  <2>3. HoldsLease(s, t, w)
    BY <1>3 DEF IsOpen, Fresh, HoldsLease
  <2>4. /\ interrupted.worker = w /\ interrupted.task = t
        /\ interrupted.payload = "Interrupted"
        /\ interrupted.seq = s.latest_seq[w][t] + 1
        /\ cancelled.worker = w /\ cancelled.task = t
        /\ cancelled.payload = "Cancelled" /\ cancelled.seq = s.latest_seq[w][t] + 2
    BY <2>2 DEF NextEvent
  <2>5. b = <<EventAppended(interrupted), EventAppended(cancelled)>>
    BY <1>3 DEF CancelRecords
  <2>w. w = s.tasks[t].leased_to
    OBVIOUS
  <2> HIDE DEF w, interrupted, cancelled, b
  <2>6. /\ Len(b) = 2
        /\ b[1].kind = "EventAppended" /\ b[1].event = interrupted
        /\ b[2].kind = "EventAppended" /\ b[2].event = cancelled
    BY <2>5 DEF EventAppended
  <2>7. EventFits(s, b, 1)
    BY <2>4, <2>6, <2>w DEF EventFits, Offset, ProgressPayloads
  <2>8. EventFits(s, b, 2)
    BY <2>3, <2>4, <2>6, <2>w DEF EventFits, Offset
  <2>9. FitsAt(s, b, 1) /\ FitsAt(s, b, 2)
    BY <2>6, <2>7, <2>8 DEF FitsAt
  <2> QED
    BY <2>6, <2>9 DEF Fits, b
<1> QED
  BY <1>2, <1>3

(* The lease holder finalizes its own attempt. *)
LEMMA FinalizeRecordsFit ==
  ASSUME NEW s \in States, NEW t \in Tasks, NEW w \in Workers, NEW attempts, NEW at,
         NEW payload \in TerminalStatuses, NEW final_status \in {"None", "Failed"},
         CanFinalize(s, t, w, attempts)
  PROVE  Fits(s, FinalizeRecords(s, t, w, attempts, at, payload, final_status))
<1> DEFINE e == NextEvent(s, w, t, at, payload)
           receipt == [attempt |-> attempts, terminal_seq |-> e.seq]
           r == TaskAttemptFinalized(e, final_status, receipt)
           b == FinalizeRecords(s, t, w, attempts, at, payload, final_status)
<1>1. /\ e.worker = w /\ e.task = t /\ e.payload = payload
      /\ e.seq = s.latest_seq[w][t] + 1
  BY DEF NextEvent
<1>2. b = <<r>>
  BY DEF FinalizeRecords
<1> HIDE DEF e, b
<1>3. /\ r.kind = "TaskAttemptFinalized" /\ r.event = e
      /\ r.final_status = final_status /\ r.receipt.attempt = attempts
      /\ r.receipt.terminal_seq = e.seq
  BY DEF TaskAttemptFinalized
<1> HIDE DEF r
<1>4. FinalizationFits(s, r)
  BY <1>1, <1>3 DEF FinalizationFits, CanFinalize, TerminalPayloads
<1>5. Fits(s, b)
  BY <1>2, <1>3, <1>4 DEF Fits, FitsAt
<1> QED
  BY <1>5 DEF b

(* The failed attempt is escalated once for each channel. *)
LEMMA AlertRecordsFit ==
  ASSUME NEW s, NEW t, NEW w, NEW attempts, NEW channel, NEW at,
         CanAlert(s, t, w, attempts, channel)
  PROVE  Fits(s, AlertRecords(s, t, w, attempts, channel, at))
<1> DEFINE r == AlertSent(t, channel, w, attempts, s.latest_seq[w][t] + 1, at)
           b == AlertRecords(s, t, w, attempts, channel, at)
<1>1. /\ r.kind = "AlertSent" /\ r.task = t /\ r.channel = channel /\ r.worker = w
      /\ r.attempt = attempts /\ r.seq = s.latest_seq[w][t] + 1
  BY DEF AlertSent
<1>2. b = <<r>>
  BY DEF AlertRecords
<1> HIDE DEF r, b
<1>3. Fits(s, b)
  BY <1>1, <1>2 DEF Fits, FitsAt, AlertFits
<1> QED
  BY <1>3 DEF b

(***************************************************************************)
(* LedgerInv holds in every state.                                         *)
(***************************************************************************)
(* What Persist does, in terms of the first record and the rest. *)
LEMMA PersistParts ==
  ASSUME TypeOK, Persist
  PROVE  /\ state \in States /\ batch \in Seq(Records)
         /\ batch[1] \in Records /\ 1 \in 1..Len(batch)
         /\ state' = apply_record(state, batch[1]) /\ batch' = Tail(batch)
         /\ state' \in States
         /\ Len(batch') = Len(batch) - 1
         /\ \A i \in 1..Len(batch') : batch'[i] = batch[i + 1] /\ i + 1 \in 1..Len(batch)
<1>1. /\ state \in States /\ batch \in Seq(Records) /\ batch # <<>>
      /\ state' = apply_record(state, Head(batch)) /\ batch' = Tail(batch)
  BY DEF TypeOK, Persist
<1>2. batch[1] \in Records /\ Head(batch) = batch[1] /\ 1 \in 1..Len(batch)
  BY <1>1
<1> QED
  BY <1>1, <1>2, ApplyRecordType

(* The event that is first in a batch takes the next number. *)
LEMMA FirstEventIsNext ==
  ASSUME NEW s, NEW b, Fits(s, b), 1 \in 1..Len(b), b[1].kind = "EventAppended"
  PROVE  b[1].event.seq = s.latest_seq[b[1].event.worker][b[1].event.task] + 1
BY DEF Fits, FitsAt, EventFits, Offset

(* A lease is of a task that exists. *)
LEMMA LeaseOfKnownTask ==
  ASSUME NEW s \in States, NEW b \in Seq(Records), Fresh(s), Fits(s, b),
         1 \in 1..Len(b), b[1].kind = "TaskLeased"
  PROVE  /\ b[1].task \in Tasks /\ b[1].worker \in Workers
         /\ s.tasks[b[1].task].status # "Absent"
         /\ \/ s.tasks[b[1].task].status = "Enqueued"
            \/ s.tasks[b[1].task].leased_to = b[1].worker
         /\ \A u \in Tasks \ {b[1].task} : ~HoldsLease(s, u, b[1].worker)
<1>1. b[1] \in Records /\ LeaseFits(s, b, 1)
  BY DEF Fits, FitsAt
<1>2. b[1].task \in Tasks /\ b[1].worker \in Workers
  BY <1>1 DEF Records
<1> QED
  BY <1>1, <1>2, NoWorkerAssumption DEF LeaseFits, Fresh

(* What one durable record may do to the state, one case for each kind of   *)
(* record a transaction writes.                                             *)
Unnoticed(s, n) == n.tasks = s.tasks /\ SameLog(s, n) /\ SameNotes(s, n)

Queued(s, n, t) ==
  /\ s.tasks[t].status = "Absent"
  /\ SameTasksBut(s, n, t) /\ SameLog(s, n) /\ SameNotes(s, n)
  /\ n.tasks[t].status = "Enqueued"
  /\ n.tasks[t].leased_to = NoWorker /\ n.tasks[t].attempts = 0

Begun(s, n, t, w) ==
  /\ \/ s.tasks[t].status = "Enqueued"
     \/ s.tasks[t].status # "Absent" /\ s.tasks[t].leased_to = w
  /\ \A u \in Tasks \ {t} : ~HoldsLease(s, u, w)
  /\ SameTasksBut(s, n, t) /\ SameLog(s, n) /\ SameNotes(s, n)
  /\ n.tasks[t].status = "Leased" /\ n.tasks[t].leased_to = w
  /\ n.tasks[t].attempts = s.tasks[t].attempts + 1

Dropped(s, n, t) ==
  /\ IsOpen(s, t) /\ s.tasks[t].leased_to = NoWorker
  /\ Ended(s, n, t, NoWorker, "Cancelled") /\ SameLog(s, n) /\ SameNotes(s, n)

Progressed(s, n, e) ==
  /\ e.payload \in ProgressPayloads
  /\ n.tasks = s.tasks /\ SameNotes(s, n) /\ Logged(s, n, e)

Stopped(s, n, e) ==
  /\ e.payload \in {"Failed", "Cancelled"} /\ HoldsLease(s, e.task, e.worker)
  /\ Ended(s, n, e.task, e.worker, e.payload) /\ SameNotes(s, n) /\ Logged(s, n, e)

Finalized(s, n, e, status) ==
  /\ status \in TerminalStatuses /\ e.payload \in TerminalPayloads
  /\ HoldsLease(s, e.task, e.worker)
  /\ Ended(s, n, e.task, e.worker, status) /\ Logged(s, n, e)
  /\ n.alerts = s.alerts
  /\ n.receipts[e.task].attempt = s.tasks[e.task].attempts
  /\ n.receipts[e.task].terminal_seq = e.seq
  /\ \A u \in Tasks \ {e.task} : n.receipts[u] = s.receipts[u]

Escalated(s, n, e, alert) ==
  /\ e.payload = "Escalated" /\ alert.task = e.task /\ alert \in Alerts
  /\ s.tasks[e.task].status = "Failed" /\ s.tasks[e.task].leased_to = e.worker
  /\ s.tasks[e.task].attempts = alert.attempt
  /\ n.tasks = s.tasks /\ n.receipts = s.receipts /\ Logged(s, n, e)
  /\ n.alerts = s.alerts \cup {alert}

(* The event takes the next number of its worker and task. *)
Follows(s, e) == e.seq = s.latest_seq[e.worker][e.task] + 1

Effects(s, n) ==
  \/ Unnoticed(s, n)
  \/ \E t \in Tasks : Queued(s, n, t)
  \/ \E t \in Tasks, w \in Workers : Begun(s, n, t, w)
  \/ \E t \in Tasks : Dropped(s, n, t)
  \/ \E e \in Events : Follows(s, e) /\ Progressed(s, n, e)
  \/ \E e \in Events : Follows(s, e) /\ Stopped(s, n, e)
  \/ \E e \in Events, status \in TerminalStatuses :
       Follows(s, e) /\ Finalized(s, n, e, status)
  \/ \E e \in Events, alert \in Alerts : Follows(s, e) /\ Escalated(s, n, e, alert)

(* A durable record has one of these effects. *)
LEMMA PersistEffects ==
  ASSUME TypeOK, LedgerInv, Persist
  PROVE  Effects(state, state')
<1> DEFINE r == batch[1]
<1>0. /\ state \in States /\ batch \in Seq(Records) /\ r \in Records
      /\ 1 \in 1..Len(batch) /\ state' = apply_record(state, r)
      /\ Fresh(state) /\ Fits(state, batch) /\ FitsAt(state, batch, 1)
  BY PersistParts DEF LedgerInv, Fits
<1>e. ASSUME NEW e \in Events
      PROVE  /\ e.task \in Tasks /\ e.worker \in Workers /\ e.seq \in Nat
             /\ state.latest_seq[e.worker][e.task] \in Nat
             /\ Follows(state, e) => e.seq > state.latest_seq[e.worker][e.task]
  BY <1>0 DEF Events, States, Follows
<1> HIDE DEF r
<1>1. CASE r.kind \in {"RunCreated", "RunStatusChanged", "Heartbeat"}
  BY <1>0, <1>1, QuietEffect DEF Effects, Unnoticed
<1>2. CASE r.kind = "TaskEnqueued"
  <2>1. r.task \in Tasks /\ state' = ApplyEnqueue(state, r.task)
    BY <1>0, <1>2 DEF Records, apply_record
  <2>2. CASE state.tasks[r.task].status = "Absent"
    BY <1>0, <2>1, <2>2, ApplyEnqueueEffect DEF Effects, Queued
  <2>3. CASE state.tasks[r.task].status # "Absent"
    BY <2>1, <2>3 DEF ApplyEnqueue, Effects, Unnoticed, SameLog, SameNotes
  <2> QED
    BY <2>2, <2>3
<1>3. CASE r.kind = "TaskLeased"
  <2>1. /\ state' = ApplyLease(state, r) /\ state.tasks[r.task].status # "Absent"
        /\ r.task \in Tasks /\ r.worker \in Workers
        /\ \/ state.tasks[r.task].status = "Enqueued"
           \/ state.tasks[r.task].leased_to = r.worker
        /\ \A u \in Tasks \ {r.task} : ~HoldsLease(state, u, r.worker)
    BY <1>0, <1>3, LeaseOfKnownTask DEF apply_record, r
  <2>2. Begun(state, state', r.task, r.worker)
    BY <1>0, <1>3, <2>1, ApplyLeaseEffect DEF Begun
  <2> QED
    BY <2>1, <2>2 DEF Effects
<1>4. CASE r.kind = "TaskCompletedOrFailed"
  <2>1. /\ r.task \in Tasks /\ r.worker \in Workers \cup {NoWorker}
        /\ r.timestamp \in Nat /\ r.status \in TerminalStatuses
        /\ state' = MarkTaskTerminal(state, r.task, r.worker, r.timestamp, r.status)
    BY <1>0, <1>4 DEF Records, apply_record
  <2>2. CancellationFits(state, r)
    BY <1>0, <1>4 DEF FitsAt, r
  <2>3. Dropped(state, state', r.task)
    BY <1>0, <2>1, <2>2, MarkTaskTerminalEffect DEF CancellationFits, Dropped
  <2> QED
    BY <2>1, <2>3 DEF Effects
<1>5. CASE r.kind = "EventAppended"
  <2> DEFINE e == r.event
  <2>1. e \in Events /\ state' = ApplyEvent(state, e)
    BY <1>0, <1>5 DEF Records, apply_record
  <2>2. Follows(state, e) /\ EventFits(state, batch, 1)
    BY <1>0, <1>5, FirstEventIsNext DEF Follows, FitsAt, r
  <2>3. \/ e.payload \in ProgressPayloads
        \/ e.payload \in {"Failed", "Cancelled"} /\ HoldsLease(state, e.task, e.worker)
    BY <2>2 DEF EventFits, r
  <2> HIDE DEF e
  <2>4. /\ SameNotes(state, state') /\ Logged(state, state', e)
        /\ e.payload \in TerminalPayloads =>
             Ended(state, state', e.task, e.worker, e.payload)
        /\ e.payload \notin TerminalPayloads => state'.tasks = state.tasks
    BY <1>0, <1>e, <2>1, <2>2, ApplyEventEffect
  <2>5. CASE e.payload \in ProgressPayloads
    <3>1. e.payload \notin TerminalPayloads
      BY <2>5 DEF ProgressPayloads, BusyPayloads, TerminalPayloads, TerminalStatuses
    <3>2. Progressed(state, state', e)
      BY <2>4, <2>5, <3>1 DEF Progressed
    <3> QED
      BY <2>1, <2>2, <3>2 DEF Effects
  <2>6. CASE e.payload \in {"Failed", "Cancelled"} /\ HoldsLease(state, e.task, e.worker)
    <3>1. e.payload \in TerminalPayloads
      BY <2>6 DEF TerminalPayloads, TerminalStatuses
    <3>2. Stopped(state, state', e)
      BY <2>4, <2>6, <3>1 DEF Stopped
    <3> QED
      BY <2>1, <2>2, <3>2 DEF Effects
  <2> QED
    BY <2>3, <2>5, <2>6
<1>6. CASE r.kind = "TaskAttemptFinalized"
  <2> DEFINE e == r.event
             status == IF r.final_status = "None" THEN e.payload ELSE r.final_status
  <2>1. /\ e \in Events /\ state' = ApplyFinalized(state, r)
        /\ r.final_status \in TerminalStatuses \cup {"None"}
    BY <1>0, <1>6 DEF Records, apply_record
  <2>2. FinalizationFits(state, r)
    BY <1>0, <1>6 DEF FitsAt, r
  <2>3. /\ Follows(state, e) /\ e.payload \in TerminalPayloads
        /\ HoldsLease(state, e.task, e.worker)
        /\ r.receipt.attempt = state.tasks[e.task].attempts
        /\ r.receipt.terminal_seq = e.seq
    BY <2>1, <2>2 DEF FinalizationFits, AttemptIsLeased, Follows
  <2>4. e.seq > state.latest_seq[e.worker][e.task]
    BY <1>e, <2>1, <2>3
  <2>5. status \in TerminalStatuses
    BY <2>1, <2>3 DEF TerminalPayloads
  <2>6. Finalized(state, state', e, status)
    BY <1>0, <1>6, <2>1, <2>3, <2>4, <2>5, ApplyFinalizedEffect DEF Finalized
  <2> HIDE DEF e, status
  <2> QED
    BY <2>1, <2>3, <2>5, <2>6 DEF Effects
<1>7. CASE r.kind = "AlertSent"
  <2> DEFINE alert == [task |-> r.task, attempt |-> r.attempt, channel |-> r.channel]
             e == [worker |-> r.worker, task |-> r.task, seq |-> r.seq,
                   payload |-> "Escalated", timestamp |-> r.timestamp]
  <2>1. /\ r.task \in Tasks /\ r.channel \in Channels /\ r.worker \in Workers
        /\ r.attempt \in Nat /\ r.seq \in Nat /\ r.timestamp \in Nat
        /\ state' = ApplyAlert(state, r)
    BY <1>0, <1>7 DEF Records, apply_record
  <2>2. AlertFits(state, r)
    BY <1>0, <1>7 DEF FitsAt, r
  <2>3. r.seq = state.latest_seq[r.worker][r.task] + 1 /\ alert \notin state.alerts
    BY <2>2 DEF AlertFits, CanAlert
  <2>4. alert \in Alerts /\ e \in Events
    BY <2>1 DEF Alerts, Events, Payloads
  <2>5. /\ e.worker = r.worker /\ e.task = r.task /\ e.seq = r.seq
        /\ e.payload = "Escalated" /\ alert.task = r.task /\ alert.attempt = r.attempt
    OBVIOUS
  <2>6. r.seq > state.latest_seq[r.worker][r.task]
    BY <1>0, <2>1, <2>3 DEF States
  <2>7. /\ state'.tasks = state.tasks /\ state'.receipts = state.receipts
        /\ Logged(state, state', e) /\ state'.alerts = state.alerts \cup {alert}
    BY <1>0, <1>7, <2>1, <2>3, <2>6, ApplyAlertEffect
  <2> HIDE DEF alert, e
  <2>8. Escalated(state, state', e, alert)
    BY <2>2, <2>4, <2>5, <2>7 DEF Escalated, AlertFits, CanAlert
  <2>9. Follows(state, e)
    BY <2>3, <2>5 DEF Follows
  <2> QED
    BY <2>4, <2>8, <2>9 DEF Effects
<1> QED
  BY <1>0, <1>1, <1>2, <1>3, <1>4, <1>5, <1>6, <1>7 DEF Records

(* Every durable record keeps fresh tasks fresh. *)
LEMMA PersistFresh ==
  ASSUME TypeOK, LedgerInv, Persist
  PROVE  Fresh(state')
<1> USE DEF Fresh, SameTasksBut, TerminalStatuses
<1>0. Fresh(state) /\ Effects(state, state')
  BY PersistEffects DEF LedgerInv
<1>1. ASSUME NEW t \in Tasks, Queued(state, state', t) PROVE Fresh(state')
  BY <1>0, <1>1 DEF Queued
<1>2. ASSUME NEW t \in Tasks, NEW w \in Workers, Begun(state, state', t, w)
      PROVE  Fresh(state')
  BY <1>0, <1>2 DEF Begun
<1>3. ASSUME NEW t \in Tasks, NEW w, NEW status \in TerminalStatuses,
             Ended(state, state', t, w, status)
      PROVE  Fresh(state')
  BY <1>0, <1>3 DEF Ended
<1>4. CASE state'.tasks = state.tasks
  BY <1>0, <1>4
<1> QED
  BY <1>0, <1>1, <1>2, <1>3, <1>4
  DEF Effects, Unnoticed, Dropped, Progressed, Stopped, Finalized, Escalated, Events

(* What is left of a batch fits the state its first record leads to. *)
LEMMA PersistFits ==
  ASSUME TypeOK, LedgerInv, Persist
  PROVE  Fits(state', batch')
<1> DEFINE r == batch[1]
<1>0. /\ state \in States /\ batch \in Seq(Records) /\ r \in Records
      /\ 1 \in 1..Len(batch) /\ Len(batch) \in Nat /\ state' = apply_record(state, r)
      /\ Fresh(state) /\ Fits(state, batch) /\ FitsAt(state, batch, 1)
      /\ Len(batch') = Len(batch) - 1
  BY PersistParts DEF LedgerInv, Fits
<1> SUFFICES ASSUME NEW i \in 1..Len(batch') PROVE FitsAt(state', batch', i)
  BY DEF Fits
<1>1. /\ batch'[i] = batch[i + 1] /\ i + 1 \in 1..Len(batch) /\ i + 1 # 1
      /\ batch'[1] = batch[2] /\ 2 \in 1..Len(batch) /\ 1 \in 1..Len(batch')
      /\ i \in Nat /\ batch[i + 1] \in Records
  BY <1>0, PersistParts
<1>2. FitsAt(state, batch, i + 1) /\ FitsAt(state, batch, 2)
  BY <1>0, <1>1 DEF Fits
<1>3. r.kind \in {"TaskLeased", "EventAppended"}
  BY <1>0, <1>1 DEF FitsAt
<1>4. batch[i + 1].kind # "TaskLeased" /\ batch[2].kind # "TaskLeased"
  BY <1>1, <1>2 DEF FitsAt, LeaseFits
<1>5. batch[i + 1].kind \notin {"TaskAttemptFinalized", "TaskCompletedOrFailed", "AlertSent"}
  BY <1>0, <1>1, <1>2 DEF FitsAt
<1>6. batch'[i].kind \notin {"TaskLeased", "EventAppended"} => i = Len(batch')
  BY <1>0, <1>1, <1>2 DEF FitsAt
<1>7. ASSUME batch'[i].kind = "EventAppended" PROVE EventFits(state', batch', i)
  <2> DEFINE e == batch[i + 1].event
  <2>1. e \in Events /\ e.task \in Tasks /\ e.worker \in Workers /\ e.seq \in Nat
    BY <1>1, <1>7 DEF Records, Events
  <2>2. EventFits(state, batch, i + 1)
    BY <1>1, <1>2, <1>7 DEF FitsAt
  <2>3. batch'[i].event = e
    BY <1>1
  <2>4. batch'[1].kind # "TaskLeased" /\ Offset(batch', i) = i
    BY <1>1, <1>4 DEF Offset
  <2>5. \A j \in 1..Len(batch') : batch'[j].kind = "EventAppended" =>
          batch'[j].event.worker = e.worker /\ batch'[j].event.task = e.task
    BY <2>2, PersistParts DEF EventFits
  <2>6. e.payload \notin ProgressPayloads => i = Len(batch') /\ e.payload \in {"Failed", "Cancelled"}
                                             /\ batch'[1].kind = "EventAppended"
    <3> SUFFICES ASSUME e.payload \notin ProgressPayloads
                 PROVE  i = Len(batch') /\ e.payload \in {"Failed", "Cancelled"}
                        /\ batch'[1].kind = "EventAppended"
      OBVIOUS
    <3>1. i + 1 = Len(batch) /\ e.payload \in {"Failed", "Cancelled"}
      BY <2>2 DEF EventFits
    <3>2. i = Len(batch')
      BY <1>0, <1>1, <3>1
    <3>3. CASE i = 1
      BY <1>1, <1>7, <3>1, <3>2, <3>3
    <3>4. CASE i # 1
      <4>1. Len(batch) # 2
        BY <1>1, <3>1, <3>4
      <4> QED
        BY <1>1, <1>2, <1>4, <3>1, <3>2, <4>1 DEF FitsAt
    <3> QED
      BY <3>1, <3>2, <3>3, <3>4
  <2>7. CASE r.kind = "TaskLeased"
    <3>1. /\ state' = ApplyLease(state, r) /\ state.tasks[r.task].status # "Absent"
          /\ r.task \in Tasks
      BY <1>0, <2>7, LeaseOfKnownTask DEF apply_record
    <3>2. /\ SameTasksBut(state, state', r.task) /\ SameLog(state, state')
          /\ state'.tasks[r.task].leased_to = r.worker
      BY <1>0, <2>7, <3>1, ApplyLeaseEffect
    <3>3. e.seq = state'.latest_seq[e.worker][e.task] + Offset(batch', i)
      BY <1>1, <2>1, <2>2, <2>4, <2>7, <3>2 DEF EventFits, SameLog, Offset
    <3>4. state'.tasks[e.task].leased_to = e.worker
      <4>1. \/ state.tasks[e.task].leased_to = e.worker
            \/ r.task = e.task /\ r.worker = e.worker
        BY <2>2 DEF EventFits
      <4>2. \/ state.tasks[r.task].leased_to = NoWorker
            \/ state.tasks[r.task].leased_to = r.worker
        BY <1>0, <2>7, LeaseOfKnownTask DEF Fresh
      <4>3. e.worker # NoWorker
        BY <2>1, NoWorkerAssumption
      <4> HIDE DEF e, r
      <4> QED
        BY <2>1, <3>2, <4>1, <4>2, <4>3 DEF SameTasksBut
    <3>5. e.payload \in ProgressPayloads
      BY <2>2, <2>7 DEF EventFits
    <3> QED
      BY <2>3, <2>5, <3>3, <3>4, <3>5 DEF EventFits
  <2>8. CASE r.kind = "EventAppended"
    <3>1. /\ r.event \in Events /\ state' = ApplyEvent(state, r.event)
          /\ EventFits(state, batch, 1)
      BY <1>0, <2>8 DEF Records, apply_record, FitsAt
    <3>2. r.event.worker = e.worker /\ r.event.task = e.task
      BY <1>0, <2>2, <2>8 DEF EventFits
    <3>3. /\ r.event.seq = state.latest_seq[e.worker][e.task] + 1
          /\ state.latest_seq[e.worker][e.task] \in Nat
      <4>1. r.event.seq = state.latest_seq[r.event.worker][r.event.task] + 1
        BY <1>0, <2>8, FirstEventIsNext
      <4> HIDE DEF e, r
      <4> QED
        BY <1>0, <2>1, <3>2, <4>1 DEF States
    <3>4. r.event.payload \in ProgressPayloads
      BY <1>0, <1>1, <3>1 DEF EventFits
    <3>5. r.event.payload \notin TerminalPayloads
      BY <3>4 DEF ProgressPayloads, BusyPayloads, TerminalPayloads, TerminalStatuses
    <3>6. Logged(state, state', r.event) /\ state'.tasks = state.tasks
      <4>1. r.event.seq > state.latest_seq[r.event.worker][r.event.task]
        BY <3>2, <3>3
      <4> QED
        BY <1>0, <3>1, <3>5, <4>1, ApplyEventEffect
    <3>7. state'.latest_seq[e.worker][e.task] = r.event.seq
      BY <3>2, <3>6 DEF Logged
    <3>8. e.seq = state.latest_seq[e.worker][e.task] + (i + 1)
      BY <2>2, <2>8 DEF EventFits, Offset
    <3>9. e.seq = state'.latest_seq[e.worker][e.task] + Offset(batch', i)
      <4> DEFINE latest == state.latest_seq[e.worker][e.task]
      <4>1. latest \in Nat /\ i \in Nat
        BY <1>1, <3>3
      <4>2. state'.latest_seq[e.worker][e.task] = latest + 1
        BY <3>3, <3>7
      <4>3. e.seq = latest + (i + 1)
        BY <3>8
      <4> HIDE DEF latest, e
      <4>4. e.seq = (latest + 1) + i
        BY <4>1, <4>3
      <4> QED
        BY <2>4, <4>2, <4>4
    <3>10. state'.tasks[e.task].leased_to = e.worker
      BY <2>2, <2>8, <3>6 DEF EventFits
    <3>11. \/ e.payload \in ProgressPayloads
           \/ /\ e.payload \in {"Failed", "Cancelled"} /\ i = Len(batch')
              /\ batch'[1].kind = "EventAppended" /\ HoldsLease(state', e.task, e.worker)
      BY <2>2, <2>6, <3>6 DEF EventFits, HoldsLease
    <3> QED
      BY <2>3, <2>5, <3>9, <3>10, <3>11 DEF EventFits
  <2> QED
    BY <1>3, <2>7, <2>8
<1> QED
  BY <1>1, <1>4, <1>5, <1>6, <1>7 DEF FitsAt

(* Taking the lock with a batch that fits keeps the invariant. *)
LEMMA WriteFits ==
  ASSUME LedgerInv, NEW c, NEW records, Write(c, records), Fits(state, records)
  PROVE  LedgerInv'
BY DEF Write, LedgerInv

(* Without a durable record and without a new batch nothing can go wrong. *)
LEMMA IdleFits ==
  ASSUME LedgerInv, UNCHANGED state, batch' = batch \/ batch' = <<>>
  PROVE  LedgerInv'
<1>1. Fits(state, <<>>)
  BY DEF Fits
<1> QED
  BY <1>1 DEF LedgerInv

(* Every step of every process keeps the invariant. *)
LEMMA NextLedger == TypeOK /\ LedgerInv /\ [Next]_vars => LedgerInv'
<1> SUFFICES ASSUME TypeOK, LedgerInv, [Next]_vars PROVE LedgerInv'
  OBVIOUS
<1> USE DEF WriteUnseen
<1>0. /\ state \in States /\ now \in Nat /\ Fresh(state)
      /\ \A at \in Timestamps : at \in Nat
  BY DEF TypeOK, Timestamps, LedgerInv
<1>p. "Running" \in ProgressPayloads /\ "Stale" \in ProgressPayloads
  BY DEF ProgressPayloads, BusyPayloads
<1>1. CASE Produce
  <2>1. ASSUME NEW r \in Runs, CreateRun(r) PROVE LedgerInv'
    <3>1. Fits(state, <<RunCreated(r)>>)
      BY PlainRecordFits DEF RunCreated
    <3> QED
      BY <2>1, <3>1, WriteFits DEF CreateRun
  <2>2. ASSUME NEW t \in Tasks, Enqueue(t) PROVE LedgerInv'
    <3>1. Fits(state, <<TaskEnqueued(t)>>)
      BY PlainRecordFits DEF TaskEnqueued
    <3> QED
      BY <2>2, <3>1, WriteFits DEF Enqueue
  <2> QED
    BY <1>1, <2>1, <2>2 DEF Produce
<1>2. CASE Execute
  <2> SUFFICES ASSUME NEW t \in Tasks, NEW w \in Workers, NEW at \in Timestamps,
                      \/ StartTask(t, w, at)
                      \/ ClaimNext(t, w, at)
                      \/ LateProgress(t, w, at)
                      \/ \E k \in 1..MaxAttempts :
                           \/ Progress(t, w, k, at)
                           \/ \E outcome \in TerminalStatuses,
                                 verdict \in {"None", "Failed"} :
                                outcome # verdict
                                  /\ Finalize(t, w, k, at, outcome, verdict)
                           \/ \E channel \in Channels : Alert(t, w, k, channel, at)
               PROVE  LedgerInv'
    BY <1>2 DEF Execute
  <2>1. CASE StartTask(t, w, at)
    <3>1. Fits(state, StartRecords(state, t, w, at, InitialEvents))
      BY <1>0, <2>1, StartRecordsFit DEF StartTask, CanStart
    <3> QED
      BY <2>1, <3>1, WriteFits DEF StartTask
  <2>2. CASE ClaimNext(t, w, at)
    <3>1. Fits(state, <<TaskLeased(t, w, at, Never)>>)
      BY <2>2, ClaimFits DEF ClaimNext
    <3> QED
      BY <2>2, <3>1, WriteFits DEF ClaimNext
  <2>3. CASE LateProgress(t, w, at)
    <3>1. Fits(state, EventRecords(state, t, w, at, "Running"))
      BY <1>0, <1>p, <2>3, EventRecordsFit DEF LateProgress
    <3> QED
      BY <2>3, <3>1, WriteFits DEF LateProgress
  <2>4. ASSUME NEW k \in 1..MaxAttempts, Progress(t, w, k, at) PROVE LedgerInv'
    <3>1. Fits(state, EventRecords(state, t, w, at, "Running"))
      BY <1>0, <1>p, <2>4, EventRecordsFit
      DEF Progress, CanAppendProgress, AttemptIsLeased, HoldsLease
    <3> QED
      BY <2>4, <3>1, WriteFits DEF Progress
  <2>5. ASSUME NEW k \in 1..MaxAttempts, NEW outcome \in TerminalStatuses,
               NEW verdict \in {"None", "Failed"},
               Finalize(t, w, k, at, outcome, verdict)
        PROVE  LedgerInv'
    <3>1. Fits(state, FinalizeRecords(state, t, w, k, at, outcome, verdict))
      BY <1>0, <2>5, FinalizeRecordsFit DEF Finalize
    <3> QED
      BY <2>5, <3>1, WriteFits DEF Finalize
  <2>6. ASSUME NEW k \in 1..MaxAttempts, NEW channel \in Channels,
               Alert(t, w, k, channel, at)
        PROVE  LedgerInv'
    <3>1. Fits(state, AlertRecords(state, t, w, k, channel, at))
      BY <2>6, AlertRecordsFit DEF Alert
    <3> QED
      BY <2>6, <3>1, WriteFits DEF Alert
  <2> QED
    BY <2>1, <2>2, <2>3, <2>4, <2>5, <2>6
<1>3. CASE Operate
  <2>1. ASSUME NEW at \in Timestamps, NEW w \in Workers, Heartbeat(w, at)
        PROVE  LedgerInv'
    <3>1. Fits(state, <<HeartbeatRecord(w, at)>>)
      BY PlainRecordFits DEF HeartbeatRecord
    <3> QED
      BY <2>1, <3>1, WriteFits DEF Heartbeat
  <2>2. ASSUME NEW at \in Timestamps, NEW t \in Tasks,
               NEW expected \in Workers \cup {NoWorker}, Cancel(t, expected, at)
        PROVE  LedgerInv'
    <3>1. Fits(state, CancelRecords(state, t, at))
      BY <1>0, <2>2, CancelRecordsFit DEF Cancel, CanCancel
    <3> QED
      BY <2>2, <3>1, WriteFits DEF Cancel
  <2> QED
    BY <1>3, <2>1, <2>2 DEF Operate
<1>4. CASE Decide
  <2>1. ASSUME NEW c \in Clients, NEW t \in Tasks, Observe(c, t) PROVE LedgerInv'
    BY <2>1, IdleFits DEF Observe
  <2>2. ASSUME NEW c \in Clients, NEW at \in Timestamps, Restart(c, at)
        PROVE  LedgerInv'
    <3>1. Fits(state, RestartRecords(state, seen[c], at, Never))
      BY <1>0, <2>2, SeenType, RestartRecordsFit DEF Restart
    <3> QED
      BY <2>2, <3>1, WriteFits DEF Restart, WriteSeen
  <2>3. ASSUME NEW c \in Clients, seen[c] # NoVersion, CanAppendVersioned(state, seen[c])
        PROVE  HoldsLease(state, seen[c].task, seen[c].worker)
    BY <2>3 DEF CanAppendVersioned, VersionIs, HoldsLease
  <2>4. ASSUME NEW c \in Clients, NEW at \in Timestamps, MarkStale(c, at)
        PROVE  LedgerInv'
    <3>1. Fits(state, EventRecords(state, seen[c].task, seen[c].worker, at, "Stale"))
      BY <1>0, <1>p, <2>3, <2>4, SeenType, EventRecordsFit DEF MarkStale, HoldsLease
    <3> QED
      BY <2>4, <3>1, WriteFits DEF MarkStale
  <2>5. ASSUME NEW c \in Clients, NEW at \in Timestamps, FailExhausted(c, at)
        PROVE  LedgerInv'
    <3>1. Fits(state, EventRecords(state, seen[c].task, seen[c].worker, at, "Failed"))
      <4>1. /\ HoldsLease(state, seen[c].task, seen[c].worker)
            /\ seen[c].task \in Tasks /\ seen[c].worker \in Workers
        BY <2>3, <2>5, SeenType DEF FailExhausted
      <4>2. state.tasks[seen[c].task].leased_to = seen[c].worker
        BY <4>1 DEF HoldsLease
      <4> QED
        BY <1>0, <4>1, <4>2, EventRecordsFit
    <3> QED
      BY <2>5, <3>1, WriteFits DEF FailExhausted, WriteSeen
  <2> QED
    BY <1>4, <2>1, <2>2, <2>4, <2>5 DEF Decide
<1>5. CASE Persist
  BY <1>5, PersistFresh, PersistFits DEF LedgerInv
<1>6. CASE Cut
  BY <1>6, IdleFits DEF Cut
<1>7. CASE Tick
  BY <1>7, IdleFits DEF Tick
<1>8. CASE UNCHANGED vars
  BY <1>8, IdleFits DEF vars
<1> QED
  BY <1>1, <1>2, <1>3, <1>4, <1>5, <1>6, <1>7, <1>8 DEF Next

(* An empty ledger satisfies the invariants. *)
LEMMA InitLedger == Init => LedgerInv /\ ExclusionInv
BY DEF Init, EmptyState, NoTask, LedgerInv, Fresh, Fits, ExclusionInv,
       WorkerExclusive, LeaseInFlight, HoldsLease

(* The invariants the theorems below rest on hold together. *)
LEMMA Invariants == Spec => [](TypeOK /\ ExclusionInv /\ LedgerInv)
BY InitType, InitLedger, NextType, NextExclusion, NextLedger, PTL DEF Spec

(***************************************************************************)
(* Numbering.                                                              *)
(***************************************************************************)
(* An event that becomes durable has and sets the next number of its key.   *)
LEMMA EventIsLogged ==
  ASSUME TypeOK, LedgerInv, Persist, NEW r, r = Head(batch),
         r.kind \in {"EventAppended", "TaskAttemptFinalized"}
  PROVE  LET e == r.event IN
         /\ e.seq = state.latest_seq[e.worker][e.task] + 1
         /\ state'.latest_seq[e.worker][e.task] = e.seq
<1>0. /\ state \in States /\ batch \in Seq(Records) /\ r = batch[1] /\ r \in Records
      /\ 1 \in 1..Len(batch) /\ state' = apply_record(state, r)
      /\ FitsAt(state, batch, 1) /\ Fits(state, batch)
  BY PersistParts DEF LedgerInv, Fits
<1>1. r.event \in Events /\ r.event.worker \in Workers /\ r.event.task \in Tasks
  BY <1>0 DEF Records, Events
<1>2. r.event.seq = state.latest_seq[r.event.worker][r.event.task] + 1
  <2>1. CASE r.kind = "EventAppended"
    BY <1>0, <2>1, FirstEventIsNext
  <2>2. CASE r.kind = "TaskAttemptFinalized"
    BY <1>0, <2>2 DEF FitsAt, FinalizationFits
  <2> QED
    BY <2>1, <2>2
<1>3. r.event.seq > state.latest_seq[r.event.worker][r.event.task]
  BY <1>0, <1>1, <1>2 DEF States
<1>4. Logged(state, state', r.event)
  <2>1. CASE r.kind = "EventAppended"
    BY <1>0, <1>1, <1>3, <2>1, ApplyEventEffect DEF apply_record
  <2>2. CASE r.kind = "TaskAttemptFinalized"
    BY <1>0, <1>3, <2>2, ApplyFinalizedEffect
    DEF apply_record, FitsAt, FinalizationFits
  <2> QED
    BY <2>1, <2>2
<1> QED
  BY <1>2, <1>4 DEF Logged

(* Whatever processes append, and wherever batches are cut, the events of   *)
(* a worker on a task are numbered 1, 2, 3, ... in the order in which they  *)
(* become durable.                                                          *)
THEOREM EventsAreGapless == Spec => SequenceIsGapless
<1> DEFINE Gapless ==
      \A t \in Tasks, w \in Workers :
        Persist /\ Head(batch).kind \in {"EventAppended", "TaskAttemptFinalized"}
          /\ Head(batch).event.task = t /\ Head(batch).event.worker = w
        => /\ Head(batch).event.seq = state.latest_seq[w][t] + 1
           /\ state'.latest_seq[w][t] = Head(batch).event.seq
<1>1. TypeOK /\ LedgerInv => Gapless
  BY EventIsLogged
<1>2. Gapless => [Gapless]_vars
  OBVIOUS
<1> QED
  BY <1>1, Invariants, PTL DEF SequenceIsGapless

(***************************************************************************)
(* Outcomes.                                                               *)
(***************************************************************************)
(* Nothing completes without a worker. *)
CompletedByWorker ==
  \A t \in Tasks :
    state.tasks[t].status = "Completed" => state.tasks[t].leased_to \in Workers

OutcomeIInv == OutcomeInv /\ CompletedByWorker /\ TerminalShown

(* No durable record lowers a sequence number. *)
LEMMA LogGrows ==
  ASSUME TypeOK, LedgerInv, Persist
  PROVE  \A w \in Workers, t \in Tasks :
           /\ state.latest_seq[w][t] \in Nat /\ state'.latest_seq[w][t] \in Nat
           /\ state'.latest_seq[w][t] >= state.latest_seq[w][t]
<1> SUFFICES ASSUME NEW w \in Workers, NEW t \in Tasks
             PROVE  /\ state.latest_seq[w][t] \in Nat /\ state'.latest_seq[w][t] \in Nat
                    /\ state'.latest_seq[w][t] >= state.latest_seq[w][t]
  OBVIOUS
<1>1. state.latest_seq[w][t] \in Nat /\ state'.latest_seq[w][t] \in Nat
  BY PersistParts DEF States
<1>2. CASE SameLog(state, state')
  BY <1>1, <1>2 DEF SameLog
<1>3. ASSUME NEW e \in Events, Follows(state, e), Logged(state, state', e)
      PROVE  state'.latest_seq[w][t] >= state.latest_seq[w][t]
  <2>1. CASE w = e.worker /\ t = e.task
    BY <1>1, <1>3, <2>1 DEF Logged, Follows
  <2>2. CASE w # e.worker \/ t # e.task
    BY <1>1, <1>3, <2>2 DEF Logged
  <2> QED
    BY <2>1, <2>2
<1> QED
  BY <1>1, <1>2, <1>3, PersistEffects
  DEF Effects, Unnoticed, Queued, Begun, Dropped, Progressed, Stopped, Finalized,
      Escalated

(* One task, seen through a durable record: it stays as it is, is queued,   *)
(* begins an attempt, or settles, and only finalization touches a receipt.  *)
TaskStays(t) ==
  state'.tasks[t] = state.tasks[t] /\ state'.receipts[t] = state.receipts[t]

TaskQueues(t) ==
  /\ state.tasks[t].status = "Absent" /\ state'.receipts[t] = state.receipts[t]
  /\ state'.tasks[t].status = "Enqueued" /\ state'.tasks[t].attempts = 0

TaskBegins(t) ==
  /\ state'.receipts[t] = state.receipts[t] /\ state'.tasks[t].status = "Leased"
  /\ state'.tasks[t].attempts = state.tasks[t].attempts + 1

TaskStops(t) ==
  /\ IsOpen(state, t) /\ state'.receipts[t] = state.receipts[t]
  /\ state'.tasks[t].status \in {"Failed", "Cancelled"}
  /\ state'.tasks[t].attempts = state.tasks[t].attempts

TaskFinalizes(t) ==
  /\ IsOpen(state, t) /\ IsTerminal(state', t)
  /\ state'.tasks[t].attempts = state.tasks[t].attempts
  /\ state'.receipts[t].attempt = state.tasks[t].attempts
  /\ \E w \in Workers :
       /\ state'.tasks[t].leased_to = w
       /\ state'.receipts[t].terminal_seq = state.latest_seq[w][t] + 1
       /\ state'.latest_seq[w][t] = state.latest_seq[w][t] + 1

(* What the first record of the batch does to a task. *)
LEMMA PersistTask ==
  ASSUME TypeOK, LedgerInv, Persist, NEW t \in Tasks
  PROVE  \/ TaskStays(t) \/ TaskQueues(t) \/ TaskBegins(t)
         \/ TaskStops(t) \/ TaskFinalizes(t)
<1> USE DEF SameNotes, SameTasksBut, IsOpen, IsTerminal, TerminalStatuses
<1>1. ASSUME NEW u \in Tasks, Queued(state, state', u)
      PROVE  TaskStays(t) \/ TaskQueues(t)
  BY <1>1 DEF Queued, TaskStays, TaskQueues
<1>2. ASSUME NEW u \in Tasks, NEW w \in Workers, Begun(state, state', u, w)
      PROVE  TaskStays(t) \/ TaskBegins(t)
  BY <1>2 DEF Begun, TaskStays, TaskBegins
<1>3. ASSUME NEW u \in Tasks, Dropped(state, state', u)
      PROVE  TaskStays(t) \/ TaskStops(t)
  BY <1>3 DEF Dropped, Ended, TaskStays, TaskStops
<1>4. ASSUME NEW e \in Events, Stopped(state, state', e)
      PROVE  TaskStays(t) \/ TaskStops(t)
  BY <1>4 DEF Stopped, Ended, HoldsLease, TaskStays, TaskStops
<1>5. ASSUME NEW e \in Events, NEW status \in TerminalStatuses, Follows(state, e),
             Finalized(state, state', e, status)
      PROVE  TaskStays(t) \/ TaskFinalizes(t)
  <2>1. e.worker \in Workers
    BY DEF Events
  <2>2. CASE t # e.task
    BY <1>5, <2>2 DEF Finalized, Ended, TaskStays
  <2>3. CASE t = e.task
    BY <1>5, <2>1, <2>3, NoWorkerAssumption
    DEF Finalized, Ended, HoldsLease, Logged, Follows, TaskFinalizes
  <2> QED
    BY <2>2, <2>3
<1>6. CASE state'.tasks = state.tasks /\ state'.receipts = state.receipts
  BY <1>6 DEF TaskStays
<1> QED
  BY <1>1, <1>2, <1>3, <1>4, <1>5, <1>6, PersistEffects
  DEF Effects, Unnoticed, Progressed, Escalated

(* A durable record leaves a completed task its receipt. *)
LEMMA PersistCompleted ==
  ASSUME TypeOK, LedgerInv, OutcomeIInv, Persist
  PROVE  CompletedHasReceipt' /\ CompletedByWorker'
<1> SUFFICES ASSUME NEW t \in Tasks, state'.tasks[t].status = "Completed"
             PROVE  /\ state'.receipts[t].attempt = state'.tasks[t].attempts
                    /\ state'.receipts[t].terminal_seq
                         \in 1..state'.latest_seq[state'.tasks[t].leased_to][t]
                    /\ state'.tasks[t].leased_to \in Workers
  BY DEF CompletedHasReceipt, CompletedByWorker
<1>1. \A w \in Workers : 
        /\ state.latest_seq[w][t] \in Nat /\ state'.latest_seq[w][t] \in Nat
        /\ state'.latest_seq[w][t] >= state.latest_seq[w][t]
  BY LogGrows
<1>2. CASE TaskStays(t)
  <2> DEFINE w == state.tasks[t].leased_to
  <2>1. /\ w \in Workers
        /\ state.receipts[t].attempt = state.tasks[t].attempts
        /\ state.receipts[t].terminal_seq \in 1..state.latest_seq[w][t]
    BY <1>2
    DEF TaskStays, OutcomeIInv, OutcomeInv, CompletedHasReceipt, CompletedByWorker
  <2>2. state'.tasks[t].leased_to = w
    BY <1>2 DEF TaskStays
  <2> HIDE DEF w
  <2>3. state.receipts[t].terminal_seq \in 1..state'.latest_seq[w][t]
    BY <1>1, <2>1
  <2> QED
    BY <1>2, <2>1, <2>2, <2>3 DEF TaskStays
<1>3. CASE TaskFinalizes(t)
  BY <1>1, <1>3 DEF TaskFinalizes
<1> QED
  BY <1>2, <1>3, PersistTask DEF TaskQueues, TaskBegins, TaskStops

(* A durable record leaves no receipt for an attempt that is open. *)
LEMMA PersistReceipts ==
  ASSUME TypeOK, LedgerInv, OutcomeIInv, Persist
  PROVE  ReceiptMeansSettled'
<1> SUFFICES ASSUME NEW t \in Tasks
             PROVE  /\ state'.receipts[t].attempt <= state'.tasks[t].attempts
                    /\ /\ state'.receipts[t].attempt > 0
                       /\ state'.receipts[t].attempt = state'.tasks[t].attempts
                       => IsTerminal(state', t)
  BY DEF ReceiptMeansSettled
<1>1. /\ state.receipts[t].attempt \in Nat /\ state.tasks[t].attempts \in Nat
      /\ state'.tasks[t].attempts \in Nat
  BY PersistParts DEF States, Receipts, TaskStates
<1>2. /\ state.receipts[t].attempt <= state.tasks[t].attempts
      /\ state.receipts[t].attempt > 0
           /\ state.receipts[t].attempt = state.tasks[t].attempts => IsTerminal(state, t)
  BY DEF OutcomeIInv, OutcomeInv, ReceiptMeansSettled
<1>3. CASE TaskStays(t)
  BY <1>2, <1>3 DEF TaskStays, IsTerminal
<1>4. CASE TaskQueues(t)
  BY <1>1, <1>2, <1>4 DEF TaskQueues, LedgerInv, Fresh
<1>5. CASE TaskBegins(t)
  BY <1>1, <1>2, <1>5 DEF TaskBegins
<1>6. CASE TaskStops(t)
  BY <1>1, <1>2, <1>6 DEF TaskStops, IsTerminal, TerminalStatuses
<1>7. CASE TaskFinalizes(t)
  BY <1>1, <1>7 DEF TaskFinalizes
<1> QED
  BY <1>3, <1>4, <1>5, <1>6, <1>7, PersistTask

(* A durable record leaves an escalated attempt failed, or past. *)
LEMMA PersistAlerts ==
  ASSUME TypeOK, LedgerInv, OutcomeIInv, Persist
  PROVE  AlertMeansFailed'
<1> SUFFICES ASSUME NEW a \in state'.alerts
             PROVE  /\ a.attempt <= state'.tasks[a.task].attempts
                    /\ a.attempt = state'.tasks[a.task].attempts =>
                         state'.tasks[a.task].status = "Failed"
  BY DEF AlertMeansFailed
<1> DEFINE t == a.task
<1>1. /\ t \in Tasks /\ a.attempt \in Nat /\ state.tasks[t].attempts \in Nat
      /\ state'.tasks[t].attempts \in Nat
  <2>1. state' \in States /\ state \in States
    BY PersistParts
  <2>2. a \in Alerts
    BY <2>1 DEF States
  <2> QED
    BY <2>1, <2>2 DEF States, TaskStates, Alerts
<1>2. CASE a \in state.alerts
  <2>1. /\ a.attempt <= state.tasks[t].attempts
        /\ a.attempt = state.tasks[t].attempts => state.tasks[t].status = "Failed"
    BY <1>2 DEF OutcomeIInv, OutcomeInv, AlertMeansFailed
  <2> HIDE DEF t
  <2>2. /\ a.attempt <= state'.tasks[t].attempts
        /\ a.attempt = state'.tasks[t].attempts => state'.tasks[t].status = "Failed"
    <3>1. CASE TaskStays(t)
      BY <2>1, <3>1 DEF TaskStays
    <3>2. CASE TaskQueues(t)
      BY <1>1, <2>1, <3>2 DEF TaskQueues, LedgerInv, Fresh
    <3>3. CASE TaskBegins(t)
      BY <1>1, <2>1, <3>3 DEF TaskBegins
    <3>4. CASE TaskStops(t) \/ TaskFinalizes(t)
      BY <1>1, <2>1, <3>4 DEF TaskStops, TaskFinalizes, IsOpen
    <3> QED
      BY <1>1, <3>1, <3>2, <3>3, <3>4, PersistTask
  <2> QED
    BY <2>2 DEF t
<1>3. CASE a \notin state.alerts
  <2>1. PICK e \in Events, alert \in Alerts : Escalated(state, state', e, alert)
    BY <1>3, PersistEffects
    DEF Effects, Unnoticed, Queued, Begun, Dropped, Progressed, Stopped, Finalized,
        SameNotes
  <2>2. a = alert
    BY <1>3, <2>1 DEF Escalated
  <2> QED
    BY <1>1, <2>1, <2>2 DEF Escalated
<1> QED
  BY <1>2, <1>3

(* A durable record leaves the outcome of a task, or its escalation, as the *)
(* last thing that is shown of it.                                          *)
LEMMA PersistShown ==
  ASSUME TypeOK, LedgerInv, OutcomeIInv, Persist
  PROVE  TerminalShown'
<1> SUFFICES ASSUME NEW t \in Tasks, NEW w \in Workers,
                    IsTerminal(state', t), state'.tasks[t].leased_to = w
             PROVE  state'.latest_payload[w][t] \in TerminalPayloads \cup {"Escalated"}
  BY DEF TerminalShown
<1> USE DEF TerminalStatuses
<1>1. ASSUME state'.tasks[t] = state.tasks[t]
      PROVE  /\ IsTerminal(state, t)
             /\ state.latest_payload[w][t] \in TerminalPayloads \cup {"Escalated"}
  BY <1>1 DEF IsTerminal, OutcomeIInv, TerminalShown
<1>2. CASE state'.tasks[t] = state.tasks[t] /\ SameLog(state, state')
  BY <1>1, <1>2 DEF SameLog
<1>3. ASSUME NEW u \in Tasks,
             Queued(state, state', u) \/ (\E v \in Workers : Begun(state, state', u, v))
      PROVE  state'.latest_payload[w][t] \in TerminalPayloads \cup {"Escalated"}
  BY <1>2, <1>3 DEF Queued, Begun, SameTasksBut, IsTerminal
<1>4. ASSUME NEW u \in Tasks, Dropped(state, state', u)
      PROVE  state'.latest_payload[w][t] \in TerminalPayloads \cup {"Escalated"}
  BY <1>2, <1>4, NoWorkerAssumption DEF Dropped, Ended, IsOpen, SameTasksBut
<1>5. ASSUME NEW e \in Events, Logged(state, state', e),
             state'.tasks[t] = state.tasks[t], t = e.task => e.payload \in ProgressPayloads
      PROVE  state'.latest_payload[w][t] \in TerminalPayloads \cup {"Escalated"}
  BY <1>1, <1>5 DEF Logged, RegressesTerminalState
<1>6. ASSUME NEW e \in Events, Progressed(state, state', e)
      PROVE  state'.latest_payload[w][t] \in TerminalPayloads \cup {"Escalated"}
  BY <1>5, <1>6 DEF Progressed
<1>7. ASSUME NEW e \in Events, Logged(state, state', e), t = e.task, w = e.worker,
             e.payload \in TerminalPayloads \cup {"Escalated"}
      PROVE  state'.latest_payload[w][t] \in TerminalPayloads \cup {"Escalated"}
  <2>1. e.payload \notin ProgressPayloads
    BY <1>7 DEF TerminalPayloads, ProgressPayloads, BusyPayloads
  <2> QED
    BY <1>7, <2>1 DEF Logged, RegressesTerminalState
<1>8. ASSUME NEW e \in Events, NEW status \in TerminalStatuses, Logged(state, state', e),
             Ended(state, state', e.task, e.worker, status),
             HoldsLease(state, e.task, e.worker), e.payload \in TerminalPayloads
      PROVE  state'.latest_payload[w][t] \in TerminalPayloads \cup {"Escalated"}
  <2>1. e.worker \in Workers /\ e.task \in Tasks
    BY DEF Events
  <2>2. CASE t # e.task
    BY <1>5, <1>8, <2>1, <2>2 DEF Ended, SameTasksBut
  <2>3. CASE t = e.task
    <3>1. w = e.worker
      BY <1>8, <2>1, <2>3, NoWorkerAssumption DEF Ended, HoldsLease
    <3> QED
      BY <1>7, <1>8, <2>3, <3>1
  <2> QED
    BY <2>2, <2>3
<1>9. ASSUME NEW e \in Events, NEW alert \in Alerts, Escalated(state, state', e, alert)
      PROVE  state'.latest_payload[w][t] \in TerminalPayloads \cup {"Escalated"}
  <2>1. CASE t # e.task
    BY <1>5, <1>9, <2>1 DEF Escalated
  <2>2. CASE t = e.task
    <3>1. w = e.worker
      BY <1>9, <2>2 DEF Escalated
    <3> QED
      BY <1>7, <1>9, <2>2, <3>1 DEF Escalated
  <2> QED
    BY <2>1, <2>2
<1>10. ASSUME NEW e \in Events, Stopped(state, state', e)
       PROVE  state'.latest_payload[w][t] \in TerminalPayloads \cup {"Escalated"}
  BY <1>8, <1>10 DEF Stopped, TerminalPayloads
<1>11. ASSUME NEW e \in Events, NEW status \in TerminalStatuses,
              Finalized(state, state', e, status)
       PROVE  state'.latest_payload[w][t] \in TerminalPayloads \cup {"Escalated"}
  BY <1>8, <1>11 DEF Finalized
<1>12. Unnoticed(state, state') =>
         state'.latest_payload[w][t] \in TerminalPayloads \cup {"Escalated"}
  BY <1>2 DEF Unnoticed
<1> QED
  BY <1>3, <1>4, <1>6, <1>9, <1>10, <1>11, <1>12, PersistEffects DEF Effects

(* Only a durable record changes the state that readers rebuild. *)
LEMMA OnlyPersistWrites == [Next]_vars /\ ~Persist => UNCHANGED state
BY DEF Next, vars, Produce, CreateRun, Enqueue, Execute, StartTask, ClaimNext,
       LateProgress, Progress, Finalize, Alert, Operate, Heartbeat, Cancel, Decide,
       Observe, Restart, MarkStale, FailExhausted, Cut, Tick, WriteUnseen, WriteSeen,
       Write

(* Only a durable record changes what is recorded of outcomes. *)
LEMMA NextOutcome ==
  TypeOK /\ LedgerInv /\ OutcomeIInv /\ [Next]_vars => OutcomeIInv'
<1> SUFFICES ASSUME TypeOK, LedgerInv, OutcomeIInv, [Next]_vars PROVE OutcomeIInv'
  OBVIOUS
<1>1. CASE Persist
  BY <1>1, PersistCompleted, PersistReceipts, PersistAlerts, PersistShown
  DEF OutcomeIInv, OutcomeInv
<1>2. CASE ~Persist
  <2>1. UNCHANGED state
    BY <1>2, OnlyPersistWrites
  <2> QED
    BY <2>1
    DEF OutcomeIInv, OutcomeInv, CompletedHasReceipt, ReceiptMeansSettled,
        AlertMeansFailed, CompletedByWorker, TerminalShown, IsTerminal
<1> QED
  BY <1>1, <1>2

(* In an empty ledger there are no outcomes. *)
LEMMA InitOutcome == Init => OutcomeIInv
BY DEF Init, EmptyState, NoTask, NoReceipt, OutcomeIInv, OutcomeInv, CompletedHasReceipt,
       ReceiptMeansSettled, AlertMeansFailed, CompletedByWorker, TerminalShown,
       IsTerminal, TerminalStatuses

(* Whoever wins the lock and wherever a batch is cut, a completed task has   *)
(* the receipt of its current attempt, no receipt is for an open attempt,   *)
(* and only failed attempts were escalated.                                 *)
THEOREM OutcomesAgree == Spec => []OutcomeInv
BY InitOutcome, Invariants, NextOutcome, PTL DEF Spec, OutcomeIInv

(* Output that arrives after the outcome of a task never hides it. *)
THEOREM OutcomesAreShown == Spec => []TerminalShown
BY InitOutcome, Invariants, NextOutcome, PTL DEF Spec, OutcomeIInv

(***************************************************************************)
(* FleetLedger implements TaskAttempts.                                    *)
(***************************************************************************)
(* The first record of a task is the abstract Queue. *)
LEMMA QueuedRefines ==
  ASSUME TypeOK, LedgerInv, NEW t \in Tasks, Queued(state, state', t)
  PROVE  Attempts!Queue(t)
<1>1. state.tasks[t].leased_to = NoWorker /\ state.tasks[t].attempts = 0
  BY DEF Queued, LedgerInv, Fresh
<1> QED
  BY <1>1 DEF Queued, SameTasksBut, Attempts!Queue

(* A lease that becomes durable is the abstract Begin. *)
LEMMA BegunRefines ==
  ASSUME NEW t \in Tasks, NEW w \in Workers, Begun(state, state', t, w)
  PROVE  Attempts!Begin(t, w)
<1>1. \A u \in Tasks \ {t} : ~Attempts!WorksOn(w, u)
  BY DEF Begun, HoldsLease, Attempts!WorksOn
<1> QED
  BY <1>1 DEF Begun, SameTasksBut, Attempts!Begin

(* An outcome of an open task that keeps its worker is the abstract Settle. *)
LEMMA EndedRefines ==
  ASSUME NEW t \in Tasks, NEW w \in Workers \cup {NoWorker},
         NEW status \in TerminalStatuses, IsOpen(state, t),
         Ended(state, state', t, w, status), w = NoWorker \/ state.tasks[t].leased_to = w
  PROVE  Attempts!Settle(t, status)
<1>1. /\ state'.tasks[t].status = status
      /\ state'.tasks[t].leased_to = state.tasks[t].leased_to
      /\ state'.tasks[t].attempts = state.tasks[t].attempts
      /\ \A u \in Tasks \ {t} : state'.tasks[u] = state.tasks[u]
  BY DEF Ended, IsOpen, SameTasksBut
<1> QED
  BY <1>1 DEF IsOpen, Attempts!Settle

(* An unchanged task table is a stuttering step. *)
LEMMA SameTasksRefines ==
  ASSUME state'.tasks = state.tasks
  PROVE  UNCHANGED Attempts!vars
BY DEF Attempts!vars

(* Every durable record is an abstract step or none. *)
LEMMA PersistRefines ==
  ASSUME TypeOK, LedgerInv, Persist
  PROVE  [Attempts!Next]_Attempts!vars
<1>1. ASSUME NEW t \in Tasks, Queued(state, state', t)
      PROVE  Attempts!Next
  BY <1>1, QueuedRefines DEF Attempts!Next
<1>2. ASSUME NEW t \in Tasks, NEW w \in Workers, Begun(state, state', t, w)
      PROVE  Attempts!Next
  BY <1>2, BegunRefines DEF Attempts!Next
<1>3. ASSUME NEW t \in Tasks, Dropped(state, state', t)
      PROVE  Attempts!Next
  <2>1. Attempts!Settle(t, "Cancelled")
    BY <1>3, EndedRefines DEF Dropped, TerminalStatuses
  <2> QED
    BY <2>1 DEF Attempts!Next, TerminalStatuses
<1>4. ASSUME NEW e \in Events, NEW status \in TerminalStatuses,
             HoldsLease(state, e.task, e.worker),
             Ended(state, state', e.task, e.worker, status)
      PROVE  Attempts!Next
  <2>1. e.task \in Tasks /\ e.worker \in Workers
    BY DEF Events
  <2>2. Attempts!Settle(e.task, status)
    BY <1>4, <2>1, EndedRefines DEF HoldsLease, IsOpen
  <2> QED
    BY <2>1, <2>2 DEF Attempts!Next
<1>5. ASSUME NEW e \in Events, Stopped(state, state', e)
      PROVE  Attempts!Next
  BY <1>4, <1>5 DEF Stopped, TerminalStatuses
<1>6. ASSUME NEW e \in Events, NEW status \in TerminalStatuses,
             Finalized(state, state', e, status)
      PROVE  Attempts!Next
  BY <1>4, <1>6 DEF Finalized
<1>7. CASE state'.tasks = state.tasks
  BY <1>7, SameTasksRefines
<1> QED
  BY <1>1, <1>2, <1>3, <1>5, <1>6, <1>7, PersistEffects
  DEF Effects, Unnoticed, Progressed, Escalated

(* For every number of processes, tasks and workers, the ledger implements  *)
(* TaskAttempts: whichever prefix of a batch a crash leaves and whoever     *)
(* wins the lock, an outcome is final until the next attempt, attempts are  *)
(* counted one by one, retries stay on the worker that took the task, and   *)
(* a worker begins no attempt while it has another task.                    *)
THEOREM LedgerImplementsTaskAttempts == Spec => ImplementsTaskAttempts
<1>1. Init => Attempts!Init
  BY DEF Init, EmptyState, NoTask, Attempts!Init
<1>2. TypeOK /\ LedgerInv /\ [Next]_vars => [Attempts!Next]_Attempts!vars
  <2>1. ASSUME [Next]_vars, ~Persist PROVE UNCHANGED Attempts!vars
    BY <2>1, OnlyPersistWrites, SameTasksRefines
  <2> QED
    BY <2>1, PersistRefines
<1> QED
  BY <1>1, <1>2, Invariants, PTL DEF Spec, ImplementsTaskAttempts, Attempts!Spec

(***************************************************************************)
(* Decisions that clients take on a snapshot: none is written after the    *)
(* task moved on.                                                          *)
(***************************************************************************)
(* A client that still decides on snapshot seen[c]: the task is on the same *)
(* worker, later or as it was, and if the client misses a record of it then *)
(* its attempts or its events have moved on.  After marking the worker      *)
(* stale, the client goes on with the number of its own event.              *)
DecisionFits(c) ==
  LET v == seen[c]
      task == state.tasks[v.task]
      latest == state.latest_seq[v.worker][v.task]
  IN
  /\ task.leased_to = v.worker /\ v.attempts <= task.attempts
  /\ IF writer = c
     THEN /\ "Task" \notin missed[c]
          /\ Len(batch) = 1 /\ batch[1].kind = "EventAppended"
          /\ batch[1].event.worker = v.worker /\ batch[1].event.task = v.task
          /\ batch[1].event.seq = v.seq
     ELSE /\ v.seq <= latest
          /\ "Task" \in missed[c] => v.attempts < task.attempts \/ v.seq < latest

DecisionInv ==
  /\ batch = <<>> => writer = Nobody
  /\ \A c \in Clients : seen[c] # NoVersion => DecisionFits(c)

(* A snapshot of a worker's task keeps its worker, and what it counts only  *)
(* grows.                                                                   *)
LEMMA SnapshotAges ==
  ASSUME TypeOK, LedgerInv, Persist, NEW t \in Tasks, NEW w \in Workers,
         state.tasks[t].leased_to = w
  PROVE  /\ state'.tasks[t].leased_to = w
         /\ state.tasks[t].attempts \in Nat /\ state'.tasks[t].attempts \in Nat
         /\ state'.tasks[t].attempts >= state.tasks[t].attempts
<1> USE DEF SameTasksBut, HoldsLease
<1>0. /\ state.tasks[t].attempts \in Nat /\ state'.tasks[t].attempts \in Nat
      /\ w # NoWorker /\ Fresh(state) /\ state.tasks[t].status \notin {"Absent", "Enqueued"}
  BY PersistParts, NoWorkerAssumption DEF States, TaskStates, LedgerInv, Fresh
<1>1. ASSUME NEW u \in Tasks, Queued(state, state', u)
      PROVE  state'.tasks[t] = state.tasks[t]
  BY <1>0, <1>1 DEF Queued
<1>2. ASSUME NEW u \in Tasks, NEW v \in Workers, Begun(state, state', u, v)
      PROVE  /\ state'.tasks[t].leased_to = w
             /\ state'.tasks[t].attempts >= state.tasks[t].attempts
  BY <1>0, <1>2 DEF Begun
<1>3. ASSUME NEW u \in Tasks, Dropped(state, state', u)
      PROVE  state'.tasks[t] = state.tasks[t]
  BY <1>0, <1>3 DEF Dropped, Ended
<1>4. ASSUME NEW e \in Events, NEW status, HoldsLease(state, e.task, e.worker),
             Ended(state, state', e.task, e.worker, status)
      PROVE  /\ state'.tasks[t].leased_to = w
             /\ state'.tasks[t].attempts = state.tasks[t].attempts
  BY <1>4 DEF Ended
<1>5. CASE state'.tasks = state.tasks
  BY <1>0, <1>5
<1> QED
  BY <1>0, <1>1, <1>2, <1>3, <1>4, <1>5, PersistEffects
  DEF Effects, Unnoticed, Progressed, Stopped, Finalized, Escalated

(* A record that is news about the task itself moves its attempts or its    *)
(* events on.                                                               *)
LEMMA NewsMoves ==
  ASSUME TypeOK, LedgerInv, Persist, NEW t \in Tasks, NEW w \in Workers,
         state.tasks[t].leased_to = w, "Task" \in NewsFor(Head(batch), t, w)
  PROVE  \/ state'.tasks[t].attempts = state.tasks[t].attempts + 1
         \/ state'.latest_seq[w][t] = state.latest_seq[w][t] + 1
<1> DEFINE r == batch[1]
<1>0. /\ state \in States /\ batch \in Seq(Records) /\ r \in Records /\ Head(batch) = r
      /\ 1 \in 1..Len(batch) /\ state' = apply_record(state, r)
      /\ Fresh(state) /\ Fits(state, batch) /\ FitsAt(state, batch, 1)
  BY PersistParts DEF LedgerInv, Fits
<1>1. \/ r.kind \in {"TaskLeased", "AlertSent"} /\ r.task = t
      \/ r.kind \in {"EventAppended", "TaskAttemptFinalized"} /\ r.event.task = t
  BY <1>0 DEF NewsFor
<1> HIDE DEF r
<1>2. CASE r.kind = "TaskLeased" /\ r.task = t
  BY <1>0, <1>2, LeaseOfKnownTask, ApplyLeaseEffect DEF apply_record, r
<1>3. CASE r.kind = "AlertSent" /\ r.task = t
  <2>1. AlertFits(state, r)
    BY <1>0, <1>3 DEF FitsAt, r
  <2>2. /\ r.worker = w /\ r.seq = state.latest_seq[w][t] + 1
        /\ [task |-> r.task, attempt |-> r.attempt, channel |-> r.channel]
             \notin state.alerts
    BY <1>3, <2>1 DEF AlertFits, CanAlert
  <2>3. r.seq > state.latest_seq[r.worker][r.task]
    BY <1>0, <1>3, <2>2 DEF States
  <2> DEFINE e == [worker |-> r.worker, task |-> r.task, seq |-> r.seq,
                   payload |-> "Escalated", timestamp |-> r.timestamp]
  <2>4. Logged(state, ApplyAlert(state, r), e)
    BY <1>0, <1>3, <2>2, <2>3, ApplyAlertEffect
  <2>5. state' = ApplyAlert(state, r)
    BY <1>0, <1>3 DEF apply_record
  <2>6. e.worker = w /\ e.task = t /\ e.seq = state.latest_seq[w][t] + 1
    BY <1>3, <2>2
  <2> HIDE DEF e
  <2> QED
    BY <2>4, <2>5, <2>6 DEF Logged
<1>4. CASE r.kind \in {"EventAppended", "TaskAttemptFinalized"} /\ r.event.task = t
  <2>1. /\ Persist /\ Head(batch).kind \in {"EventAppended", "TaskAttemptFinalized"}
        /\ Head(batch).event.task = t
    BY <1>0, <1>4
  <2>2. r.event \in Events
    BY <1>0, <1>4 DEF Records
  <2>3. r.event.worker = w
    <3>1. CASE r.kind = "EventAppended"
      BY <1>0, <1>4, <3>1 DEF FitsAt, EventFits, r
    <3>2. CASE r.kind = "TaskAttemptFinalized"
      BY <1>0, <1>4, <3>2 DEF FitsAt, FinalizationFits, AttemptIsLeased, HoldsLease, r
    <3> QED
      BY <1>4, <3>1, <3>2
  <2> QED
    BY <1>0, <1>4, <2>2, <2>3, EventIsLogged
<1> QED
  BY <1>1, <1>2, <1>3, <1>4

(* A durable record that another process wrote ages the snapshot, or is     *)
(* missed by it.                                                            *)
LEMMA PersistDecision ==
  ASSUME TypeOK, LedgerInv, DecisionInv, Persist, NEW c \in Clients,
         seen[c] # NoVersion
  PROVE  DecisionFits(c)'
<1> DEFINE v == seen[c]
           t == v.task
           w == v.worker
<1>0. /\ v \in Versions /\ t \in Tasks /\ w \in Workers /\ v.seq \in Nat
      /\ v.attempts \in Nat /\ seen'[c] = v /\ DecisionFits(c)
      /\ writer' = IF Len(batch) = 1 THEN Nobody ELSE writer
      /\ c # Nobody
      /\ missed'[c] = IF c = writer THEN missed[c]
                      ELSE missed[c] \cup NewsFor(Head(batch), t, w)
  BY SeenType, NobodyAssumption DEF DecisionInv, Persist, Versions
<1>1. state.tasks[t].leased_to = w /\ v.attempts <= state.tasks[t].attempts
  BY <1>0 DEF DecisionFits
<1>2. /\ state'.tasks[t].leased_to = w
      /\ state.tasks[t].attempts \in Nat /\ state'.tasks[t].attempts \in Nat
      /\ state'.tasks[t].attempts >= state.tasks[t].attempts
  BY <1>0, <1>1, SnapshotAges
<1>3. /\ state.latest_seq[w][t] \in Nat /\ state'.latest_seq[w][t] \in Nat
      /\ state'.latest_seq[w][t] >= state.latest_seq[w][t]
  BY <1>0, LogGrows
<1>4. CASE writer = c
  <2>1. /\ "Task" \notin missed[c] /\ Len(batch) = 1
        /\ batch[1].kind = "EventAppended" /\ batch[1].event.worker = w
        /\ batch[1].event.task = t /\ batch[1].event.seq = v.seq
    BY <1>0, <1>4 DEF DecisionFits
  <2>2. Head(batch) = batch[1]
    BY DEF TypeOK, Persist
  <2>3. state'.latest_seq[w][t] = v.seq
    BY <2>1, <2>2, EventIsLogged
  <2>4. writer' # c /\ "Task" \notin missed'[c]
    BY <1>0, <1>4, <2>1
  <2> HIDE DEF v
  <2> QED
    BY <1>0, <1>1, <1>2, <2>3, <2>4 DEF DecisionFits, v
<1>5. CASE writer # c
  <2>1. /\ v.seq <= state.latest_seq[w][t]
        /\ "Task" \in missed[c] =>
             v.attempts < state.tasks[t].attempts \/ v.seq < state.latest_seq[w][t]
    BY <1>0, <1>5 DEF DecisionFits
  <2>2. writer' # c
    BY <1>0, <1>5
  <2>3. "Task" \in missed'[c] =>
          v.attempts < state'.tasks[t].attempts \/ v.seq < state'.latest_seq[w][t]
    <3>1. CASE "Task" \in missed[c]
      BY <1>0, <1>2, <1>3, <2>1, <3>1
    <3>2. CASE "Task" \in NewsFor(Head(batch), t, w)
      <4>1. \/ state'.tasks[t].attempts = state.tasks[t].attempts + 1
            \/ state'.latest_seq[w][t] = state.latest_seq[w][t] + 1
        BY <1>0, <1>1, <3>2, NewsMoves
      <4> QED
        BY <1>0, <1>1, <1>2, <1>3, <2>1, <4>1
    <3> QED
      BY <1>0, <1>5, <3>1, <3>2
  <2>4. /\ v.attempts <= state'.tasks[t].attempts /\ v.seq <= state'.latest_seq[w][t]
    BY <1>0, <1>1, <1>2, <1>3, <2>1
  <2> QED
    BY <1>0, <1>2, <2>2, <2>3, <2>4 DEF DecisionFits
<1> QED
  BY <1>4, <1>5

(* A client whose snapshot still holds misses nothing about the task. *)
LEMMA HoldingSnapshotMissesNothing ==
  ASSUME TypeOK, DecisionInv, LockFree, NEW c \in Clients, seen[c] # NoVersion,
         VersionIs(state, seen[c])
  PROVE  "Task" \notin missed[c]
<1> DEFINE v == seen[c]
<1>1. DecisionFits(c) /\ writer # c
  BY NobodyAssumption DEF DecisionInv, LockFree
<1>2. v \in Versions /\ v.seq \in Nat /\ v.attempts \in Nat
  BY SeenType DEF Versions
<1>3. v.attempts = state.tasks[v.task].attempts
      /\ v.seq = state.latest_seq[v.worker][v.task]
  BY DEF VersionIs
<1>4. "Task" \in missed[c] =>
        v.attempts < state.tasks[v.task].attempts
          \/ v.seq < state.latest_seq[v.worker][v.task]
  BY <1>1 DEF DecisionFits
<1> HIDE DEF v
<1> QED
  BY <1>2, <1>3, <1>4

(* Taking the lock for others, or after giving up the snapshot, leaves the  *)
(* snapshots of all as they fit.                                            *)
LEMMA WriteDecision ==
  ASSUME TypeOK, DecisionInv, NEW d \in Clients \cup {Nobody}, NEW records,
         Write(d, records), records # <<>>, UNCHANGED missed,
         \A c \in Clients : seen'[c] = seen[c] \/ seen'[c] = NoVersion,
         d \in Clients => seen'[d] = NoVersion
  PROVE  DecisionInv'
<1>1. /\ batch' = records /\ writer' = d /\ UNCHANGED state /\ writer = Nobody
  BY DEF Write, LockFree, DecisionInv
<1>2. ASSUME NEW c \in Clients, seen'[c] # NoVersion
      PROVE  DecisionFits(c)'
  <2>1. seen'[c] = seen[c] /\ DecisionFits(c) /\ writer # c /\ writer' # c
    BY <1>1, <1>2, NobodyAssumption DEF DecisionInv
  <2> QED
    BY <1>1, <2>1 DEF DecisionFits
<1> QED
  BY <1>1, <1>2 DEF DecisionInv

(* The batches of single records and of whole transactions are not empty. *)
LEMMA BatchesNotEmpty ==
  ASSUME NEW s, NEW t, NEW w, NEW at, NEW payload, NEW attempts, NEW final_status,
         NEW channel, NEW v
  PROVE  /\ StartRecords(s, t, w, at, InitialEvents) # <<>>
         /\ EventRecords(s, t, w, at, payload) # <<>>
         /\ FinalizeRecords(s, t, w, attempts, at, payload, final_status) # <<>>
         /\ AlertRecords(s, t, w, attempts, channel, at) # <<>>
         /\ CancelRecords(s, t, at) # <<>>
         /\ RestartRecords(s, v, at, Never) # <<>>
<1>1. StartRecords(s, t, w, at, InitialEvents) # <<>>
  <2> DEFINE n == Len(InitialEvents)
             event(i) == EventAppended([NextEvent(s, w, t, at, InitialEvents[i])
                                          EXCEPT !.seq = s.latest_seq[w][t] + i])
             lease == TaskLeased(t, w, at, Never)
             beat == HeartbeatRecord(w, at)
  <2>1. n \in Nat
    BY InitialEventsAssumption
  <2>2. StartRecords(s, t, w, at, InitialEvents) =
          <<lease>> \o [i \in 1..n |-> event(i)] \o <<beat>>
    BY DEF StartRecords
  <2> HIDE DEF n, event, lease, beat
  <2>3. Len(<<lease>> \o [i \in 1..n |-> event(i)] \o <<beat>>) = n + 2
    BY <2>1
  <2> QED
    BY <2>1, <2>2, <2>3
<1>2. CancelRecords(s, t, at) # <<>>
  BY DEF CancelRecords
<1> QED
  BY <1>1, <1>2 DEF EventRecords, FinalizeRecords, AlertRecords, RestartRecords

(* A stale mark leaves the client with the number of its own event. *)
LEMMA MarkStaleDecision ==
  ASSUME TypeOK, DecisionInv, NEW c \in Clients, NEW at \in Nat, MarkStale(c, at)
  PROVE  DecisionInv'
<1> DEFINE v == seen[c]
           e == NextEvent(state, v.worker, v.task, at, "Stale")
<1>1. /\ v \in Versions /\ v.task \in Tasks /\ v.worker \in Workers /\ v.seq \in Nat
      /\ v.attempts \in Nat /\ VersionIs(state, v) /\ v # NoVersion
      /\ writer = Nobody /\ c # Nobody
  BY SeenType, NobodyAssumption
  DEF MarkStale, CanAppendVersioned, Versions, DecisionInv, Write, LockFree
<1>2. "Task" \notin missed[c]
  BY <1>1, HoldingSnapshotMissesNothing DEF MarkStale, Write
<1>3. /\ batch' = <<EventAppended(e)>> /\ writer' = c /\ UNCHANGED <<state, missed>>
      /\ seen' = [seen EXCEPT ![c].seq = @ + 1]
  BY DEF MarkStale, Write, EventRecords
<1>4. /\ e.worker = v.worker /\ e.task = v.task /\ e.seq = v.seq + 1
  BY <1>1 DEF NextEvent, VersionIs
<1>5. /\ Len(batch') = 1 /\ batch'[1].kind = "EventAppended" /\ batch'[1].event = e
  <2> HIDE DEF e
  <2> QED
    BY <1>3 DEF EventAppended
<1>6. /\ seen'[c].worker = v.worker /\ seen'[c].task = v.task
      /\ seen'[c].attempts = v.attempts /\ seen'[c].seq = v.seq + 1
  <2> DEFINE q == v.seq + 1
             new == [v EXCEPT !.seq = q]
  <2>1. seen'[c] = new
    BY <1>3 DEF TypeOK
  <2>2. /\ new.worker = v.worker /\ new.task = v.task
        /\ new.attempts = v.attempts /\ new.seq = q
    <3> HIDE DEF v, q
    <3> QED
      BY <1>1 DEF Versions
  <2> HIDE DEF new, v
  <2> QED
    BY <2>1, <2>2
<1>7. DecisionFits(c)'
  <2>1. state.tasks[v.task].leased_to = v.worker
        /\ v.attempts = state.tasks[v.task].attempts
    BY <1>1 DEF VersionIs
  <2> HIDE DEF e, v
  <2>2. state'.tasks[seen'[c].task].leased_to = seen'[c].worker
        /\ seen'[c].attempts <= state'.tasks[seen'[c].task].attempts
    BY <1>1, <1>3, <1>6, <2>1
  <2> QED
    BY <1>2, <1>3, <1>4, <1>5, <1>6, <2>2 DEF DecisionFits
<1>8. ASSUME NEW d \in Clients \ {c}, seen'[d] # NoVersion
      PROVE  DecisionFits(d)'
  <2>1. seen'[d] = seen[d] /\ DecisionFits(d) /\ writer # d /\ writer' # d
    BY <1>1, <1>3, <1>8, NobodyAssumption DEF TypeOK, DecisionInv
  <2> QED
    BY <1>3, <2>1 DEF DecisionFits
<1> QED
  BY <1>3, <1>7, <1>8 DEF DecisionInv

(* A snapshot that has just been taken fits. *)
LEMMA ObserveDecision ==
  ASSUME TypeOK, DecisionInv, NEW c \in Clients, NEW t \in Tasks, Observe(c, t)
  PROVE  DecisionInv'
<1> DEFINE w == state.tasks[t].leased_to
           v == VersionOf(state, t)
<1>1. /\ seen' = [seen EXCEPT ![c] = v] /\ missed' = [missed EXCEPT ![c] = {}]
      /\ UNCHANGED <<state, batch, writer>> /\ writer = Nobody
      /\ batch = <<>> /\ state \in States
  BY DEF Observe, DecisionInv, LockFree, TypeOK
<1>2. /\ v.task = t /\ v.worker = w /\ v.attempts = state.tasks[t].attempts
      /\ v.seq = state.latest_seq[w][t]
  BY DEF VersionOf
<1>3. w \in Workers
  BY <1>1 DEF Observe, States, TaskStates
<1>4. v.attempts \in Nat /\ v.seq \in Nat
  BY <1>1, <1>2, <1>3 DEF States, TaskStates
<1>5. seen'[c] = v /\ missed'[c] = {}
  BY <1>1 DEF TypeOK
<1> HIDE DEF v
<1>6. DecisionFits(c)'
  BY <1>1, <1>2, <1>4, <1>5, NobodyAssumption DEF DecisionFits
<1>7. ASSUME NEW d \in Clients \ {c}, seen'[d] # NoVersion
      PROVE  DecisionFits(d)'
  <2>1. seen'[d] = seen[d] /\ missed'[d] = missed[d] /\ DecisionFits(d)
    BY <1>1, <1>7 DEF TypeOK, DecisionInv
  <2> QED
    BY <1>1, <2>1 DEF DecisionFits
<1> QED
  BY <1>1, <1>6, <1>7 DEF DecisionInv

(* Every step of every process leaves the snapshots as they fit. *)
LEMMA NextDecision ==
  TypeOK /\ LedgerInv /\ DecisionInv /\ [Next]_vars => DecisionInv'
<1> SUFFICES ASSUME TypeOK, LedgerInv, DecisionInv, [Next]_vars PROVE DecisionInv'
  OBVIOUS
<1> USE DEF WriteUnseen
<1>at. \A at \in Timestamps : at \in Nat
  BY DEF TypeOK, Timestamps
<1>w. ASSUME NEW records, Write(Nobody, records), records # <<>>, UNCHANGED <<seen, missed>>
      PROVE  DecisionInv'
  BY <1>w, NobodyAssumption, WriteDecision
<1>s. ASSUME NEW c \in Clients, NEW records, WriteSeen(c, records), records # <<>>
      PROVE  DecisionInv'
  BY <1>s, WriteDecision DEF WriteSeen, TypeOK
<1>1. CASE Produce
  <2>1. ASSUME NEW r \in Runs, CreateRun(r) PROVE DecisionInv'
    BY <1>w, <2>1 DEF CreateRun
  <2>2. ASSUME NEW t \in Tasks, Enqueue(t) PROVE DecisionInv'
    BY <1>w, <2>2 DEF Enqueue
  <2> QED
    BY <1>1, <2>1, <2>2 DEF Produce
<1>2. CASE Execute
  <2> SUFFICES ASSUME NEW t \in Tasks, NEW w \in Workers, NEW at \in Timestamps,
                      \/ StartTask(t, w, at)
                      \/ ClaimNext(t, w, at)
                      \/ LateProgress(t, w, at)
                      \/ \E k \in 1..MaxAttempts :
                           \/ Progress(t, w, k, at)
                           \/ \E outcome \in TerminalStatuses,
                                 verdict \in {"None", "Failed"} :
                                outcome # verdict
                                  /\ Finalize(t, w, k, at, outcome, verdict)
                           \/ \E channel \in Channels : Alert(t, w, k, channel, at)
               PROVE  DecisionInv'
    BY <1>2 DEF Execute
  <2>1. CASE StartTask(t, w, at)
    BY <1>w, <2>1, BatchesNotEmpty DEF StartTask
  <2>2. CASE ClaimNext(t, w, at)
    BY <1>w, <2>2 DEF ClaimNext
  <2>3. CASE LateProgress(t, w, at)
    BY <1>w, <2>3, BatchesNotEmpty DEF LateProgress
  <2>4. ASSUME NEW k, Progress(t, w, k, at) PROVE DecisionInv'
    BY <1>w, <2>4, BatchesNotEmpty DEF Progress
  <2>5. ASSUME NEW k, NEW outcome, NEW verdict, Finalize(t, w, k, at, outcome, verdict)
        PROVE  DecisionInv'
    BY <1>w, <2>5, BatchesNotEmpty DEF Finalize
  <2>6. ASSUME NEW k, NEW channel, Alert(t, w, k, channel, at) PROVE DecisionInv'
    BY <1>w, <2>6, BatchesNotEmpty DEF Alert
  <2> QED
    BY <2>1, <2>2, <2>3, <2>4, <2>5, <2>6
<1>3. CASE Operate
  BY <1>3, <1>w, BatchesNotEmpty DEF Operate, Heartbeat, Cancel
<1>4. CASE Decide
  <2>1. ASSUME NEW c \in Clients, NEW t \in Tasks, Observe(c, t) PROVE DecisionInv'
    BY <2>1, ObserveDecision
  <2>2. ASSUME NEW c \in Clients, NEW at \in Timestamps, Restart(c, at)
        PROVE  DecisionInv'
    BY <1>s, <2>2, BatchesNotEmpty DEF Restart
  <2>3. ASSUME NEW c \in Clients, NEW at \in Timestamps, MarkStale(c, at)
        PROVE  DecisionInv'
    BY <1>at, <2>3, MarkStaleDecision
  <2>4. ASSUME NEW c \in Clients, NEW at \in Timestamps, FailExhausted(c, at)
        PROVE  DecisionInv'
    BY <1>s, <2>4, BatchesNotEmpty DEF FailExhausted
  <2> QED
    BY <1>4, <2>1, <2>2, <2>3, <2>4 DEF Decide
<1>5. CASE Persist
  <2>1. batch' = <<>> => writer' = Nobody
    <3>1. Len(batch') = Len(batch) - 1 /\ Len(batch) \in Nat
      BY <1>5, PersistParts
    <3>2. writer' = IF Len(batch) = 1 THEN Nobody ELSE writer
      BY <1>5 DEF Persist
    <3> QED
      BY <3>1, <3>2
  <2>2. seen' = seen
    BY <1>5 DEF Persist
  <2> QED
    BY <1>5, <2>1, <2>2, PersistDecision DEF DecisionInv
<1>6. CASE Cut
  <2>1. ASSUME NEW c \in Clients, seen'[c] # NoVersion
        PROVE  DecisionFits(c)'
    <3>1. /\ seen'[c] = seen[c] /\ writer # c /\ writer' # c /\ DecisionFits(c)
          /\ UNCHANGED <<state, missed>>
      BY <1>6, <2>1, NobodyAssumption DEF Cut, DecisionInv
    <3> QED
      BY <3>1 DEF DecisionFits
  <2> QED
    BY <1>6, <2>1 DEF Cut, DecisionInv
<1>7. CASE UNCHANGED <<state, batch, writer, seen, missed>>
  BY <1>7 DEF DecisionInv, DecisionFits
<1> QED
  BY <1>1, <1>2, <1>3, <1>4, <1>5, <1>6, <1>7 DEF Next, Tick, vars

(* For every number of clients: a restart, a stale mark or an exhaustion    *)
(* that was decided on a snapshot is written only if no lease, event or     *)
(* alert of the task became durable after the snapshot was taken.           *)
THEOREM LateDecisionsLose == Spec => LateDecisionLoses
<1> DEFINE Informed ==
      \A c \in Clients : LockFree /\ writer' = c => missed[c] \subseteq {"Heartbeat"}
<1>1. Init => DecisionInv
  BY DEF Init, DecisionInv
<1>2. TypeOK /\ DecisionInv /\ Next => Informed
  <2> SUFFICES ASSUME TypeOK, DecisionInv, Next, NEW c \in Clients, LockFree, writer' = c
               PROVE  missed[c] \subseteq {"Heartbeat"}
    OBVIOUS
  <2>1. missed[c] \subseteq {"Heartbeat", "Task"}
    BY DEF TypeOK
  <2>2. writer = Nobody /\ c # Nobody
    BY NobodyAssumption DEF DecisionInv, LockFree
  <2>3. seen[c] # NoVersion /\ VersionIs(state, seen[c])
    BY <2>2
    DEF Next, Produce, CreateRun, Enqueue, Execute, StartTask, ClaimNext, LateProgress,
        Progress, Finalize, Alert, Operate, Heartbeat, Cancel, Decide, Observe, Restart,
        MarkStale, FailExhausted, Persist, Cut, Tick, WriteUnseen, WriteSeen, Write,
        CanRestart, CanAppendVersioned, LockFree
  <2> QED
    BY <2>1, <2>3, HoldingSnapshotMissesNothing
<1>3. TypeOK /\ DecisionInv /\ [Next]_vars => [Informed]_vars
  BY <1>2
<1> QED
  BY <1>1, <1>3, Invariants, NextDecision, PTL DEF Spec, LateDecisionLoses
=============================================================================
