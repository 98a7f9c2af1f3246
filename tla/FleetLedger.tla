----------------------------- MODULE FleetLedger ----------------------------
(***************************************************************************)
(* The fleet ledger under every caller the code has: managers, schedulers, *)
(* operator commands and executors of several processes that share one     *)
(* .hakus/fleet.jsonl through an advisory write lock.                      *)
(*                                                                         *)
(* A transaction takes the lock, evaluates its guard on the rebuilt state  *)
(* and starts to write its batch; the records become durable one by one    *)
(* (Persist), and a crash or an I/O error of the writer may cut the batch   *)
(* short anywhere (Cut): a torn last line is skipped by readers and        *)
(* quarantined by the next append.  Only then is the lock free again.      *)
(*                                                                         *)
(* Transactions guarded by a whole task version are made by Clients, which *)
(* take a snapshot first and write later; missed[c] is an auxiliary        *)
(* variable holding the kinds of records on the same task or worker that   *)
(* became durable between the two.                                         *)
(***************************************************************************)
EXTENDS FleetTransactions

CONSTANTS
  Clients,      \* processes that decide on a snapshot
  NoVersion,    \* no snapshot taken
  Nobody,       \* writer when the lock holder is not one of Clients
  InitialEvents,  \* payloads a lease publishes with it (initial_events)
  MaxActive,    \* max_active_for_run of every lease request
  MaxAttempts,  \* bound: leases of one task
  MaxSeq,       \* bound: event sequence numbers
  MaxTime,      \* bound: seconds
  ClockLag      \* bound: how old a caller's timestamp may be at the append

ASSUME NobodyAssumption == Nobody \notin Clients
ASSUME NoVersionAssumption == NoVersion \notin Versions
ASSUME InitialEventsAssumption == InitialEvents \in Seq(ProgressPayloads)
ASSUME BoundsAssumption ==
  /\ MaxActive \in Nat /\ MaxAttempts \in Nat /\ MaxSeq \in Nat
  /\ MaxTime \in Nat /\ ClockLag \in Nat

VARIABLES
  state,   \* the FleetLedgerState every rebuild returns
  batch,   \* records of the lock holder that are not yet durable
  writer,  \* the client holding the write lock
  seen,    \* seen[c]: the snapshot client c decides on
  missed,  \* missed[c]: record kinds c's snapshot does not know of
  now      \* the wall clock, in seconds

vars == <<state, batch, writer, seen, missed, now>>

TypeOK ==
  /\ state \in States
  /\ batch \in Seq(Records)
  /\ writer \in Clients \cup {Nobody}
  /\ seen \in [Clients -> Versions \cup {NoVersion}]
  /\ missed \in [Clients -> SUBSET {"Heartbeat", "Task"}]
  /\ now \in Nat

Init ==
  /\ state = EmptyState
  /\ batch = <<>>
  /\ writer = Nobody
  /\ seen = [c \in Clients |-> NoVersion]
  /\ missed = [c \in Clients |-> {}]
  /\ now = 1

LockFree == batch = <<>>

Timestamps == {at \in 1..now : now - at <= ClockLag}

(* Room for the n events of a batch below the bound on sequence numbers. *)
SeqRoom(t, w, n) == state.latest_seq[w][t] + n <= MaxSeq

Write(c, records) ==
  /\ LockFree
  /\ batch' = records
  /\ writer' = c
  /\ UNCHANGED <<state, now>>

WriteUnseen(records) == Write(Nobody, records) /\ UNCHANGED <<seen, missed>>

(***************************************************************************)
(* Producers.                                                              *)
(***************************************************************************)
CreateRun(r) == r \notin state.runs /\ WriteUnseen(<<RunCreated(r)>>)

Enqueue(t) ==
  /\ RunOf[t] \in state.runs
  /\ state.tasks[t].status = "Absent"
  /\ WriteUnseen(<<TaskEnqueued(t)>>)

(***************************************************************************)
(* Scheduling and execution.                                               *)
(***************************************************************************)
StartTask(t, w, at) ==
  /\ CanStart(state, t, w, MaxActive)
  /\ SeqRoom(t, w, Len(InitialEvents))
  /\ WriteUnseen(StartRecords(state, t, w, at, InitialEvents))

(* claim_next: a worker takes a queued task itself, with no initial events. *)
ClaimNext(t, w, at) ==
  /\ state.tasks[t].status = "Enqueued"
  /\ \A u \in Tasks : ~HoldsLease(state, u, w)
  /\ WriteUnseen(<<TaskLeased(t, w, at, Never)>>)

(* append_event_if_leased by the executor that runs the given attempt. *)
Progress(t, w, attempts, at) ==
  /\ CanAppendProgress(state, t, w, attempts)
  /\ SeqRoom(t, w, 1)
  /\ WriteUnseen(EventRecords(state, t, w, at, "Running"))

(* append_event_next_seq: stream output appended without a guard. *)
LateProgress(t, w, at) ==
  /\ state.tasks[t].leased_to = w
  /\ SeqRoom(t, w, 1)
  /\ WriteUnseen(EventRecords(state, t, w, at, "Running"))

Heartbeat(w, at) == WriteUnseen(<<HeartbeatRecord(w, at)>>)

Finalize(t, w, attempts, at, payload, final_status) ==
  /\ CanFinalize(state, t, w, attempts)
  /\ SeqRoom(t, w, 1)
  /\ WriteUnseen(FinalizeRecords(state, t, w, attempts, at, payload,
                                 final_status))

Cancel(t, expected, at) ==
  /\ CanCancel(state, t, expected)
  /\ state.tasks[t].leased_to # NoWorker => SeqRoom(t, state.tasks[t].leased_to, 2)
  /\ WriteUnseen(CancelRecords(state, t, at))

Alert(t, w, attempts, channel, at) ==
  /\ CanAlert(state, t, w, attempts, channel)
  /\ SeqRoom(t, w, 1)
  /\ WriteUnseen(AlertRecords(state, t, w, attempts, channel, at))

(***************************************************************************)
(* Decisions on a snapshot.                                                *)
(***************************************************************************)
Observe(c, t) ==
  /\ LockFree
  /\ state.tasks[t].status # "Absent"
  /\ state.tasks[t].leased_to # NoWorker
  /\ seen' = [seen EXCEPT ![c] = VersionOf(state, t)]
  /\ missed' = [missed EXCEPT ![c] = {}]
  /\ UNCHANGED <<state, batch, writer, now>>

(* Every versioned write that wins also ends its decision, except the      *)
(* stale mark, after which the client goes on with its own event's seq.    *)
WriteSeen(c, records) ==
  Write(c, records) /\ seen' = [seen EXCEPT ![c] = NoVersion] /\ UNCHANGED missed

Restart(c, at) ==
  /\ seen[c] # NoVersion
  /\ CanRestart(state, seen[c])
  /\ seen[c].attempts < MaxAttempts
  /\ SeqRoom(seen[c].task, seen[c].worker, 2)
  /\ WriteSeen(c, RestartRecords(state, seen[c], at, Never))

MarkStale(c, at) ==
  /\ seen[c] # NoVersion
  /\ CanAppendVersioned(state, seen[c])
  /\ SeqRoom(seen[c].task, seen[c].worker, 1)
  /\ Write(c, EventRecords(state, seen[c].task, seen[c].worker, at, "Stale"))
  /\ seen' = [seen EXCEPT ![c].seq = @ + 1]
  /\ UNCHANGED missed

FailExhausted(c, at) ==
  /\ seen[c] # NoVersion
  /\ CanAppendVersioned(state, seen[c])
  /\ SeqRoom(seen[c].task, seen[c].worker, 1)
  /\ WriteSeen(c, EventRecords(state, seen[c].task, seen[c].worker, at, "Failed"))

(***************************************************************************)
(* Durability.                                                             *)
(***************************************************************************)
(* What a record is to somebody watching task t on worker w. *)
NewsFor(r, t, w) ==
  CASE r.kind = "Heartbeat" /\ r.worker = w -> {"Heartbeat"}
    [] r.kind \in {"TaskLeased", "AlertSent"} /\ r.task = t -> {"Task"}
    [] r.kind \in {"EventAppended", "TaskAttemptFinalized"}
         /\ r.event.task = t -> {"Task"}
    [] OTHER -> {}

Persist ==
  /\ batch # <<>>
  /\ state' = apply_record(state, Head(batch))
  /\ batch' = Tail(batch)
  /\ writer' = IF Len(batch) = 1 THEN Nobody ELSE writer
  /\ missed' = [c \in Clients |->
       IF seen[c] = NoVersion THEN {}
       ELSE IF c = writer THEN missed[c]
       ELSE missed[c] \cup NewsFor(Head(batch), seen[c].task, seen[c].worker)]
  /\ UNCHANGED <<seen, now>>

Cut ==
  /\ batch # <<>>
  /\ batch' = <<>>
  /\ writer' = Nobody
  /\ seen' = [c \in Clients |-> IF c = writer THEN NoVersion ELSE seen[c]]
  /\ UNCHANGED <<state, missed, now>>

Tick ==
  /\ now < MaxTime
  /\ now' = now + 1
  /\ UNCHANGED <<state, batch, writer, seen, missed>>

Produce == (\E r \in Runs : CreateRun(r)) \/ (\E t \in Tasks : Enqueue(t))

Execute ==
  \E t \in Tasks, w \in Workers, at \in Timestamps :
    \/ StartTask(t, w, at)
    \/ ClaimNext(t, w, at)
    \/ LateProgress(t, w, at)
    \/ \E k \in 1..MaxAttempts :
         \/ Progress(t, w, k, at)
         \/ \E outcome \in TerminalStatuses, verdict \in {"None", "Failed"} :
              outcome # verdict /\ Finalize(t, w, k, at, outcome, verdict)
         \/ \E channel \in Channels : Alert(t, w, k, channel, at)

Operate ==
  \E at \in Timestamps :
    \/ \E w \in Workers : Heartbeat(w, at)
    \/ \E t \in Tasks, expected \in Workers \cup {NoWorker} :
         Cancel(t, expected, at)

Decide ==
  \E c \in Clients :
    \/ \E t \in Tasks : Observe(c, t)
    \/ \E at \in Timestamps :
         Restart(c, at) \/ MarkStale(c, at) \/ FailExhausted(c, at)

Next == Produce \/ Execute \/ Operate \/ Decide \/ Persist \/ Cut \/ Tick

Spec == Init /\ [][Next]_vars

(***************************************************************************)
(* Safety.                                                                 *)
(***************************************************************************)
(* However managers, operators and schedulers interleave, and wherever a    *)
(* batch is cut, a logical worker is leased to at most one task of the      *)
(* whole ledger (the eligibility checks of start, claim and restart).       *)
WorkerExclusive ==
  \A t, u \in Tasks, w \in Workers :
    HoldsLease(state, t, w) /\ HoldsLease(state, u, w) => t = u

(* What makes WorkerExclusive inductive: between taking the lock and the     *)
(* lease becoming durable, the worker the lease is for stays free of others. *)
LeaseInFlight ==
  \A i \in 1..Len(batch) :
    batch[i].kind = "TaskLeased" =>
      /\ i = 1
      /\ \A u \in Tasks \ {batch[i].task} :
           ~HoldsLease(state, u, batch[i].worker)

ExclusionInv == WorkerExclusive /\ LeaseInFlight

(* A task is Completed only together with the receipt of exactly the        *)
(* attempt that is current, and the receipt names an event that exists:     *)
(* finalization is one record, so no crash separates the three.             *)
CompletedHasReceipt ==
  \A t \in Tasks :
    LET task == state.tasks[t] IN
    task.status = "Completed" =>
      /\ state.receipts[t].attempt = task.attempts
      /\ state.receipts[t].terminal_seq \in 1..state.latest_seq[task.leased_to][t]

(* A receipt is never for an attempt that is still open or not yet begun.   *)
ReceiptMeansSettled ==
  \A t \in Tasks :
    LET attempt == state.receipts[t].attempt IN
    /\ attempt <= state.tasks[t].attempts
    /\ attempt > 0 /\ attempt = state.tasks[t].attempts => IsTerminal(state, t)

(* Escalations are about failures: while an attempt an alert was recorded   *)
(* for is current, the task is Failed.                                      *)
AlertMeansFailed ==
  \A a \in state.alerts :
    /\ a.attempt <= state.tasks[a.task].attempts
    /\ a.attempt = state.tasks[a.task].attempts =>
         state.tasks[a.task].status = "Failed"

(* What is recorded beside the status of a task agrees with it. *)
OutcomeInv == CompletedHasReceipt /\ ReceiptMeansSettled /\ AlertMeansFailed

(* The last thing readers see of a terminal task is its outcome or its      *)
(* escalation, never progress that was appended too late.                   *)
TerminalShown ==
  \A t \in Tasks, w \in Workers :
    IsTerminal(state, t) /\ state.tasks[t].leased_to = w =>
      state.latest_payload[w][t] \in TerminalPayloads \cup {"Escalated"}

(***************************************************************************)
(* What a step may never do.                                               *)
(***************************************************************************)
(* Every durable event takes the next sequence number of its key: no two    *)
(* writers number an event alike and none is skipped.                       *)
SequenceIsGapless ==
  [][\A t \in Tasks, w \in Workers :
       Persist /\ Head(batch).kind \in {"EventAppended", "TaskAttemptFinalized"}
         /\ Head(batch).event.task = t /\ Head(batch).event.worker = w
       => /\ Head(batch).event.seq = state.latest_seq[w][t] + 1
          /\ state'.latest_seq[w][t] = Head(batch).event.seq]_vars

(* A decision taken on a snapshot wins only if nothing happened to the      *)
(* task since, except heartbeats within the second already recorded.        *)
LateDecisionLoses ==
  [][\A c \in Clients :
       LockFree /\ writer' = c => missed[c] \subseteq {"Heartbeat"}]_vars

(***************************************************************************)
(* The abstract specification.                                             *)
(***************************************************************************)
Attempts == INSTANCE TaskAttempts WITH
  Outcomes <- TerminalStatuses,
  phase <- [t \in Tasks |-> state.tasks[t].status],
  owner <- [t \in Tasks |-> state.tasks[t].leased_to],
  attempts <- [t \in Tasks |-> state.tasks[t].attempts]

(* Whatever prefix of a batch a crash leaves and whoever wins the lock      *)
(* (completion, cancellation, exhaustion, late output, a retry), every      *)
(* durable record is one step of the abstract task or none: an outcome is   *)
(* final until the next attempt, attempts are counted one by one, retries   *)
(* stay on the worker that took the task, and that worker has no other.     *)
ImplementsTaskAttempts == Attempts!Spec
=============================================================================
