--------------------------- MODULE FleetCompaction --------------------------
(***************************************************************************)
(* FleetLedger with compact(): under the write lock the rebuilt state is   *)
(* written as the records that are needed to rebuild it, to a file that    *)
(* replaces the ledger by one rename.  A crash before the rename changes   *)
(* nothing, so compaction is one step.                                     *)
(*                                                                         *)
(* The state keeps two kinds of old events besides the latest ones; kept   *)
(* remembers the numbers of both.  Artifacts and run payloads are left out.*)
(*                                                                         *)
(* Compaction is modelled until a batch was cut behind its first record:   *)
(* from then on it can change the state.  After a restart that was cut     *)
(* behind its TaskLeased record, the terminal event of the attempt before  *)
(* still is the latest one, and replaying it after the lease ends the task.*)
(***************************************************************************)
EXTENDS FleetLedger, SequencesExt

(* A file names finitely many of each. *)
ASSUME FiniteAssumption ==
  IsFiniteSet(Runs) /\ IsFiniteSet(Tasks) /\ IsFiniteSet(Workers)

VARIABLE
  kept   \* kept.latest[w][t], kept.restarted[w][t]: the number of the latest
         \* and of the last Restarted event, 0 for none;
         \* kept.alerts: <<alert, worker, seq>> of each alert;
         \* kept.batches: "begun" while one is partly durable, "cut" for good
         \* once one was left that way

allVars == <<vars, kept>>

(***************************************************************************)
(* The records only a compaction writes, and their replay.                 *)
(***************************************************************************)
EnqueuedAgain(t, attempts) == [kind |-> "EnqueuedAgain", task |-> t, attempts |-> attempts]
TaskLifecycleCheckpoint(t, seq) == [kind |-> "TaskLifecycleCheckpoint", task |-> t, seq |-> seq]
SequenceForgotten(w, t, seq) ==   \* fault: numbers go on from the retained events
  [kind |-> "EventSequenceCheckpoint", worker |-> w, task |-> t, seq |-> 0]
EventSequenceCheckpoint(w, t, seq) ==
  [kind |-> "EventSequenceCheckpoint", worker |-> w, task |-> t, seq |-> seq]
ReceiptRecorded(t, receipt) == [kind |-> "ReceiptRecorded", task |-> t, receipt |-> receipt]

AtLeast(m, n) == IF m < n THEN n ELSE m

apply_any_record(s, r) ==
  CASE r.kind = "EnqueuedAgain" ->
         [ApplyEnqueue(s, r.task) EXCEPT !.tasks[r.task].attempts = r.attempts]
    [] r.kind = "TaskLifecycleCheckpoint" ->
         [s EXCEPT !.tasks[r.task].lifecycle_seq = AtLeast(@, r.seq)]
    [] r.kind = "EventSequenceCheckpoint" ->
         [s EXCEPT !.latest_seq[r.worker][r.task] = AtLeast(@, r.seq)]
    [] r.kind = "ReceiptRecorded" -> [s EXCEPT !.receipts[r.task] = r.receipt]
    [] OTHER -> apply_record(s, r)

From(s, records) ==
  LET after[n \in 0..Len(records)] ==
        IF n = 0 THEN s ELSE apply_any_record(after[n - 1], records[n])
  IN after[Len(records)]

Replay(records) == From(EmptyState, records)

(***************************************************************************)
(* compact_with_snapshot_hook.                                             *)
(***************************************************************************)
(* The records of[x] of all x in S, in some order. *)
ForAll(S, of) == FlattenSeq([i \in 1..Cardinality(S) |-> of[SetToSeq(S)[i]]])
If(condition, record) == IF condition THEN <<record>> ELSE <<>>

(* The retained lease counts an attempt when it is replayed. *)
TaskRecords(s, t) ==
  LET task == s.tasks[t]
      leased == task.leased_to # NoWorker
  IN <<EnqueuedAgain(t, IF leased THEN task.attempts - 1 ELSE task.attempts)>>
     \o If(leased, TaskLeased(t, task.leased_to, task.leased_at, task.lease_deadline))

RetainedEvents(s, w, t) ==
  LET event(seq, payload) ==
        EventAppended([worker |-> w, task |-> t, seq |-> seq, payload |-> payload,
                       timestamp |-> s.tasks[t].completed_at])
      latest == s.latest_payload[w][t]
      restarted == kept.restarted[w][t]
  IN If(restarted # 0 /\ latest # "Restarted", event(restarted, "Restarted"))
     \o If(latest \notin {"None", "Escalated"}, event(kept.latest[w][t], latest))

AlertRecordsOf(s) ==
  ForAll(kept.alerts, [a \in kept.alerts |->
    <<AlertSent(a[1].task, a[1].channel, a[2], a[1].attempt, a[3], Never)>>])

Terminal(s) == {t \in Tasks : IsTerminal(s, t)}

TerminalRecords(s) ==
  ForAll(Terminal(s), [t \in Terminal(s) |->
    <<TaskCompletedOrFailed(t, s.tasks[t].leased_to, s.tasks[t].completed_at,
                            s.tasks[t].status)>>])

Beating(s) == {w \in Workers : s.heartbeats[w] # Never}

Heartbeats(s) ==
  ForAll(Beating(s), [w \in Beating(s) |-> <<HeartbeatRecord(w, s.heartbeats[w])>>])

NoTerminalRecords(s) == <<>>   \* fault: the retained events are trusted

FinalRecords(s) == TerminalRecords(s)

Known(s) == {t \in Tasks : s.tasks[t].status # "Absent"}
Numbered(s) == {p \in Workers \X Tasks : s.latest_seq[p[1]][p[2]] # 0}
Settled(s) == {t \in Tasks : s.receipts[t] # NoReceipt}

Compacted(s) ==
  ForAll(s.runs, [r \in s.runs |-> <<RunCreated(r), RunStatusChanged(r, s.run_status[r])>>])
  \o ForAll(Known(s), [t \in Known(s) |-> TaskRecords(s, t)])
  \o AlertRecordsOf(s)
  \o ForAll(Workers, [w \in Workers |->
       ForAll(Known(s), [t \in Known(s) |-> RetainedEvents(s, w, t)])])
  \o ForAll(Numbered(s), [p \in Numbered(s) |->
       <<EventSequenceCheckpoint(p[1], p[2], s.latest_seq[p[1]][p[2]])>>])
  \o Heartbeats(s)
  \o FinalRecords(s)
  \o ForAll(Known(s), [t \in Known(s) |->
       <<TaskLifecycleCheckpoint(t, s.tasks[t].lifecycle_seq)>>])
  \o ForAll(Settled(s), [t \in Settled(s) |-> <<ReceiptRecorded(t, s.receipts[t])>>])

Compact ==
  /\ LockFree /\ kept.batches = "whole"
  /\ state' = Replay(Compacted(state))
  /\ UNCHANGED <<batch, writer, seen, missed, now, kept>>

(***************************************************************************)
(* The specification.                                                      *)
(***************************************************************************)
KeptInit ==
  kept = [restarted |-> [w \in Workers |-> [t \in Tasks |-> 0]],
          latest |-> [w \in Workers |-> [t \in Tasks |-> 0]],
          alerts |-> {}, batches |-> "whole"]

EventOf(r) ==
  CASE r.kind \in {"EventAppended", "TaskAttemptFinalized"} -> {r.event}
    [] r.kind = "AlertSent" /\ [task |-> r.task, attempt |-> r.attempt,
                               channel |-> r.channel] \notin state.alerts ->
         {[worker |-> r.worker, task |-> r.task, seq |-> r.seq, payload |-> "Escalated",
           timestamp |-> r.timestamp]}
    [] OTHER -> {}

BatchesAfter ==
  CASE kept.batches = "begun" /\ Cut -> "cut"
    [] kept.batches # "cut" /\ Persist -> IF Len(batch) > 1 THEN "begun" ELSE "whole"
    [] OTHER -> kept.batches

(* What the replay of the next record keeps of its event. *)
Keep ==
  IF ~Persist THEN kept' = [kept EXCEPT !.batches = BatchesAfter]
  ELSE LET r == Head(batch) IN
       kept' =
         [restarted |-> [w \in Workers |-> [t \in Tasks |->
            IF \E e \in EventOf(r) : e.worker = w /\ e.task = t /\ e.payload = "Restarted"
            THEN r.event.seq ELSE kept.restarted[w][t]]],
          latest |-> [w \in Workers |-> [t \in Tasks |->
            IF \E e \in EventOf(r) : /\ e.worker = w /\ e.task = t
                                     /\ e.seq > state.latest_seq[w][t]
                                     /\ ~RegressesTerminalState(state, e)
            THEN (CHOOSE e \in EventOf(r) : TRUE).seq ELSE kept.latest[w][t]]],
          alerts |-> kept.alerts \cup
            IF r.kind = "AlertSent"
            THEN {<<[task |-> r.task, attempt |-> r.attempt, channel |-> r.channel],
                    r.worker, r.seq>>}
            ELSE {},
          batches |-> BatchesAfter]

CompactingNext == (Next /\ Keep) \/ Compact

CompactingSpec == Init /\ KeptInit /\ [][CompactingNext]_allVars

(***************************************************************************)
(* Safety.                                                                 *)
(***************************************************************************)
(* "This truncates history but preserves run/task/event metadata and        *)
(* receipts": whatever the ledger went through, replaying its compacted     *)
(* form gives the same runs, tasks, attempts, lifecycle and event numbers,  *)
(* heartbeats, receipts and alerts, so every decision and version taken     *)
(* before the compaction still means the same after it, as long as every    *)
(* batch was written whole.  The status of workers is not preserved.        *)
Preserved(s) ==
  <<s.runs, s.run_status, s.receipts, s.alerts, s.heartbeats, s.latest_seq, s.latest_payload,
    [t \in Tasks |-> [s.tasks[t] EXCEPT !.completed_at = Never]]>>

CompactionPreserves ==
  LockFree /\ kept.batches = "whole" =>
    Preserved(Replay(Compacted(state))) = Preserved(state)
=============================================================================
