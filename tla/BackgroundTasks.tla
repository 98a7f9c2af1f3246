-------------------------- MODULE BackgroundTasks --------------------------
(***************************************************************************)
(* The durable background tasks of task_manager.rs.                        *)
(*                                                                         *)
(* The manager keeps its tasks and the queue of their ids in memory, under *)
(* one lock, and one file per task plus a queue file on disk.  A bounded   *)
(* pool of workers pops the queue, marks a task Running, drives its        *)
(* executor under a watchdog (ExecutionGuard) and records how it ended.    *)
(*                                                                         *)
(* An operation changes memory and writes files while it holds the lock,   *)
(* so the others see it whole; the disk sees it write by write.  A write   *)
(* can fail, which the operation reports or logs while memory keeps the    *)
(* change, and the process can die between two writes.                     *)
(***************************************************************************)
EXTENDS Naturals, Sequences, FiniteSets

CONSTANTS
  Tasks,          \* task ids, numbers in the order they sort
  Workers,
  Absent,         \* no such record
  Down,           \* the manager while the process is not running
  Scenarios       \* what may happen: each behaviour is one of these

ASSUME TaskAssumption == Tasks \subseteq Nat /\ IsFiniteSet(Tasks)

(* The workers of the pool, the tasks that a session adds (TaskOperations)  *)
(* and those that others do, and bounds: crashes and exits of the process,  *)
(* operations on a known task and adds with a failing write.                *)
ASSUME ScenarioAssumption ==
  Scenarios \subseteq [pool: SUBSET Workers, session: SUBSET Tasks, others: SUBSET Tasks,
                       crashes: Nat, errors: Nat, refusals: Nat]

VARIABLES
  mgr,          \* the process: its memory and workers, or Down
  disk,         \* the task files, the queue file and the staged task files
  told,         \* told[t]: what the caller of add_task or cancel_task was told
  executions,   \* executions[t]: how often the executor was started with t
  used          \* the scenario, and how much of its bounds is used up

vars == <<mgr, disk, told, executions, used>>

Timeouts == {"WallTimeout", "IdleTimeout"}
Reasons == {"Completed", "Canceled", "CancelTimeout", "Shutdown", "Failed"} \cup Timeouts
Ended == {"Completed", "Failed", "Canceled"}
Records ==
  [status: {"Queued", "Running"} \cup Ended, seq: Nat, reason: Reasons \cup {"None"}]
WorkerStates ==
  [step: {"Poll", "Wait", "Parked", "Exited"}, task: {Absent}, interrupt: {"None"}]
    \cup [step: {"Run"}, task: Tasks, interrupt: Reasons \cup {"None"}]

Memories ==
  [tasks: [Tasks -> Records \cup {Absent}], queue: Seq(Tasks), token: SUBSET Tasks,
   worker: [Workers -> WorkerStates], permit: BOOLEAN, stopping: BOOLEAN]

(* What stands for no record or no process is none. *)
ASSUME ValueAssumption == Absent \notin Records /\ Down \notin Memories

IsUp == mgr # Down

TypeOK ==
  /\ mgr \in Memories \cup {Down}
  /\ disk \in [file: [Tasks -> Records \cup {Absent}], queue: Seq(Tasks), staged: SUBSET Tasks]
  /\ told \in [Tasks -> {"Nothing", "Added", "Refused", "Requested", "Forced"}]
  /\ executions \in [Tasks -> Nat]
  /\ \A b \in {"crashes", "errors", "refusals"} : used[b] \in 0..used.scenario[b]

NewRecord == [status |-> "Queued", seq |-> 1, reason |-> "None"]

Idle(step) == [step |-> step, task |-> Absent, interrupt |-> "None"]

Started(tasks, queue, pool) ==
  [tasks |-> tasks, queue |-> queue, token |-> {}, permit |-> FALSE,
   worker |-> [w \in Workers |-> Idle(IF w \in pool THEN "Poll" ELSE "Exited")],
   stopping |-> FALSE]

Init ==
  /\ used \in [crashes: {0}, errors: {0}, refusals: {0}, scenario: Scenarios]
  /\ mgr = Started([t \in Tasks |-> Absent], <<>>, used.scenario.pool)
  /\ disk = [file |-> [t \in Tasks |-> Absent], queue |-> <<>>, staged |-> {}]
  /\ told = [t \in Tasks |-> "Nothing"]
  /\ executions = [t \in Tasks |-> 0]

(***************************************************************************)
(* The queue.                                                              *)
(***************************************************************************)
ItemsOf(s) == {s[i] : i \in DOMAIN s}

(* The numbers of a finite set in increasing order. *)
InOrder(S) ==
  [i \in 1..Cardinality(S) |-> CHOOSE n \in S : Cardinality({m \in S : m < n}) = i - 1]

(* VecDeque::retain: the entries that are in ts, in their order.  (SelectSeq *)
(* is the same, but recursive: nothing could be proved about it.)           *)
Retained(queue, ts) ==
  LET at == InOrder({i \in DOMAIN queue : queue[i] \in ts})
  IN [i \in DOMAIN at |-> queue[at[i]]]

(***************************************************************************)
(* Writing.                                                                *)
(***************************************************************************)
Use(b) == used[b] < used.scenario[b] /\ used' = [used EXCEPT ![b] = @ + 1]
Crashing == Use("crashes")
Failing == Use("errors")
Refusing == Use("refusals")

Known(m) == {t \in Tasks : m.tasks[t] # Absent}
Written(m, ts) == [t \in Tasks |-> IF t \in ts THEN m.tasks[t] ELSE disk.file[t]]

(* persist_all_locked: the queue file, then every task file. *)
SaveAll(m) == disk' = [disk EXCEPT !.queue = m.queue, !.file = Written(m, Known(m))]

(* The same, cut short: nothing, or the queue and some of the task files. *)
SaveSome(m) ==
  \/ UNCHANGED disk
  \/ \E ts \in SUBSET Known(m) :
       /\ ts # Known(m)
       /\ disk' = [disk EXCEPT !.queue = m.queue, !.file = Written(m, ts)]

Saved(m) == SaveAll(m) /\ mgr' = m /\ UNCHANGED used
SaveFails(m) == Failing /\ SaveSome(m) /\ mgr' = m
SaveCrashes(m) == Crashing /\ SaveSome(m) /\ mgr' = Down

(***************************************************************************)
(* Callers.                                                                *)
(***************************************************************************)
Parked == {w \in Workers : mgr.worker[w].step = "Parked"}

NotifyNobody(m) == {m}   \* fault: the new task is not announced

(* notify_one: wakes a parked worker, or else leaves one permit. *)
Notified(m) ==
  IF Parked = {} THEN {[m EXCEPT !.permit = TRUE]}
                 ELSE {[m EXCEPT !.worker[w] = Idle("Poll")] : w \in Parked}

Enqueued(t) ==
  [mgr EXCEPT !.tasks[t] = NewRecord, !.queue = Append(@, t)]

IsNewId(t) ==
  /\ IsUp /\ told[t] = "Nothing"   \* ids are random: nobody asks for one again
  /\ mgr.tasks[t] = Absent /\ disk.file[t] = Absent /\ t \notin disk.staged

(* add_task_with_id: stage the record, write the queue, promote the record. *)
Add(t) ==
  /\ IsNewId(t)
  /\ mgr' \in Notified(Enqueued(t))
  /\ disk' = [disk EXCEPT !.queue = Enqueued(t).queue, !.file[t] = NewRecord]
  /\ told' = [told EXCEPT ![t] = "Added"]
  /\ UNCHANGED <<executions, used>>

(* A write fails: the staged file is removed and the queue file put back,  *)
(* as far as these writes do not fail as well.                             *)
AddFails(t) ==
  /\ IsNewId(t) /\ Refusing
  /\ \E staged \in {disk.staged, disk.staged \cup {t}},
        queue \in {disk.queue, mgr.queue, Enqueued(t).queue} :
       disk' = [disk EXCEPT !.staged = staged, !.queue = queue]
  /\ told' = [told EXCEPT ![t] = "Refused"]
  /\ UNCHANGED <<mgr, executions>>

AddCrashes(t) ==
  /\ IsNewId(t) /\ Crashing
  /\ mgr' = Down
  /\ \/ \E queue \in {disk.queue, Enqueued(t).queue} :
          disk' = [disk EXCEPT !.staged = @ \cup {t}, !.queue = queue]
     \/ disk' = [disk EXCEPT !.queue = Enqueued(t).queue, !.file[t] = NewRecord]
  /\ UNCHANGED <<told, executions>>

(* cancel_task: what it makes of the manager's memory. *)
CanceledQueued(t) ==
  [mgr EXCEPT !.tasks[t].status = "Canceled", !.tasks[t].seq = @ + 1,
              !.queue = Retained(@, Tasks \ {t})]

CanceledRunning(t) ==
  [mgr EXCEPT !.tasks[t].seq = @ + 1, !.token = @ \cup {t}]

Canceled(t) ==
  CASE mgr.tasks[t].status = "Queued" -> CanceledQueued(t)
    [] mgr.tasks[t].status = "Running" -> CanceledRunning(t)
    [] OTHER -> mgr

Disposition(t) ==
  CASE mgr.tasks[t].status = "Queued" -> "Forced"
    [] mgr.tasks[t].status = "Running" -> "Requested"
    [] OTHER -> told[t]

MayCancel(t) ==   \* one request for each task; later ones change less
  IsUp /\ mgr.tasks[t] # Absent /\ told[t] = "Added"

Cancel(t) ==
  /\ MayCancel(t)
  /\ Saved(Canceled(t))
  /\ told' = [told EXCEPT ![t] = Disposition(t)]
  /\ UNCHANGED executions

CancelFails(t) ==
  /\ MayCancel(t)
  /\ SaveFails(Canceled(t)) \/ SaveCrashes(Canceled(t))
  /\ UNCHANGED <<told, executions>>

(***************************************************************************)
(* Workers.                                                                *)
(***************************************************************************)
IsAt(w, step) == IsUp /\ mgr.worker[w].step = step
Popped == [mgr EXCEPT !.queue = Tail(@)]
IsRunnable(t) == mgr.tasks[t] # Absent /\ mgr.tasks[t].status = "Queued"

(* worker_loop, with nothing to run: wait for the next notification. *)
FindNothing(w) ==
  /\ IsAt(w, "Poll") /\ ~mgr.stopping
  /\ mgr.queue = <<>>
  /\ mgr' = [mgr EXCEPT !.worker[w] = Idle("Wait")]
  /\ UNCHANGED <<disk, told, executions, used>>

StartsTask(w, t) ==
  [Popped EXCEPT !.tasks[t].status = "Running", !.tasks[t].seq = @ + 1,
                 !.worker[w] = [step |-> "Run", task |-> t, interrupt |-> "None"]]

(* The head of the queue is started; a failing write is only logged. *)
Start(w) ==
  /\ IsAt(w, "Poll") /\ ~mgr.stopping
  /\ mgr.queue # <<>>
  /\ LET t == Head(mgr.queue) IN
       /\ IsRunnable(t)
       /\ \/ /\ Saved(StartsTask(w, t)) \/ SaveFails(StartsTask(w, t))
             /\ executions' = [executions EXCEPT ![t] = @ + 1]
          \/ SaveCrashes(StartsTask(w, t)) /\ UNCHANGED executions
  /\ UNCHANGED told

Wait(w) ==
  /\ IsAt(w, "Wait")
  /\ mgr' = IF mgr.permit THEN [mgr EXCEPT !.permit = FALSE, !.worker[w] = Idle("Poll")]
                          ELSE [mgr EXCEPT !.worker[w] = Idle("Parked")]
  /\ UNCHANGED <<disk, told, executions, used>>

Exit(w) ==
  /\ IsUp /\ mgr.stopping
  /\ mgr.worker[w].step \in {"Poll", "Wait", "Parked"}
  /\ mgr' = [mgr EXCEPT !.worker[w] = Idle("Exited")]
  /\ UNCHANGED <<disk, told, executions, used>>

(* ExecutionGuard::evaluate: the reasons to interrupt, first one first; a   *)
(* deadline can have passed whenever the guard looks.                       *)
PendingInterrupts(t) ==
  IF mgr.stopping THEN {"Shutdown"}
  ELSE IF t \in mgr.token THEN {"Canceled"} ELSE Timeouts

Interrupt(w) ==
  /\ IsAt(w, "Run") /\ mgr.worker[w].interrupt = "None"
  /\ LET t == mgr.worker[w].task IN
       \E reason \in PendingInterrupts(t) :
         mgr' = [mgr EXCEPT !.token = @ \cup {t}, !.worker[w].interrupt = reason]
  /\ UNCHANGED <<disk, told, executions, used>>

(* What the executor can report: it has a guard of its own. *)
Reports(t) ==
  {"Completed", "Failed", "Canceled"} \cup Timeouts
    \cup (IF t \in mgr.token THEN {"CancelTimeout"} ELSE {})

Preserved(interrupt, report) ==
  IF report = "Canceled" /\ interrupt \in Timeouts THEN interrupt ELSE report

AfterGrace(reason) == IF reason = "Canceled" THEN "CancelTimeout" ELSE reason

AsReported(t, reason) == reason   \* fault: a completion beats the cancellation

(* finish_task: a canceled task has not completed, a stopping manager is    *)
(* the reason of what fails or is canceled.                                 *)
FinalReason(t, reason) ==
  LET r == IF t \in mgr.token /\ reason = "Completed" THEN "Canceled" ELSE reason
  IN IF mgr.stopping /\ r \in {"Canceled", "Failed"} THEN "Shutdown" ELSE r

StatusOf(reason) ==
  CASE reason = "Completed" -> "Completed"
    [] reason \in {"Canceled", "CancelTimeout", "Shutdown"} -> "Canceled"
    [] OTHER -> "Failed"

Finished(w, reason) ==
  LET t == mgr.worker[w].task
      final == FinalReason(t, reason)
  IN [mgr EXCEPT !.tasks[t] = [status |-> StatusOf(final), seq |-> @.seq + 1, reason |-> final],
                 !.token = @ \ {t}, !.worker[w] = Idle("Poll")]

Finish(w, reason) ==
  /\ \/ Saved(Finished(w, reason))
     \/ SaveFails(Finished(w, reason))
     \/ SaveCrashes(Finished(w, reason))
  /\ UNCHANGED <<told, executions>>

Report(w) ==
  /\ IsAt(w, "Run")
  /\ \E report \in Reports(mgr.worker[w].task) :
       Finish(w, Preserved(mgr.worker[w].interrupt, report))

(* The executor has not returned for the grace period: it is dropped. *)
Terminalize(w) ==
  /\ IsAt(w, "Run") /\ mgr.worker[w].interrupt # "None"
  /\ Finish(w, AfterGrace(mgr.worker[w].interrupt))

(* An event of the executor writes the task's file again. *)
Flush(w) ==
  /\ IsAt(w, "Run")
  /\ LET t == mgr.worker[w].task IN
       /\ disk.file[t] # mgr.tasks[t]
       /\ disk' = [disk EXCEPT !.file[t] = mgr.tasks[t]]
  /\ UNCHANGED <<mgr, told, executions, used>>

(***************************************************************************)
(* The process.                                                            *)
(***************************************************************************)
Shutdown ==
  /\ IsUp /\ ~mgr.stopping
  /\ mgr' = [mgr EXCEPT !.stopping = TRUE]
  /\ UNCHANGED <<disk, told, executions, used>>

Crash ==
  /\ IsUp /\ Crashing
  /\ mgr' = Down
  /\ UNCHANGED <<disk, told, executions>>

RequeueRunning(record) ==   \* fault: what was running is queued again
  IF record # Absent /\ record.status = "Running"
  THEN [record EXCEPT !.status = "Queued"] ELSE record

KeepSequence(record) ==   \* fault: recovery is not a lifecycle step of its own
  IF record # Absent /\ record.status = "Running"
  THEN [status |-> "Failed", seq |-> record.seq, reason |-> "Failed"] ELSE record

(* load_state: what was running has failed with the process. *)
Recovered(record) ==
  IF record # Absent /\ record.status = "Running"
  THEN [status |-> "Failed", seq |-> record.seq + 1, reason |-> "Failed"] ELSE record

Loaded == [t \in Tasks |-> Recovered(disk.file[t])]

TrustQueueFile(tasks) == disk.queue   \* fault: the queue file is taken as it is

(* The entries that are still Queued, then the Queued tasks it misses. *)
LoadedQueue(tasks) ==
  LET queued == {t \in Tasks : tasks[t] # Absent /\ tasks[t].status = "Queued"}
      kept == Retained(disk.queue, queued)
  IN kept \o InOrder(queued \ ItemsOf(kept))

BootWrites(ts) ==
  disk' = [disk EXCEPT !.queue = LoadedQueue(Loaded),
                       !.file = [t \in Tasks |-> IF t \in ts THEN Loaded[t] ELSE @[t]]]

Boot ==
  /\ mgr = Down
  /\ mgr' = Started(Loaded, LoadedQueue(Loaded), used.scenario.pool)
  /\ BootWrites(Tasks)
  /\ UNCHANGED <<told, executions, used>>

(* A failing write ends start_with_executor, as a crash does. *)
BootFails ==
  /\ mgr = Down
  /\ Crashing \/ Failing
  /\ \E ts \in SUBSET Tasks : BootWrites(ts)
  /\ UNCHANGED <<mgr, told, executions>>

(* The steps of callers, workers and the process; TaskOperations puts them  *)
(* together with the session.                                              *)
Call(t) == Add(t) \/ AddFails(t) \/ AddCrashes(t) \/ Cancel(t) \/ CancelFails(t)

Advance(w) == FindNothing(w) \/ Start(w) \/ Wait(w)

WorkerStep(w) ==
  Advance(w) \/ Exit(w) \/ Interrupt(w) \/ Report(w) \/ Terminalize(w) \/ Flush(w)

ProcessStep == Shutdown \/ Crash \/ Boot \/ BootFails

(***************************************************************************)
(* Properties.                                                             *)
(***************************************************************************)
(* The queue holds the Queued tasks, each exactly once, whatever adds,      *)
(* cancels, starts, failing writes and restarts came before: none is lost   *)
(* and none can be started twice.                                           *)
QueueIsExact ==
  IsUp =>
    /\ ItemsOf(mgr.queue) = {t \in Tasks : IsRunnable(t)}
    /\ Len(mgr.queue) = Cardinality(ItemsOf(mgr.queue))

(* What add_task acknowledged survives every restart; what it refused is    *)
(* never run, not even after a restart that reads what it left on disk.     *)
AddIsAtomic ==
  \A t \in Tasks :
    /\ told[t] \in {"Added", "Requested", "Forced"} => disk.file[t] # Absent
    /\ told[t] = "Refused" =>
         /\ disk.file[t] = Absent /\ executions[t] = 0
         /\ IsUp => mgr.tasks[t] = Absent

(* A cancellation that was acknowledged holds, over restarts and writes     *)
(* that failed before: forced, the task stays Canceled in memory and on     *)
(* disk, so it is never started; requested, it never ends Completed.        *)
CancelHolds ==
  \A t \in Tasks :
    /\ told[t] = "Forced" => disk.file[t].status = "Canceled"
    /\ told[t] = "Requested" => disk.file[t].status # "Completed"
    /\ IsUp /\ told[t] = "Forced" => mgr.tasks[t].status = "Canceled"
    /\ IsUp /\ told[t] = "Requested" => mgr.tasks[t].status # "Completed"

(* What callers of add_task and cancel_task were told stays true. *)
AnswersHold == AddIsAtomic /\ CancelHolds

(* Without failing writes a task's executor is started at most once: a      *)
(* crash in the middle of persist_all_locked never runs it again.           *)
RunsOnce == used.errors = 0 => \A t \in Tasks : executions[t] <= 1

(* Whatever the executor does short of a panic, a task that was added ends,  *)
(* and the worker it held takes the next one, unless the manager is shut     *)
(* down.                                                                   *)
EveryTaskEnds ==
  []<>(IsUp /\ (mgr.stopping \/ \A t \in Known(mgr) : mgr.tasks[t].status \in Ended))
=============================================================================
