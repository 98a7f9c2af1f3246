# HakusAgent: models and proofs of the Fleet and its background work

HakusAgent is a monorepo: a Tauri/React desktop client, a Rust runtime with a
terminal interface and an HTTP API (`frontend/terminal/crates`), and an older
Python agent and server.  The part whose correctness depends most on
interleavings and crashes is the **Fleet**: several processes (foreground
managers, Runtime API handlers, operator commands) share one append-only ledger
file, lease tasks to logical workers, start and stop child processes, retry,
cancel and finalize.  Beside it run durable background tasks, followed by the
Work Graph of the session that created them, and automations, which start such
tasks by the clock.  This project models these three; the inventory below says
what else there is.

Paths below are relative to `frontend/terminal/crates/tui/src/` unless they say
otherwise.

## 1. Inventory

| Component | State it keeps | Operations | Hard behaviour | What makes it correct |
|---|---|---|---|---|
| Fleet ledger `fleet/ledger.rs` | JSONL file of records; replayed into runs, tasks, workers, events, heartbeats, receipts, alerts; a lock file | create, enqueue, start/claim, append event, finalize, restart, cancel, alert, heartbeat, compact, replay | several processes; decisions on old snapshots; a crash inside a batch; torn last line; late output | one lease per worker, one outcome per attempt, receipt and outcome together, gapless numbering |
| Fleet manager `fleet/manager.rs` | the manager lock file of a run; its executor | start, drive a run, interrupt, restart, stop, resume | owner and standby managers; operators in other processes; refresh is read-then-write; crashes leave children | one process per worker, nothing left behind, every owned run finishes |
| Fleet scheduler `fleet/scheduler.rs` | none (works on the ledger) | resume: stale marks, retry, exhaustion, alerts | races the live manager and the operator | a late decision loses; alerts only for failures |
| Fleet executor and hosts `fleet/executor.rs`, `fleet/host.rs` | children and their log streams | start, stop, poll, forget | exit races cancellation; children are session leaders and survive | the outcome is that of the attempt that was started |
| Coordination `tools/subagent/coord.rs`, `tools/subagent/mod.rs` | worker records, write claims, launch generations | register, preflight, project status, advance generation | claims follow projected ledger state; prepare/commit across two stores | no two live writers overlap; a generation is launched once |
| Alerts, task specs, profiles, worker runtime (`fleet/…`) | configuration, HTTP delivery | send, parse, verify | I/O | out of scope: data and delivery |
| Background tasks `task_manager.rs` | tasks and queue in memory, one file per task and a queue file; a pool of workers | add, cancel, start, guard, finish, shut down, recover | several files per step, failing writes, crashes between them; watchdogs and cancellations racing the executor; a notification with one permit | queue exact, each task runs once and ends, what a caller was told stays true |
| Automations `automation_manager.rs`, `tools/send_later.rs` | a file per automation, run and delayed trigger | create, edit, pause, delete, run now; sweep, enqueue, fold, fire | the lock is released across each call of the task manager; two writes follow an enqueue; catch-up after a restart | no slot skipped or run twice, users' edits survive |
| Runtime threads `runtime_threads.rs` | threads, turns, items, event log | start, steer, interrupt, replay | concurrent turns, reconnecting clients | one active turn, ordered events |
| Sub-agents `tools/subagent/` | agents, mailbox, admission | spawn, message, close | parent/child races, limits | delivery, bounded concurrency |
| Lanes `../../lane` | registry of detached lanes | start, attach, stop | process death, registry races | registry and process agree |
| Company `../../company` | decisions, leases | decide, lease | leases in a store | one holder |
| Work graph `work_graph/` | the graph of a session: nodes bound to tasks, shells, lanes, workers | register, report, cancel, mark stale, restore | reports that are late, repeated or of before a restart | never ahead of its owners, in the end in agreement with them |
| Core `../../core`, workflow `../../workflow` | jobs, gates | many | progress rules | later candidates |
| Engine, tools, MCP, LLM clients, config, UI, Python agent | sessions, buffers, files | many | provider I/O | not modelled: I/O, rendering, data |

Interactions: the manager, scheduler and operators meet only in the ledger file
(and in the run's manager lock); the executor is private to a manager process;
coordination is consulted inside a lease or restart transaction; the HTTP API
and the CLI call the manager's operations.  Automations and the tool
`task_create` add background tasks; the tools, the terminal's panel and the
restore of a session report those to the Work Graph.  `PROJECT.json` lists each component
with its status and every hazard at the line where it bites.

## 2. Modules

| Module | Role |
|---|---|
| `TaskAttempts` | abstract: what the fleet promises about tasks, attempts, outcomes and workers |
| `FleetRecords` | the ledger's records and their replay: `apply_record` and its parts as operators on a state |
| `FleetTransactions` | the guard and the records of each transaction of `ledger.rs` |
| `FleetLedger` | the ledger as a state machine: lock, batches, crashes, clients with snapshots; implements `TaskAttempts` |
| `FleetLedgerProofs` | proofs about it: types, one lease per worker, numbering, outcomes, what readers see, the refinement of `TaskAttempts`, decisions on old snapshots |
| `FleetCompaction` | `FleetLedger` with `compact()` |
| `FleetCompactionProofs` | extends `FleetLedgerProofs`: a compaction preserves the replayed state, and every property of the ledger survives it |
| `FleetReplay` | the lines of the ledger file, torn and compacted, and the event stream of the Runtime API to a client that reconnects |
| `FleetReplayProofs` | proofs about it: no silent gap, nothing sent twice |
| `FleetManager` | managers, children and operators of one run over `TaskAttempts` |
| `FleetManagerProofs` | proofs about it: processes, completions, stops, launches |
| `FleetRecovery` | creation of a run, heartbeats, staleness, resume and alerts of one run |
| `FleetRecoveryProofs` | proofs about it: when a run is Completed, which leases are left alone |
| `FleetCoordination` | the worker records, write claims and launch generations of `tools/subagent`, against the leases |
| `FleetCoordinationProofs` | proofs about it: registry and leases, launches, exclusive writers |
| `BackgroundTasks` | tasks, queue, workers, execution guard, files |
| `TaskOperations` | `BackgroundTasks` composed with the Work Graph of a session |
| `TaskOperationsProofs` | proofs about both: queue, executions, answers, the graph against its tasks |
| `Automations` | automations, their runs, delayed triggers and the scheduler |
| `AutomationsProofs` | proofs about it: slots, commands, triggers |
| `MC...` | constants, scenarios and symmetry for TLC |

A **scenario** is a constant record that fixes what a behaviour may contain (which
tasks, workers or processes there are, how many crashes, failing writes, commands);
`Init` chooses one of a set, and `used` keeps it with what was spent.  So one run
covers several small fleets and fault budgets, and a crash is not multiplied with
every other fault.  Operators marked *fault* are wrong variants of the definition
next to them; the properties are tested on them.

### FleetLedger: state and actions

`state` is what replaying the durable records yields; `batch` is what the holder
of the write lock has still to append (`<<>>`: the lock is free); `writer` is the
client whose decision the batch carries; `seen[c]` is the version a client read,
`missed[c]` what happened to that task since (history); `now` is the wall clock.
A transaction (`StartTask`, `ClaimNext`, `Progress`, `LateProgress`, `Heartbeat`,
`Finalize`, `Cancel`, `Alert`, `Restart`, `MarkStale`, `FailExhausted`,
`CreateRun`, `Enqueue`) takes the free lock, tests its guard on the replayed
state and sets the batch; `Persist` makes the next record durable; `Cut` is a
crash of the writer after any prefix: the lock is released, the rest is lost.
`Observe` is a client's read; `Tick` the clock.  Timestamps may lag the clock by
`ClockLag`, because callers read it before they wait for the lock.

Bounds: `MaxSeq` (events per worker and task), `MaxAttempts`, `MaxTime`,
`MaxActive`; the guards name them.

### FleetManager: state and actions

One run.  `phase`, `owner`, `attempts` are the tasks of `TaskAttempts`, changed
only through its actions `Begin` and `Settle`, because `FleetLedger` implements
them; `run_status` is the last status written; `lock` the manager lock file;
`pc` where each process is; `tracked`, `plan`, `current` belong to an executor;
`alive` and `launched` are the children; `last_operator` and `stopped` remember who
commanded last and whether it was a stop.  `run_to_completion` is cut at every
read and write other processes can see:

    locking → schedule → read1/write1 → plan → launch ⇄ confirm → drive ⇄ finalize
            → read2/write2 → read3/write3 → check → release | schedule

`Standby`/`Decline` are the wait for another owner, `Fence` the test that a
tracked attempt is still the leased one, `Finalize` the recording of an exit,
`Crash` a crash or an error return (the lock is released, children live on:
`host.rs` makes them session leaders and nothing kills them on drop).  Operators:
`Interrupt`, `RestartWorker` (+ `MarkRunning`, `DriveRestarted`), `StopRun`
(+ `StopTask`, `MarkCancelled`), `Resume` (+ `RetryOrFail`, `EndResume`); the
status refresh of each is `ReadStatus`/`WriteStatus`.

Over-approximations: any lease may be found stale; a restart may pick any task
the worker had (the code: the active one, else the last by timestamp, which has
whole seconds); scheduling may end early (a busy coordination lock or a refused
write claim); a child may end in any outcome.  Bounds: `MaxAttempts` (the retry
budget; operators, who have none, keep to it too), `MaxCommands`, `MaxCrashes`.

### FleetCompaction and FleetReplay

`Compact` replaces the state by the replay of `Compacted(state)`, the records
`compact_with_snapshot_hook` writes: one step, because a rename installs them.
`kept` remembers which old events the code retains.  `FleetReplay` looks at the
same file as *lines*: appends, a torn last line (quarantined as a line of its own by
the next append), a compaction with its new epoch; the page a stream has read; the
client's cursor, what it knows, and whether it was told to reload.

### FleetRecovery

One run whose tasks have a worker each.  The creator enqueues task by task, and
nothing makes a start or a resume wait until it is done; the manager beats, leases,
drives and refreshes; resumers read the leases, mark, retry or fail, alert and
refresh, each a step of its own.  `verdict[p]` is the status a refresh derived and has
not written yet, with the tasks that were not enqueued by then; `missing` keeps those
of the status written last (history).  The two refreshes at the end of a tick follow
each other without a step between them and count as one.  Time is relative: `age[t]` of
the last heartbeat, `lag[r]` since a resumer read its clock.  Any process may
crash; a child may hang.

### FleetCoordination

`record[w]` is the registry's record of a worker; `pending` the registration whose
ledger append has not happened yet (`Commit`, `AppendFails`); each run has a driver
with the steps reconcile, schedule, launch, drive.  Two runs of one server share the
registry; `overlap` says which tasks write to the same files.

### BackgroundTasks and TaskOperations

`mgr` is the process (records, queue, workers, the permit of `Notify`, the
cancellation tokens) or `Down`; `disk` its files, among them staged ones.  An
operation is one step of `mgr`, because it holds the lock, and a set of writes of
`disk` of which a crash or an error may leave a part (`SaveSome`).  `TaskOperations`
adds the graph in memory and the saved one, tool calls between their steps, and
the listings of the panel and of the restore, so reports can be older than what the
graph has taken in.  The queue that a start reads back is written with `InOrder` and
`Retained` instead of the recursive `SelectSeq`, so that it can be reasoned about.

### Automations

All state is in files: `automation`, `runs`, `trigger`.  The scheduler's phases are
cut where the code releases its lock: collect, then for each item the call of the
task manager (`EnqueueRun`, `LookUp`, `FireTrigger`) and the write (`FinishRun`,
`Fold`, `RecordTrigger`).  `FinishFails`, `FoldFails`, `RecordFails`, `CollectFails`
are a failing write or a crash at that point.  A run is named by its slot; a
recurring schedule has a slot at every instant.

## 3. Runs

| Run | Shows | States |
|---|---|---|
| `workers` | two tasks, one worker, no alert channel: `WorkerExclusive`, refinement of `TaskAttempts` | 1.2 M |
| `outcomes` | one task, two workers, three attempts (the third where records of a restart were cut), two clock values: what is recorded beside an outcome, what readers see, numbering | 1.2 M |
| `compaction` | one task, two clients with snapshots, two attempts, compaction any time: it preserves what decisions rest on, and late decisions lose | 0.9 M |
| `replay` | four events, pages of two, a compaction, a torn line, two lost connections or cursors: no silent gap, nothing twice, catching up | 87 k |
| `manager_safety` | two managers, two workers, two tasks, one operator, three commands | 0.8 M |
| `manager_liveness` | two managers, one worker for two tasks, fairness, a crash with an orphaned child | 0.1 M |
| `recovery` | two resumers of one task, or one resumer of two tasks; starts and resumes from the first enqueue on; a clock that lags, a crash, a hung child | 0.4 M |
| `coordination` | one run of two tasks, or two runs with overlapping writers; restarts, a revival, a skipped reconciliation, a crash or failed append | 0.4 M |
| `tasks` | two workers for two tasks with a crash; one worker for three; failing writes; a session's operation with refused adds and crashes | 0.4 M |
| `automations` | one automation with commands and a fault, a watcher with two faults, a run by hand, two automations, two triggers | 0.2 M |
| `relaunch_after_crash`, `ghost_task` | disagreements, section 5 | |

Why the bounds are enough to be interesting: exclusion needs two tasks and one
worker; "an old attempt against a new one" needs two attempts, and a third one
shows that nothing is special about the first retry; a late decision needs two
clients; a standby needs two managers; a stop, restart or resume against a running
manager needs two commands (one of them the start), and the third allows a second
intervention.  A prepared generation is prepared again only after two restarts with
a failed append between.  A notification is lost only with a queue longer than the
workers that are woken.  A slot is caught up only if two were missed, so the clock
of `automations` reaches 2.  A page of two lets a page end inside and at the end of
what follows the cursor.  Runs that stop at their bounds say
`CHECK_DEADLOCK FALSE`.  Runs with liveness properties use no symmetry.

Properties that end in `Inv` are conjunctions of a type invariant (or of several
facts about one record) with the property named next to them.

Fairness, and why the code justifies it:

* `FleetManager`: a started manager or operator keeps running (weak fairness: the
  loops sleep and go on); children exit (an assumption about the work, not about the
  code); a manager that can lease again and again eventually does (strong: the
  reasons to refuse, a busy `try_write` and the claim of another live worker, pass).
* `FleetRecovery`: processes keep running; a child that does not hang ends, also if
  it is replaced meanwhile (strong); a run without a manager is started and resumed
  again.  That last one is the user's part, and is what makes a run survive crashes,
  and a status of Completed that it was given while it was created: without another
  resume it cannot be started.
* `FleetCoordination`: drivers tick, an append comes to an end, children exit.
* `FleetReplay`: an open stream keeps polling, a client that was told to reload does.
* `TaskOperations`: the workers step, guards fire, the process is started again, the
  panel and the restore run; the executor itself owes nothing (but a panic of it is
  not modelled).
* `Automations`: the scheduler's loop goes on.

Crashes, failing writes and commands are never required.

## 4. Theorems

All of them hold for every value of the constants: any number of processes, tasks,
workers, runs and attempts, and any fault budget.

| Theorem | States | Hypothesis |
|---|---|---|
| `TypeCorrect`, `WorkersAreExclusive` (`FleetLedgerProofs`) | `TypeOK`, `WorkerExclusive` | |
| `OutcomesAgree`, `OutcomesAreShown` (`FleetLedgerProofs`) | `OutcomeInv`, `TerminalShown` | |
| `EventsAreGapless`, `LedgerImplementsTaskAttempts` (`FleetLedgerProofs`) | `SequenceIsGapless`, `ImplementsTaskAttempts` | |
| `LateDecisionsLose` (`FleetLedgerProofs`) | `LateDecisionLoses` | |
| `CompactionIsSafe` (`FleetCompactionProofs`) | `CompactionPreserves` | `kept.batches = "whole"` |
| `DecisionsOutlastCompaction`, `OutcomesOutlastCompaction` (`FleetCompactionProofs`) | `LateDecisionLoses`; `WorkerExclusive`, `OutcomeInv`, `TerminalShown`, of `CompactingSpec` | |
| `NumbersOutlastCompaction`, `CompactingImplementsTaskAttempts` (`FleetCompactionProofs`) | `SequenceIsGapless`, `ImplementsTaskAttempts`, of `CompactingSpec` | |
| `NoGap`, `SentOnce` (`FleetReplayProofs`) | `ReplayInv`, `NothingTwice` | |
| `StopsHold`, `OwnersComplete` (`FleetManagerProofs`) | `StoppedRunStaysStopped`, `CompletedByOwner` | |
| `OneChildAtATime`, `CompletionsAreClean`, `ManagersReapTheirChildren` (`FleetManagerProofs`) | `ManagerInv`, `CompletedByItsChild`, `NoChildLeftBehind` | `crashes = 0` (not for the types) |
| `AttemptsAreLaunchedOnce` (`FleetManagerProofs`) | `LaunchedOnce` | `MaxCrashes = 0` |
| `CompletedRunsAreDone`, `HealthyLeasesAreLeftAlone` (`FleetRecoveryProofs`) | `RecoveryInv`, `HealthyIsLeftAlone` | |
| `RegistryKeepsUp`, `ChildrenAreRegistered`, `OnlyLostRestartsFail` (`FleetCoordinationProofs`) | `RegistryInv`, `ChildIsRegistered`, `FailsOnlyIfPrepared` | |
| `WritersAreExclusive` (`FleetCoordinationProofs`) | `ExclusiveWriters` | `OneTaskPerRun` |
| `QueueStaysExact`, `TasksRunOnce`, `AnswersAreKept`, `GraphIsNeverAhead` (`TaskOperationsProofs`) | `QueueInv`, `RunsOnce`, `AnswersHold`, `SequenceIsStable` | |
| `EndsAreTrue` (`TaskOperationsProofs`) | `NoFalseEnd` | `used.errors = 0` |
| `SlotsRunOnce`, `UsersWin`, `NoSlotIsPassedOver`, `TriggersFireOnce` (`AutomationsProofs`) | `AutomationInv`, `UserWins`, `EverySlotRuns`, `TriggersHold` | |

The hypotheses are where the properties stop being true of the code (section 5), and
the runs check the properties under the same ones.  A crashed manager leaves its
children alive and the next one launches the attempt again (`relaunch_after_crash`);
`crashes = 0` inside the box speaks of each behaviour as long as nothing crashed,
`MaxCrashes = 0` is its form for an action property.  A worker with a second task can
be judged by its first one (`fleet/manager.rs:591`), so exclusion of writers is for
fleets in which a run with overlapping claims has one task.  An end whose write failed
is taken back by a restart, after the graph was told (`task_manager.rs:1643`).
A batch that a crash cut leaves a ledger whose compaction changes what it says
(`fleet/ledger.rs:1514`): `CompactingSpec` compacts until then, and goes on without
compaction after it.

The arguments, each an invariant that is inductive where the property is not:

* **Ledger types and leases.**  Each transaction writes `Records`, each
  `apply_record` case maps `States` to `States`.  `WorkerExclusive` alone is not
  inductive: while a lease is in the batch the state does not show it, and only the
  lock keeps another transaction from leasing the worker.  `LeaseInFlight` says that
  a lease in the batch is its first record and that its worker is free.
* **Ledger outcomes.**  `LedgerInv` relates the batch to the state it is appended to,
  record by record (`FitsAt`): what number an event will have counted from the latest
  one (`Offset`), that a terminal event ends its batch and is about the lease, which
  receipt goes with which finalization, that an alert is about a failure that is
  already recorded.  It is lost by no prefix: `Persist` moves one record from batch to
  state and everything behind it still fits (`Fits` is kept by each kind of record),
  `Cut` drops the rest.  Numbering, outcomes (`OutcomeIInv`), the events readers see and
  the mapping of each record to a step of `TaskAttempts` or to a stutter follow.
* **Late decisions.**  `DecisionFits`: a client's snapshot names the worker that still
  has the task, and if it misses a record of the task then the attempts or the
  number of the last event have moved on, which is what the transactions compare.
* **Compaction.**  `CompactedIsSame`: replaying the compacted records yields the
  state, up to what `Preserved` leaves out.  Each of the nine groups of records
  (`ForAll`) is replayed by an induction over the members replayed so far
  (`GroupRule`), and `Rebuilds` composes the groups.  It is true only of states whose
  ledger still has the right old events: `KeptInv` says what they are.  `WholeFits`
  and `BatchFits`: a task that is running again but still shows the outcome of its last
  attempt (`Outdated`) exists only behind the lease record of a restart, whose event is
  the next record of the batch.  Between batches there is none unless one was cut, so no
  old outcome is replayed behind a newer lease.  Since a compaction changes nothing
  that the invariants of the ledger speak about, they are invariants with it too
  (`CompactionInv`), and it maps to a stutter of `TaskAttempts`.
* **Replay.**  `FileInv`: the events of the file are those of the compaction, then
  numbers without a gap up to `total`, and no two have a cursor in common.  `PageInv`,
  `Fresh`: what was read and not sent follows all that was sent, and so does what comes
  behind a cursor that is held.  `ClientInv`: who owes no reload knows the events
  `1..k`, the page continues with `k + 1`, and whoever holds a cursor of the file
  knows what that file no longer numbers.  That cursors carry the epoch is why a
  compaction cannot be mistaken for the file before it.
* **Manager.**  `IInv` follows each process through its steps: only the holder of the
  lock tracks children, and what it tracks was launched by it (`TrackingFits`); the
  leases it has still to launch are of different workers and none of them was completed
  (`LaunchingFits`); without crashes every living child, and every child launched for
  a current attempt, is tracked (`ProcessesFit`), so that it is fenced and reaped before
  its worker gets another one; after a stop nobody has a status but an end left to
  write (`StopFits`).
* **Recovery.**  A status is written after the lock under which it was derived is
  released: `VerdictsHold` says that a derived `Completed` stays true of the tasks it
  was derived from.  It says nothing of tasks enqueued after that (`missing`), whoever
  is alive (section 5).  What a resumer found stale is stale as long as its version did
  not move (`StalesFit`).
* **Coordination.**  `PendingFits`: between registration and append nothing else moves
  the task or the worker; `GenerationFits`: without a lost append a generation is ahead
  only in between.  `WritersFit` adds that a lease has a live record, so that admission
  sees its claim, except after a crash until the first reconciliation.
* **Background tasks.**  `MInv` holds of memory and of disk separately (`RecordFits`), so
  whichever of them a crash leaves is consistent with what callers were told and with
  how often the task was run; until a write fails both agree.  `SInv` says that every
  listing, answer and graph is of the past (`IsPast`, `NodeFits`), which the records
  moving only forward (`OwnersMove`) preserves.
* **Automations.**  `BehindFit`: the next slot of an automation is later than any slot
  that left a trace, or it is the same one and its run is saved or about to be; `DueFit`,
  `OrderFit`: what waits to be started was not; `TriggersFit`, the same for triggers.

Assumptions: the named ones of the modules, which TLC evaluates in the runs that
extend them.  They bound nothing but say that bounds are numbers, that scenarios are
records, that priorities are numbers, that a ledger names finitely many runs, tasks
and workers (`FiniteAssumption`, for compaction only), and that the values standing for
absence (`Absent`, `NoWorker`, `Nobody`, `Idle`, `Down`, ...) are not among those they
are absent from.

Only model-checked:

* liveness (`OwnedRunFinishes`, `ExhaustedIsEscalated`, `CreatedRunEnds`,
  `ContendedWorkStarts`, `EveryTaskEnds`, `OperationSettles`, `DueWorkIsDone`,
  `RunsFollowTasks`, `CatchesUp`): it needs fairness and `ENABLED`, which
  the prover does not handle.

Every safety property that a passing run checks is a theorem.  The provers have no
induction rule with a property as its parameter.  The inductions over replayed records
and over lines are done on sets of numbers instead (`SetInduction`: a set with 0 and
each successor contains `Nat`), from the well-foundedness of `<` in the library.

## 5. Where the code disagrees with its own words

Two runs show a disagreement:

* `relaunch_after_crash`: the standby's comment says a released lock is never
  permission to relaunch an unchanged leased attempt; a manager that did not
  happen to observe the owner does so, next to the orphan.  `CompletedByOwner`
  states what still holds.
* `ghost_task`: a restart between the owner's last look and the drop of its lock
  is driven by nobody; the code's tests call this a ghost running task.

Others are the reason why a property is stated under a condition, without which TLC
finds the counterexample, or why there is none:

| Where | What happens | Consequence |
|---|---|---|
| `fleet/ledger.rs:991` | a heartbeat within the same second does not defeat a restart, although the comment says any does | `LateDecisionLoses` allows it |
| `fleet/ledger.rs:1514` | after a restart that was cut behind its lease record, compaction keeps the old terminal event after the lease: replay ends the task | `CompactionPreserves`: batches whole |
| `fleet/ledger.rs:1437` | the status of workers is not what it was before a compaction | not among `Preserved` |
| `fleet/manager.rs:1913`, `:469` | the refresh of a run, and its activation, write a status that was read before a stop: the run is not cancelled for good, as `docs/RUNTIME_API.md` says | `StoppedRunStaysStopped`: no such write pending |
| `fleet/manager.rs:420`, `:1933`, `fleet/scheduler.rs:565` | a resume or an early start during the creation of a run derives Completed from the tasks enqueued so far, also from none, with the creator alive (see below) | `CompletedRunIsDone`: of the tasks enqueued when it was derived |
| `fleet/manager.rs:421` | a creator that dies leaves a run of fewer tasks, which is reported Completed and stays so | the same |
| `fleet/scheduler.rs:385` | a crash between exhaustion and its alerts: nobody is alerted later | `ExhaustedIsEscalated`: no crash |
| `fleet/scheduler.rs:498` | a heartbeat later than the resumer's clock counts as stale | `HealthyIsLeftAlone`: no lag |
| `fleet/manager.rs:539` | the manager heartbeats for a child that hangs, so it is never reclaimed | `CreatedRunEnds`: no hung child |
| `fleet/manager.rs:591`, `:580`, `:1027` | a claim that should block does not: an older task hides the leased one, the reconciliation was skipped, a settled task is revived | `ExclusiveWriters`: one task per worker, no skip, no revival |
| `task_manager.rs:1967` | a timeout of an executor that was also cancelled is recorded as a cancellation | no property about the reason |
| `task_manager.rs:1643` | a failing write is only logged; a restart reuses the sequence number, and takes back an end that was not written | `SequenceIsStable`, `EndsAreTrue`: no failing write |
| `automation_manager.rs:1221` | "the run-per-slot check keeps that idempotent", but a crash between `add_task` and `save_run` leaves no run to check, and the slot starts a second task; so does a silent watcher's removed run before the slot advanced | `SlotRunsOnce`: no trace lost |
| `automation_manager.rs:1281` | an automation moved to a single later slot while its run is enqueued is paused by the advance: the slot is lost | `EverySlotRuns`: not overtaken |
| `automation_manager.rs:1670` | canceling a trigger that was collected already is overwritten with Fired | `TriggersHold`: not in flight |

On the creation of a run: the creator appends the run and each of its tasks in
transactions of their own, and neither `activate_run` (`fleet/manager.rs:449`) nor
the resume (`fleet/scheduler.rs:91`) asks whether it is done.  A resume between the run
record and its first task, or a manager started early that finished the first task,
records Completed while the creator goes on.  The tasks enqueued after that belong to a
run that `activate_run` refuses as "already terminal" (the creator's own start in
`create_run` too), although `docs/RUNTIME_API.md:947` says of a prepared run that a
start activates it, and `../../protocol/src/lib.rs:22` calls a terminal status "final,
non-progressable".  Only another resume puts it right, which is why `CreatedRunEnds`
needs one.  In the model: `Resume`, `ReadLeases`, `EndMarks`, `EndResume`, `Enqueue`,
and the run is Completed with a queued task, the reason for `missing`.

## 6. Plan, and what is not modelled

Next, in this order:

1. Runtime threads (`runtime_threads.rs`): one active turn per thread, the order of
   items, interruption; then sub-agent admission and the mailbox; then lanes.
2. Two schedulers of automations over one directory, and the claims that the
   reconciliation of coordination overlooks: the two hazards without a property.

Not modelled in the parts that are:

* Ledger: the unconditional primitives that only tests call; artifacts.
* Manager: the foreground CLI's leasing before it takes the manager lock and
  `stop_all` (the same transactions, over several runs).
* Coordination: in-process sub-agents as claim owners, decisions, the process lock
  between servers, the capacity limit of claims.  The module is about one Runtime API
  server, and its properties are about what goes through that server's registry.  The
  CLI opens a manager with a registry of its own process (`lib.rs:3071`), and the slash
  command `/fleet resume` one with none (`fleet/control.rs:445`): they advance attempts
  without preparing the generation in the registry of the server, so `RegistryInv` and
  `FailsOnlyIfPrepared` do not speak of them.
* Background tasks: timelines, artifacts, tool metadata, the runtime thread behind a
  task.  An executor that panics: the panic is caught around the whole worker loop
  (`utils.rs:566`), so the pool has a worker less and the task stays Running until the
  process is restarted, and `EveryTaskEnds` is about executors that do anything else.
  Two processes over one tasks directory: `RunsOnce` is about one.  Work Graph: plans, proposals, evidence, and owners other than tasks.
* Automations: calendar arithmetic; unreadable records; the limits of the 25 runs in
  which a slot is looked for and the 100 that are followed (more runs by hand than
  that between two ticks are beyond the instances); legacy files; two processes
  with a scheduler each over one directory (`runtime_api.rs:1107` and
  `tui/ui/event_loop.rs`), whose mutexes do not know each other.

Not modelled at all: hosts, HTTP and SSH, task specs and verification, LLM and MCP
clients, configuration, secrets, telemetry, the user interfaces, the workflow
interpreter (data and I/O); the Python agent and server (a separate program); lanes,
the company layer, core jobs, runtime threads and the sub-agent mailbox, which keep
state worth modelling and wait for the plan above.
