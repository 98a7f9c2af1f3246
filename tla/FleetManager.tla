---------------------------- MODULE FleetManager ----------------------------
(***************************************************************************)
(* One fleet run driven by the processes of fleet/manager.rs.              *)
(*                                                                         *)
(* A manager process executes run_to_completion: it waits for the run's    *)
(* manager lock, then loops over scheduling, launching, driving and        *)
(* refreshing until no work is open.  Its executor tracks the child        *)
(* processes it launched; children outlive a manager that crashes (they    *)
(* are session leaders, and nothing kills them on drop).  An operator      *)
(* process (CLI command or Runtime API handler) interrupts, restarts,      *)
(* stops or resumes the same run through the ledger.                       *)
(*                                                                         *)
(* The ledger is used as the abstract TaskAttempts that FleetLedger        *)
(* implements: every transaction is one atomic, guarded step.  Heartbeats  *)
(* and clocks are left out: any lease may be found stale.                  *)
(***************************************************************************)
EXTENDS Naturals

CONSTANTS
  Tasks, NoWorker,
  Workers,      \* the logical workers of the run, max_workers of them
  Managers,     \* processes that may execute run_to_completion
  Operators,    \* processes that execute control commands
  Nobody,       \* no lock holder, no operator
  NoChild,      \* the executor tracks nothing for a worker
  MaxAttempts,  \* retry budget of a task; operators keep to it too (a bound)
  MaxCrashes,   \* bound: crashes and error exits of managers
  MaxCommands   \* bound: operator commands and manager starts

Outcomes == {"Completed", "Failed", "Cancelled"}

ASSUME ProcessesAssumption ==
  Managers \cap Operators = {} /\ Nobody \notin Managers
ASSUME AbsentAssumption ==
  NoWorker \notin Workers
    /\ NoChild \notin [manager: Managers, task: Tasks, worker: Workers, attempt: Nat]
ASSUME BoundsAssumption ==
  MaxAttempts \in Nat \ {0} /\ MaxCrashes \in Nat /\ MaxCommands \in Nat

VARIABLES
  phase, owner, attempts,   \* the tasks in the ledger
  run_status,   \* the last RunStatusChanged
  lock,         \* holder of the run's manager lock file
  pc,           \* pc[p]: where process p is
  verdict,      \* verdict[p]: the status p's refresh_run_status derived
  observed_owner,  \* observed_owner[m]: m has found the lock taken
  tracked,      \* tracked[m][w]: the child m's executor tracks for w
  plan,         \* plan[m]: leases m read and has still to launch, or
                \* workers m has still to drive
  current,      \* current[m]: the child m is launching or finalizing
  alive,        \* children still running
  launched,     \* every child ever launched (history)
  todo,         \* todo[o]: tasks o has still to stop, or leases to resume
  crashes, commands,  \* used up of the bounds
  last_operator,  \* who gave the last command (history)
  stopped       \* stop_run was the last command, and met no pending write of
                \* the run's status (history)

ledger == <<phase, owner, attempts>>
executor == <<tracked, plan, current>>
history == <<crashes, commands, last_operator, stopped>>
vars == <<ledger, run_status, lock, pc, verdict, observed_owner, executor,
          alive, launched, todo, history>>

Ledger == INSTANCE TaskAttempts

Processes == Managers \cup Operators
Children == [manager: Managers, task: Tasks, worker: Workers, attempt: 1..MaxAttempts]
Leases == [task: Tasks, worker: Workers, attempt: 1..MaxAttempts]
Statuses == {"Queued", "Running"} \cup Outcomes

ManagerSteps ==
  {"off", "activating", "locking", "schedule", "read1", "write1", "plan", "launch", "confirm",
   "drive", "finalize", "read2", "write2", "read3", "write3", "check", "release"}
OperatorSteps == {"idle", "read", "write", "stopping", "resuming", "running", "driver"}

TypeOK ==
  /\ phase \in [Tasks -> {"Enqueued", "Leased"} \cup Outcomes]
  /\ owner \in [Tasks -> Workers \cup {NoWorker}]
  /\ attempts \in [Tasks -> 0..MaxAttempts]
  /\ run_status \in Statuses
  /\ lock \in Managers \cup {Nobody}
  /\ pc \in [Processes -> ManagerSteps \cup OperatorSteps]
  /\ verdict \in [Processes -> Statuses]
  /\ observed_owner \in [Managers -> BOOLEAN]
  /\ tracked \in [Managers -> [Workers -> Children \cup {NoChild}]]
  /\ plan \in [Managers -> SUBSET (Leases \cup Workers)]
  /\ current \in [Managers -> Children \cup {NoChild}]
  /\ alive \subseteq launched /\ launched \subseteq Children
  /\ todo \in [Operators -> SUBSET (Tasks \cup Leases)]
  /\ crashes \in 0..MaxCrashes /\ commands \in 0..MaxCommands
  /\ last_operator \in Operators \cup {Nobody} /\ stopped \in BOOLEAN

(* A run as create_queued_run leaves it. *)
Init ==
  /\ phase = [t \in Tasks |-> "Enqueued"]
  /\ owner = [t \in Tasks |-> NoWorker]
  /\ attempts = [t \in Tasks |-> 0]
  /\ run_status = "Queued"
  /\ lock = Nobody
  /\ pc = [p \in Processes |-> IF p \in Managers THEN "off" ELSE "idle"]
  /\ verdict = [p \in Processes |-> "Running"]
  /\ observed_owner = [m \in Managers |-> FALSE]
  /\ tracked = [m \in Managers |-> [w \in Workers |-> NoChild]]
  /\ plan = [m \in Managers |-> {}]
  /\ current = [m \in Managers |-> NoChild]
  /\ alive = {} /\ launched = {}
  /\ todo = [o \in Operators |-> {}]
  /\ crashes = 0 /\ commands = 0 /\ last_operator = Nobody /\ stopped = FALSE

Open == {t \in Tasks : phase[t] \in {"Enqueued", "Leased"}}
Leased == {t \in Tasks : phase[t] = "Leased"}
HasOpenWork == Open # {}

(* executor_task_context_for_attempt, and the guard of every transaction    *)
(* an executor makes: the lease of exactly this attempt.                    *)
IsCurrent(c) ==
  phase[c.task] = "Leased" /\ owner[c.task] = c.worker /\ attempts[c.task] = c.attempt

CurrentLeases == {l \in Leases : IsCurrent(l)}

DerivedStatus ==
  IF HasOpenWork THEN "Running"
  ELSE IF \E t \in Tasks : phase[t] = "Failed" THEN "Failed"
  ELSE IF \E t \in Tasks : phase[t] = "Cancelled" THEN "Cancelled"
  ELSE "Completed"

TrackedWorkers(m) == {w \in Workers : tracked[m][w] # NoChild}
GoTo(p, step) == pc' = [pc EXCEPT ![p] = step]
Move(p, from, to) == pc[p] = from /\ GoTo(p, to)

(***************************************************************************)
(* refresh_run_status: a read of the ledger, then a write.                 *)
(***************************************************************************)
ReadStatus(p, from, to) ==
  /\ Move(p, from, to)
  /\ verdict' = [verdict EXCEPT ![p] = DerivedStatus]
  /\ UNCHANGED <<ledger, run_status, lock, observed_owner, executor, alive,
                 launched, todo, history>>

WriteStatus(p, from, to) ==
  /\ Move(p, from, to)
  /\ run_status' = verdict[p]
  /\ UNCHANGED <<ledger, lock, verdict, observed_owner, executor, alive,
                 launched, todo, history>>

(***************************************************************************)
(* Ownership of the run.                                                   *)
(***************************************************************************)
(* activate_run refuses a terminal run, writes Running over Queued, and the  *)
(* driver is spawned.                                                       *)
Start(m) ==
  /\ commands < MaxCommands
  /\ run_status \notin Outcomes
  /\ Move(m, "off", IF run_status = "Running" THEN "locking" ELSE "activating")
  /\ observed_owner' = [observed_owner EXCEPT ![m] = FALSE]
  /\ commands' = commands + 1
  /\ stopped' = FALSE
  /\ UNCHANGED <<ledger, run_status, lock, verdict, executor, alive, launched,
                 todo, crashes, last_operator>>

Activate(m) ==
  /\ Move(m, "activating", "locking")
  /\ run_status' = "Running"
  /\ UNCHANGED <<ledger, lock, verdict, observed_owner, executor, alive,
                 launched, todo, history>>

Acquire(m) ==
  /\ lock = Nobody
  /\ ~observed_owner[m]
  /\ Move(m, "locking", "schedule")
  /\ lock' = m
  /\ UNCHANGED <<ledger, run_status, verdict, observed_owner, executor, alive,
                 launched, todo, history>>

(* The lock is taken: stand by, and leave as soon as no work is open. *)
Standby(m) ==
  /\ pc[m] = "locking" /\ lock # Nobody
  /\ observed_owner' = [observed_owner EXCEPT ![m] = TRUE]
  /\ GoTo(m, IF HasOpenWork THEN "locking" ELSE "off")
  /\ UNCHANGED <<ledger, run_status, lock, verdict, executor, alive, launched,
                 todo, history>>

(* The observed owner is gone: a standby never takes its work over, it      *)
(* drops the lock again and returns, or bails out.                          *)
Decline(m) ==
  /\ lock = Nobody
  /\ observed_owner[m]
  /\ Move(m, "locking", "release")
  /\ lock' = m
  /\ UNCHANGED <<ledger, run_status, verdict, observed_owner, executor, alive,
                 launched, todo, history>>

MayReturnWithChildren(m) == ~HasOpenWork   \* fault: the executor is not asked

MayReturn(m) == ~HasOpenWork /\ TrackedWorkers(m) = {}

Check(m) ==
  /\ Move(m, "check", IF MayReturn(m) THEN "release" ELSE "schedule")
  /\ UNCHANGED <<ledger, run_status, lock, verdict, observed_owner, executor,
                 alive, launched, todo, history>>

(* Returning drops the manager lock, some time after the last look at the    *)
(* ledger.                                                                  *)
Release(m) ==
  /\ Move(m, "release", "off")
  /\ lock' = Nobody
  /\ UNCHANGED <<ledger, run_status, verdict, observed_owner, executor, alive,
                 launched, todo, history>>

(* A crash, or an error return: the lock file is released, the executor is   *)
(* gone, the children live on.                                              *)
Crash(m) ==
  /\ crashes < MaxCrashes
  /\ pc[m] # "off"
  /\ GoTo(m, "off")
  /\ lock' = IF lock = m THEN Nobody ELSE lock
  /\ tracked' = [tracked EXCEPT ![m] = [w \in Workers |-> NoChild]]
  /\ plan' = [plan EXCEPT ![m] = {}]
  /\ current' = [current EXCEPT ![m] = NoChild]
  /\ crashes' = crashes + 1
  /\ UNCHANGED <<ledger, run_status, verdict, observed_owner, alive, launched,
                 todo, commands, last_operator, stopped>>

(***************************************************************************)
(* schedule_run_excluding: lease queued tasks to idle workers.             *)
(***************************************************************************)
IdleWorker(m, w) == tracked[m][w] = NoChild /\ \A t \in Leased : owner[t] # w

Schedule(m, t, w) ==
  /\ pc[m] = "schedule"
  /\ phase[t] = "Enqueued" /\ IdleWorker(m, w)
  /\ Ledger!Begin(t, w)
  /\ UNCHANGED <<run_status, lock, pc, verdict, observed_owner, executor, alive,
                 launched, todo, history>>

(* Nothing to lease, or the coordination layer refused the write claim. *)
EndSchedule(m) ==
  /\ Move(m, "schedule", "read1")
  /\ UNCHANGED <<ledger, run_status, lock, verdict, observed_owner, executor,
                 alive, launched, todo, history>>

(***************************************************************************)
(* start_leased_workers.                                                   *)
(***************************************************************************)
PlanLaunches(m) ==
  /\ Move(m, "plan", "launch")
  /\ plan' = [plan EXCEPT ![m] = CurrentLeases]
  /\ UNCHANGED <<ledger, run_status, lock, verdict, observed_owner, tracked,
                 current, alive, launched, todo, history>>

CanLaunchAgain(m, l) == TRUE   \* fault: is_tracking is not consulted

CanLaunch(m, l) == tracked[m][l.worker] = NoChild

Launch(m, l) ==
  /\ pc[m] = "launch" /\ l \in plan[m]
  /\ plan' = [plan EXCEPT ![m] = @ \ {l}]
  /\ IF CanLaunch(m, l)
     THEN LET c == [manager |-> m, task |-> l.task, worker |-> l.worker,
                    attempt |-> l.attempt]
          IN /\ alive' = alive \cup {c} /\ launched' = launched \cup {c}
             /\ tracked' = [tracked EXCEPT ![m][l.worker] = c]
             /\ current' = [current EXCEPT ![m] = c]
             /\ GoTo(m, "confirm")
     ELSE UNCHANGED <<alive, launched, tracked, current, pc>>
  /\ UNCHANGED <<ledger, run_status, lock, verdict, observed_owner, todo, history>>

(* Preparing the command or starting the process fails: the outcome of the  *)
(* attempt is recorded at once, if it still is the current one.             *)
LaunchFails(m, l) ==
  /\ pc[m] = "launch" /\ l \in plan[m] /\ CanLaunch(m, l)
  /\ plan' = [plan EXCEPT ![m] = @ \ {l}]
  /\ IF IsCurrent(l) THEN Ledger!Settle(l.task, "Failed") ELSE UNCHANGED ledger
  /\ UNCHANGED <<run_status, lock, pc, verdict, observed_owner, tracked, current,
                 alive, launched, todo, history>>

(* Stop and forget the child tracked for w. *)
Reap(m, w) ==
  /\ alive' = alive \ {tracked[m][w]}
  /\ tracked' = [tracked EXCEPT ![m][w] = NoChild]

(* The log artifact is appended only under the attempt's lease; otherwise   *)
(* the process that was just started is stopped again.                      *)
Confirm(m) ==
  /\ Move(m, "confirm", "launch")
  /\ IF IsCurrent(current[m]) THEN UNCHANGED <<alive, tracked>>
     ELSE Reap(m, current[m].worker)
  /\ current' = [current EXCEPT ![m] = NoChild]
  /\ UNCHANGED <<ledger, run_status, lock, verdict, observed_owner, plan,
                 launched, todo, history>>

EndLaunch(m) ==
  /\ plan[m] = {}
  /\ Move(m, "launch", "drive")
  /\ plan' = [plan EXCEPT ![m] = TrackedWorkers(m)]
  /\ UNCHANGED <<ledger, run_status, lock, verdict, observed_owner, tracked,
                 current, alive, launched, todo, history>>

(***************************************************************************)
(* drive_executor_tick: fence, poll and finalize every tracked child.      *)
(***************************************************************************)
Driving(m, w) == pc[m] = "drive" /\ w \in plan[m]
Driven(m, w) == plan' = [plan EXCEPT ![m] = @ \ {w}]

ForgetUnreaped(m, w) ==   \* fault: the fenced child is forgotten, not stopped
  /\ UNCHANGED alive
  /\ tracked' = [tracked EXCEPT ![m][w] = NoChild]

StopButTrack(m, w) ==   \* fault: the fenced child is stopped, not forgotten
  /\ alive' = alive \ {tracked[m][w]}
  /\ UNCHANGED tracked

FenceChild(m, w) == Reap(m, w)

(* The ledger advanced to another attempt, or settled this one. *)
Fence(m, w) ==
  /\ Driving(m, w)
  /\ ~IsCurrent(tracked[m][w])
  /\ FenceChild(m, w)
  /\ Driven(m, w)
  /\ UNCHANGED <<ledger, run_status, lock, pc, verdict, observed_owner, current,
                 launched, todo, history>>

PollRunning(m, w) ==
  /\ Driving(m, w)
  /\ IsCurrent(tracked[m][w]) /\ tracked[m][w] \in alive
  /\ Driven(m, w)
  /\ UNCHANGED <<ledger, run_status, lock, pc, verdict, observed_owner, tracked,
                 current, alive, launched, todo, history>>

(* The child has exited; verification of its result takes its time. *)
PollExited(m, w) ==
  /\ Driving(m, w)
  /\ IsCurrent(tracked[m][w]) /\ tracked[m][w] \notin alive
  /\ GoTo(m, "finalize")
  /\ current' = [current EXCEPT ![m] = tracked[m][w]]
  /\ UNCHANGED <<ledger, run_status, lock, verdict, observed_owner, tracked, plan,
                 alive, launched, todo, history>>

(* finalize_task_attempt_if_leased, then forget_worker. *)
RecordOutcomeOfTask(c, outcome) ==   \* fault: the attempt number is not compared
  IF phase[c.task] = "Leased" /\ owner[c.task] = c.worker
  THEN Ledger!Settle(c.task, outcome) ELSE UNCHANGED ledger

RecordOutcome(c, outcome) ==
  IF IsCurrent(c) THEN Ledger!Settle(c.task, outcome) ELSE UNCHANGED ledger

Finalize(m, outcome) ==
  /\ Move(m, "finalize", "drive")
  /\ RecordOutcome(current[m], outcome)
  /\ tracked' = [tracked EXCEPT ![m][current[m].worker] = NoChild]
  /\ Driven(m, current[m].worker)
  /\ current' = [current EXCEPT ![m] = NoChild]
  /\ UNCHANGED <<run_status, lock, verdict, observed_owner, alive, launched,
                 todo, history>>

EndDrive(m) ==
  /\ plan[m] = {}
  /\ Move(m, "drive", "read2")
  /\ UNCHANGED <<ledger, run_status, lock, verdict, observed_owner, executor,
                 alive, launched, todo, history>>

ChildExits(c) ==
  /\ c \in alive
  /\ alive' = alive \ {c}
  /\ UNCHANGED <<ledger, run_status, lock, pc, verdict, observed_owner, executor,
                 launched, todo, history>>

(***************************************************************************)
(* Operators.                                                              *)
(***************************************************************************)
Command(o, step) ==
  /\ commands < MaxCommands
  /\ commands' = commands + 1
  /\ last_operator' = o /\ stopped' = FALSE
  /\ Move(o, "idle", step)
  /\ UNCHANGED <<lock, verdict, observed_owner, executor, alive, launched, crashes>>

(* interrupt_worker: cancel the active task of a worker, then refresh. *)
Interrupt(o, t) ==
  /\ phase[t] = "Leased"
  /\ Ledger!Settle(t, "Cancelled")
  /\ Command(o, "read")
  /\ UNCHANGED <<run_status, todo>>

(* restart_worker: the next attempt of the worker's active or last task,    *)
(* then the run is Running and the caller becomes its driver.               *)
RestartWorker(o, t) ==
  /\ owner[t] # NoWorker /\ attempts[t] < MaxAttempts
  /\ Ledger!Begin(t, owner[t])
  /\ Command(o, "running")
  /\ UNCHANGED <<run_status, todo>>

MarkRunning(o) ==
  /\ Move(o, "running", "driver")
  /\ run_status' = "Running"
  /\ UNCHANGED <<ledger, lock, verdict, observed_owner, executor, alive, launched,
                 todo, history>>

DriveRestarted(o, m) ==
  /\ pc[o] = "driver" /\ pc[m] = "off"
  /\ pc' = [pc EXCEPT ![o] = "idle", ![m] = "locking"]
  /\ observed_owner' = [observed_owner EXCEPT ![m] = FALSE]
  /\ UNCHANGED <<ledger, run_status, lock, verdict, executor, alive, launched,
                 todo, history>>

StopLeasesOnly(o) ==   \* fault: queued tasks are left to be leased later
  /\ Command(o, "stopping")
  /\ todo' = [todo EXCEPT ![o] = Leased]
  /\ UNCHANGED <<ledger, run_status>>

(* stop_run: cancel every task that was read as open, then the run. *)
StopRun(o) ==
  /\ Command(o, "stopping")
  /\ todo' = [todo EXCEPT ![o] = Open]
  /\ UNCHANGED <<ledger, run_status>>

StopTask(o, t) ==
  /\ pc[o] = "stopping" /\ t \in todo[o]
  /\ todo' = [todo EXCEPT ![o] = @ \ {t}]
  /\ IF t \in Open THEN Ledger!Settle(t, "Cancelled") ELSE UNCHANGED ledger
  /\ UNCHANGED <<run_status, lock, pc, verdict, observed_owner, executor, alive,
                 launched, history>>

StatusPending ==
  \E p \in Processes :
    pc[p] \in {"activating", "write1", "write2", "write3", "write", "running"}

MarkCancelled(o) ==
  /\ todo[o] = {}
  /\ Move(o, "stopping", "idle")
  /\ run_status' = "Cancelled"
  /\ stopped' = (last_operator = o /\ ~StatusPending)
  /\ UNCHANGED <<ledger, lock, verdict, observed_owner, executor, alive, launched,
                 todo, crashes, commands, last_operator>>

(* resume_run: retry or fail the leases found stale, then refresh.  An      *)
(* event or heartbeat since they were read makes the transaction lose.      *)
Resume(o) ==
  /\ Command(o, "resuming")
  /\ \E stale \in SUBSET CurrentLeases : todo' = [todo EXCEPT ![o] = stale]
  /\ UNCHANGED <<ledger, run_status>>

WithinBudget(attempts_made) == attempts_made < MaxAttempts

RetryOrFail(o, l) ==
  /\ pc[o] = "resuming" /\ l \in todo[o]
  /\ todo' = [todo EXCEPT ![o] = @ \ {l}]
  /\ \/ UNCHANGED ledger
     \/ /\ IsCurrent(l) /\ WithinBudget(l.attempt)
        /\ Ledger!Begin(l.task, l.worker)
     \/ /\ IsCurrent(l) /\ ~WithinBudget(l.attempt)
        /\ Ledger!Settle(l.task, "Failed")
  /\ UNCHANGED <<run_status, lock, pc, verdict, observed_owner, executor, alive,
                 launched, history>>

EndResume(o) ==
  /\ todo[o] = {}
  /\ Move(o, "resuming", "read")
  /\ UNCHANGED <<ledger, run_status, lock, verdict, observed_owner, executor, alive,
                 launched, todo, history>>

(***************************************************************************)
(* The specification.                                                      *)
(***************************************************************************)
LeaseSome(m) == \E t \in Tasks, w \in Workers : Schedule(m, t, w)

ManagerStep(m) ==
  \/ Activate(m) \/ Acquire(m) \/ Standby(m) \/ Decline(m)
  \/ LeaseSome(m) \/ EndSchedule(m)
  \/ ReadStatus(m, "read1", "write1") \/ WriteStatus(m, "write1", "plan")
  \/ PlanLaunches(m)
  \/ \E l \in Leases : Launch(m, l) \/ LaunchFails(m, l)
  \/ Confirm(m) \/ EndLaunch(m)
  \/ \E w \in Workers : Fence(m, w) \/ PollRunning(m, w) \/ PollExited(m, w)
  \/ \E outcome \in Outcomes : Finalize(m, outcome)
  \/ EndDrive(m)
  \/ ReadStatus(m, "read2", "write2") \/ WriteStatus(m, "write2", "read3")
  \/ ReadStatus(m, "read3", "write3") \/ WriteStatus(m, "write3", "check")
  \/ Check(m) \/ Release(m)

OperatorStep(o) ==
  \/ MarkRunning(o) \/ \E m \in Managers : DriveRestarted(o, m)
  \/ \E t \in Tasks : StopTask(o, t)
  \/ \E l \in Leases : RetryOrFail(o, l)
  \/ MarkCancelled(o) \/ EndResume(o)
  \/ ReadStatus(o, "read", "write") \/ WriteStatus(o, "write", "idle")

NewCommand(o) ==
  \/ \E t \in Tasks : Interrupt(o, t) \/ RestartWorker(o, t)
  \/ StopRun(o) \/ Resume(o)

Next ==
  \/ \E m \in Managers : Start(m) \/ ManagerStep(m) \/ Crash(m)
  \/ \E o \in Operators : NewCommand(o) \/ OperatorStep(o)
  \/ \E c \in Children : ChildExits(c)

(* Processes that were started keep running, children exit, and a manager   *)
(* that can lease again and again is not refused for ever.                  *)
Fairness ==
  /\ \A m \in Managers : WF_vars(ManagerStep(m)) /\ SF_vars(LeaseSome(m))
  /\ \A o \in Operators : WF_vars(OperatorStep(o))
  /\ \A c \in Children : WF_vars(ChildExits(c))

Spec == Init /\ [][Next]_vars

FairSpec == Spec /\ Fairness

(***************************************************************************)
(* Safety.                                                                 *)
(***************************************************************************)
(* While no manager crashes, a logical worker has at most one process, no   *)
(* matter how restarts, stops and several managers interleave: the old      *)
(* attempt is fenced and reaped before the next one is launched.            *)
OneChildPerWorker == \A c, d \in alive : c.worker = d.worker => c = d

(* One process per worker, and the types (all of this without crashes). *)
ManagerInv == TypeOK /\ OneChildPerWorker

(* A task is Completed only by a process launched for exactly the current   *)
(* attempt, and none of the task's processes is still running then, so      *)
(* nothing writes into the workspace of a completed task.                   *)
CompletedByItsChild ==
  \A t \in Tasks :
    phase[t] = "Completed" =>
      /\ \E c \in launched : c.task = t /\ c.attempt = attempts[t]
      /\ \A c \in alive : c.task # t

(* run_to_completion returns only when every process it launched is gone.   *)
NoChildLeftBehind ==
  \A m \in Managers : pc[m] = "off" => \A c \in alive : c.manager # m

(* competing managers launch each leased attempt at most once (the test     *)
(* concurrent_manager_loops_launch_each_attempt_once), and a released lock  *)
(* is never permission to relaunch an unchanged leased attempt (the comment *)
(* in run_to_completion).                                                   *)
LaunchedOnce ==
  [][\A m \in Managers :
       pc[m] = "launch" /\ pc'[m] = "confirm" =>
         \A c \in launched :
           ~(c.task = current'[m].task /\ c.attempt = current'[m].attempt)]_vars

(* A task is completed only by the manager that holds the run's lock, for    *)
(* a child it launched itself for the current attempt and saw exit, also    *)
(* after other managers crashed and left their own children behind.         *)
CompletedByOwner ==
  [][\A t \in Tasks :
       phase'[t] = "Completed" /\ phase[t] # "Completed" =>
         \E m \in Managers, c \in launched \ alive :
           /\ lock = m /\ c.manager = m /\ tracked[m][owner[t]] = c
           /\ c.task = t /\ c.worker = owner[t] /\ c.attempt = attempts[t]]_vars

(* "stopFleetRun cancels every queued or active task and marks the whole   *)
(* run cancelled" (docs/RUNTIME_API.md): a stopped run stays at an end, and *)
(* its tasks with it, whatever its managers still do, until it is restarted *)
(* by another command.  This is so only if nobody had decided on a status   *)
(* before the stop and writes it after: refresh_run_status and activate_run *)
(* read and write in two steps, restart_worker begins an attempt and writes *)
(* the status later.                                                       *)
StoppedRunStaysStopped == stopped => run_status \in Outcomes /\ ~HasOpenWork

(***************************************************************************)
(* Liveness.                                                               *)
(***************************************************************************)
(* A manager that drives a run brings every task of it to an outcome and    *)
(* returns, whatever a bounded number of commands does in between, as long  *)
(* as no manager crashes.                                                   *)
OwnedRunFinishes ==
  \A m \in Managers :
    pc[m] = "schedule" ~> (pc[m] = "release" /\ ~HasOpenWork) \/ crashes > 0

(* Not so: a restarted task never stays a ghost running task (the message   *)
(* of the test standalone_restart_drives_replacement_attempt_to_terminal_   *)
(* receipt): whoever restarts it drives it, or leaves it to a live manager.  *)
NoGhostRunningTask ==
  \A t \in Tasks : phase[t] = "Leased" ~> phase[t] # "Leased"
=============================================================================
