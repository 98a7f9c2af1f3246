------------------------ MODULE FleetManagerProofs -------------------------
(***************************************************************************)
(* Proofs about FleetManager, for any number of managers, operators, tasks  *)
(* and workers.  What one run of a manager relies on is split by what it is *)
(* about: the tasks, the lock, the children that were launched, the         *)
(* executor of each manager in its launching and driving passes, and, as    *)
(* long as no manager has crashed, the processes that are alive.            *)
(***************************************************************************)
EXTENDS FleetManager, TLAPS

(* A process tracks no children while it does not own the run, nor after    *)
(* the last look at its executor.                                           *)
Outside == {"off", "activating", "locking"}
Away == Outside \cup {"release"}
Launching == {"launch", "confirm"}
InDrive == {"drive", "finalize"}
Busy == Launching \cup InDrive

ControlFits ==
  /\ \A m \in Managers : pc[m] \in ManagerSteps /\ (pc[m] \notin Outside => lock = m)
  /\ \A o \in Operators : pc[o] \in OperatorSteps

(* A task nobody took has no attempt; an attempt has a worker; no worker    *)
(* has two tasks.                                                           *)
TasksFit ==
  /\ \A t \in Tasks :
       /\ phase[t] = "Enqueued" => attempts[t] = 0
       /\ phase[t] = "Leased" => owner[t] \in Workers
  /\ \A t, u \in Leased : owner[t] = owner[u] => t = u

(* What was leased once is on the same worker, at this attempt or a later   *)
(* one.                                                                     *)
WasLeased(l) == owner[l.task] = l.worker /\ l.attempt <= attempts[l.task]

ChildrenFit == \A c \in launched : WasLeased(c)

TrackingFits ==
  \A m \in Managers, w \in Workers :
    LET c == tracked[m][w] IN
    c # NoChild => c \in launched /\ c.manager = m /\ c.worker = w /\ pc[m] \notin Away

(* The leases still to launch were current together, and no outcome of them *)
(* was accepted: only the owner of the run, which is still launching, would *)
(* accept it.                                                               *)
LaunchingFits ==
  \A m \in Managers : pc[m] \in Launching =>
    /\ \A l \in plan[m] :
         /\ l \in Leases /\ WasLeased(l) /\ phase[l.task] # "Completed"
         /\ \A k \in plan[m] : k.worker = l.worker \/ k.task = l.task => k = l
    /\ pc[m] = "confirm" =>
         /\ current[m] # NoChild /\ tracked[m][current[m].worker] = current[m]
         /\ \A l \in plan[m] : l.worker # current[m].worker

DrivingFits ==
  \A m \in Managers : pc[m] \in InDrive =>
    /\ plan[m] \subseteq TrackedWorkers(m)
    /\ pc[m] = "finalize" =>
         /\ current[m] # NoChild /\ tracked[m][current[m].worker] = current[m]
         /\ current[m].worker \in plan[m] /\ current[m] \notin alive

(* Without crashes every living child is tracked, and every child ever      *)
(* launched for a current attempt still is, so that none is launched again. *)
IsTracked(c) == tracked[c.manager][c.worker] = c

ProcessesFit ==
  crashes = 0 =>
    /\ \A c \in alive : IsTracked(c)
    /\ \A c \in launched : IsCurrent(c) => IsTracked(c)
    /\ \A m \in Managers : pc[m] \in Launching =>
         \A l \in plan[m], c \in launched :
           c.task = l.task /\ c.attempt = l.attempt => tracked[m][l.worker] # NoChild

CompletedFits ==
  \A t \in Tasks : phase[t] = "Completed" =>
    /\ \E c \in launched : c.task = t /\ c.attempt = attempts[t]
    /\ crashes = 0 => \A c \in alive : c.task # t

(* While the last command is a stop that is being carried out, every open   *)
(* task is still on its list.  Once it has been carried out, nobody has     *)
(* decided on a status but an end.                                          *)
StopFits ==
  /\ \A o \in Operators : pc[o] = "stopping" /\ last_operator = o => Open \subseteq todo[o]
  /\ stopped =>
       /\ run_status \in Outcomes /\ Open = {}
       /\ \A p \in Processes :
            /\ pc[p] \notin {"activating", "running"}
            /\ pc[p] \in {"write1", "write2", "write3", "write"} => verdict[p] \in Outcomes

ExecutorFits ==
  ChildrenFit /\ TrackingFits /\ LaunchingFits /\ DrivingFits /\ ProcessesFit /\ CompletedFits

IInv == TypeOK /\ ControlFits /\ TasksFit /\ ExecutorFits /\ StopFits

(***************************************************************************)
(* The steps, by what they touch.                                          *)
(***************************************************************************)
(* A new attempt of a task within its budget.                               *)
Begins(t, w) == Ledger!Begin(t, w) /\ attempts[t] < MaxAttempts

LedgerMoves ==
  \/ \E t \in Tasks, w \in Workers : Begins(t, w)
  \/ \E t \in Tasks, outcome \in Outcomes \ {"Completed"} : Ledger!Settle(t, outcome)
  \/ UNCHANGED ledger

(* A step of the ledger that no manager takes in its executor: it may drop  *)
(* a lease from a plan of launches.                                         *)
LedgerStep ==
  /\ LedgerMoves
  /\ UNCHANGED <<tracked, current, alive, launched, crashes>>
  /\ \A m \in Managers :
       /\ pc'[m] = pc[m]
       /\ plan'[m] = plan[m] \/ (pc[m] \in Launching /\ plan'[m] \subseteq plan[m])

(* A step that moves a process along, and no manager into or out of its     *)
(* executor.                                                                *)
ControlStep ==
  /\ UNCHANGED <<ledger, executor, alive, launched, crashes>>
  /\ \A m \in Managers :
       /\ pc'[m] \in Busy => pc'[m] = pc[m]
       /\ pc'[m] \in Away => pc[m] \in Away \/ TrackedWorkers(m) = {}

ExecutorStep(m) ==
  \/ PlanLaunches(m)
  \/ \E l \in Leases : Launch(m, l)
  \/ Confirm(m) \/ EndLaunch(m)
  \/ \E w \in Workers : Fence(m, w) \/ PollRunning(m, w) \/ PollExited(m, w)
  \/ \E outcome \in Outcomes : Finalize(m, outcome)

(* Who is where.                                                            *)
LEMMA ProcessParts ==
  ASSUME TypeOK, ControlFits
  PROVE  /\ \A m \in Managers : m \in Processes /\ pc[m] \in ManagerSteps
         /\ \A o \in Operators : o \in Processes /\ pc[o] \in OperatorSteps /\ o \notin Managers
         /\ DOMAIN pc = Processes
BY ProcessesAssumption DEF TypeOK, ControlFits, Processes

(* One attempt more keeps the types of the ledger.                          *)
LEMMA BeginTypes ==
  ASSUME TypeOK, NEW t \in Tasks, NEW w \in Workers, Begins(t, w)
  PROVE  /\ phase' \in [Tasks -> {"Enqueued", "Leased"} \cup Outcomes]
         /\ owner' \in [Tasks -> Workers \cup {NoWorker}]
         /\ attempts' \in [Tasks -> 0..MaxAttempts]
<1>1. attempts[t] + 1 \in 0..MaxAttempts
  BY BoundsAssumption DEF TypeOK, Begins
<1> QED
  BY <1>1 DEF TypeOK, Begins, Ledger!Begin

(* So does an outcome.                                                      *)
LEMMA SettleTypes ==
  ASSUME TypeOK, NEW t \in Tasks, NEW outcome \in Outcomes, Ledger!Settle(t, outcome)
  PROVE  /\ phase' \in [Tasks -> {"Enqueued", "Leased"} \cup Outcomes]
         /\ owner' \in [Tasks -> Workers \cup {NoWorker}]
         /\ attempts' \in [Tasks -> 0..MaxAttempts]
BY DEF TypeOK, Ledger!Settle

(* The first attempt of a task is within every budget.                      *)
LEMMA ScheduleBegins ==
  ASSUME TypeOK, TasksFit, NEW m \in Managers, NEW t \in Tasks, NEW w \in Workers,
         Schedule(m, t, w)
  PROVE  Begins(t, w)
<1>1. attempts[t] = 0 /\ MaxAttempts \in Nat \ {0}
  BY BoundsAssumption DEF Schedule, TasksFit
<1> QED
  BY <1>1 DEF Schedule, Begins

(* A restarted task begins again on its worker.                             *)
LEMMA RestartBegins ==
  ASSUME TypeOK, NEW o \in Operators, NEW t \in Tasks, RestartWorker(o, t)
  PROVE  owner[t] \in Workers /\ Begins(t, owner[t])
BY DEF TypeOK, RestartWorker, Begins

(* A stale lease is retried within the budget, or failed.                   *)
LEMMA RetryMoves ==
  ASSUME TypeOK, NEW o \in Operators, NEW l \in Leases, RetryOrFail(o, l)
  PROVE  \/ Begins(l.task, l.worker)
         \/ Ledger!Settle(l.task, "Failed")
         \/ UNCHANGED ledger
BY DEF TypeOK, RetryOrFail, Begins, WithinBudget, IsCurrent

(***************************************************************************)
(* Types.                                                                  *)
(***************************************************************************)
LEMMA TypesInit == ASSUME Init PROVE TypeOK
<1>1. 0 \in 0..MaxAttempts /\ 0 \in 0..MaxCrashes /\ 0 \in 0..MaxCommands
  BY BoundsAssumption
<1>2. /\ phase \in [Tasks -> {"Enqueued", "Leased"} \cup Outcomes]
      /\ owner \in [Tasks -> Workers \cup {NoWorker}]
      /\ attempts \in [Tasks -> 0..MaxAttempts]
  BY <1>1 DEF Init
<1>3. /\ pc \in [Processes -> ManagerSteps \cup OperatorSteps]
      /\ verdict \in [Processes -> Statuses]
      /\ run_status \in Statuses
  BY DEF Init, ManagerSteps, OperatorSteps, Statuses
<1>4. /\ observed_owner \in [Managers -> BOOLEAN]
      /\ tracked \in [Managers -> [Workers -> Children \cup {NoChild}]]
      /\ plan \in [Managers -> SUBSET (Leases \cup Workers)]
      /\ current \in [Managers -> Children \cup {NoChild}]
      /\ todo \in [Operators -> SUBSET (Tasks \cup Leases)]
  BY DEF Init
<1> QED
  BY <1>1, <1>2, <1>3, <1>4 DEF Init, TypeOK

(* Every step is well typed. *)
LEMMA TypesKept == ASSUME IInv, Next PROVE TypeOK'
<1> USE DEF Move, GoTo, ledger, executor, history, ManagerSteps, OperatorSteps
<1>0. TypeOK /\ ControlFits /\ TasksFit
  BY DEF IInv
<1>1. ASSUME NEW m \in Managers,
             Start(m) \/ Activate(m) \/ Acquire(m) \/ Standby(m) \/ Decline(m)
      PROVE  TypeOK'
  <2>1. CASE Start(m)
    <3>1. commands + 1 \in 0..MaxCommands
      BY <1>0, <2>1, BoundsAssumption DEF TypeOK, Start
    <3>2. pc' \in [Processes -> ManagerSteps \cup OperatorSteps]
      BY <1>0, <2>1 DEF TypeOK, Start
    <3> QED
      BY <1>0, <2>1, <3>1, <3>2 DEF TypeOK, Start
  <2>2. CASE Activate(m)
    BY <1>0, <2>2 DEF TypeOK, Activate, Statuses
  <2>3. CASE Acquire(m) \/ Decline(m)
    BY <1>0, <2>3 DEF TypeOK, Acquire, Decline
  <2>4. CASE Standby(m)
    <3>1. pc' \in [Processes -> ManagerSteps \cup OperatorSteps]
      BY <1>0, <2>4 DEF TypeOK, Standby
    <3> QED
      BY <1>0, <2>4, <3>1 DEF TypeOK, Standby
  <2> QED
    BY <1>1, <2>1, <2>2, <2>3, <2>4
<1>2. ASSUME NEW p \in Processes, NEW from, NEW to \in ManagerSteps \cup OperatorSteps,
             ReadStatus(p, from, to) \/ WriteStatus(p, from, to)
      PROVE  TypeOK'
  <2>1. DerivedStatus \in Statuses
    BY DEF DerivedStatus, Statuses, Outcomes
  <2>2. pc' \in [Processes -> ManagerSteps \cup OperatorSteps]
    BY <1>0, <1>2 DEF TypeOK, ReadStatus, WriteStatus
  <2>3. CASE ReadStatus(p, from, to)
    BY <1>0, <2>1, <2>2, <2>3 DEF TypeOK, ReadStatus
  <2>4. CASE WriteStatus(p, from, to)
    BY <1>0, <2>2, <2>4 DEF TypeOK, WriteStatus
  <2> QED
    BY <1>2, <2>3, <2>4
<1>3. ASSUME NEW m \in Managers,
             EndSchedule(m) \/ EndDrive(m) \/ Check(m) \/ Release(m)
      PROVE  TypeOK'
  BY <1>0, <1>3 DEF TypeOK, EndSchedule, EndDrive, Check, Release
<1>4. ASSUME NEW m \in Managers, NEW t \in Tasks, NEW w \in Workers, Schedule(m, t, w)
      PROVE  TypeOK'
  <2>1. Begins(t, w)
    BY <1>0, <1>4, ScheduleBegins
  <2> QED
    BY <1>0, <1>4, <2>1, BeginTypes DEF TypeOK, Schedule
<1>5. ASSUME NEW m \in Managers, PlanLaunches(m) \/ EndLaunch(m)
      PROVE  TypeOK'
  <2>1. plan' \in [Managers -> SUBSET (Leases \cup Workers)]
    BY <1>0, <1>5 DEF TypeOK, PlanLaunches, EndLaunch, CurrentLeases, TrackedWorkers
  <2>2. pc' \in [Processes -> ManagerSteps \cup OperatorSteps]
    BY <1>0, <1>5 DEF TypeOK, PlanLaunches, EndLaunch
  <2> QED
    BY <1>0, <1>5, <2>1, <2>2 DEF TypeOK, PlanLaunches, EndLaunch
<1>6. ASSUME NEW m \in Managers, NEW l \in Leases, Launch(m, l)
      PROVE  TypeOK'
  <2> DEFINE c == [manager |-> m, task |-> l.task, worker |-> l.worker, attempt |-> l.attempt]
  <2>1. c \in Children /\ l.worker \in Workers
    BY DEF Children, Leases
  <2>2. CASE CanLaunch(m, l)
    <3>1. /\ alive' = alive \cup {c} /\ launched' = launched \cup {c}
          /\ tracked' = [tracked EXCEPT ![m][l.worker] = c]
          /\ current' = [current EXCEPT ![m] = c]
          /\ pc' = [pc EXCEPT ![m] = "confirm"]
      BY <1>6, <2>2 DEF Launch
    <3> HIDE DEF c
    <3>2. alive' \subseteq launched' /\ launched' \subseteq Children
      BY <1>0, <2>1, <3>1 DEF TypeOK
    <3>3. tracked' \in [Managers -> [Workers -> Children \cup {NoChild}]]
      BY <1>0, <2>1, <3>1 DEF TypeOK
    <3>4. current' \in [Managers -> Children \cup {NoChild}]
      BY <1>0, <2>1, <3>1 DEF TypeOK
    <3>5. plan' \in [Managers -> SUBSET (Leases \cup Workers)]
      BY <1>0, <1>6 DEF TypeOK, Launch
    <3>6. pc' \in [Processes -> ManagerSteps \cup OperatorSteps]
      BY <1>0, <3>1 DEF TypeOK, Processes
    <3> QED
      BY <1>0, <1>6, <3>2, <3>3, <3>4, <3>5, <3>6 DEF TypeOK, Launch
  <2>3. CASE ~CanLaunch(m, l)
    BY <1>0, <1>6, <2>3 DEF TypeOK, Launch
  <2> QED
    BY <2>2, <2>3
<1>7. ASSUME NEW m \in Managers, NEW l \in Leases, LaunchFails(m, l)
      PROVE  TypeOK'
  <2>1. l.task \in Tasks /\ "Failed" \in Outcomes
    BY DEF Leases, Outcomes
  <2> QED
    BY <1>0, <1>7, <2>1, SettleTypes DEF TypeOK, LaunchFails
<1>8. ASSUME NEW m \in Managers, Confirm(m)
      PROVE  TypeOK'
  <2>1. /\ pc' \in [Processes -> ManagerSteps \cup OperatorSteps]
        /\ current' \in [Managers -> Children \cup {NoChild}]
    BY <1>0, <1>8 DEF TypeOK, Confirm
  <2>2. /\ tracked' \in [Managers -> [Workers -> Children \cup {NoChild}]]
        /\ alive' \subseteq alive
    BY <1>0, <1>8 DEF TypeOK, Confirm, Reap
  <2> QED
    BY <1>0, <1>8, <2>1, <2>2 DEF TypeOK, Confirm
<1>9. ASSUME NEW m \in Managers, NEW w \in Workers,
             Fence(m, w) \/ PollRunning(m, w) \/ PollExited(m, w)
      PROVE  TypeOK'
  <2>1. plan' \in [Managers -> SUBSET (Leases \cup Workers)]
    BY <1>0, <1>9 DEF TypeOK, Fence, PollRunning, PollExited, Driven
  <2>2. CASE Fence(m, w)
    <3>1. /\ tracked' \in [Managers -> [Workers -> Children \cup {NoChild}]]
          /\ alive' \subseteq alive
      BY <1>0, <2>2 DEF TypeOK, Fence, FenceChild, Reap
    <3> QED
      BY <1>0, <2>1, <2>2, <3>1 DEF TypeOK, Fence
  <2>3. CASE PollRunning(m, w)
    BY <1>0, <2>1, <2>3 DEF TypeOK, PollRunning
  <2>4. CASE PollExited(m, w)
    <3>1. tracked[m][w] \in Children \cup {NoChild}
      BY <1>0 DEF TypeOK
    <3>2. pc' \in [Processes -> ManagerSteps \cup OperatorSteps]
      BY <1>0, <2>4 DEF TypeOK, PollExited
    <3> QED
      BY <1>0, <2>1, <2>4, <3>1, <3>2 DEF TypeOK, PollExited
  <2> QED
    BY <1>9, <2>2, <2>3, <2>4
<1>10. ASSUME NEW m \in Managers, NEW outcome \in Outcomes, Finalize(m, outcome)
       PROVE  TypeOK'
  <2>1. current[m].task \in Tasks
    BY <1>0, <1>10 DEF IInv, ExecutorFits, DrivingFits, InDrive, Finalize, TypeOK, Children
  <2>2. /\ phase' \in [Tasks -> {"Enqueued", "Leased"} \cup Outcomes]
        /\ owner' \in [Tasks -> Workers \cup {NoWorker}]
        /\ attempts' \in [Tasks -> 0..MaxAttempts]
    BY <1>0, <1>10, <2>1, SettleTypes DEF Finalize, RecordOutcome, TypeOK
  <2> QED
    BY <1>0, <1>10, <2>2 DEF TypeOK, Finalize, Driven
<1>11. ASSUME NEW m \in Managers, Crash(m)
       PROVE  TypeOK'
  <2>1. crashes + 1 \in 0..MaxCrashes
    BY <1>0, <1>11, BoundsAssumption DEF TypeOK, Crash
  <2> QED
    BY <1>0, <1>11, <2>1 DEF TypeOK, Crash
<1>12. ASSUME NEW c \in Children, ChildExits(c)
       PROVE  TypeOK'
  BY <1>0, <1>12 DEF TypeOK, ChildExits
<1>13. ASSUME NEW o \in Operators, NewCommand(o)
       PROVE  TypeOK'
  <2>1. commands < MaxCommands => commands + 1 \in 0..MaxCommands
    BY <1>0, BoundsAssumption DEF TypeOK
  <2>2. ASSUME NEW t \in Tasks, Interrupt(o, t)
        PROVE  TypeOK'
    <3>1. "Cancelled" \in Outcomes
      BY DEF Outcomes
    <3> QED
      BY <1>0, <2>1, <2>2, <3>1, SettleTypes DEF TypeOK, Interrupt, Command
  <2>3. ASSUME NEW t \in Tasks, RestartWorker(o, t)
        PROVE  TypeOK'
    BY <1>0, <2>1, <2>3, RestartBegins, BeginTypes DEF TypeOK, RestartWorker, Command
  <2>4. CASE StopRun(o)
    BY <1>0, <2>1, <2>4 DEF TypeOK, StopRun, Command, Open
  <2>5. CASE Resume(o)
    BY <1>0, <2>1, <2>5 DEF TypeOK, Resume, Command, CurrentLeases
  <2> QED
    BY <1>13, <2>2, <2>3, <2>4, <2>5 DEF NewCommand
<1>14. ASSUME NEW o \in Operators, NEW m \in Managers, DriveRestarted(o, m)
       PROVE  TypeOK'
  BY <1>0, <1>14 DEF TypeOK, DriveRestarted
<1>15. ASSUME NEW o \in Operators, MarkRunning(o) \/ MarkCancelled(o) \/ EndResume(o)
       PROVE  TypeOK'
  BY <1>0, <1>15 DEF TypeOK, MarkRunning, MarkCancelled, EndResume, Statuses, Outcomes
<1>16. ASSUME NEW o \in Operators, NEW t \in Tasks, StopTask(o, t)
       PROVE  TypeOK'
  <2>1. "Cancelled" \in Outcomes
    BY DEF Outcomes
  <2> QED
    BY <1>0, <1>16, <2>1, SettleTypes DEF TypeOK, StopTask
<1>17. ASSUME NEW o \in Operators, NEW l \in Leases, RetryOrFail(o, l)
       PROVE  TypeOK'
  <2>1. l.task \in Tasks /\ l.worker \in Workers /\ "Failed" \in Outcomes
    BY DEF Leases, Outcomes
  <2> QED
    BY <1>0, <1>17, <2>1, RetryMoves, BeginTypes, SettleTypes DEF TypeOK, RetryOrFail
<1> QED
  BY <1>0, <1>1, <1>2, <1>3, <1>4, <1>5, <1>6, <1>7, <1>8, <1>9, <1>10, <1>11, <1>12,
     <1>13, <1>14, <1>15, <1>16, <1>17, ProcessParts
  DEF Next, ManagerStep, OperatorStep, LeaseSome

(***************************************************************************)
(* Control: a process is at one of its own steps, and drives the run only   *)
(* with the lock.                                                          *)
(***************************************************************************)
LEMMA ControlInit == ASSUME Init PROVE ControlFits
BY ProcessesAssumption DEF Init, ControlFits, Processes, ManagerSteps, OperatorSteps, Outside

(* One manager goes from step to step and leaves the lock alone.            *)
LEMMA ManagerMoves ==
  ASSUME TypeOK, ControlFits, NEW m \in Managers, NEW to \in ManagerSteps,
         GoTo(m, to), lock' = lock, to \notin Outside => pc[m] \notin Outside
  PROVE  ControlFits'
BY ProcessParts DEF ControlFits, GoTo

(* An operator moves among its own steps. *)
LEMMA OperatorMoves ==
  ASSUME TypeOK, ControlFits, NEW o \in Operators, NEW to \in OperatorSteps,
         GoTo(o, to), lock' = lock
  PROVE  ControlFits'
BY ProcessParts DEF ControlFits, GoTo

(* Every step keeps processes at steps of their own. *)
LEMMA ControlKept == ASSUME IInv, Next PROVE ControlFits'
<1>0. TypeOK /\ ControlFits
  BY DEF IInv
<1> USE DEF Move, ManagerSteps, Outside
<1>1. ASSUME NEW m \in Managers,
             \/ Start(m) \/ Activate(m) \/ Standby(m) \/ EndSchedule(m)
             \/ PlanLaunches(m) \/ Confirm(m) \/ EndLaunch(m) \/ EndDrive(m) \/ Check(m)
             \/ \E l \in Leases : Launch(m, l)
             \/ \E w \in Workers : PollExited(m, w)
             \/ \E outcome \in Outcomes : Finalize(m, outcome)
      PROVE  ControlFits'
  <2>1. CASE UNCHANGED <<pc, lock>>
    BY <1>0, <2>1 DEF ControlFits
  <2>2. CASE lock' = lock /\ \E to \in ManagerSteps :
               GoTo(m, to) /\ (to \notin Outside => pc[m] \notin Outside)
    BY <1>0, <2>2, ManagerMoves
  <2> QED
    BY <1>1, <2>1, <2>2
    DEF Start, Activate, Standby, EndSchedule, PlanLaunches, Confirm, EndLaunch,
        EndDrive, Check, Launch, PollExited, Driving, Finalize
<1>2. ASSUME NEW m \in Managers, NEW from \in ManagerSteps \ Outside,
             NEW to \in ManagerSteps \ Outside,
             ReadStatus(m, from, to) \/ WriteStatus(m, from, to)
      PROVE  ControlFits'
  BY <1>0, <1>2, ManagerMoves DEF ReadStatus, WriteStatus
<1>3. ASSUME NEW m \in Managers, Acquire(m) \/ Decline(m)
      PROVE  ControlFits'
  <2>1. \A n \in Managers : pc[n] \in Outside
    BY <1>0, <1>3, ProcessesAssumption DEF ControlFits, Acquire, Decline
  <2> QED
    BY <1>0, <1>3, <2>1, ProcessParts DEF ControlFits, Acquire, Decline, GoTo
<1>4. ASSUME NEW m \in Managers, Release(m) \/ Crash(m)
      PROVE  ControlFits'
  <2>1. pc' = [pc EXCEPT ![m] = "off"] /\ lock' \in {lock, Nobody}
        /\ (lock' # lock => lock = m)
    BY <1>0, <1>4 DEF ControlFits, Release, Crash, GoTo
  <2> QED
    BY <1>0, <2>1, ProcessParts DEF ControlFits
<1>5. ASSUME UNCHANGED <<pc, lock>>
      PROVE  ControlFits'
  BY <1>0, <1>5 DEF ControlFits
<1>6. ASSUME NEW o \in Operators,
             NewCommand(o) \/ MarkRunning(o) \/ MarkCancelled(o) \/ EndResume(o)
               \/ ReadStatus(o, "read", "write") \/ WriteStatus(o, "write", "idle")
      PROVE  ControlFits'
  <2>1. lock' = lock /\ \E to \in OperatorSteps : GoTo(o, to)
    BY <1>6
    DEF NewCommand, Interrupt, RestartWorker, StopRun, Resume, Command, MarkRunning,
        MarkCancelled, EndResume, ReadStatus, WriteStatus, OperatorSteps
  <2> QED
    BY <1>0, <2>1, OperatorMoves
<1>7. ASSUME NEW o \in Operators, NEW m \in Managers, DriveRestarted(o, m)
      PROVE  ControlFits'
  <2>1. /\ pc' = [pc EXCEPT ![o] = "idle", ![m] = "locking"] /\ lock' = lock
        /\ "idle" \in OperatorSteps /\ o # m
    BY <1>7, ProcessesAssumption DEF DriveRestarted, OperatorSteps
  <2> QED
    BY <1>0, <2>1, ProcessParts DEF ControlFits
<1>8. ASSUME NEW m \in Managers,
             \/ \E t \in Tasks, w \in Workers : Schedule(m, t, w)
             \/ \E l \in Leases : LaunchFails(m, l)
             \/ \E w \in Workers : Fence(m, w) \/ PollRunning(m, w)
      PROVE  ControlFits'
  BY <1>5, <1>8 DEF Schedule, LaunchFails, Fence, PollRunning
<1>9. ASSUME NEW o \in Operators,
             (\E t \in Tasks : StopTask(o, t)) \/ (\E l \in Leases : RetryOrFail(o, l))
      PROVE  ControlFits'
  BY <1>5, <1>9 DEF StopTask, RetryOrFail
<1>10. ASSUME NEW c \in Children, ChildExits(c)
       PROVE  ControlFits'
  BY <1>5, <1>10 DEF ChildExits
<1> QED
  BY <1>1, <1>2, <1>3, <1>4, <1>6, <1>7, <1>8, <1>9, <1>10
  DEF Next, ManagerStep, OperatorStep, LeaseSome

(***************************************************************************)
(* Every step is one of five kinds.                                        *)
(***************************************************************************)
LEMMA StepKinds ==
  ASSUME TypeOK, ControlFits, TasksFit, Next
  PROVE  \/ LedgerStep \/ ControlStep
         \/ \E m \in Managers : ExecutorStep(m) \/ Crash(m)
         \/ \E c \in Children : ChildExits(c)
<1> USE DEF Move, GoTo, ledger, executor, history, Busy, Launching, InDrive, Away, Outside
<1>1. ASSUME NEW m \in Managers, NEW to, pc' = [pc EXCEPT ![m] = to], to \notin Busy,
             to \in Away => pc[m] \in Away \/ TrackedWorkers(m) = {},
             UNCHANGED <<ledger, executor, alive, launched, crashes>>
      PROVE  ControlStep
  BY <1>1, ProcessParts DEF ControlStep
<1>2. ASSUME NEW o \in Operators, NEW to, pc' = [pc EXCEPT ![o] = to],
             UNCHANGED <<ledger, executor, alive, launched, crashes>>
      PROVE  ControlStep
  BY <1>2, ProcessParts DEF ControlStep
<1>3. ASSUME NEW m \in Managers,
             \/ Start(m) \/ Activate(m) \/ Acquire(m) \/ Standby(m) \/ Decline(m)
             \/ EndSchedule(m) \/ EndDrive(m) \/ Check(m) \/ Release(m)
      PROVE  ControlStep
  BY <1>1, <1>3
  DEF Start, Activate, Acquire, Standby, Decline, EndSchedule, EndDrive, Check, MayReturn, Release
<1>4. ASSUME NEW m \in Managers, NEW from, NEW to, to \notin Busy \cup Away,
             ReadStatus(m, from, to) \/ WriteStatus(m, from, to)
      PROVE  ControlStep
  BY <1>1, <1>4 DEF ReadStatus, WriteStatus
<1>5. ASSUME NEW o \in Operators,
             \/ StopRun(o) \/ Resume(o) \/ MarkRunning(o) \/ MarkCancelled(o) \/ EndResume(o)
             \/ ReadStatus(o, "read", "write") \/ WriteStatus(o, "write", "idle")
      PROVE  ControlStep
  BY <1>2, <1>5
  DEF StopRun, Resume, Command, MarkRunning, MarkCancelled, EndResume, ReadStatus, WriteStatus
<1>6. ASSUME NEW o \in Operators, NEW m \in Managers, DriveRestarted(o, m)
      PROVE  ControlStep
  BY <1>6, ProcessParts DEF DriveRestarted, ControlStep
<1>7. ASSUME NEW m \in Managers, NEW t \in Tasks, NEW w \in Workers, Schedule(m, t, w)
      PROVE  LedgerStep
  BY <1>7, ScheduleBegins DEF Schedule, LedgerStep, LedgerMoves
<1>8. ASSUME NEW m \in Managers, NEW l \in Leases, LaunchFails(m, l)
      PROVE  LedgerStep
  <2>1. l.task \in Tasks /\ "Failed" \in Outcomes \ {"Completed"}
    BY DEF Leases, Outcomes
  <2>2. LedgerMoves
    BY <1>8, <2>1 DEF LaunchFails, LedgerMoves
  <2>3. \A n \in Managers : plan'[n] = plan[n] \/ (pc[n] \in Launching /\ plan'[n] \subseteq plan[n])
    BY <1>8 DEF LaunchFails, TypeOK
  <2> QED
    BY <1>8, <2>2, <2>3 DEF LaunchFails, LedgerStep
<1>9. ASSUME NEW o \in Operators, NEW t \in Tasks, Interrupt(o, t)
      PROVE  LedgerStep
  <2>1. LedgerMoves
    BY <1>9 DEF Interrupt, LedgerMoves, Outcomes
  <2> QED
    BY <1>9, <2>1, ProcessParts DEF Interrupt, Command, LedgerStep
<1>10. ASSUME NEW o \in Operators, NEW t \in Tasks, RestartWorker(o, t)
       PROVE  LedgerStep
  <2>1. LedgerMoves
    BY <1>10, RestartBegins DEF LedgerMoves
  <2> QED
    BY <1>10, <2>1, ProcessParts DEF RestartWorker, Command, LedgerStep
<1>11. ASSUME NEW o \in Operators, NEW t \in Tasks, StopTask(o, t)
       PROVE  LedgerStep
  <2>1. LedgerMoves
    BY <1>11 DEF StopTask, LedgerMoves, Outcomes
  <2> QED
    BY <1>11, <2>1 DEF StopTask, LedgerStep
<1>12. ASSUME NEW o \in Operators, NEW l \in Leases, RetryOrFail(o, l)
       PROVE  LedgerStep
  <2>1. l.task \in Tasks /\ l.worker \in Workers /\ "Failed" \in Outcomes \ {"Completed"}
    BY DEF Leases, Outcomes
  <2>2. LedgerMoves
    BY <1>12, <2>1, RetryMoves DEF LedgerMoves
  <2> QED
    BY <1>12, <2>2 DEF RetryOrFail, LedgerStep
<1> QED
  BY <1>3, <1>4, <1>5, <1>6, <1>7, <1>8, <1>9, <1>10, <1>11, <1>12
  DEF Next, ManagerStep, OperatorStep, NewCommand, LeaseSome, ExecutorStep

(***************************************************************************)
(* The tasks.                                                              *)
(***************************************************************************)
LEMMA TasksInit == ASSUME Init PROVE TasksFit
BY DEF Init, TasksFit, Leased

(* A new attempt is one more, within the budget. *)
LEMMA BeginFits ==
  ASSUME TypeOK, TasksFit, NEW t \in Tasks, NEW w \in Workers, Begins(t, w)
  PROVE  TasksFit'
<1>1. /\ phase' = [phase EXCEPT ![t] = "Leased"] /\ owner' = [owner EXCEPT ![t] = w]
      /\ attempts' = [attempts EXCEPT ![t] = @ + 1]
      /\ \A u \in Tasks \ {t} : ~(phase[u] = "Leased" /\ owner[u] = w)
  BY DEF Begins, Ledger!Begin, Ledger!WorksOn
<1> QED
  BY <1>1 DEF TypeOK, TasksFit, Leased

(* A settled task is nobody's. *)
LEMMA SettleFits ==
  ASSUME TypeOK, TasksFit, NEW t \in Tasks, NEW outcome \in Outcomes, Ledger!Settle(t, outcome)
  PROVE  TasksFit'
<1>1. outcome \notin {"Enqueued", "Leased"}
  BY DEF Outcomes
<1> QED
  BY <1>1 DEF TypeOK, TasksFit, Leased, Ledger!Settle

(* Whatever begins or settles tasks keeps their records fitting. *)
LEMMA MovesFit == ASSUME TypeOK, TasksFit, LedgerMoves PROVE TasksFit'
<1>1. CASE UNCHANGED ledger
  BY <1>1 DEF ledger, TasksFit, Leased
<1> QED
  BY <1>1, BeginFits, SettleFits DEF LedgerMoves

(* What was leased stays on its worker, and what is no longer current does  *)
(* not become current again.                                                *)
LEMMA LedgerKeeps ==
  ASSUME TypeOK, TasksFit, LedgerMoves, NEW c \in Children \cup Leases, WasLeased(c)
  PROVE  WasLeased(c)' /\ (IsCurrent(c)' => IsCurrent(c))
<1>0. /\ c.task \in Tasks /\ c.attempt \in 1..MaxAttempts
      /\ attempts[c.task] \in 0..MaxAttempts /\ MaxAttempts \in Nat
  BY BoundsAssumption DEF Children, Leases, TypeOK
<1>1. ASSUME NEW t \in Tasks, NEW w \in Workers, Begins(t, w)
      PROVE  WasLeased(c)' /\ (IsCurrent(c)' => IsCurrent(c))
  <2>1. /\ phase[t] = "Enqueued" \/ owner[t] = w
        /\ phase' = [phase EXCEPT ![t] = "Leased"] /\ owner' = [owner EXCEPT ![t] = w]
        /\ attempts' = [attempts EXCEPT ![t] = @ + 1]
    BY <1>1 DEF Begins, Ledger!Begin
  <2>2. CASE c.task = t
    <3>1. phase[t] # "Enqueued"
      BY <1>0, <2>2 DEF TasksFit, WasLeased
    <3> QED
      BY <1>0, <2>1, <2>2, <3>1 DEF TypeOK, WasLeased, IsCurrent
  <2>3. CASE c.task # t
    BY <1>0, <2>1, <2>3 DEF TypeOK, WasLeased, IsCurrent
  <2> QED
    BY <2>2, <2>3
<1>2. ASSUME NEW t \in Tasks, NEW outcome \in Outcomes, Ledger!Settle(t, outcome)
      PROVE  WasLeased(c)' /\ (IsCurrent(c)' => IsCurrent(c))
  BY <1>0, <1>2 DEF TypeOK, WasLeased, IsCurrent, Ledger!Settle, Outcomes
<1>3. CASE UNCHANGED ledger
  BY <1>3 DEF ledger, WasLeased, IsCurrent
<1> QED
  BY <1>1, <1>2, <1>3 DEF LedgerMoves

(* Nothing but an executor completes a task.                                *)
LEMMA MovesCompleteNothing ==
  ASSUME TypeOK, LedgerMoves, NEW t \in Tasks, phase'[t] = "Completed"
  PROVE  phase[t] = "Completed" /\ attempts'[t] = attempts[t]
BY DEF LedgerMoves, Begins, Ledger!Begin, Ledger!Settle, ledger, TypeOK

(* So does every step. *)
LEMMA TasksKept == ASSUME IInv, Next PROVE TasksFit'
<1>0. TypeOK /\ ControlFits /\ TasksFit /\ DrivingFits
  BY DEF IInv, ExecutorFits
<1>1. CASE LedgerStep
  BY <1>0, <1>1, MovesFit DEF LedgerStep
<1>2. ASSUME UNCHANGED ledger
      PROVE  TasksFit'
  BY <1>0, <1>2 DEF TasksFit, Leased, ledger
<1>3. ASSUME NEW m \in Managers, NEW outcome \in Outcomes, Finalize(m, outcome)
      PROVE  TasksFit'
  <2>1. current[m].task \in Tasks
    BY <1>0, <1>3 DEF DrivingFits, InDrive, Finalize, Move, TypeOK, Children
  <2> QED
    BY <1>0, <1>2, <1>3, <2>1, SettleFits DEF Finalize, RecordOutcome
<1>4. ASSUME NEW m \in Managers, ExecutorStep(m), \A outcome \in Outcomes : ~Finalize(m, outcome)
      PROVE  UNCHANGED ledger
  BY <1>4
  DEF ExecutorStep, PlanLaunches, Launch, Confirm, EndLaunch, Fence, PollRunning, PollExited
<1> QED
  BY <1>0, <1>1, <1>2, <1>3, <1>4, StepKinds DEF ControlStep, Crash, ChildExits

(***************************************************************************)
(* The executors.                                                          *)
(***************************************************************************)
LEMMA ExecutorInit == ASSUME Init PROVE ExecutorFits
<1> USE DEF Init
<1>1. ChildrenFit /\ TrackingFits /\ CompletedFits
  BY DEF ChildrenFit, TrackingFits, CompletedFits
<1>2. LaunchingFits /\ DrivingFits /\ ProcessesFit
  BY DEF LaunchingFits, DrivingFits, ProcessesFit, Launching, InDrive, Processes
<1> QED
  BY <1>1, <1>2 DEF ExecutorFits

(* The parts of the executors' invariant, unfolded for one manager and one  *)
(* worker.                                                                  *)
LEMMA OneOwner ==
  ASSUME TypeOK, ControlFits, TrackingFits, NEW m \in Managers, pc[m] \notin Outside,
         NEW n \in Managers, NEW w \in Workers, tracked[n][w] # NoChild
  PROVE  n = m
BY DEF ControlFits, TrackingFits, Away

(* Steps of the ledger leave the executors fitting. *)
LEMMA LedgerStepFits == ASSUME IInv, LedgerStep PROVE ExecutorFits'
<1>0. /\ TypeOK /\ TasksFit /\ ChildrenFit /\ TrackingFits /\ LaunchingFits /\ DrivingFits
      /\ ProcessesFit /\ CompletedFits
      /\ LedgerMoves /\ UNCHANGED <<tracked, current, alive, launched, crashes>>
      /\ \A m \in Managers :
           /\ pc'[m] = pc[m]
           /\ plan'[m] = plan[m] \/ (pc[m] \in Launching /\ plan'[m] \subseteq plan[m])
      /\ launched \subseteq Children /\ alive \subseteq launched
  BY DEF IInv, ExecutorFits, LedgerStep, TypeOK
<1>1. ChildrenFit'
  BY <1>0, LedgerKeeps DEF ChildrenFit
<1>2. TrackingFits'
  BY <1>0 DEF TrackingFits
<1>3. LaunchingFits'
  <2> SUFFICES ASSUME NEW m \in Managers, pc[m] \in Launching
               PROVE  /\ \A l \in plan'[m] :
                           /\ l \in Leases /\ WasLeased(l)' /\ phase'[l.task] # "Completed"
                           /\ \A k \in plan'[m] : k.worker = l.worker \/ k.task = l.task => k = l
                      /\ pc[m] = "confirm" =>
                           /\ current[m] # NoChild /\ tracked[m][current[m].worker] = current[m]
                           /\ \A l \in plan'[m] : l.worker # current[m].worker
    BY <1>0 DEF LaunchingFits
  <2>1. plan'[m] \subseteq plan[m]
    BY <1>0
  <2>2. ASSUME NEW l \in plan'[m]
        PROVE  l \in Leases /\ WasLeased(l)' /\ phase'[l.task] # "Completed"
    <3>1. l \in Leases /\ WasLeased(l) /\ phase[l.task] # "Completed" /\ l.task \in Tasks
      BY <1>0, <2>1, <2>2 DEF LaunchingFits, Leases
    <3> QED
      BY <1>0, <3>1, LedgerKeeps, MovesCompleteNothing
  <2> QED
    BY <1>0, <2>1, <2>2 DEF LaunchingFits
<1>4. DrivingFits'
  BY <1>0 DEF DrivingFits, TrackedWorkers, InDrive, Launching
<1>5. ProcessesFit'
  <2>1. \A c \in launched : IsCurrent(c)' => IsCurrent(c)
    BY <1>0, LedgerKeeps DEF ChildrenFit
  <2>2. \A m \in Managers : plan'[m] \subseteq plan[m]
    BY <1>0
  <2> QED
    BY <1>0, <2>1, <2>2 DEF ProcessesFit, IsTracked
<1>6. CompletedFits'
  BY <1>0, MovesCompleteNothing DEF CompletedFits
<1> QED
  BY <1>1, <1>2, <1>3, <1>4, <1>5, <1>6 DEF ExecutorFits

(* So do steps that only move a process. *)
LEMMA ControlStepFits == ASSUME IInv, ControlStep PROVE ExecutorFits'
<1>0. /\ ChildrenFit /\ TrackingFits /\ LaunchingFits /\ DrivingFits /\ ProcessesFit
      /\ CompletedFits
      /\ UNCHANGED <<phase, owner, attempts, tracked, plan, current, alive, launched, crashes>>
      /\ \A m \in Managers :
           /\ pc'[m] \in Busy => pc'[m] = pc[m]
           /\ pc'[m] \in Away => pc[m] \in Away \/ TrackedWorkers(m) = {}
  BY DEF IInv, ExecutorFits, ControlStep, ledger, executor
<1>1. ChildrenFit' /\ CompletedFits'
  BY <1>0 DEF ChildrenFit, WasLeased, CompletedFits
<1>2. TrackingFits'
  BY <1>0 DEF TrackingFits, TrackedWorkers
<1>3. LaunchingFits'
  BY <1>0 DEF LaunchingFits, WasLeased, Busy
<1>4. DrivingFits'
  BY <1>0 DEF DrivingFits, TrackedWorkers, Busy
<1>5. ProcessesFit'
  BY <1>0 DEF ProcessesFit, IsTracked, IsCurrent, Busy
<1> QED
  BY <1>1, <1>2, <1>3, <1>4, <1>5 DEF ExecutorFits

(* What the executor steps start from.                                      *)
LEMMA ExecutorParts ==
  ASSUME IInv
  PROVE  /\ TypeOK /\ ControlFits /\ TasksFit
         /\ ChildrenFit /\ TrackingFits /\ LaunchingFits /\ DrivingFits /\ ProcessesFit
         /\ CompletedFits
         /\ alive \subseteq launched /\ launched \subseteq Children
         /\ pc \in [Processes -> ManagerSteps \cup OperatorSteps]
         /\ Managers \subseteq Processes
         /\ tracked \in [Managers -> [Workers -> Children \cup {NoChild}]]
         /\ plan \in [Managers -> SUBSET (Leases \cup Workers)]
         /\ current \in [Managers -> Children \cup {NoChild}]
         /\ NoChild \notin Children
<1>1. NoChild \notin Children
  BY AbsentAssumption, BoundsAssumption DEF Children
<1> QED
  BY <1>1 DEF IInv, ExecutorFits, TypeOK, Processes

(* The leases read are current together.                                    *)
LEMMA PlanLaunchesFits ==
  ASSUME IInv, NEW m \in Managers, PlanLaunches(m) PROVE ExecutorFits'
<1>0. /\ pc[m] = "plan" /\ pc' = [pc EXCEPT ![m] = "launch"]
      /\ plan' = [plan EXCEPT ![m] = CurrentLeases]
      /\ UNCHANGED <<phase, owner, attempts, tracked, current, alive, launched, crashes>>
  BY DEF PlanLaunches, Move, GoTo, ledger, history
<1> USE ExecutorParts
<1>1. ChildrenFit' /\ TrackingFits' /\ CompletedFits'
  BY <1>0 DEF ChildrenFit, WasLeased, TrackingFits, Away, Outside, CompletedFits
<1>2. LaunchingFits'
  <2>1. ASSUME NEW l \in CurrentLeases
        PROVE  /\ l \in Leases /\ WasLeased(l) /\ phase[l.task] # "Completed"
               /\ \A k \in CurrentLeases : k.worker = l.worker \/ k.task = l.task => k = l
    <3>1. /\ l \in Leases /\ WasLeased(l) /\ phase[l.task] # "Completed"
      BY BoundsAssumption DEF CurrentLeases, IsCurrent, WasLeased, TypeOK, Leases
    <3>2. ASSUME NEW k \in CurrentLeases, k.worker = l.worker \/ k.task = l.task
          PROVE  k = l
      <4>1. k.task = l.task
        BY <3>2 DEF CurrentLeases, IsCurrent, TasksFit, Leased, Leases
      <4>2. k.worker = l.worker /\ k.attempt = l.attempt
        BY <4>1 DEF CurrentLeases, IsCurrent
      <4> QED
        BY <4>1, <4>2 DEF CurrentLeases, Leases
    <3> QED
      BY <3>1, <3>2
  <2>2. plan'[m] = CurrentLeases /\ \A n \in Managers \ {m} : plan'[n] = plan[n] /\ pc'[n] = pc[n]
    BY <1>0
  <2> HIDE DEF CurrentLeases
  <2> QED
    BY <1>0, <2>1, <2>2 DEF LaunchingFits, Launching, WasLeased
<1>3. DrivingFits'
  BY <1>0 DEF DrivingFits, InDrive, TrackedWorkers
<1>4. ProcessesFit'
  <2>1. ASSUME crashes = 0, NEW l \in CurrentLeases, NEW c \in launched,
               c.task = l.task, c.attempt = l.attempt
        PROVE  tracked[m][l.worker] # NoChild
    <3>1. IsCurrent(c) /\ c.worker = l.worker
      BY <2>1 DEF ChildrenFit, WasLeased, CurrentLeases, IsCurrent
    <3>2. tracked[c.manager][l.worker] = c /\ c # NoChild /\ c.manager \in Managers
          /\ l.worker \in Workers
      BY <2>1, <3>1 DEF ProcessesFit, IsTracked, Children, CurrentLeases, Leases
    <3>3. c.manager = m
      BY <1>0, <3>2, OneOwner DEF Outside
    <3> QED
      BY <3>2, <3>3
  <2> QED
    BY <1>0, <2>1 DEF ProcessesFit, IsTracked, IsCurrent, Launching
<1> QED
  BY <1>1, <1>2, <1>3, <1>4 DEF ExecutorFits

(* The child is of the lease, and the executor tracked nothing there.       *)
LEMMA LaunchFits ==
  ASSUME IInv, NEW m \in Managers, NEW l \in Leases, Launch(m, l) PROVE ExecutorFits'
<1> DEFINE c == [manager |-> m, task |-> l.task, worker |-> l.worker, attempt |-> l.attempt]
<1> USE ExecutorParts
<1>0. /\ pc[m] = "launch" /\ l \in plan[m] /\ plan' = [plan EXCEPT ![m] = @ \ {l}]
      /\ UNCHANGED <<phase, owner, attempts, crashes>>
  BY DEF Launch, ledger, history
<1>1. /\ c \in Children /\ c.manager = m /\ c.task = l.task /\ c.worker = l.worker
      /\ c.attempt = l.attempt /\ l.worker \in Workers /\ l.task \in Tasks
  BY DEF Children, Leases
<1>2. CASE CanLaunch(m, l)
  <2>0. /\ alive' = alive \cup {c} /\ launched' = launched \cup {c}
        /\ tracked' = [tracked EXCEPT ![m][l.worker] = c]
        /\ current' = [current EXCEPT ![m] = c]
        /\ pc' = [pc EXCEPT ![m] = "confirm"]
        /\ tracked[m][l.worker] = NoChild
    BY <1>2 DEF Launch, CanLaunch, GoTo
  <2> HIDE DEF c
  <2>1. /\ WasLeased(l) /\ phase[l.task] # "Completed"
        /\ \A k \in plan[m] : k.worker = l.worker \/ k.task = l.task => k = l
    BY <1>0 DEF LaunchingFits, Launching
  <2>2. /\ tracked'[m][l.worker] = c
        /\ \A n \in Managers, w \in Workers :
             n # m \/ w # l.worker => tracked'[n][w] = tracked[n][w]
        /\ current'[m] = c /\ pc'[m] = "confirm" /\ plan'[m] = plan[m] \ {l}
        /\ \A n \in Managers \ {m} :
             current'[n] = current[n] /\ pc'[n] = pc[n] /\ plan'[n] = plan[n]
    BY <1>0, <1>1, <2>0
  <2>3. ChildrenFit'
    BY <1>0, <1>1, <2>0, <2>1 DEF ChildrenFit, WasLeased
  <2>4. TrackingFits'
    <3> SUFFICES ASSUME NEW n \in Managers, NEW w \in Workers, tracked'[n][w] # NoChild
                 PROVE  /\ tracked'[n][w] \in launched' /\ tracked'[n][w].manager = n
                        /\ tracked'[n][w].worker = w /\ pc'[n] \notin Away
      BY DEF TrackingFits
    <3>1. CASE n = m /\ w = l.worker
      BY <1>1, <2>0, <2>2, <3>1 DEF Away, Outside
    <3>2. CASE ~(n = m /\ w = l.worker)
      BY <2>0, <2>2, <3>2 DEF TrackingFits, Away, Outside
    <3> QED
      BY <3>1, <3>2
  <2>5. LaunchingFits'
    <3> SUFFICES ASSUME NEW n \in Managers, pc'[n] \in Launching
                 PROVE  /\ \A k \in plan'[n] :
                             /\ k \in Leases /\ WasLeased(k)' /\ phase'[k.task] # "Completed"
                             /\ \A j \in plan'[n] : j.worker = k.worker \/ j.task = k.task => j = k
                        /\ pc'[n] = "confirm" =>
                             /\ current'[n] # NoChild
                             /\ tracked'[n][current'[n].worker] = current'[n]
                             /\ \A k \in plan'[n] : k.worker # current'[n].worker
      BY DEF LaunchingFits
    <3>1. CASE n = m
      BY <1>0, <1>1, <2>1, <2>2, <3>1 DEF LaunchingFits, Launching, WasLeased
    <3>2. CASE n # m
      BY <1>0, <2>2, <3>2, OneOwner DEF LaunchingFits, ControlFits, Outside, Launching
    <3> QED
      BY <3>1, <3>2
  <2>6. DrivingFits'
    BY <1>0, <2>2 DEF DrivingFits, InDrive, ControlFits, Outside
  <2>7. ProcessesFit'
    <3> SUFFICES ASSUME crashes = 0
                 PROVE  /\ \A d \in alive' : IsTracked(d)'
                        /\ \A d \in launched' : IsCurrent(d)' => IsTracked(d)'
                        /\ \A n \in Managers : pc'[n] \in Launching =>
                             \A k \in plan'[n], d \in launched' :
                               d.task = k.task /\ d.attempt = k.attempt =>
                                 tracked'[n][k.worker] # NoChild
      BY <1>0 DEF ProcessesFit
    <3>1. ASSUME NEW d \in launched, IsTracked(d)
          PROVE  IsTracked(d)'
      <4>1. d.manager \in Managers /\ d.worker \in Workers /\ d # NoChild
        BY DEF Children
      <4> QED
        BY <2>0, <2>2, <3>1, <4>1 DEF IsTracked
    <3>2. IsTracked(c)'
      BY <1>1, <2>2 DEF IsTracked
    <3>3. \A d \in alive' : IsTracked(d)'
      BY <2>0, <3>1, <3>2 DEF ProcessesFit
    <3>4. \A d \in launched' : IsCurrent(d)' => IsTracked(d)'
      BY <1>0, <2>0, <3>1, <3>2 DEF ProcessesFit, IsCurrent
    <3>5. ASSUME NEW n \in Managers, pc'[n] \in Launching, NEW k \in plan'[n],
                 NEW d \in launched', d.task = k.task, d.attempt = k.attempt
          PROVE  tracked'[n][k.worker] # NoChild
      <4>1. n = m
        BY <1>0, <2>2, <3>5 DEF ControlFits, Outside, Launching
      <4>2. k \in plan[m] /\ k # l /\ k.worker \in Workers /\ k.worker # l.worker /\ k.task # l.task
        BY <1>0, <2>1, <2>2, <3>5, <4>1 DEF LaunchingFits, Launching, Leases
      <4>3. d \in launched
        BY <1>1, <2>0, <3>5, <4>2
      <4>4. tracked[m][k.worker] # NoChild
        BY <1>0, <3>5, <4>2, <4>3 DEF ProcessesFit, Launching
      <4> QED
        BY <2>2, <4>1, <4>2, <4>4
    <3> QED
      BY <3>3, <3>4, <3>5
  <2>8. CompletedFits'
    BY <1>0, <1>1, <2>0, <2>1 DEF CompletedFits
  <2> QED
    BY <2>3, <2>4, <2>5, <2>6, <2>7, <2>8 DEF ExecutorFits
<1>3. CASE ~CanLaunch(m, l)
  <2>0. UNCHANGED <<alive, launched, tracked, current, pc>>
    BY <1>3 DEF Launch
  <2>1. LedgerStep
    BY <1>0, <2>0 DEF LedgerStep, LedgerMoves, ledger, Launching
  <2> QED
    BY <2>1, LedgerStepFits
<1> QED
  BY <1>2, <1>3

(* What a manager forgets of worker w while all other tracking stays: what  *)
(* is alive, or launched for a current attempt, and not c, is still         *)
(* tracked.                                                                 *)
LEMMA ForgetKeeps ==
  ASSUME IInv, NEW m \in Managers, NEW w \in Workers,
         tracked' = [tracked EXCEPT ![m][w] = NoChild],
         NEW d \in launched, IsTracked(d), d # tracked[m][w]
  PROVE  IsTracked(d)'
<1>1. d.manager \in Managers /\ d.worker \in Workers /\ d # NoChild /\ tracked[m][w] # d
  BY ExecutorParts DEF Children
<1>2. d.manager # m \/ d.worker # w
  BY <1>1 DEF IsTracked
<1> QED
  BY <1>1, <1>2, ExecutorParts DEF IsTracked

(* A child whose attempt was superseded is stopped and forgotten.           *)
LEMMA ConfirmFits ==
  ASSUME IInv, NEW m \in Managers, Confirm(m) PROVE ExecutorFits'
<1> DEFINE w == current[m].worker
<1> USE ExecutorParts
<1>0. /\ pc[m] = "confirm" /\ pc' = [pc EXCEPT ![m] = "launch"]
      /\ current' = [current EXCEPT ![m] = NoChild]
      /\ UNCHANGED <<phase, owner, attempts, plan, launched, crashes>>
      /\ current[m] # NoChild /\ tracked[m][w] = current[m]
      /\ \A l \in plan[m] : l.worker # w
  BY DEF Confirm, Move, GoTo, ledger, history, LaunchingFits, Launching
<1>1. current[m] \in Children /\ w \in Workers
  BY <1>0 DEF Children
<1>2. \A n \in Managers \ {m} : pc[n] \in Outside /\ pc'[n] = pc[n]
  BY <1>0, ProcessesAssumption DEF ControlFits, Outside
<1>3. \/ IsCurrent(current[m]) /\ UNCHANGED <<alive, tracked>>
      \/ /\ ~IsCurrent(current[m])
         /\ alive' = alive \ {current[m]} /\ tracked' = [tracked EXCEPT ![m][w] = NoChild]
  BY <1>0 DEF Confirm, Reap
<1> HIDE DEF w
<1>4. alive' \subseteq alive
  BY <1>3
<1>5. \A n \in Managers, v \in Workers :
        /\ tracked'[n][v] \in {tracked[n][v], NoChild}
        /\ n # m \/ v # w => tracked'[n][v] = tracked[n][v]
  BY <1>1, <1>3
<1>6. ChildrenFit' /\ CompletedFits'
  BY <1>0, <1>4 DEF ChildrenFit, WasLeased, CompletedFits
<1>7. TrackingFits'
  BY <1>0, <1>2, <1>5 DEF TrackingFits, Away, Outside
<1>8. LaunchingFits'
  BY <1>0, <1>2 DEF LaunchingFits, Launching, WasLeased, Outside
<1>9. DrivingFits'
  BY <1>0, <1>2 DEF DrivingFits, InDrive, Outside
<1>10. ProcessesFit'
  <2>1. CASE UNCHANGED <<alive, tracked>>
    BY <1>0, <1>2, <2>1 DEF ProcessesFit, IsTracked, IsCurrent, Launching, Outside
  <2>2. CASE /\ ~IsCurrent(current[m])
             /\ alive' = alive \ {current[m]} /\ tracked' = [tracked EXCEPT ![m][w] = NoChild]
    <3>1. \A d \in launched : IsTracked(d) /\ d # current[m] => IsTracked(d)'
      BY <1>0, <1>1, <2>2, ForgetKeeps
    <3>2. \A d \in launched : IsCurrent(d)' => IsCurrent(d)
      BY <1>0 DEF IsCurrent
    <3>3. \A l \in plan[m] : l.worker \in Workers /\ tracked'[m][l.worker] = tracked[m][l.worker]
      BY <1>0, <1>5 DEF LaunchingFits, Launching, Leases
    <3> QED
      BY <1>0, <1>2, <2>2, <3>1, <3>2, <3>3 DEF ProcessesFit, Launching, Outside
  <2> QED
    BY <1>3, <2>1, <2>2
<1> QED
  BY <1>6, <1>7, <1>8, <1>9, <1>10 DEF ExecutorFits

(* A launch pass ends with the tracked workers as what there is to drive. *)
LEMMA EndLaunchFits ==
  ASSUME IInv, NEW m \in Managers, EndLaunch(m) PROVE ExecutorFits'
<1> USE ExecutorParts
<1>0. /\ pc[m] = "launch" /\ pc' = [pc EXCEPT ![m] = "drive"]
      /\ plan' = [plan EXCEPT ![m] = TrackedWorkers(m)]
      /\ UNCHANGED <<phase, owner, attempts, tracked, current, alive, launched, crashes>>
  BY DEF EndLaunch, Move, GoTo, ledger, history
<1>1. /\ pc'[m] = "drive" /\ plan'[m] = TrackedWorkers(m)
      /\ \A n \in Managers \ {m} : pc[n] \in Outside /\ pc'[n] = pc[n]
  BY <1>0, ProcessesAssumption DEF ControlFits, Outside
<1>2. ChildrenFit' /\ CompletedFits'
  BY <1>0 DEF ChildrenFit, WasLeased, CompletedFits
<1>3. TrackingFits'
  BY <1>0, <1>1 DEF TrackingFits, Away, Outside
<1>4. LaunchingFits' /\ DrivingFits'
  BY <1>0, <1>1 DEF LaunchingFits, DrivingFits, Launching, InDrive, Outside, TrackedWorkers
<1>5. ProcessesFit'
  BY <1>0, <1>1 DEF ProcessesFit, IsTracked, IsCurrent, Launching, Outside
<1> QED
  BY <1>2, <1>3, <1>4, <1>5 DEF ExecutorFits

(* A fenced child is stopped before it is forgotten.                        *)
LEMMA FenceFits ==
  ASSUME IInv, NEW m \in Managers, NEW w \in Workers, Fence(m, w) PROVE ExecutorFits'
<1> DEFINE c == tracked[m][w]
<1> USE ExecutorParts
<1>0. /\ pc[m] = "drive" /\ w \in plan[m] /\ plan' = [plan EXCEPT ![m] = @ \ {w}]
      /\ ~IsCurrent(c) /\ alive' = alive \ {c}
      /\ tracked' = [tracked EXCEPT ![m][w] = NoChild]
      /\ UNCHANGED <<phase, owner, attempts, pc, current, launched, crashes>>
  BY DEF Fence, Driving, Driven, FenceChild, Reap, ledger, history
<1>1. \A n \in Managers \ {m} : pc[n] \in Outside
  BY <1>0, ProcessesAssumption DEF ControlFits, Outside
<1>2. /\ plan'[m] = plan[m] \ {w}
      /\ \A n \in Managers, v \in Workers :
           /\ tracked'[n][v] \in {tracked[n][v], NoChild}
           /\ n # m \/ v # w => tracked'[n][v] = tracked[n][v]
  BY <1>0
<1>3. ChildrenFit' /\ CompletedFits'
  BY <1>0 DEF ChildrenFit, WasLeased, CompletedFits
<1>4. TrackingFits'
  BY <1>0, <1>2 DEF TrackingFits
<1>5. LaunchingFits'
  BY <1>0, <1>1 DEF LaunchingFits, Launching, Outside
<1>6. DrivingFits'
  BY <1>0, <1>1, <1>2 DEF DrivingFits, InDrive, Outside, TrackedWorkers
<1>7. ProcessesFit'
  <2>1. \A d \in launched : IsTracked(d) /\ d # c => IsTracked(d)'
    BY <1>0, ForgetKeeps
  <2>2. \A d \in launched : IsCurrent(d)' => IsCurrent(d)
    BY <1>0 DEF IsCurrent
  <2> QED
    BY <1>0, <1>1, <2>1, <2>2 DEF ProcessesFit, Launching, Outside
<1> QED
  BY <1>3, <1>4, <1>5, <1>6, <1>7 DEF ExecutorFits

(* A poll looks at a child, which runs still or has exited. *)
LEMMA PollFits ==
  ASSUME IInv, NEW m \in Managers, NEW w \in Workers, PollRunning(m, w) \/ PollExited(m, w)
  PROVE  ExecutorFits'
<1> USE ExecutorParts
<1>0. /\ pc[m] = "drive" /\ w \in plan[m]
      /\ UNCHANGED <<phase, owner, attempts, tracked, alive, launched, crashes>>
  BY DEF PollRunning, PollExited, Driving, ledger, history
<1>1. \A n \in Managers \ {m} : pc[n] \in Outside
  BY <1>0, ProcessesAssumption DEF ControlFits, Outside
<1>2. ChildrenFit' /\ CompletedFits'
  BY <1>0 DEF ChildrenFit, WasLeased, CompletedFits
<1>3. CASE PollRunning(m, w)
  <2>1. pc' = pc /\ current' = current /\ plan' = [plan EXCEPT ![m] = @ \ {w}]
    BY <1>3 DEF PollRunning, Driven
  <2>2. TrackingFits' /\ LaunchingFits' /\ DrivingFits' /\ ProcessesFit'
    BY <1>0, <1>1, <2>1
    DEF TrackingFits, LaunchingFits, DrivingFits, ProcessesFit, IsTracked, IsCurrent,
        TrackedWorkers, Launching, InDrive, Outside
  <2> QED
    BY <1>2, <2>2 DEF ExecutorFits
<1>4. CASE PollExited(m, w)
  <2>1. /\ pc' = [pc EXCEPT ![m] = "finalize"] /\ plan' = plan
        /\ current' = [current EXCEPT ![m] = tracked[m][w]]
        /\ tracked[m][w] \notin alive
    BY <1>4 DEF PollExited, GoTo
  <2>2. tracked[m][w] # NoChild /\ tracked[m][w].worker = w
    BY <1>0 DEF DrivingFits, InDrive, TrackedWorkers, TrackingFits
  <2>3. TrackingFits'
    BY <1>0, <1>1, <2>1 DEF TrackingFits, Away, Outside
  <2>4. LaunchingFits' /\ ProcessesFit'
    BY <1>0, <1>1, <2>1
    DEF LaunchingFits, ProcessesFit, IsTracked, IsCurrent, Launching, Outside
  <2>5. DrivingFits'
    BY <1>0, <1>1, <2>1, <2>2 DEF DrivingFits, InDrive, Outside, TrackedWorkers
  <2> QED
    BY <1>2, <2>3, <2>4, <2>5 DEF ExecutorFits
<1> QED
  BY <1>3, <1>4

(* The child that exited is of the attempt that is recorded as ended, and   *)
(* it was the only one of its task.                                         *)
LEMMA FinalizeParts ==
  ASSUME IInv, NEW m \in Managers, NEW outcome \in Outcomes, Finalize(m, outcome)
  PROVE  LET c == current[m] IN
         /\ pc[m] = "finalize" /\ pc' = [pc EXCEPT ![m] = "drive"] /\ lock = m
         /\ c \in Children /\ c \in launched \ alive /\ c.manager = m
         /\ c.task \in Tasks /\ c.worker \in Workers /\ tracked[m][c.worker] = c
         /\ WasLeased(c)
         /\ tracked' = [tracked EXCEPT ![m][c.worker] = NoChild]
         /\ plan' = [plan EXCEPT ![m] = @ \ {c.worker}]
         /\ current' = [current EXCEPT ![m] = NoChild]
         /\ UNCHANGED <<owner, attempts, alive, launched, crashes>>
         /\ \/ ~IsCurrent(c) /\ phase' = phase
            \/ IsCurrent(c) /\ phase' = [phase EXCEPT ![c.task] = outcome]
         /\ crashes = 0 /\ IsCurrent(c) => \A d \in alive : d.task # c.task
<1> DEFINE c == current[m]
<1> USE ExecutorParts
<1>1. /\ pc[m] = "finalize" /\ pc' = [pc EXCEPT ![m] = "drive"]
      /\ tracked' = [tracked EXCEPT ![m][c.worker] = NoChild]
      /\ plan' = [plan EXCEPT ![m] = @ \ {c.worker}]
      /\ current' = [current EXCEPT ![m] = NoChild]
      /\ UNCHANGED <<alive, launched, crashes>>
  BY DEF Finalize, Move, GoTo, Driven, history
<1>2. /\ UNCHANGED <<owner, attempts>>
      /\ \/ ~IsCurrent(c) /\ phase' = phase
         \/ IsCurrent(c) /\ phase' = [phase EXCEPT ![c.task] = outcome]
  BY DEF Finalize, RecordOutcome, Ledger!Settle, ledger
<1>3. /\ c # NoChild /\ c \in Children /\ tracked[m][c.worker] = c /\ c \notin alive
  BY <1>1 DEF DrivingFits, InDrive
<1>4. /\ c.task \in Tasks /\ c.worker \in Workers /\ c \in launched /\ c.manager = m
  BY <1>3 DEF Children, TrackingFits
<1>5. lock = m
  BY <1>1 DEF ControlFits, Outside
<1>6. WasLeased(c)
  BY <1>4 DEF ChildrenFit
<1>7. ASSUME crashes = 0, IsCurrent(c), NEW d \in alive
      PROVE  d.task # c.task
  <2> SUFFICES ASSUME d.task = c.task PROVE FALSE
    OBVIOUS
  <2>1. d.worker = c.worker /\ d.manager \in Managers /\ d # NoChild
    BY <1>6 DEF ChildrenFit, WasLeased, Children
  <2>2. tracked[d.manager][c.worker] = d
    BY <1>7, <2>1 DEF ProcessesFit, IsTracked
  <2>3. d.manager = m
    BY <1>1, <1>4, <2>1, <2>2, OneOwner DEF Outside
  <2> QED
    BY <1>3, <2>2, <2>3
<1> QED
  BY <1>1, <1>2, <1>3, <1>4, <1>5, <1>6, <1>7

(* A finalization forgets the child whose outcome it recorded. *)
LEMMA FinalizeFits ==
  ASSUME IInv, NEW m \in Managers, NEW outcome \in Outcomes, Finalize(m, outcome)
  PROVE  ExecutorFits'
<1> DEFINE c == current[m]
<1> USE ExecutorParts
<1>0. /\ pc[m] = "finalize" /\ pc' = [pc EXCEPT ![m] = "drive"]
      /\ c \in launched \ alive /\ c.task \in Tasks /\ c.worker \in Workers
      /\ tracked[m][c.worker] = c /\ WasLeased(c)
      /\ tracked' = [tracked EXCEPT ![m][c.worker] = NoChild]
      /\ plan' = [plan EXCEPT ![m] = @ \ {c.worker}]
      /\ UNCHANGED <<owner, attempts, alive, launched, crashes>>
      /\ \/ ~IsCurrent(c) /\ phase' = phase
         \/ IsCurrent(c) /\ phase' = [phase EXCEPT ![c.task] = outcome]
      /\ crashes = 0 /\ IsCurrent(c) => \A d \in alive : d.task # c.task
      /\ phase \in [Tasks -> {"Enqueued", "Leased"} \cup Outcomes]
      /\ outcome # "Leased"
  BY FinalizeParts DEF TypeOK, Outcomes
<1> HIDE DEF c
<1>1. \A n \in Managers \ {m} : pc[n] \in Outside /\ pc'[n] = pc[n]
  BY <1>0, ProcessesAssumption DEF ControlFits, Outside
<1>2. /\ pc'[m] = "drive" /\ plan'[m] = plan[m] \ {c.worker}
      /\ \A n \in Managers, v \in Workers :
           /\ tracked'[n][v] \in {tracked[n][v], NoChild}
           /\ n # m \/ v # c.worker => tracked'[n][v] = tracked[n][v]
  BY <1>0
<1>3. ChildrenFit'
  BY <1>0 DEF ChildrenFit, WasLeased
<1>4. TrackingFits'
  BY <1>0, <1>1, <1>2 DEF TrackingFits, Away, Outside
<1>5. LaunchingFits'
  BY <1>0, <1>1, <1>2 DEF LaunchingFits, Launching, Outside
<1>6. DrivingFits'
  BY <1>0, <1>1, <1>2 DEF DrivingFits, InDrive, Outside, TrackedWorkers
<1>7. ProcessesFit'
  <2>1. \A d \in launched : IsTracked(d) /\ d # c => IsTracked(d)'
    BY <1>0, ForgetKeeps
  <2>2. ASSUME NEW d \in launched, IsCurrent(d)'
        PROVE  IsCurrent(d) /\ d # c
    <3>1. /\ phase'[d.task] = "Leased" /\ owner[d.task] = d.worker
          /\ attempts[d.task] = d.attempt
      BY <1>0, <2>2 DEF IsCurrent
    <3>2. CASE ~IsCurrent(c) /\ phase' = phase
      BY <3>1, <3>2 DEF IsCurrent
    <3>3. CASE phase' = [phase EXCEPT ![c.task] = outcome]
      BY <1>0, <3>1, <3>3 DEF IsCurrent
    <3> QED
      BY <1>0, <3>2, <3>3
  <2> QED
    BY <1>0, <1>1, <1>2, <2>1, <2>2 DEF ProcessesFit, Launching, Outside
<1>8. CompletedFits'
  <2> SUFFICES ASSUME NEW t \in Tasks, phase'[t] = "Completed"
               PROVE  /\ \E d \in launched : d.task = t /\ d.attempt = attempts[t]
                      /\ crashes = 0 => \A d \in alive : d.task # t
    BY <1>0 DEF CompletedFits
  <2>1. CASE phase[t] = "Completed"
    BY <2>1 DEF CompletedFits
  <2>2. CASE phase[t] # "Completed"
    <3>1. IsCurrent(c) /\ c.task = t
      BY <1>0, <2>2
    <3> QED
      BY <1>0, <3>1 DEF IsCurrent
  <2> QED
    BY <2>1, <2>2
<1> QED
  BY <1>3, <1>4, <1>5, <1>6, <1>7, <1>8 DEF ExecutorFits

(* A crash ends what is promised without crashes.                           *)
LEMMA CrashFits ==
  ASSUME IInv, NEW m \in Managers, Crash(m) PROVE ExecutorFits'
<1> USE ExecutorParts
<1>0. /\ pc' = [pc EXCEPT ![m] = "off"] /\ tracked'[m] = [w \in Workers |-> NoChild]
      /\ \A n \in Managers \ {m} :
           /\ pc'[n] = pc[n] /\ plan'[n] = plan[n] /\ current'[n] = current[n]
           /\ tracked'[n] = tracked[n]
      /\ UNCHANGED <<phase, owner, attempts, alive, launched>>
      /\ crashes' # 0
  BY BoundsAssumption DEF Crash, GoTo, ledger, TypeOK
<1>1. ChildrenFit' /\ CompletedFits' /\ ProcessesFit'
  BY <1>0 DEF ChildrenFit, WasLeased, CompletedFits, ProcessesFit
<1>2. TrackingFits'
  BY <1>0 DEF TrackingFits
<1>3. LaunchingFits' /\ DrivingFits'
  BY <1>0
  DEF LaunchingFits, DrivingFits, TrackedWorkers, WasLeased, Launching, InDrive
<1> QED
  BY <1>1, <1>2, <1>3 DEF ExecutorFits

(* The exit of a child changes nothing an executor relies on. *)
LEMMA ExitFits ==
  ASSUME IInv, NEW c \in Children, ChildExits(c) PROVE ExecutorFits'
<1> USE ExecutorParts
<1>0. /\ alive' = alive \ {c}
      /\ UNCHANGED <<phase, owner, attempts, pc, tracked, plan, current, launched, crashes>>
  BY DEF ChildExits, ledger, executor, history
<1>1. ChildrenFit' /\ CompletedFits' /\ ProcessesFit'
  BY <1>0 DEF ChildrenFit, WasLeased, CompletedFits, ProcessesFit, IsTracked, IsCurrent
<1>2. TrackingFits' /\ LaunchingFits' /\ DrivingFits'
  BY <1>0 DEF TrackingFits, LaunchingFits, DrivingFits, WasLeased, TrackedWorkers
<1> QED
  BY <1>1, <1>2 DEF ExecutorFits

(* Every step keeps the executors fitting. *)
LEMMA ExecutorKept == ASSUME IInv, Next PROVE ExecutorFits'
BY StepKinds, LedgerStepFits, ControlStepFits, PlanLaunchesFits, LaunchFits, ConfirmFits,
   EndLaunchFits, FenceFits, PollFits, FinalizeFits, CrashFits, ExitFits
DEF IInv, ExecutorStep

(***************************************************************************)
(* A stop, by whatever operator and against whatever managers.             *)
(***************************************************************************)
LEMMA StopInit == ASSUME Init PROVE StopFits
BY ProcessesAssumption DEF Init, StopFits, Processes

(* No ledger step but the start of an attempt opens a task, and that one    *)
(* needs an open task unless an operator restarts a worker.                 *)
LEMMA OpenShrinks ==
  ASSUME TypeOK, Next, \A o \in Operators, t \in Tasks : ~RestartWorker(o, t)
  PROVE  Open' \subseteq Open
<1> USE DEF Open, Outcomes
<1>1. ASSUME NEW t \in Tasks, NEW outcome \in Outcomes, Ledger!Settle(t, outcome)
      PROVE  Open' \subseteq Open
  BY <1>1 DEF Ledger!Settle, TypeOK
<1>2. ASSUME NEW t \in Open, NEW w, Ledger!Begin(t, w)
      PROVE  Open' \subseteq Open
  BY <1>2 DEF Ledger!Begin, TypeOK
<1>3. ASSUME UNCHANGED ledger
      PROVE  Open' \subseteq Open
  BY <1>3 DEF ledger
<1>4. ASSUME NEW m \in Managers, ManagerStep(m)
      PROVE  Open' \subseteq Open
  <2>1. ASSUME NEW t \in Tasks, NEW w \in Workers, Schedule(m, t, w)
        PROVE  Open' \subseteq Open
    BY <1>2, <2>1 DEF Schedule
  <2>2. ASSUME NEW l \in Leases, Launch(m, l) \/ LaunchFails(m, l)
        PROVE  Open' \subseteq Open
    BY <1>1, <1>3, <2>2 DEF Launch, LaunchFails, Leases
  <2>3. ASSUME NEW outcome \in Outcomes, Finalize(m, outcome)
        PROVE  Open' \subseteq Open
    <3>1. CASE current[m].task \in Tasks
      BY <1>1, <1>3, <2>3, <3>1 DEF Finalize, RecordOutcome
    <3>2. CASE current[m].task \notin Tasks
      BY <1>3, <2>3, <3>2 DEF Finalize, RecordOutcome, Ledger!Settle, TypeOK
    <3> QED
      BY <3>1, <3>2
  <2>4. CASE UNCHANGED ledger
    BY <1>3, <2>4
  <2> QED
    BY <1>4, <2>1, <2>2, <2>3, <2>4
    DEF ManagerStep, LeaseSome, Activate, Acquire, Standby, Decline, EndSchedule,
        ReadStatus, WriteStatus, PlanLaunches, Confirm, EndLaunch, Fence, PollRunning,
        PollExited, EndDrive, Check, Release
<1>5. ASSUME NEW o \in Operators, NEW l \in Leases, RetryOrFail(o, l)
      PROVE  Open' \subseteq Open
  <2>1. l.task \in Tasks /\ (IsCurrent(l) => l.task \in Open)
    BY DEF Leases, IsCurrent
  <2> QED
    BY <1>1, <1>2, <1>3, <1>5, <2>1 DEF RetryOrFail
<1>6. ASSUME NEW o \in Operators, NEW t \in Tasks, StopTask(o, t) \/ Interrupt(o, t)
      PROVE  Open' \subseteq Open
  BY <1>1, <1>3, <1>6 DEF StopTask, Interrupt
<1> QED
  BY <1>3, <1>4, <1>5, <1>6
  DEF Next, OperatorStep, NewCommand, Start, Crash, StopRun, Resume, MarkRunning,
      DriveRestarted, MarkCancelled, EndResume, ReadStatus, WriteStatus, ChildExits

(* The list of a stop that is being carried out loses only what is settled. *)
LEMMA ListKept ==
  ASSUME IInv, Next, NEW o \in Operators, pc'[o] = "stopping", last_operator' = o
  PROVE  Open' \subseteq todo'[o]
<1> USE DEF Move, GoTo, Outcomes
<1>0. /\ TypeOK /\ ControlFits
      /\ pc[o] = "stopping" /\ last_operator = o => Open \subseteq todo[o]
      /\ o \in Processes /\ o \notin Managers
      /\ pc \in [Processes -> ManagerSteps \cup OperatorSteps]
      /\ todo \in [Operators -> SUBSET (Tasks \cup Leases)]
  BY ProcessesAssumption DEF IInv, StopFits, TypeOK, Processes
<1>1. ASSUME NEW p \in Operators, NewCommand(p)
      PROVE  Open' \subseteq todo'[o]
  <2>1. p = o
    BY <1>1 DEF NewCommand, Interrupt, RestartWorker, StopRun, Resume, Command
  <2>2. pc' = [pc EXCEPT ![o] = "stopping"] => StopRun(o)
    BY <1>0, <1>1, <2>1 DEF NewCommand, Interrupt, RestartWorker, Resume, Command
  <2>3. \E to : pc' = [pc EXCEPT ![o] = to]
    BY <1>1, <2>1 DEF NewCommand, Interrupt, RestartWorker, StopRun, Resume, Command
  <2>4. StopRun(o)
    BY <1>0, <2>2, <2>3
  <2> QED
    BY <1>0, <2>4 DEF StopRun, Open, ledger
<1>2. ASSUME Open' \subseteq Open, last_operator' = last_operator, pc[o] = "stopping",
             todo'[o] = todo[o] \/ \E t \in Tasks : StopTask(o, t)
      PROVE  Open' \subseteq todo'[o]
  <2>1. Open \subseteq todo[o]
    BY <1>0, <1>2
  <2>2. ASSUME NEW t \in Tasks, StopTask(o, t)
        PROVE  Open' \subseteq todo'[o]
    <3>1. todo'[o] = todo[o] \ {t}
      BY <1>0, <2>2 DEF StopTask
    <3>2. t \notin Open'
      BY <1>0, <1>2, <2>2 DEF StopTask, Ledger!Settle, Open, TypeOK
    <3> QED
      BY <1>2, <2>1, <3>1, <3>2
  <2> QED
    BY <1>2, <2>1, <2>2
<1>3. ASSUME \A p \in Operators : ~NewCommand(p)
      PROVE  Open' \subseteq Open
  BY <1>0, <1>3, OpenShrinks DEF NewCommand
<1>4. ASSUME NEW m \in Managers, Start(m) \/ ManagerStep(m) \/ Crash(m)
      PROVE  /\ last_operator' = last_operator /\ todo' = todo
             /\ pc' = pc \/ \E to : pc' = [pc EXCEPT ![m] = to]
  BY <1>4
  DEF ManagerStep, LeaseSome, Start, Activate, Acquire, Standby, Decline, Schedule,
      EndSchedule, ReadStatus, WriteStatus, PlanLaunches, Launch, LaunchFails, Confirm,
      EndLaunch, Fence, PollRunning, PollExited, Finalize, EndDrive, Check, Release,
      Crash, history
<1>5. ASSUME NEW p \in Operators, OperatorStep(p)
      PROVE  /\ last_operator' = last_operator
             /\ pc[o] = "stopping"
             /\ todo'[o] = todo[o] \/ \E t \in Tasks : StopTask(o, t)
  <2>1. ASSUME NEW m \in Managers, DriveRestarted(p, m)
        PROVE  last_operator' = last_operator /\ pc[o] = "stopping" /\ todo'[o] = todo[o]
    BY <1>0, <2>1 DEF DriveRestarted, history
  <2>2. ASSUME NEW t \in Tasks, StopTask(p, t)
        PROVE  /\ last_operator' = last_operator
               /\ pc[o] = "stopping"
               /\ todo'[o] = todo[o] \/ StopTask(o, t)
    BY <1>0, <2>2 DEF StopTask, history
  <2>3. ASSUME NEW l \in Leases, RetryOrFail(p, l)
        PROVE  last_operator' = last_operator /\ pc[o] = "stopping" /\ todo'[o] = todo[o]
    BY <1>0, <2>3 DEF RetryOrFail, history
  <2>4. CASE \/ MarkRunning(p) \/ MarkCancelled(p) \/ EndResume(p)
             \/ ReadStatus(p, "read", "write") \/ WriteStatus(p, "write", "idle")
    BY <1>0, <2>4
    DEF MarkRunning, MarkCancelled, EndResume, ReadStatus, WriteStatus, history
  <2> QED
    BY <1>5, <2>1, <2>2, <2>3, <2>4 DEF OperatorStep
<1>6. ASSUME NEW c \in Children, ChildExits(c)
      PROVE  last_operator' = last_operator /\ pc' = pc /\ todo' = todo
  BY <1>6 DEF ChildExits, history
<1>7. CASE \E p \in Operators : NewCommand(p)
  BY <1>1, <1>7
<1>8. CASE \A p \in Operators : ~NewCommand(p)
  <2>1. CASE \E m \in Managers : Start(m) \/ ManagerStep(m) \/ Crash(m)
    BY <1>0, <1>2, <1>3, <1>4, <1>8, <2>1
  <2>2. CASE \E p \in Operators : OperatorStep(p)
    BY <1>2, <1>3, <1>5, <1>8, <2>2
  <2>3. CASE \E c \in Children : ChildExits(c)
    BY <1>0, <1>2, <1>3, <1>6, <1>8, <2>3
  <2> QED
    BY <1>8, <2>1, <2>2, <2>3 DEF Next
<1> QED
  BY <1>7, <1>8

(* With no open task every status that is read is an end, and nobody else   *)
(* is about to write one.                                                   *)
LEMMA StopKept == ASSUME IInv, Next PROVE StopFits'
<1> DEFINE Pending == {"write1", "write2", "write3", "write"}
           Settled(p) == /\ pc[p] \notin {"activating", "running"}
                         /\ pc[p] \in Pending => verdict[p] \in Outcomes
<1> USE DEF Move, GoTo
<1>0. /\ TypeOK /\ ControlFits
      /\ \A o \in Operators : pc[o] = "stopping" /\ last_operator = o => Open \subseteq todo[o]
      /\ stopped => /\ run_status \in Outcomes /\ Open = {}
                    /\ \A p \in Processes : Settled(p)
      /\ pc \in [Processes -> ManagerSteps \cup OperatorSteps]
      /\ verdict \in [Processes -> Statuses]
      /\ Processes = Managers \cup Operators
  BY DEF IInv, StopFits, TypeOK, Processes
<1> SUFFICES ASSUME stopped'
             PROVE  run_status' \in Outcomes /\ Open' = {} /\ \A p \in Processes : Settled(p)'
  BY <1>0, ListKept DEF StopFits
<1>1. ASSUME NEW o \in Operators, MarkCancelled(o), ~stopped
      PROVE  run_status' \in Outcomes /\ Open' = {} /\ \A p \in Processes : Settled(p)'
  <2>1. /\ pc[o] = "stopping" /\ last_operator = o /\ todo[o] = {} /\ ~StatusPending
        /\ pc' = [pc EXCEPT ![o] = "idle"] /\ verdict' = verdict /\ phase' = phase
        /\ run_status' = "Cancelled"
    BY <1>1 DEF MarkCancelled, ledger
  <2>2. Open' = {}
    BY <1>0, <2>1 DEF Open
  <2>3. ASSUME NEW p \in Processes
        PROVE  Settled(p)'
    BY <1>0, <2>1 DEF StatusPending
  <2> QED
    BY <2>1, <2>2, <2>3 DEF Outcomes
<1>2. ASSUME stopped
      PROVE  run_status' \in Outcomes /\ Open' = {} /\ \A p \in Processes : Settled(p)'
  <2>0. /\ run_status \in Outcomes /\ Open = {} /\ \A p \in Processes : Settled(p)
        /\ \A o \in Operators : ~NewCommand(o)
        /\ \A m \in Managers : ~Start(m)
    BY <1>0, <1>2 DEF NewCommand, Interrupt, RestartWorker, StopRun, Resume, Command, Start
  <2>1. Open' = {}
    BY <1>0, <2>0, OpenShrinks DEF NewCommand
  <2> DEFINE Goal == run_status' \in Outcomes /\ \A p \in Processes : Settled(p)'
  <2>2. ASSUME NEW p \in Processes, NEW from, NEW to, ReadStatus(p, from, to),
               to \notin {"activating", "running"}
        PROVE  Goal
    <3>1. DerivedStatus \in Outcomes
      BY <2>0 DEF DerivedStatus, HasOpenWork, Outcomes
    <3> QED
      BY <1>0, <2>0, <2>2, <3>1 DEF ReadStatus
  <2>3. ASSUME NEW p \in Processes, NEW from \in Pending, NEW to, WriteStatus(p, from, to),
               to \notin Pending \cup {"activating", "running"}
        PROVE  Goal
    BY <1>0, <2>0, <2>3 DEF WriteStatus
  <2>4. ASSUME NEW p \in Processes, NEW to, to \notin Pending \cup {"activating", "running"},
               pc' = [pc EXCEPT ![p] = to], verdict' = verdict,
               run_status' \in {run_status, "Cancelled"}
        PROVE  Goal
    BY <1>0, <2>0, <2>4 DEF Outcomes
  <2>5. ASSUME UNCHANGED <<pc, verdict, run_status>>
        PROVE  Goal
    BY <2>0, <2>5
  <2>6. ASSUME NEW m \in Managers, Activate(m)
        PROVE  Goal
    BY <1>0, <2>0, <2>6 DEF Activate
  <2>7. ASSUME NEW o \in Operators, MarkRunning(o)
        PROVE  Goal
    BY <1>0, <2>0, <2>7 DEF MarkRunning
  <2>8. ASSUME NEW o \in Operators, NEW m \in Managers, DriveRestarted(o, m)
        PROVE  Goal
    BY <1>0, <2>0, <2>8 DEF DriveRestarted
  <2> HIDE DEF Goal
  <2>9. ASSUME NEW m \in Managers, ManagerStep(m) \/ Crash(m)
        PROVE  Goal
    <3> m \in Processes
      BY <1>0
    <3>1. CASE \/ Acquire(m) \/ Standby(m) \/ Decline(m) \/ EndSchedule(m)
               \/ PlanLaunches(m) \/ Confirm(m) \/ EndLaunch(m) \/ EndDrive(m)
               \/ Check(m) \/ Release(m) \/ Crash(m)
      BY <2>4, <3>1
      DEF Acquire, Standby, Decline, EndSchedule, PlanLaunches, Confirm, EndLaunch,
          EndDrive, Check, Release, Crash
    <3>2. CASE LeaseSome(m)
      BY <2>5, <3>2 DEF LeaseSome, Schedule
    <3>3. ASSUME NEW l \in Leases, Launch(m, l) \/ LaunchFails(m, l)
          PROVE  Goal
      BY <2>4, <2>5, <3>3 DEF Launch, LaunchFails
    <3>4. ASSUME NEW w \in Workers, Fence(m, w) \/ PollRunning(m, w) \/ PollExited(m, w)
          PROVE  Goal
      BY <2>4, <2>5, <3>4 DEF Fence, PollRunning, PollExited
    <3>5. ASSUME NEW outcome \in Outcomes, Finalize(m, outcome)
          PROVE  Goal
      BY <2>4, <3>5 DEF Finalize
    <3> QED
      BY <2>2, <2>3, <2>6, <2>9, <3>1, <3>2, <3>3, <3>4, <3>5 DEF ManagerStep
  <2>10. ASSUME NEW o \in Operators, OperatorStep(o)
         PROVE  Goal
    <3> o \in Processes
      BY <1>0
    <3>1. ASSUME NEW t \in Tasks, StopTask(o, t)
          PROVE  Goal
      BY <2>5, <3>1 DEF StopTask
    <3>2. ASSUME NEW l \in Leases, RetryOrFail(o, l)
          PROVE  Goal
      BY <2>5, <3>2 DEF RetryOrFail
    <3>3. CASE MarkCancelled(o) \/ EndResume(o)
      BY <2>4, <3>3 DEF MarkCancelled, EndResume
    <3> QED
      BY <2>2, <2>3, <2>7, <2>8, <2>10, <3>1, <3>2, <3>3 DEF OperatorStep
  <2>11. ASSUME NEW c \in Children, ChildExits(c)
         PROVE  Goal
    BY <2>5, <2>11 DEF ChildExits
  <2>12. Goal
    BY <2>0, <2>9, <2>10, <2>11 DEF Next
  <2> QED
    BY <2>1, <2>12 DEF Goal
<1>3. ASSUME ~stopped
      PROVE  \E o \in Operators : MarkCancelled(o)
  <2>1. ASSUME NEW m \in Managers, Start(m) \/ ManagerStep(m) \/ Crash(m)
        PROVE  stopped' \in {stopped, FALSE}
    BY <2>1
    DEF ManagerStep, LeaseSome, Start, Activate, Acquire, Standby, Decline, Schedule,
        EndSchedule, ReadStatus, WriteStatus, PlanLaunches, Launch, LaunchFails, Confirm,
        EndLaunch, Fence, PollRunning, PollExited, Finalize, EndDrive, Check, Release,
        Crash, history
  <2>2. ASSUME NEW o \in Operators, NewCommand(o)
        PROVE  stopped' = FALSE
    BY <2>2 DEF NewCommand, Interrupt, RestartWorker, StopRun, Resume, Command
  <2>3. ASSUME NEW o \in Operators, OperatorStep(o), ~MarkCancelled(o)
        PROVE  stopped' = stopped
    BY <2>3
    DEF OperatorStep, MarkRunning, DriveRestarted, StopTask, RetryOrFail, EndResume,
        ReadStatus, WriteStatus, history
  <2>4. ASSUME NEW c \in Children, ChildExits(c)
        PROVE  stopped' = stopped
    BY <2>4 DEF ChildExits, history
  <2> QED
    BY <1>3, <2>1, <2>2, <2>3, <2>4 DEF Next
<1> QED
  BY <1>1, <1>2, <1>3

(***************************************************************************)
(* Theorems.                                                               *)
(***************************************************************************)
LEMMA StutterFits == ASSUME IInv, UNCHANGED vars PROVE IInv'
<1> USE DEF vars, ledger, executor, history
<1>1. TypeOK' /\ ControlFits' /\ TasksFit'
  BY DEF IInv, TypeOK, ControlFits, TasksFit, Leased
<1>2. ExecutorFits'
  <2>1. ControlStep
    BY DEF ControlStep
  <2> QED
    BY <2>1, ControlStepFits
<1>3. StopFits'
  BY DEF IInv, StopFits, Open
<1> QED
  BY <1>1, <1>2, <1>3 DEF IInv

(* The inductive invariant always holds. *)
LEMMA Invariance == Spec => []IInv
<1>1. Init => IInv
  BY TypesInit, ControlInit, TasksInit, ExecutorInit, StopInit DEF IInv
<1>2. IInv /\ [Next]_vars => IInv'
  <2> SUFFICES ASSUME IInv, Next PROVE IInv'
    BY StutterFits
  <2> QED
    BY TypesKept, ControlKept, TasksKept, ExecutorKept, StopKept DEF IInv
<1> QED
  BY <1>1, <1>2, PTL DEF Spec

(* Every child has its manager's trace, and the run has one owner: two      *)
(* processes of one logical worker would both be the one that the owner     *)
(* tracks for it.                                                           *)
LEMMA OneProcess ==
  ASSUME IInv, crashes = 0 PROVE OneChildPerWorker
<1> SUFFICES ASSUME NEW c \in alive, NEW d \in alive, c.worker = d.worker
             PROVE  c = d
  BY DEF OneChildPerWorker
<1> USE ExecutorParts
<1>1. /\ c \in Children /\ d \in Children /\ c # NoChild /\ d # NoChild
      /\ c.manager \in Managers /\ d.manager \in Managers /\ c.worker \in Workers
  BY DEF Children
<1>2. tracked[c.manager][c.worker] = c /\ tracked[d.manager][c.worker] = d
  BY DEF ProcessesFit, IsTracked
<1>3. pc[c.manager] \notin Outside
  BY <1>1, <1>2 DEF TrackingFits, Away
<1>4. d.manager = c.manager
  BY <1>1, <1>2, <1>3, OneOwner
<1> QED
  BY <1>2, <1>4

(* The types hold, and as long as no manager has crashed, a logical worker  *)
(* has at most one process, for any number of managers, operators and       *)
(* attempts.                                                                *)
THEOREM OneChildAtATime == Spec => [](TypeOK /\ (crashes = 0 => ManagerInv))
<1>1. IInv => TypeOK /\ (crashes = 0 => ManagerInv)
  BY OneProcess DEF IInv, ManagerInv
<1> QED
  BY <1>1, Invariance, PTL

(* As long as no manager has crashed, a Completed task was completed by a   *)
(* process of its current attempt, and no process of the task is left.      *)
THEOREM CompletionsAreClean == Spec => [](crashes = 0 => CompletedByItsChild)
<1>1. IInv => (crashes = 0 => CompletedByItsChild)
  BY DEF IInv, ExecutorFits, CompletedFits, CompletedByItsChild
<1> QED
  BY <1>1, Invariance, PTL

(* As long as no manager has crashed, a manager that has returned left no   *)
(* process of its own behind.                                               *)
THEOREM ManagersReapTheirChildren == Spec => [](crashes = 0 => NoChildLeftBehind)
<1>1. ASSUME IInv, crashes = 0, NEW m \in Managers, pc[m] = "off", NEW c \in alive
      PROVE  c.manager # m
  <2>1. c \in Children /\ c # NoChild /\ IsTracked(c)
    BY <1>1, ExecutorParts DEF ProcessesFit
  <2> QED
    BY <1>1, <2>1, ExecutorParts DEF IsTracked, TrackingFits, Away, Outside, Children
<1>2. IInv => (crashes = 0 => NoChildLeftBehind)
  BY <1>1 DEF NoChildLeftBehind
<1> QED
  BY <1>2, Invariance, PTL

(* A stop that was the last command and met no pending write of the status  *)
(* holds, whatever the managers, their children and the operators that      *)
(* have not finished earlier commands still do, crashes included.           *)
THEOREM StopsHold == Spec => []StoppedRunStaysStopped
<1>1. IInv => StoppedRunStaysStopped
  BY DEF IInv, StopFits, StoppedRunStaysStopped, HasOpenWork
<1> QED
  BY <1>1, Invariance, PTL

(* Only the owner of the run completes a task, for its own child of the     *)
(* current attempt, which has exited, crashes or not.                       *)
THEOREM OwnersComplete == Spec => CompletedByOwner
<1> DEFINE Completes(t) == phase'[t] = "Completed" /\ phase[t] # "Completed"
           ByOwner(t) ==
             \E m \in Managers, c \in launched \ alive :
               /\ lock = m /\ c.manager = m /\ tracked[m][owner[t]] = c
               /\ c.task = t /\ c.worker = owner[t] /\ c.attempt = attempts[t]
<1>1. ASSUME IInv, [Next]_vars
      PROVE  \A t \in Tasks : Completes(t) => ByOwner(t)
  <2> SUFFICES ASSUME NEW t \in Tasks, Completes(t)
               PROVE  ByOwner(t)
    OBVIOUS
  <2>1. TypeOK /\ ControlFits /\ TasksFit /\ phase' # phase /\ Next
    BY <1>1 DEF IInv, vars, ledger
  <2>2. ~LedgerStep /\ ~ControlStep
    BY <2>1, MovesCompleteNothing DEF LedgerStep, ControlStep, ledger
  <2>3. ASSUME NEW m \in Managers, NEW outcome \in Outcomes, Finalize(m, outcome)
        PROVE  ByOwner(t)
    <3> DEFINE c == current[m]
    <3>1. /\ c \in launched \ alive /\ c.manager = m /\ lock = m
          /\ tracked[m][c.worker] = c /\ c.task \in Tasks
          /\ IsCurrent(c) /\ phase' = [phase EXCEPT ![c.task] = outcome]
      BY <1>1, <2>1, <2>3, FinalizeParts
    <3>2. c.task = t
      BY <2>1, <3>1 DEF TypeOK
    <3> HIDE DEF c
    <3> QED
      BY <3>1, <3>2 DEF IsCurrent
  <2>4. ASSUME NEW m \in Managers, ExecutorStep(m) \/ Crash(m)
        PROVE  \E outcome \in Outcomes : Finalize(m, outcome)
    BY <2>1, <2>4
    DEF ExecutorStep, PlanLaunches, Launch, Confirm, EndLaunch, Fence, PollRunning,
        PollExited, Crash, ledger
  <2>5. ASSUME NEW c \in Children
        PROVE  ~ChildExits(c)
    BY <2>1 DEF ChildExits, ledger
  <2> QED
    BY <2>1, <2>2, <2>3, <2>4, <2>5, StepKinds
<1> QED
  BY <1>1, Invariance, PTL DEF Spec, CompletedByOwner

(* Where managers do not crash, competing managers launch each leased       *)
(* attempt at most once, whatever operators do to it meanwhile.             *)
THEOREM AttemptsAreLaunchedOnce == ASSUME MaxCrashes = 0 PROVE Spec => LaunchedOnce
<1> DEFINE Fresh(m) == \A c \in launched :
                         ~(c.task = current'[m].task /\ c.attempt = current'[m].attempt)
<1>1. ASSUME IInv, [Next]_vars, NEW m \in Managers, pc[m] = "launch", pc'[m] = "confirm"
      PROVE  Fresh(m)
  <2>1. TypeOK /\ ControlFits /\ TasksFit /\ Next /\ crashes = 0
    BY <1>1, BoundsAssumption DEF IInv, vars, TypeOK
  <2>2. ~LedgerStep /\ ~ControlStep
    BY <1>1 DEF LedgerStep, ControlStep, Busy, Launching
  <2>3. ASSUME NEW l \in Leases, Launch(m, l)
        PROVE  Fresh(m)
    <3>1. l \in plan[m] /\ tracked[m][l.worker] = NoChild
          /\ current'[m].task = l.task /\ current'[m].attempt = l.attempt
      BY <1>1, <2>1, <2>3 DEF Launch, CanLaunch, TypeOK
    <3> QED
      BY <1>1, <2>1, <3>1 DEF IInv, ExecutorFits, ProcessesFit, Launching
  <2>4. ASSUME NEW n \in Managers, ExecutorStep(n) \/ Crash(n)
        PROVE  \E l \in Leases : Launch(m, l)
    BY <1>1, <2>1, <2>4, ExecutorParts
    DEF ExecutorStep, PlanLaunches, Launch, Confirm, EndLaunch, Fence, PollRunning,
        PollExited, Finalize, Crash, Move, GoTo
  <2>5. ASSUME NEW c \in Children
        PROVE  ~ChildExits(c)
    BY <1>1 DEF ChildExits
  <2> QED
    BY <2>1, <2>2, <2>3, <2>4, <2>5, StepKinds
<1>2. IInv /\ [Next]_vars =>
        [\A m \in Managers : pc[m] = "launch" /\ pc'[m] = "confirm" => Fresh(m)]_vars
  BY <1>1
<1> QED
  BY <1>2, Invariance, PTL DEF Spec, LaunchedOnce
=============================================================================
