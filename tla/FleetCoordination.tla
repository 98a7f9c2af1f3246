-------------------------- MODULE FleetCoordination --------------------------
(***************************************************************************)
(* The fleet runs of one Runtime API server, and the coordination registry *)
(* of tools/subagent that admits their writers.                            *)
(*                                                                         *)
(* The registry keeps one record per logical worker: the task and launch   *)
(* generation it was registered for, which also is its write claim, and a  *)
(* status projected from the ledger.  A claim takes part in overlap checks *)
(* while the status is not terminal.  Registration is persisted before the *)
(* ledger transaction it belongs to is appended; both locks are held in    *)
(* between, so nobody interleaves, but the server can crash there.         *)
(*                                                                         *)
(* Each run has a driver (run_to_completion) that repeats reconcile,       *)
(* schedule, launch and drive.  Read-only tasks overlap with nothing.      *)
(***************************************************************************)
EXTENDS Naturals, FiniteSets

CONSTANTS
  Runs, Tasks, Workers,
  Priority,       \* a queue position for every task
  NoWorker, NoRecord, NoChild, Idle,
  MaxAttempts,    \* bound: attempts of a task
  Scenarios       \* what may happen: each behaviour is one of these

ASSUME AttemptAssumption == MaxAttempts \in Nat \ {0}
ASSUME PriorityAssumption == Priority \in [Tasks -> Nat]

(* A fleet (the run of every task and worker, the pairs {t, u} of tasks      *)
(* whose write claims overlap) and bounds: crashes and failing appends,     *)
(* reconciliations skipped since the lock was busy, restarts of leased      *)
(* tasks (resume, restart_worker) and of settled ones (restart_worker).     *)
ASSUME ScenarioAssumption ==
  /\ Scenarios \subseteq
       [run_of: [Tasks \cup Workers -> Runs], overlap: SUBSET SUBSET Tasks,
        crashes: Nat, busy: Nat, restarts: Nat, revivals: Nat]
  /\ \A s \in Scenarios : \A pair \in s.overlap : Cardinality(pair) = 2

VARIABLES
  tasks,      \* the ledger's view of every task
  record,     \* record[w]: the registry's record of w
  pending,    \* the registration whose ledger transaction is under way
  pc,         \* pc[r]: the step the driver of r is at
  plan,       \* plan[r]: leases the driver of r read and has still to launch
  tracked,    \* tracked[w]: the child the executor tracks for w
  used        \* the scenario, and how much of its bounds is used up

vars == <<tasks, record, pending, pc, plan, tracked, used>>

Outcomes == {"Completed", "Failed", "Cancelled"}
Terminal == Outcomes \cup {"Interrupted"}
RunOf(x) == used.scenario.run_of[x]
Overlap == used.scenario.overlap

Leases == [task: Tasks, worker: Workers, attempt: 1..MaxAttempts]
Records ==
  [task: Tasks, generation: 1..(MaxAttempts + 1),
   status: {"Starting", "Running"} \cup Terminal]

Registrations ==
  [kind: {"start", "restart"}, task: Tasks, worker: Workers, before: Records \cup {NoRecord}]

ASSUME AbsentAssumption ==
  /\ NoWorker \notin Workers
  /\ NoRecord \notin Records /\ NoChild \notin Leases /\ Idle \notin Registrations

TypeOK ==
  /\ tasks \in [Tasks -> [status: {"Enqueued", "Leased"} \cup Outcomes,
                          leased_to: Workers \cup {NoWorker},
                          attempts: 0..MaxAttempts,
                          lifecycle_seq: Nat]]
  /\ record \in [Workers -> Records \cup {NoRecord}]
  /\ pending \in Registrations \cup {Idle}
  /\ pc \in [Runs -> {"reconcile", "schedule", "launch", "drive"}]
  /\ plan \in [Runs -> SUBSET Leases]
  /\ tracked \in [Workers -> Leases \cup {NoChild}]
  /\ \A b \in {"crashes", "busy", "restarts", "revivals"} : used[b] \in 0..used.scenario[b]

Init ==
  /\ tasks = [t \in Tasks |-> [status |-> "Enqueued", leased_to |-> NoWorker,
                               attempts |-> 0, lifecycle_seq |-> 1]]
  /\ record = [w \in Workers |-> NoRecord]
  /\ pending = Idle
  /\ pc = [r \in Runs |-> "reconcile"]
  /\ plan = [r \in Runs |-> {}]
  /\ tracked = [w \in Workers |-> NoChild]
  /\ used \in [crashes: {0}, busy: {0}, restarts: {0}, revivals: {0}, scenario: Scenarios]

Use(b) == used[b] < used.scenario[b] /\ used' = [used EXCEPT ![b] = @ + 1]
GoTo(r, step) == pc' = [pc EXCEPT ![r] = step]
At(r, step) == pending = Idle /\ pc[r] = step

(***************************************************************************)
(* The ledger.                                                             *)
(***************************************************************************)
HoldsLease(t, w) == tasks[t].status = "Leased" /\ tasks[t].leased_to = w
IsCurrent(l) == HoldsLease(l.task, l.worker) /\ tasks[l.task].attempts = l.attempt

CurrentLease(t) == [task |-> t, worker |-> tasks[t].leased_to, attempt |-> tasks[t].attempts]
LeasedBy(r) == {t \in Tasks : RunOf(t) = r /\ tasks[t].status = "Leased"}

Leased(t, w) ==
  [status |-> "Leased", leased_to |-> w, attempts |-> tasks[t].attempts + 1,
   lifecycle_seq |-> tasks[t].lifecycle_seq + 1]

Settle(t, outcome) ==
  tasks' = [tasks EXCEPT ![t].status = outcome, ![t].lifecycle_seq = @ + 1]

(***************************************************************************)
(* The registry.                                                           *)
(***************************************************************************)
(* active_coordination_owners: headless workers with a live record. *)
IsActiveOwner(w) == record[w] # NoRecord /\ record[w].status \notin Terminal

AdmitAnyClaim(t, w) == TRUE   \* fault: overlaps are not looked for

(* register_claim: the claim of t for w against those of other live owners. *)
Admissible(t, w) ==
  \A v \in Workers \ {w} : IsActiveOwner(v) => {t, record[v].task} \notin Overlap

(* The task a worker's status is projected from: of all it ever held, one   *)
(* with the largest lifecycle_seq (equals are decided by the task's name).  *)
Held(w) == {t \in Tasks : tasks[t].leased_to = w}
LatestHeld(w) ==
  {t \in Held(w) : \A u \in Held(w) : tasks[u].lifecycle_seq <= tasks[t].lifecycle_seq}

SettledNotProjected(t) ==   \* fault: a cancelled task still counts as running
  IF tasks[t].status \in {"Leased", "Cancelled"} THEN "Running" ELSE tasks[t].status

StatusOf(t) == IF tasks[t].status = "Leased" THEN "Running" ELSE tasks[t].status

Reconcile(r) ==
  /\ At(r, "reconcile")
  /\ \E current \in [Workers -> Tasks] :
       /\ \A w \in Workers : LatestHeld(w) # {} => current[w] \in LatestHeld(w)
       /\ record' = [w \in Workers |->
            IF record[w] = NoRecord \/ LatestHeld(w) = {} THEN record[w]
            ELSE [record[w] EXCEPT !.status = StatusOf(current[w])]]
  /\ GoTo(r, "schedule")
  /\ UNCHANGED <<tasks, pending, plan, tracked, used>>

(* try_write fails: another request holds the registry. *)
SkipReconcile(r) ==
  /\ At(r, "reconcile")
  /\ Use("busy")
  /\ GoTo(r, "schedule")
  /\ UNCHANGED <<tasks, record, pending, plan, tracked>>

(***************************************************************************)
(* start_worker_task: admission, registration, then the lease.             *)
(***************************************************************************)
Queued(r) == {t \in Tasks : RunOf(t) = r /\ tasks[t].status = "Enqueued"}
NextTask(r) == CHOOSE t \in Queued(r) : \A u \in Queued(r) : Priority[t] <= Priority[u]
IsIdle(w) == tracked[w] = NoChild /\ \A t \in Tasks : ~HoldsLease(t, w)
IdleWorkers(r) == {w \in Workers : RunOf(w) = r /\ IsIdle(w)}

Register(r, w) ==
  LET t == NextTask(r) IN
  /\ At(r, "schedule")
  /\ Queued(r) # {} /\ w \in IdleWorkers(r)
  /\ Admissible(t, w)
  /\ record' = [record EXCEPT ![w] = [task |-> t, generation |-> tasks[t].attempts + 1,
                                      status |-> "Starting"]]
  /\ pending' = [kind |-> "start", task |-> t, worker |-> w, before |-> record[w]]
  /\ UNCHANGED <<tasks, pc, plan, tracked, used>>

(* Nothing to start, or the claim is refused for the worker that was chosen: *)
(* the task stays queued.                                                  *)
EndSchedule(r) ==
  /\ At(r, "schedule")
  /\ Queued(r) # {} /\ IdleWorkers(r) # {} =>
       \E w \in IdleWorkers(r) : ~Admissible(NextTask(r), w)
  /\ GoTo(r, "launch")
  /\ plan' = [plan EXCEPT ![r] = {CurrentLease(t) : t \in LeasedBy(r)}]
  /\ UNCHANGED <<tasks, record, pending, tracked, used>>

(* The ledger's batch is durable. *)
Commit ==
  /\ pending # Idle
  /\ tasks' = [tasks EXCEPT ![pending.task] = Leased(pending.task, pending.worker)]
  /\ pending' = Idle
  /\ UNCHANGED <<record, pc, plan, tracked, used>>

(* The append fails: a registration is rolled back, a prepared generation   *)
(* stays.                                                                  *)
AppendFails ==
  /\ pending # Idle
  /\ Use("crashes")
  /\ record' = IF pending.kind = "start"
               THEN [record EXCEPT ![pending.worker] = pending.before] ELSE record
  /\ pending' = Idle
  /\ UNCHANGED <<tasks, pc, plan, tracked>>

(***************************************************************************)
(* restart_worker and resume_run: the next generation, then the new lease. *)
(***************************************************************************)
AdvanceAgain(w) ==   \* fault: a prepared generation is advanced once more
  record' = [record EXCEPT ![w].generation = @ + 1]

KeepGeneration(w) == UNCHANGED record   \* fault: the generation is not advanced

(* prepare_registered_restart_generation: advance the current generation,   *)
(* consume a prepared one, refuse everything else.                         *)
PrepareGeneration(w) ==
  LET current == tasks[record[w].task].attempts IN
  \/ record[w].generation = current /\ record' = [record EXCEPT ![w].generation = current + 1]
  \/ record[w].generation = current + 1 /\ UNCHANGED record

Prepare(t, w) ==
  /\ pending = Idle
  /\ tasks[t].leased_to = w /\ tasks[t].attempts < MaxAttempts
  /\ \A u \in Tasks \ {t} : ~HoldsLease(u, w)
  /\ record[w] # NoRecord /\ record[w].task = t
  /\ PrepareGeneration(w)
  /\ pending' = [kind |-> "restart", task |-> t, worker |-> w, before |-> record[w]]
  /\ UNCHANGED <<tasks, pc, plan, tracked>>

RestartActive(t, w) == HoldsLease(t, w) /\ Use("restarts") /\ Prepare(t, w)

RestartSettled(t, w) == tasks[t].status \in Outcomes /\ Use("revivals") /\ Prepare(t, w)

(***************************************************************************)
(* start_leased_workers, drive_executor_tick and operator cancellation.    *)
(***************************************************************************)
MatchesTask(l) == record[l.worker] # NoRecord /\ record[l.worker].task = l.task   \* fault: any generation

(* validate_registered_launch_spec: exactly this task and attempt. *)
IsRegistered(l) ==
  /\ record[l.worker] # NoRecord
  /\ record[l.worker].task = l.task /\ record[l.worker].generation = l.attempt

Launch(r, l) ==
  /\ At(r, "launch")
  /\ plan' = [plan EXCEPT ![r] = @ \ {l}]
  /\ tracked[l.worker] = NoChild /\ IsRegistered(l)
  /\ IF IsCurrent(l) THEN tracked' = [tracked EXCEPT ![l.worker] = l] ELSE UNCHANGED tracked
  /\ UNCHANGED <<tasks, record, pending, pc, used>>

AlreadyTracked(r, l) ==
  /\ At(r, "launch") /\ tracked[l.worker] # NoChild
  /\ plan' = [plan EXCEPT ![r] = @ \ {l}]
  /\ UNCHANGED <<tasks, record, pending, pc, tracked, used>>

(* Preparation fails on the registration: the attempt is recorded as failed *)
(* if it is still the current one.                                          *)
LaunchFails(r, l) ==
  /\ At(r, "launch")
  /\ plan' = [plan EXCEPT ![r] = @ \ {l}]
  /\ tracked[l.worker] = NoChild /\ ~IsRegistered(l)
  /\ IF IsCurrent(l) THEN Settle(l.task, "Failed") ELSE UNCHANGED tasks
  /\ UNCHANGED <<record, pending, pc, tracked, used>>

EndLaunch(r) ==
  /\ At(r, "launch") /\ plan[r] = {}
  /\ GoTo(r, "drive")
  /\ UNCHANGED <<tasks, record, pending, plan, tracked, used>>

(* The child exited and its attempt is current, or it was superseded. *)
Finalize(r, w, outcome) ==
  /\ At(r, "drive") /\ RunOf(w) = r /\ tracked[w] # NoChild
  /\ tracked' = [tracked EXCEPT ![w] = NoChild]
  /\ IF IsCurrent(tracked[w]) THEN Settle(tracked[w].task, outcome) ELSE UNCHANGED tasks
  /\ UNCHANGED <<record, pending, pc, plan, used>>

EndDrive(r) ==
  /\ At(r, "drive")
  /\ GoTo(r, "reconcile")
  /\ UNCHANGED <<tasks, record, pending, plan, tracked, used>>

(* interrupt_worker, stop_run: any open task. *)
Cancel(t) ==
  /\ pending = Idle
  /\ tasks[t].status \in {"Enqueued", "Leased"}
  /\ Settle(t, "Cancelled")
  /\ UNCHANGED <<record, pending, pc, plan, tracked, used>>

(* The server crashes and is started again; the batch under way is lost (or *)
(* was written: that is Commit).  load_state turns live records Interrupted *)
(* and the runs are driven again.                                          *)
Crash ==
  /\ Use("crashes")
  /\ record' = [w \in Workers |->
       IF IsActiveOwner(w) THEN [record[w] EXCEPT !.status = "Interrupted"] ELSE record[w]]
  /\ pending' = Idle
  /\ pc' = [r \in Runs |-> "reconcile"]
  /\ plan' = [r \in Runs |-> {}]
  /\ tracked' = [w \in Workers |-> NoChild]
  /\ UNCHANGED tasks

DriverStep(r) ==
  \/ Reconcile(r) \/ SkipReconcile(r)
  \/ \E w \in Workers : Register(r, w)
  \/ EndSchedule(r)
  \/ \E l \in plan[r] : Launch(r, l) \/ AlreadyTracked(r, l) \/ LaunchFails(r, l)
  \/ EndLaunch(r) \/ EndDrive(r)

ChildExits(w) == \E outcome \in Outcomes : Finalize(RunOf(w), w, outcome)

Next ==
  \/ \E r \in Runs : DriverStep(r)
  \/ \E w \in Workers : ChildExits(w)
  \/ Commit \/ AppendFails \/ Crash
  \/ \E t \in Tasks, w \in Workers : RestartActive(t, w) \/ RestartSettled(t, w)
  \/ \E t \in Tasks : Cancel(t)

Spec == Init /\ [][Next]_vars

(* Drivers tick, the append of a transaction comes to an end, and a child   *)
(* does not run for ever.                                                  *)
Fairness ==
  /\ \A r \in Runs : WF_vars(DriverStep(r))
  /\ WF_vars(Commit)
  /\ \A w \in Workers : SF_vars(ChildExits(w))

FairSpec == Spec /\ Fairness

(***************************************************************************)
(* Properties.                                                             *)
(***************************************************************************)
(* Active overlapping shared claims fail before mutation (docs/SUBAGENTS.md *)
(* 184): two tasks that overlap are never leased at once.  Not so after a   *)
(* skipped reconciliation or the restart of a settled task, nor when a      *)
(* worker has a second task: LatestHeld can name its first one.             *)
ExclusiveWriters ==
  used.busy = 0 /\ used.revivals = 0 =>
  \A t, u \in Tasks :
    tasks[t].status = "Leased" /\ tasks[u].status = "Leased" => {t, u} \notin Overlap

(* The registry never falls behind the ledger nor runs ahead by more than    *)
(* the one generation a restart prepares, whatever crash or failed append   *)
(* separates the two: the leased task of a worker is the one registered for *)
(* it, at its attempt or the next.                                         *)
LeaseIsRegistered ==
  \A w \in Workers, t \in Tasks :
    HoldsLease(t, w) =>
      /\ record[w] # NoRecord /\ record[w].task = t
      /\ record[w].generation \in {tasks[t].attempts, tasks[t].attempts + 1}

(* Registry and ledger fit together, and the types. *)
RegistryInv == TypeOK /\ LeaseIsRegistered

(* A process always runs under the registration of exactly its attempt: as   *)
(* long as the attempt is current, the registry says the same or prepares   *)
(* its successor; and it never was launched from a prepared one.            *)
ChildIsRegistered ==
  [][\A w \in Workers :
       tracked'[w] # NoChild /\ tracked'[w] # tracked[w] =>
         /\ record[w].task = tracked'[w].task
         /\ record[w].generation = tracked'[w].attempt
         /\ tasks[tracked'[w].task].attempts = tracked'[w].attempt]_vars

(* The registration check fails a current attempt only when a restart of it  *)
(* was prepared and then lost in a crash or a failed append, never because  *)
(* of restarts and launches that interleave.                               *)
FailsOnlyIfPrepared ==
  [][\A r \in Runs : \A l \in plan[r] :
       LaunchFails(r, l) /\ tasks[l.task].status # tasks'[l.task].status =>
         used.crashes > 0 /\ record[l.worker].generation = l.attempt + 1]_vars

(* A writer that is refused since its claim overlaps is started, or          *)
(* cancelled, after the other one is done: a finished claim is let go, and  *)
(* in the end nothing is queued.                                            *)
ContendedWorkStarts == []<>(\A t \in Tasks : tasks[t].status # "Enqueued")
=============================================================================
