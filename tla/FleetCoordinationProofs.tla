---------------------- MODULE FleetCoordinationProofs ----------------------
(***************************************************************************)
(* Proofs about FleetCoordination: registry and ledger fit together across  *)
(* crashes, failed appends and restarts, for any number of runs, tasks and  *)
(* workers; and writers exclude each other where every run has one task.    *)
(***************************************************************************)
EXTENDS FleetCoordination, FiniteSetTheorems, WellFoundedInduction, TLAPS

Bounds == {"crashes", "busy", "restarts", "revivals"}

UsedFits ==
  used \in [crashes: Nat, busy: Nat, restarts: Nat, revivals: Nat, scenario: Scenarios]

(* A queued task has had no attempt, a leased one has had one on a worker   *)
(* that has no other.                                                       *)
TasksFit ==
  /\ \A t \in Tasks :
       /\ tasks[t].status = "Enqueued" => tasks[t].attempts = 0 /\ tasks[t].leased_to = NoWorker
       /\ tasks[t].status = "Leased" => tasks[t].leased_to \in Workers /\ tasks[t].attempts > 0
  /\ \A t, u \in Tasks, w \in Workers : HoldsLease(t, w) /\ HoldsLease(u, w) => t = u

(* The transaction under way is the one that was registered: nothing else   *)
(* moves until it is appended or lost.                                      *)
PendingFits ==
  pending # Idle =>
    LET t == pending.task
        w == pending.worker
    IN
    /\ \A u \in Tasks \ {t} : ~HoldsLease(u, w)
    /\ record[w] # NoRecord /\ record[w].task = t
    /\ record[w].generation = tasks[t].attempts + 1
    /\ tasks[t].attempts < MaxAttempts
    /\ pending.kind = "start" => tasks[t].status = "Enqueued"
    /\ pending.kind = "restart" => tasks[t].leased_to = w

(* Without a crash or a failed append a generation is ahead of its attempt  *)
(* only while the append is under way.                                      *)
GenerationFits ==
  used.crashes = 0 =>
    \A w \in Workers, t \in Tasks :
      HoldsLease(t, w) /\ (pending # Idle => pending.worker # w) =>
        record[w].generation = tasks[t].attempts

CInv == RegistryInv /\ UsedFits /\ TasksFit /\ PendingFits /\ GenerationFits

(***************************************************************************)
(* Writers, where a run whose claims may overlap has a single task.        *)
(***************************************************************************)
OneTaskPerRun ==
  \A s \in Scenarios :
    s.overlap = {} \/ \A t, u \in Tasks : s.run_of[t] = s.run_of[u] => t = u

(* A worker only ever takes a task of its run.                              *)
RunsFit ==
  /\ \A t \in Tasks, w \in Workers : tasks[t].leased_to = w => RunOf(t) = RunOf(w)
  /\ pending # Idle => RunOf(pending.task) = RunOf(pending.worker)

IsLive(w) == record[w].status \in {"Starting", "Running"}

(* With every reconciliation done and no settled task restarted, the holder *)
(* of a lease has a live record, except after a crash until the first       *)
(* reconciliation, before any run schedules.  A claim that was admitted     *)
(* overlaps with none that is held.                                         *)
WritersFit ==
  used.busy = 0 /\ used.revivals = 0 /\ Overlap # {} =>
    /\ \A t \in Tasks, w \in Workers :
         HoldsLease(t, w) => IsLive(w) \/ \A r \in Runs : pc[r] = "reconcile"
    /\ pending # Idle =>
         /\ pending.kind = "restart" => HoldsLease(pending.task, pending.worker)
         /\ pending.kind = "start" =>
              /\ IsLive(pending.worker)
              /\ \A u \in Tasks : tasks[u].status = "Leased" => {pending.task, u} \notin Overlap

WInv == CInv /\ RunsFit /\ WritersFit /\ ExclusiveWriters

(***************************************************************************)
(* The scheduler's choice.                                                 *)
(***************************************************************************)
LEMMA LeastNatural ==
  ASSUME NEW S, S \subseteq Nat, S # {} PROVE \E x \in S : \A y \in S : x <= y
<1> DEFINE Less == {p \in Nat \X Nat : p[1] < p[2]}
<1>1. IsWellFoundedOn(Less, Nat)
  BY NatLessThanWellFounded DEF OpToRel
<1> HIDE DEF Less
<1>2. \E x \in S : \A y \in S : <<y, x>> \notin Less
  BY <1>1, WFMin, Zenon
<1>3. ASSUME NEW x \in S, NEW y \in S, <<y, x>> \notin Less
      PROVE  x <= y
  <2>1. <<y, x>> \in Nat \X Nat /\ <<y, x>>[1] = y /\ <<y, x>>[2] = x
    OBVIOUS
  <2>2. ~(y < x)
    BY <1>3, <2>1 DEF Less
  <2> QED
    BY <2>2
<1> QED
  BY <1>2, <1>3

(* The head of the queue is a queued task of the run.                       *)
LEMMA NextIsQueued ==
  ASSUME NEW r \in Runs, Queued(r) # {} PROVE NextTask(r) \in Queued(r)
<1> DEFINE S == {Priority[t] : t \in Queued(r)}
<1>1. S \subseteq Nat /\ S # {} /\ Queued(r) \subseteq Tasks
  BY PriorityAssumption DEF Queued
<1>2. PICK x \in S : \A y \in S : x <= y
  BY <1>1, LeastNatural
<1>3. \E t \in Queued(r) : \A u \in Queued(r) : Priority[t] <= Priority[u]
  BY <1>2
<1> QED
  BY <1>3 DEF NextTask

(***************************************************************************)
(* Types and bounds.                                                       *)
(***************************************************************************)
LEMMA UseFits ==
  ASSUME UsedFits, TypeOK, NEW b \in Bounds, Use(b)
  PROVE  /\ UsedFits'
         /\ \A x \in Bounds : used'[x] \in 0..used'.scenario[x]
         /\ used'.scenario = used.scenario
         /\ used'[b] = used[b] + 1 /\ \A x \in Bounds \ {b} : used'[x] = used[x]
<1> USE DEF Bounds
<1>1. /\ used' = [used EXCEPT ![b] = @ + 1] /\ used[b] < used.scenario[b]
      /\ \A x \in Bounds : used[x] \in 0..used.scenario[x] /\ used.scenario[x] \in Nat
      /\ DOMAIN used = Bounds \cup {"scenario"}
  BY ScenarioAssumption DEF Use, TypeOK, UsedFits
<1>2. /\ used'.scenario = used.scenario
      /\ used'[b] = used[b] + 1 /\ \A x \in Bounds \ {b} : used'[x] = used[x]
  BY <1>1
<1>3. UsedFits'
  BY <1>1 DEF UsedFits
<1> QED
  BY <1>1, <1>2, <1>3

(* The facts about absent values and about the state that the steps below   *)
(* start from.                                                              *)
LEMMA CoordinationParts ==
  ASSUME CInv
  PROVE  /\ tasks \in [Tasks -> [status: {"Enqueued", "Leased"} \cup Outcomes,
                                 leased_to: Workers \cup {NoWorker},
                                 attempts: 0..MaxAttempts, lifecycle_seq: Nat]]
         /\ \A t \in Tasks : tasks[t].attempts \in Nat /\ tasks[t].lifecycle_seq \in Nat
         /\ record \in [Workers -> Records \cup {NoRecord}]
         /\ pending \in Registrations \cup {Idle}
         /\ pc \in [Runs -> {"reconcile", "schedule", "launch", "drive"}]
         /\ plan \in [Runs -> SUBSET Leases]
         /\ tracked \in [Workers -> Leases \cup {NoChild}]
         /\ \A b \in Bounds : used[b] \in 0..used.scenario[b]
         /\ MaxAttempts \in Nat \ {0}
         /\ NoWorker \notin Workers /\ NoRecord \notin Records
         /\ NoChild \notin Leases /\ Idle \notin Registrations
BY AttemptAssumption, AbsentAssumption DEF CInv, RegistryInv, TypeOK, Bounds

(***************************************************************************)
(* Registry and ledger.                                                    *)
(***************************************************************************)
FitTogether == LeaseIsRegistered /\ UsedFits /\ TasksFit /\ PendingFits /\ GenerationFits

(* The invariant at first. *)
LEMMA CoordinationInit == ASSUME Init PROVE CInv
<1>1. /\ used \in [crashes: Nat, busy: Nat, restarts: Nat, revivals: Nat, scenario: Scenarios]
      /\ \A b \in Bounds : used[b] = 0
  BY DEF Init, Bounds
<1>2. \A b \in Bounds : used.scenario[b] \in Nat
  BY <1>1, ScenarioAssumption DEF Bounds
<1>3. TypeOK
  BY <1>1, <1>2, AttemptAssumption DEF Init, TypeOK, Bounds
<1>4. FitTogether
  BY <1>1
  DEF Init, FitTogether, LeaseIsRegistered, UsedFits, TasksFit, PendingFits, GenerationFits,
      HoldsLease
<1> QED
  BY <1>3, <1>4 DEF CInv, RegistryInv, FitTogether

(* A step of a driver that touches neither the ledger nor the registry.     *)
LEMMA NothingMoves ==
  ASSUME CInv, UNCHANGED <<tasks, record, pending, used>> PROVE FitTogether'
BY DEF CInv, RegistryInv, FitTogether, LeaseIsRegistered, UsedFits, TasksFit, PendingFits,
   GenerationFits, HoldsLease

(* The end of an attempt, or of a queued task.                              *)
LEMMA SettleFits ==
  ASSUME CInv, NEW t \in Tasks, NEW outcome \in Outcomes, pending = Idle,
         Settle(t, outcome), UNCHANGED <<record, pending, used>>
  PROVE  /\ tasks' \in [Tasks -> [status: {"Enqueued", "Leased"} \cup Outcomes,
                                  leased_to: Workers \cup {NoWorker},
                                  attempts: 0..MaxAttempts, lifecycle_seq: Nat]]
         /\ FitTogether'
<1> USE CoordinationParts
<1>0. tasks' = [tasks EXCEPT ![t].status = outcome, ![t].lifecycle_seq = @ + 1]
  BY DEF Settle
<1>1. /\ tasks'[t].status = outcome /\ tasks'[t].leased_to = tasks[t].leased_to
      /\ tasks'[t].attempts = tasks[t].attempts
      /\ \A u \in Tasks \ {t} : tasks'[u] = tasks[u]
      /\ outcome \notin {"Enqueued", "Leased"}
  BY <1>0 DEF Outcomes
<1>2. tasks' \in [Tasks -> [status: {"Enqueued", "Leased"} \cup Outcomes,
                            leased_to: Workers \cup {NoWorker},
                            attempts: 0..MaxAttempts, lifecycle_seq: Nat]]
  BY <1>0
<1>3. \A u \in Tasks, w \in Workers : HoldsLease(u, w)' => HoldsLease(u, w) /\ u # t
  BY <1>1 DEF HoldsLease
<1>4. LeaseIsRegistered' /\ GenerationFits'
  BY <1>1, <1>3 DEF CInv, RegistryInv, LeaseIsRegistered, GenerationFits
<1>5. TasksFit'
  BY <1>1, <1>3 DEF CInv, TasksFit
<1>6. PendingFits' /\ UsedFits'
  BY DEF CInv, PendingFits, UsedFits
<1> QED
  BY <1>2, <1>4, <1>5, <1>6 DEF FitTogether

(* reconcile_task_status writes records that follow the ledger. *)
LEMMA ReconcileFits ==
  ASSUME CInv, NEW r \in Runs, Reconcile(r) PROVE CInv'
<1> USE CoordinationParts
<1>0. /\ pending = Idle /\ pc' = [pc EXCEPT ![r] = "schedule"]
      /\ UNCHANGED <<tasks, pending, plan, tracked, used>>
  BY DEF Reconcile, At, GoTo
<1>1. PICK current \in [Workers -> Tasks] :
        /\ \A w \in Workers : LatestHeld(w) # {} => current[w] \in LatestHeld(w)
        /\ record' = [w \in Workers |->
                        IF record[w] = NoRecord \/ LatestHeld(w) = {} THEN record[w]
                        ELSE [record[w] EXCEPT !.status = StatusOf(current[w])]]
  BY DEF Reconcile
<1>2. ASSUME NEW w \in Workers
      PROVE  /\ record[w] = NoRecord => record'[w] = NoRecord
             /\ record[w] # NoRecord =>
                  /\ record'[w] \in Records
                  /\ record'[w].task = record[w].task
                  /\ record'[w].generation = record[w].generation
  <2>1. CASE record[w] = NoRecord \/ LatestHeld(w) = {}
    BY <1>1, <2>1
  <2>2. CASE record[w] # NoRecord /\ LatestHeld(w) # {}
    <3>1. tasks[current[w]].leased_to = w /\ current[w] \in Tasks
      BY <1>1, <2>2 DEF LatestHeld, Held
    <3>2. StatusOf(current[w]) \in {"Running"} \cup Outcomes
      BY <3>1 DEF StatusOf, CInv, TasksFit
    <3>3. record'[w] = [record[w] EXCEPT !.status = StatusOf(current[w])]
      BY <1>1, <2>2
    <3> QED
      BY <2>2, <3>2, <3>3 DEF Records, Terminal
  <2> QED
    BY <2>1, <2>2
<1>3. TypeOK'
  <2>1. record' \in [Workers -> Records \cup {NoRecord}]
    BY <1>1, <1>2
  <2>2. pc' \in [Runs -> {"reconcile", "schedule", "launch", "drive"}]
    BY <1>0
  <2> QED
    BY <1>0, <2>1, <2>2 DEF TypeOK, CInv, RegistryInv
<1>4. LeaseIsRegistered' /\ GenerationFits'
  BY <1>0, <1>2
  DEF CInv, RegistryInv, LeaseIsRegistered, GenerationFits, HoldsLease
<1>5. TasksFit' /\ PendingFits' /\ UsedFits'
  BY <1>0 DEF CInv, TasksFit, PendingFits, UsedFits, HoldsLease
<1> QED
  BY <1>3, <1>4, <1>5 DEF CInv, RegistryInv

(* The steps of a driver that only go on.                                   *)
LEMMA DriverMovesFit ==
  ASSUME CInv, NEW r \in Runs, SkipReconcile(r) \/ EndLaunch(r) \/ EndDrive(r) PROVE CInv'
<1> USE CoordinationParts
<1>1. /\ pending = Idle /\ UNCHANGED <<tasks, record, pending, plan, tracked>>
      /\ pc' \in [Runs -> {"reconcile", "schedule", "launch", "drive"}]
  BY DEF SkipReconcile, EndLaunch, EndDrive, At, GoTo
<1>2. CASE used' = used
  <2>1. TypeOK'
    BY <1>1, <1>2 DEF CInv, RegistryInv, TypeOK
  <2> QED
    BY <1>1, <1>2, <2>1, NothingMoves DEF CInv, RegistryInv, FitTogether
<1>3. CASE Use("busy")
  <2>1. /\ UsedFits' /\ \A b \in Bounds : used'[b] \in 0..used'.scenario[b]
        /\ used'.crashes = used.crashes
    BY <1>3, UseFits DEF CInv, RegistryInv, Bounds
  <2>2. TypeOK'
    BY <1>1, <2>1 DEF CInv, RegistryInv, TypeOK, Bounds
  <2>3. LeaseIsRegistered' /\ TasksFit' /\ PendingFits' /\ GenerationFits'
    BY <1>1, <2>1
    DEF CInv, RegistryInv, LeaseIsRegistered, TasksFit, PendingFits, GenerationFits, HoldsLease
  <2> QED
    BY <2>1, <2>2, <2>3 DEF CInv, RegistryInv
<1> QED
  BY <1>2, <1>3 DEF SkipReconcile, EndLaunch, EndDrive

(* A scheduling pass ends with the current leases of the run as its plan. *)
LEMMA EndScheduleFits ==
  ASSUME CInv, NEW r \in Runs, EndSchedule(r) PROVE CInv'
<1> USE CoordinationParts
<1>1. /\ UNCHANGED <<tasks, record, pending, tracked, used>>
      /\ pc' \in [Runs -> {"reconcile", "schedule", "launch", "drive"}]
      /\ plan' = [plan EXCEPT ![r] = {CurrentLease(t) : t \in LeasedBy(r)}]
  BY DEF EndSchedule, At, GoTo
<1>2. \A t \in LeasedBy(r) : CurrentLease(t) \in Leases
  BY DEF LeasedBy, CurrentLease, Leases, CInv, TasksFit
<1>3. plan' \in [Runs -> SUBSET Leases]
  BY <1>1, <1>2
<1>4. TypeOK'
  BY <1>1, <1>3 DEF CInv, RegistryInv, TypeOK
<1> QED
  BY <1>1, <1>4, NothingMoves DEF CInv, RegistryInv, FitTogether

(* The worker that is registered holds no lease.                            *)
LEMMA RegisterFits ==
  ASSUME CInv, NEW r \in Runs, NEW w \in Workers, Register(r, w) PROVE CInv'
<1> DEFINE t == NextTask(r)
           new == [task |-> t, generation |-> tasks[t].attempts + 1, status |-> "Starting"]
<1> USE CoordinationParts
<1>1. t \in Tasks /\ tasks[t].status = "Enqueued" /\ tasks[t].attempts = 0
  BY NextIsQueued DEF Register, Queued, CInv, TasksFit
<1>2. /\ UNCHANGED <<tasks, pc, plan, tracked, used>>
      /\ record' = [record EXCEPT ![w] = new]
      /\ pending' = [kind |-> "start", task |-> t, worker |-> w, before |-> record[w]]
      /\ \A u \in Tasks : ~HoldsLease(u, w)
  BY DEF Register, IdleWorkers, IsIdle
<1> HIDE DEF t
<1>3. new \in Records
  BY <1>1 DEF Records
<1>4. TypeOK'
  <2>1. record' \in [Workers -> Records \cup {NoRecord}] /\ pending' \in Registrations
    BY <1>1, <1>2, <1>3 DEF Registrations
  <2> QED
    BY <1>2, <2>1 DEF CInv, RegistryInv, TypeOK
<1>5. LeaseIsRegistered'
  BY <1>2 DEF CInv, RegistryInv, LeaseIsRegistered, HoldsLease
<1>6. PendingFits'
  <2>1. /\ record'[w] = new /\ record'[w] # NoRecord /\ record'[w].task = t
        /\ record'[w].generation = 0 + 1
        /\ pending'.task = t /\ pending'.worker = w /\ pending'.kind = "start"
    BY <1>1, <1>2, <1>3
  <2>2. \A u \in Tasks : HoldsLease(u, w)' <=> HoldsLease(u, w)
    BY <1>2 DEF HoldsLease
  <2>3. record'[w].generation = tasks'[t].attempts + 1 /\ tasks'[t].attempts < MaxAttempts
    BY <1>1, <1>2, <2>1
  <2>4. \A u \in Tasks \ {t} : ~(tasks'[u].status = "Leased" /\ tasks'[u].leased_to = w)
    BY <1>2, <2>2 DEF HoldsLease
  <2>5. tasks'[t].status = "Enqueued"
    BY <1>1, <1>2
  <2> HIDE DEF new
  <2> QED
    BY <2>1, <2>3, <2>4, <2>5 DEF PendingFits, HoldsLease
<1>7. GenerationFits'
  <2>1. pending = Idle /\ pending'.worker = w
    BY <1>2 DEF Register, At
  <2>2. \A v \in Workers \ {w} : record'[v] = record[v]
    BY <1>2
  <2> QED
    BY <1>2, <2>1, <2>2 DEF CInv, GenerationFits, HoldsLease
<1>8. TasksFit' /\ UsedFits'
  BY <1>2 DEF CInv, TasksFit, UsedFits, HoldsLease
<1> QED
  BY <1>4, <1>5, <1>6, <1>7, <1>8 DEF CInv, RegistryInv

(* What was registered becomes a lease.                                     *)
LEMMA CommitFits == ASSUME CInv, Commit PROVE CInv'
<1> DEFINE t == pending.task
           w == pending.worker
<1> USE CoordinationParts
<1>1. /\ t \in Tasks /\ w \in Workers /\ pending # Idle /\ pending' = Idle
      /\ UNCHANGED <<record, pc, plan, tracked, used>>
      /\ tasks' = [tasks EXCEPT ![t] = Leased(t, w)]
  BY DEF Commit, Registrations
<1>2. /\ \A u \in Tasks \ {t} : ~HoldsLease(u, w)
      /\ record[w] # NoRecord /\ record[w].task = t
      /\ record[w].generation = tasks[t].attempts + 1
      /\ tasks[t].attempts < MaxAttempts
  BY <1>1 DEF CInv, PendingFits
<1> HIDE DEF t, w
<1>3. /\ tasks'[t].status = "Leased" /\ tasks'[t].leased_to = w
      /\ tasks'[t].attempts = tasks[t].attempts + 1
      /\ \A u \in Tasks \ {t} : tasks'[u] = tasks[u]
  BY <1>1 DEF Leased
<1>4. tasks' \in [Tasks -> [status: {"Enqueued", "Leased"} \cup Outcomes,
                            leased_to: Workers \cup {NoWorker},
                            attempts: 0..MaxAttempts, lifecycle_seq: Nat]]
  BY <1>1, <1>2 DEF Leased
<1>5. TypeOK'
  BY <1>1, <1>4 DEF CInv, RegistryInv, TypeOK
<1>6. ASSUME NEW u \in Tasks, NEW v \in Workers, HoldsLease(u, v)'
      PROVE  IF u = t THEN v = w ELSE HoldsLease(u, v) /\ v # w
  BY <1>1, <1>2, <1>3, <1>6 DEF HoldsLease
<1>7. LeaseIsRegistered' /\ GenerationFits'
  <2> SUFFICES ASSUME NEW v \in Workers, NEW u \in Tasks, HoldsLease(u, v)'
               PROVE  /\ record[v] # NoRecord /\ record[v].task = u
                      /\ record[v].generation \in {tasks'[u].attempts, tasks'[u].attempts + 1}
                      /\ used.crashes = 0 => record[v].generation = tasks'[u].attempts
    BY <1>1 DEF LeaseIsRegistered, GenerationFits
  <2>1. CASE u = t
    BY <1>2, <1>3, <1>6, <2>1
  <2>2. CASE u # t
    <3>1. HoldsLease(u, v) /\ v # w /\ tasks'[u] = tasks[u]
      BY <1>3, <1>6, <2>2
    <3>2. /\ record[v] # NoRecord /\ record[v].task = u
          /\ record[v].generation \in {tasks[u].attempts, tasks[u].attempts + 1}
          /\ used.crashes = 0 => record[v].generation = tasks[u].attempts
      BY <3>1 DEF CInv, RegistryInv, LeaseIsRegistered, GenerationFits, w
    <3> QED
      BY <3>1, <3>2
  <2> QED
    BY <2>1, <2>2
<1>8. TasksFit'
  <2>1. ASSUME NEW u \in Tasks
        PROVE  /\ tasks'[u].status = "Enqueued" =>
                    tasks'[u].attempts = 0 /\ tasks'[u].leased_to = NoWorker
               /\ tasks'[u].status = "Leased" =>
                    tasks'[u].leased_to \in Workers /\ tasks'[u].attempts > 0
    BY <1>1, <1>3 DEF CInv, TasksFit
  <2>2. \A u, x \in Tasks, v \in Workers : HoldsLease(u, v)' /\ HoldsLease(x, v)' => u = x
    BY <1>1, <1>2, <1>6 DEF CInv, TasksFit
  <2> QED
    BY <2>1, <2>2 DEF TasksFit
<1>9. PendingFits' /\ UsedFits'
  BY <1>1 DEF CInv, PendingFits, UsedFits
<1> QED
  BY <1>5, <1>7, <1>8, <1>9 DEF CInv, RegistryInv

(* A failed append of a start takes its registration back. *)
LEMMA AppendFailsFits == ASSUME CInv, AppendFails PROVE CInv'
<1> DEFINE w == pending.worker
<1> USE CoordinationParts
<1>1. /\ pending # Idle /\ pending' = Idle /\ w \in Workers
      /\ UNCHANGED <<tasks, pc, plan, tracked>>
      /\ \/ pending.kind = "start" /\ record' = [record EXCEPT ![w] = pending.before]
         \/ pending.kind = "restart" /\ record' = record
  BY DEF AppendFails, Registrations
<1>2. /\ UsedFits' /\ \A b \in Bounds : used'[b] \in 0..used'.scenario[b]
      /\ used'.crashes # 0
  BY UseFits DEF AppendFails, CInv, RegistryInv, Bounds
<1>3. pending.kind = "start" => \A u \in Tasks : ~HoldsLease(u, w)
  BY <1>1 DEF CInv, PendingFits, HoldsLease
<1>4. TypeOK'
  <2>1. record' \in [Workers -> Records \cup {NoRecord}]
    BY <1>1 DEF Registrations
  <2> QED
    BY <1>1, <1>2, <2>1 DEF CInv, RegistryInv, TypeOK, Bounds
<1> HIDE DEF w
<1>5. LeaseIsRegistered'
  BY <1>1, <1>3 DEF CInv, RegistryInv, LeaseIsRegistered, HoldsLease
<1>6. TasksFit' /\ PendingFits' /\ GenerationFits'
  BY <1>1, <1>2 DEF CInv, TasksFit, PendingFits, GenerationFits, HoldsLease
<1> QED
  BY <1>2, <1>4, <1>5, <1>6 DEF CInv, RegistryInv

(* The registered generation is advanced, or was prepared before.           *)
LEMMA PrepareFits ==
  ASSUME CInv, NEW t \in Tasks, NEW w \in Workers, RestartActive(t, w) \/ RestartSettled(t, w)
  PROVE  CInv'
<1> USE CoordinationParts
<1>1. /\ pending = Idle /\ UNCHANGED <<tasks, pc, plan, tracked>>
      /\ tasks[t].leased_to = w /\ tasks[t].attempts < MaxAttempts
      /\ \A u \in Tasks \ {t} : ~HoldsLease(u, w)
      /\ record[w] # NoRecord /\ record[w].task = t /\ PrepareGeneration(w)
      /\ pending' = [kind |-> "restart", task |-> t, worker |-> w, before |-> record[w]]
  BY DEF RestartActive, RestartSettled, Prepare
<1>2. /\ UsedFits' /\ \A b \in Bounds : used'[b] \in 0..used'.scenario[b]
      /\ used'.crashes = used.crashes
  BY UseFits DEF RestartActive, RestartSettled, CInv, RegistryInv, Bounds
<1>3. /\ record' \in [Workers -> Records \cup {NoRecord}]
      /\ record'[w] # NoRecord /\ record'[w].task = t
      /\ record'[w].generation = tasks[t].attempts + 1
      /\ \A v \in Workers \ {w} : record'[v] = record[v]
  <2>1. CASE record' = record /\ record[w].generation = tasks[t].attempts + 1
    BY <1>1, <2>1
  <2>2. CASE record' = [record EXCEPT ![w].generation = tasks[t].attempts + 1]
    <3>1. tasks[t].attempts + 1 \in 1..(MaxAttempts + 1)
      BY <1>1
    <3>2. [record[w] EXCEPT !.generation = tasks[t].attempts + 1] \in Records
      BY <1>1, <3>1 DEF Records
    <3>3. record'[w] = [record[w] EXCEPT !.generation = tasks[t].attempts + 1]
      BY <2>2
    <3>4. record'[w].task = t /\ record'[w].generation = tasks[t].attempts + 1
      BY <1>1, <3>3 DEF Records
    <3> QED
      BY <2>2, <3>2, <3>3, <3>4
  <2> QED
    BY <1>1, <2>1, <2>2 DEF PrepareGeneration
<1>4. TypeOK'
  <2>1. pending' \in Registrations
    BY <1>1 DEF Registrations
  <2> QED
    BY <1>1, <1>2, <1>3, <2>1 DEF CInv, RegistryInv, TypeOK, Bounds
<1>5. LeaseIsRegistered'
  BY <1>1, <1>3 DEF CInv, RegistryInv, LeaseIsRegistered, HoldsLease
<1>6. PendingFits'
  BY <1>1, <1>3 DEF PendingFits, HoldsLease
<1>7. TasksFit' /\ GenerationFits'
  <2>1. pending' # Idle /\ pending'.worker = w
    BY <1>1 DEF Registrations
  <2>2. TasksFit'
    BY <1>1 DEF CInv, TasksFit, HoldsLease
  <2>3. GenerationFits'
    BY <1>1, <1>2, <1>3, <2>1 DEF CInv, GenerationFits, HoldsLease
  <2> QED
    BY <2>2, <2>3
<1> QED
  BY <1>2, <1>4, <1>5, <1>6, <1>7 DEF CInv, RegistryInv

(* A lease of the plan is launched, tracked already, or fails to start. *)
LEMMA LaunchFits ==
  ASSUME CInv, NEW r \in Runs, NEW l \in plan[r],
         Launch(r, l) \/ AlreadyTracked(r, l) \/ LaunchFails(r, l)
  PROVE  CInv'
<1> USE CoordinationParts
<1>1. /\ l \in Leases /\ pending = Idle /\ UNCHANGED <<record, pending, pc, used>>
      /\ plan' \in [Runs -> SUBSET Leases]
  BY DEF Launch, AlreadyTracked, LaunchFails, At
<1>2. tracked' \in [Workers -> Leases \cup {NoChild}]
  BY <1>1 DEF Launch, AlreadyTracked, LaunchFails
<1>3. CASE tasks' = tasks
  BY <1>1, <1>2, <1>3, NothingMoves DEF CInv, RegistryInv, FitTogether, TypeOK
<1>4. CASE Settle(l.task, "Failed")
  <2>1. l.task \in Tasks /\ "Failed" \in Outcomes
    BY <1>1 DEF Leases, Outcomes
  <2> QED
    BY <1>1, <1>2, <1>4, <2>1, SettleFits DEF CInv, RegistryInv, FitTogether, TypeOK
<1> QED
  BY <1>3, <1>4 DEF Launch, AlreadyTracked, LaunchFails

(* The end of a child settles its task. *)
LEMMA FinalizeFits ==
  ASSUME CInv, NEW w \in Workers, NEW outcome \in Outcomes, Finalize(RunOf(w), w, outcome)
  PROVE  CInv'
<1> USE CoordinationParts
<1>1. /\ tracked[w] \in Leases /\ pending = Idle /\ UNCHANGED <<record, pending, pc, plan, used>>
      /\ tracked' \in [Workers -> Leases \cup {NoChild}]
  BY DEF Finalize, At
<1>2. CASE tasks' = tasks
  BY <1>1, <1>2, NothingMoves DEF CInv, RegistryInv, FitTogether, TypeOK
<1>3. CASE Settle(tracked[w].task, outcome)
  <2>1. tracked[w].task \in Tasks
    BY <1>1 DEF Leases
  <2> QED
    BY <1>1, <1>3, <2>1, SettleFits DEF CInv, RegistryInv, FitTogether, TypeOK
<1> QED
  BY <1>2, <1>3 DEF Finalize

(* A cancellation settles a task that may be running. *)
LEMMA CancelFits ==
  ASSUME CInv, NEW t \in Tasks, Cancel(t) PROVE CInv'
<1>1. "Cancelled" \in Outcomes
  BY DEF Outcomes
<1> QED
  BY <1>1, SettleFits DEF Cancel, CInv, RegistryInv, FitTogether, TypeOK

(* A crash forgets the children and interrupts the active records. *)
LEMMA CrashFits == ASSUME CInv, Crash PROVE CInv'
<1> USE CoordinationParts
<1>1. /\ pending' = Idle /\ pc' = [r \in Runs |-> "reconcile"] /\ plan' = [r \in Runs |-> {}]
      /\ tracked' = [w \in Workers |-> NoChild] /\ tasks' = tasks
      /\ record' = [w \in Workers |-> IF IsActiveOwner(w)
                                      THEN [record[w] EXCEPT !.status = "Interrupted"]
                                      ELSE record[w]]
  BY DEF Crash
<1>2. /\ UsedFits' /\ \A b \in Bounds : used'[b] \in 0..used'.scenario[b]
      /\ used'.crashes # 0
  BY UseFits DEF Crash, CInv, RegistryInv, Bounds
<1>3. ASSUME NEW w \in Workers
      PROVE  /\ record'[w] \in Records \cup {NoRecord}
             /\ record[w] # NoRecord =>
                  /\ record'[w] # NoRecord /\ record'[w].task = record[w].task
                  /\ record'[w].generation = record[w].generation
  <2>1. CASE ~IsActiveOwner(w)
    BY <1>1, <2>1
  <2>2. CASE IsActiveOwner(w)
    <3>1. record[w] \in Records /\ record'[w] = [record[w] EXCEPT !.status = "Interrupted"]
      BY <1>1, <2>2 DEF IsActiveOwner
    <3> QED
      BY <3>1 DEF Records, Terminal
  <2> QED
    BY <2>1, <2>2
<1>4. TypeOK'
  <2>1. record' \in [Workers -> Records \cup {NoRecord}]
    BY <1>1, <1>3
  <2> QED
    BY <1>1, <1>2, <2>1 DEF CInv, RegistryInv, TypeOK, Bounds
<1>5. LeaseIsRegistered'
  BY <1>1, <1>3 DEF CInv, RegistryInv, LeaseIsRegistered, HoldsLease
<1>6. TasksFit' /\ PendingFits' /\ GenerationFits'
  BY <1>1, <1>2 DEF CInv, TasksFit, PendingFits, GenerationFits, HoldsLease
<1> QED
  BY <1>2, <1>4, <1>5, <1>6 DEF CInv, RegistryInv

(* Every step keeps the invariant, *)
LEMMA StepFits == ASSUME CInv, [Next]_vars PROVE CInv'
<1>1. ASSUME UNCHANGED vars
      PROVE  CInv'
  <2>1. TypeOK'
    BY <1>1 DEF vars, CInv, RegistryInv, TypeOK
  <2> QED
    BY <1>1, <2>1, NothingMoves DEF vars, CInv, RegistryInv, FitTogether
<1> QED
  BY <1>1, ReconcileFits, DriverMovesFit, RegisterFits, EndScheduleFits, LaunchFits,
     FinalizeFits, CommitFits, AppendFailsFits, CrashFits, PrepareFits, CancelFits
  DEF Next, DriverStep, ChildExits

(* so it always holds. *)
LEMMA CoordinationInvariant == Spec => []CInv
BY CoordinationInit, StepFits, PTL DEF Spec

(* For any number of runs, tasks, workers, crashes and restarts, the types  *)
(* hold, and the leased task of a worker is the one registered for it, at   *)
(* its attempt or the next: a registration is never lost or left behind.    *)
THEOREM RegistryKeepsUp == Spec => []RegistryInv
<1>1. CInv => RegistryInv
  BY DEF CInv
<1> QED
  BY <1>1, CoordinationInvariant, PTL

(* A process starts only under the registration of exactly its attempt,     *)
(* which is the current one of its task.                                    *)
THEOREM ChildrenAreRegistered == Spec => ChildIsRegistered
<1>1. ASSUME CInv, [Next]_vars, NEW w \in Workers, tracked'[w] # NoChild, tracked'[w] # tracked[w]
      PROVE  /\ record[w].task = tracked'[w].task
             /\ record[w].generation = tracked'[w].attempt
             /\ tasks[tracked'[w].task].attempts = tracked'[w].attempt
  <2> USE <1>1, CoordinationParts
  <2>1. \E r \in Runs : \E l \in plan[r] : Launch(r, l)
    BY DEF vars, Next, DriverStep, ChildExits, Reconcile, SkipReconcile, Register,
           EndSchedule, AlreadyTracked, LaunchFails, EndLaunch, EndDrive, Finalize, Commit,
           AppendFails, Crash, RestartActive, RestartSettled, Prepare, Cancel
  <2> PICK r \in Runs : \E l \in plan[r] : Launch(r, l)
    BY <2>1
  <2> PICK l \in plan[r] : Launch(r, l)
    OBVIOUS
  <2>2. l \in Leases /\ IsRegistered(l)
    BY DEF Launch
  <2>3. tracked' = [tracked EXCEPT ![l.worker] = l] /\ IsCurrent(l)
    BY DEF Launch
  <2>4. w = l.worker /\ tracked'[w] = l
    BY <2>2, <2>3 DEF Leases
  <2> QED
    BY <2>2, <2>3, <2>4 DEF IsRegistered, IsCurrent
<1>2. CInv /\ [Next]_vars =>
        [\A w \in Workers :
           tracked'[w] # NoChild /\ tracked'[w] # tracked[w] =>
             /\ record[w].task = tracked'[w].task
             /\ record[w].generation = tracked'[w].attempt
             /\ tasks[tracked'[w].task].attempts = tracked'[w].attempt]_vars
  BY <1>1
<1> QED
  BY <1>2, CoordinationInvariant, PTL DEF Spec, ChildIsRegistered

(* A current attempt is failed for its registration only after a crash or a *)
(* failed append lost a restart that was prepared for it.                   *)
THEOREM OnlyLostRestartsFail == Spec => FailsOnlyIfPrepared
<1>1. ASSUME CInv, NEW r \in Runs, NEW l \in plan[r], LaunchFails(r, l),
             tasks[l.task].status # tasks'[l.task].status
      PROVE  used.crashes > 0 /\ record[l.worker].generation = l.attempt + 1
  <2> USE <1>1, CoordinationParts
  <2>1. l \in Leases /\ l.task \in Tasks /\ l.worker \in Workers /\ used.crashes \in Nat
    BY DEF Leases, CInv, UsedFits
  <2>2. pending = Idle /\ ~IsRegistered(l) /\ IsCurrent(l)
    BY DEF LaunchFails, At
  <2>3. /\ HoldsLease(l.task, l.worker) /\ tasks[l.task].attempts = l.attempt
        /\ record[l.worker] # NoRecord /\ record[l.worker].task = l.task
        /\ record[l.worker].generation \in {l.attempt, l.attempt + 1}
    BY <2>1, <2>2 DEF IsCurrent, CInv, RegistryInv, LeaseIsRegistered
  <2>4. record[l.worker].generation = l.attempt + 1 /\ l.attempt + 1 # l.attempt
    BY <2>1, <2>2, <2>3 DEF IsRegistered, Leases
  <2> QED
    BY <2>1, <2>2, <2>3, <2>4 DEF CInv, GenerationFits
<1>2. CInv /\ [Next]_vars =>
        [\A r \in Runs : \A l \in plan[r] :
           LaunchFails(r, l) /\ tasks[l.task].status # tasks'[l.task].status =>
             used.crashes > 0 /\ record[l.worker].generation = l.attempt + 1]_vars
  BY <1>1
<1> QED
  BY <1>2, CoordinationInvariant, PTL DEF Spec, FailsOnlyIfPrepared

(***************************************************************************)
(* Writers.                                                                *)
(***************************************************************************)
(* The scenario stays, and what is used up is not given back.               *)
LEMMA UsedGrows ==
  ASSUME CInv, [Next]_vars
  PROVE  /\ used'.scenario = used.scenario
         /\ used'.busy = 0 => used.busy = 0
         /\ used'.revivals = 0 => used.revivals = 0
<1>1. CASE used' = used
  BY <1>1
<1>2. ASSUME NEW b \in Bounds, Use(b)
      PROVE  used'.scenario = used.scenario /\ \A x \in Bounds : used'[x] = 0 => used[x] = 0
  <2>1. /\ used'.scenario = used.scenario /\ used'[b] = used[b] + 1
        /\ \A x \in Bounds \ {b} : used'[x] = used[x]
    BY <1>2, UseFits DEF CInv, RegistryInv
  <2>2. used[b] \in Nat
    BY DEF CInv, UsedFits, Bounds
  <2> QED
    BY <2>1, <2>2
<1>3. used' = used \/ \E b \in Bounds : Use(b)
  BY DEF vars, Next, DriverStep, ChildExits, Reconcile, SkipReconcile, Register, EndSchedule,
         Launch, AlreadyTracked, LaunchFails, EndLaunch, EndDrive, Finalize, Commit,
         AppendFails, Crash, RestartActive, RestartSettled, Prepare, Cancel, Bounds
<1> QED
  BY <1>1, <1>2, <1>3 DEF Bounds

(* The drivers at first. *)
LEMMA RunsInit == ASSUME Init PROVE RunsFit
BY AbsentAssumption DEF Init, RunsFit

(* A worker is only registered for a task of its run.                       *)
LEMMA RunsKept == ASSUME CInv, RunsFit, [Next]_vars PROVE RunsFit'
<1> USE CoordinationParts
<1>0. \A x \in Tasks \cup Workers : RunOf(x)' = RunOf(x)
  BY UsedGrows DEF RunOf
<1>1. ASSUME NEW r \in Runs, NEW w \in Workers, Register(r, w)
      PROVE  RunsFit'
  <2>1. NextTask(r) \in Tasks /\ RunOf(NextTask(r)) = r /\ RunOf(w) = r
    BY <1>1, NextIsQueued DEF Register, Queued, IdleWorkers
  <2>2. tasks' = tasks /\ pending'.task = NextTask(r) /\ pending'.worker = w
    BY <1>1 DEF Register
  <2> QED
    BY <1>0, <2>1, <2>2 DEF RunsFit
<1>2. ASSUME NEW t \in Tasks, NEW w \in Workers, Prepare(t, w)
      PROVE  RunsFit'
  <2>1. tasks' = tasks /\ pending'.task = t /\ pending'.worker = w /\ tasks[t].leased_to = w
    BY <1>2 DEF Prepare
  <2> QED
    BY <1>0, <2>1 DEF RunsFit
<1>3. CASE Commit
  <2>1. /\ pending.task \in Tasks /\ pending.worker \in Workers /\ pending # Idle
        /\ pending' = Idle
        /\ tasks' = [tasks EXCEPT ![pending.task] = Leased(pending.task, pending.worker)]
    BY <1>3 DEF Commit, Registrations
  <2>2. tasks'[pending.task].leased_to = pending.worker
    BY <2>1 DEF Leased
  <2> QED
    BY <1>0, <2>1, <2>2 DEF RunsFit
<1>4. ASSUME pending' \in {pending, Idle}, \A t \in Tasks : tasks'[t].leased_to = tasks[t].leased_to
      PROVE  RunsFit'
  <2>1. pending # Idle => pending.task \in Tasks /\ pending.worker \in Workers
    BY DEF Registrations
  <2> QED
    BY <1>0, <1>4, <2>1 DEF RunsFit
<1>5. ASSUME NEW t, NEW outcome, Settle(t, outcome), pending' = pending
      PROVE  RunsFit'
  BY <1>4, <1>5 DEF Settle
<1>6. CASE tasks' = tasks /\ pending' \in {pending, Idle}
  BY <1>4, <1>6
<1> QED
  BY <1>1, <1>2, <1>3, <1>5, <1>6
  DEF vars, Next, DriverStep, ChildExits, Reconcile, SkipReconcile, EndSchedule,
      Launch, AlreadyTracked, LaunchFails, EndLaunch, EndDrive, Finalize,
      AppendFails, Crash, RestartActive, RestartSettled, Cancel

(* A task does not overlap with itself. *)
LEMMA PairsOverlap == ASSUME CInv, NEW t \in Tasks PROVE {t, t} \notin Overlap
<1>1. Cardinality({t}) = 1 /\ {t, t} = {t}
  BY FS_Singleton
<1>2. \A pair \in Overlap : Cardinality(pair) = 2
  BY ScenarioAssumption DEF CInv, UsedFits, Overlap
<1> QED
  BY <1>1, <1>2

(* The status of a worker that holds a lease is projected from that lease:  *)
(* it never held another task.                                              *)
LEMMA ReconciledIsLive ==
  ASSUME OneTaskPerRun, Overlap # {}, CInv, RunsFit, NEW r \in Runs, Reconcile(r),
         NEW t \in Tasks, NEW w \in Workers, HoldsLease(t, w)
  PROVE  IsLive(w)'
<1> USE CoordinationParts
<1>1. PICK current \in [Workers -> Tasks] :
        /\ \A v \in Workers : LatestHeld(v) # {} => current[v] \in LatestHeld(v)
        /\ record' = [v \in Workers |->
                        IF record[v] = NoRecord \/ LatestHeld(v) = {} THEN record[v]
                        ELSE [record[v] EXCEPT !.status = StatusOf(current[v])]]
  BY DEF Reconcile
<1>2. Held(w) = {t}
  <2>1. \A u \in Tasks : RunOf(u) = RunOf(t) => u = t
    BY DEF OneTaskPerRun, CInv, UsedFits, RunOf, Overlap
  <2>2. t \in Held(w) /\ RunOf(t) = RunOf(w)
    BY DEF Held, HoldsLease, RunsFit
  <2>3. ASSUME NEW u \in Held(w)
        PROVE  u = t
    BY <2>1, <2>2, <2>3 DEF Held, RunsFit
  <2> QED
    BY <2>2, <2>3
<1>3. LatestHeld(w) = {t}
  BY <1>2 DEF LatestHeld
<1>4. record[w] # NoRecord /\ record[w] \in Records
  BY DEF CInv, RegistryInv, LeaseIsRegistered
<1>5. record'[w] = [record[w] EXCEPT !.status = "Running"]
  BY <1>1, <1>3, <1>4 DEF StatusOf, HoldsLease
<1> QED
  BY <1>4, <1>5 DEF IsLive, Records

(* The claim that is registered overlaps with none that is held.            *)
LEMMA AdmittedIsExclusive ==
  ASSUME CInv, WritersFit, used.busy = 0, used.revivals = 0, Overlap # {},
         NEW r \in Runs, NEW w \in Workers, Register(r, w),
         NEW u \in Tasks, tasks[u].status = "Leased"
  PROVE  {NextTask(r), u} \notin Overlap
<1> USE CoordinationParts
<1> DEFINE v == tasks[u].leased_to
<1>1. v \in Workers /\ HoldsLease(u, v) /\ v # w
  BY DEF CInv, TasksFit, HoldsLease, Register, IdleWorkers, IsIdle
<1>2. pc[r] = "schedule"
  BY DEF Register, At
<1>3. record[v] # NoRecord /\ record[v].task = u /\ IsLive(v)
  BY <1>1, <1>2 DEF CInv, RegistryInv, LeaseIsRegistered, WritersFit
<1>4. IsActiveOwner(v)
  BY <1>3 DEF IsActiveOwner, IsLive, Terminal, Outcomes
<1> HIDE DEF v
<1> QED
  BY <1>1, <1>3, <1>4 DEF Register, Admissible

(* The writers at first, *)
LEMMA WritersInit == ASSUME Init PROVE WritersFit /\ ExclusiveWriters
BY DEF Init, WritersFit, ExclusiveWriters, HoldsLease

(* A step that leaves the registry, and starts no attempt.                  *)
LEMMA LeasesEnd ==
  ASSUME WInv, pending' = Idle, pending = Idle, used'.scenario = used.scenario,
         used'.busy = 0 => used.busy = 0, used'.revivals = 0 => used.revivals = 0,
         \A w \in Workers : record'[w] = record[w],
         \A r \in Runs : pc'[r] = pc[r] \/ \E s \in Runs : pc[s] # "reconcile",
         \A t \in Tasks : tasks'[t] = tasks[t] \/ tasks'[t].status # "Leased"
  PROVE  WritersFit' /\ ExclusiveWriters'
<1>1. Overlap' = Overlap
  BY DEF Overlap
<1>2. \A t \in Tasks, w \in Workers : HoldsLease(t, w)' => HoldsLease(t, w)
  BY DEF HoldsLease
<1>3. WritersFit'
  BY <1>1, <1>2 DEF WInv, WritersFit, IsLive
<1>4. ExclusiveWriters'
  BY <1>1 DEF WInv, ExclusiveWriters
<1> QED
  BY <1>3, <1>4

(* and after every step. *)
LEMMA WritersKept ==
  ASSUME OneTaskPerRun, WInv, [Next]_vars PROVE WritersFit' /\ ExclusiveWriters'
<1> USE CoordinationParts
<1>0. /\ CInv /\ RunsFit /\ WritersFit /\ ExclusiveWriters
      /\ used'.scenario = used.scenario /\ Overlap' = Overlap
      /\ used'.busy = 0 => used.busy = 0
      /\ used'.revivals = 0 => used.revivals = 0
  BY UsedGrows DEF WInv, Overlap
<1>1. CASE used'.busy # 0 \/ used'.revivals # 0 \/ Overlap = {}
  BY <1>0, <1>1 DEF WritersFit, ExclusiveWriters
<1>2. CASE used'.busy = 0 /\ used'.revivals = 0 /\ Overlap # {}
  <2>0. /\ \A t \in Tasks, w \in Workers :
             HoldsLease(t, w) => IsLive(w) \/ \A r \in Runs : pc[r] = "reconcile"
        /\ \A t, u \in Tasks :
             tasks[t].status = "Leased" /\ tasks[u].status = "Leased" => {t, u} \notin Overlap
    BY <1>0, <1>2 DEF WritersFit, ExclusiveWriters
  <2>1. ASSUME tasks' = tasks
        PROVE  /\ ExclusiveWriters'
               /\ \A t \in Tasks, w \in Workers : HoldsLease(t, w)' <=> HoldsLease(t, w)
    BY <1>0, <2>0, <2>1 DEF ExclusiveWriters, HoldsLease
  <2>2. ASSUME NEW r \in Runs, Reconcile(r)
        PROVE  WritersFit' /\ ExclusiveWriters'
    <3>1. tasks' = tasks /\ pending' = Idle
      BY <2>2 DEF Reconcile, At
    <3>2. \A t \in Tasks, w \in Workers : HoldsLease(t, w) => IsLive(w)'
      BY <1>0, <1>2, <2>2, ReconciledIsLive
    <3> QED
      BY <2>1, <3>1, <3>2 DEF WritersFit
  <2>3. ASSUME NEW r \in Runs, SkipReconcile(r)
        PROVE  FALSE
    BY <1>0, <1>2, <2>3, UseFits DEF SkipReconcile, CInv, RegistryInv, Bounds, UsedFits
  <2>4. ASSUME NEW r \in Runs, NEW w \in Workers, Register(r, w)
        PROVE  WritersFit' /\ ExclusiveWriters'
    <3>1. /\ tasks' = tasks /\ pc[r] = "schedule" /\ pc' = pc
          /\ pending'.kind = "start" /\ pending'.task = NextTask(r) /\ pending'.worker = w
          /\ \A t \in Tasks : ~HoldsLease(t, w)
          /\ \A v \in Workers \ {w} : record'[v] = record[v]
          /\ record'[w].status = "Starting"
      BY <1>0, <2>4 DEF Register, At, IdleWorkers, IsIdle
    <3>2. \A u \in Tasks : tasks[u].status = "Leased" => {NextTask(r), u} \notin Overlap
      BY <1>0, <1>2, <2>4, AdmittedIsExclusive
    <3>3. IsLive(w)' /\ \A v \in Workers \ {w} : IsLive(v)' <=> IsLive(v)
      BY <3>1 DEF IsLive
    <3> HIDE DEF IsLive
    <3> QED
      BY <1>0, <2>0, <2>1, <3>1, <3>2, <3>3 DEF WritersFit, IsLive
  <2>5. CASE Commit
    <3> DEFINE t == pending.task
               w == pending.worker
    <3>1. /\ t \in Tasks /\ w \in Workers /\ pending # Idle /\ pending' = Idle
          /\ UNCHANGED <<record, pc>>
          /\ tasks' = [tasks EXCEPT ![t] = Leased(t, w)]
          /\ pending.kind \in {"start", "restart"}
      BY <1>0, <2>5 DEF Commit, Registrations
    <3>2. /\ pending.kind = "restart" => HoldsLease(t, w)
          /\ pending.kind = "start" =>
               /\ IsLive(w)
               /\ \A u \in Tasks : tasks[u].status = "Leased" => {t, u} \notin Overlap
      BY <1>0, <1>2, <3>1 DEF WritersFit
    <3> HIDE DEF t, w
    <3>3. /\ tasks'[t].status = "Leased" /\ tasks'[t].leased_to = w
          /\ \A u \in Tasks \ {t} : tasks'[u] = tasks[u]
      BY <1>0, <3>1 DEF Leased
    <3>4. WritersFit'
      <4>1. ASSUME NEW u \in Tasks, NEW v \in Workers, HoldsLease(u, v)'
            PROVE  IsLive(v) \/ \A r \in Runs : pc[r] = "reconcile"
        <5>1. CASE u = t
          BY <2>0, <3>1, <3>2, <3>3, <4>1, <5>1 DEF HoldsLease
        <5>2. CASE u # t
          BY <2>0, <3>3, <4>1, <5>2 DEF HoldsLease
        <5> QED
          BY <5>1, <5>2
      <4> QED
        BY <3>1, <4>1 DEF WritersFit, IsLive
    <3>5. ASSUME NEW u \in Tasks, NEW x \in Tasks,
                 tasks'[u].status = "Leased", tasks'[x].status = "Leased"
          PROVE  {u, x} \notin Overlap
      <4>1. CASE u # t /\ x # t
        BY <2>0, <3>3, <3>5, <4>1
      <4>2. CASE u = t /\ x = t
        BY <1>0, <4>2, PairsOverlap
      <4>3. ASSUME NEW y \in Tasks, y # t, tasks[y].status = "Leased"
            PROVE  {t, y} \notin Overlap
        BY <2>0, <3>1, <3>2, <4>3 DEF HoldsLease
      <4>4. {u, x} = {x, u}
        OBVIOUS
      <4> QED
        BY <3>3, <3>5, <4>1, <4>2, <4>3, <4>4
    <3> QED
      BY <1>0, <3>4, <3>5 DEF ExclusiveWriters
  <2>6. CASE AppendFails
    <3> DEFINE w == pending.worker
    <3>1. /\ pending # Idle /\ pending' = Idle /\ w \in Workers /\ tasks' = tasks /\ pc' = pc
          /\ \/ pending.kind = "start" /\ record' = [record EXCEPT ![w] = pending.before]
             \/ record' = record
      BY <1>0, <2>6 DEF AppendFails, Registrations
    <3>2. pending.kind = "start" => \A t \in Tasks : ~HoldsLease(t, w)
      BY <1>0, <3>1 DEF CInv, PendingFits, HoldsLease
    <3> HIDE DEF w
    <3>3. \A t \in Tasks, v \in Workers : HoldsLease(t, v) => record'[v] = record[v]
      BY <1>0, <3>1, <3>2
    <3> QED
      BY <2>0, <2>1, <3>1, <3>3 DEF WritersFit, IsLive
  <2>7. ASSUME NEW t \in Tasks, NEW w \in Workers, RestartActive(t, w)
        PROVE  WritersFit' /\ ExclusiveWriters'
    <3>1. /\ tasks' = tasks /\ pc' = pc /\ HoldsLease(t, w)
          /\ pending'.task = t /\ pending'.worker = w /\ pending'.kind = "restart"
          /\ PrepareGeneration(w) /\ record[w] # NoRecord
      BY <2>7 DEF RestartActive, Prepare
    <3>2. \A v \in Workers : IsLive(v) => IsLive(v)'
      BY <1>0, <3>1 DEF PrepareGeneration, IsLive, Records
    <3> HIDE DEF IsLive
    <3> QED
      BY <2>0, <2>1, <3>1, <3>2 DEF WritersFit
  <2>8. ASSUME NEW t \in Tasks, NEW w \in Workers, RestartSettled(t, w)
        PROVE  FALSE
    BY <1>0, <1>2, <2>8, UseFits DEF RestartSettled, CInv, RegistryInv, Bounds, UsedFits
  <2>9. CASE Crash
    <3>1. tasks' = tasks /\ pending' = Idle /\ \A r \in Runs : pc'[r] = "reconcile"
      BY <2>9 DEF Crash
    <3> QED
      BY <2>1, <3>1 DEF WritersFit
  <2>10. ASSUME NEW r \in Runs,
                \/ EndSchedule(r) \/ EndLaunch(r) \/ EndDrive(r)
                \/ \E l \in plan[r] : Launch(r, l) \/ AlreadyTracked(r, l)
         PROVE  WritersFit' /\ ExclusiveWriters'
    <3>1. /\ pending = Idle /\ pending' = Idle /\ record' = record /\ tasks' = tasks
          /\ pc[r] # "reconcile"
      BY <2>10 DEF EndSchedule, EndLaunch, EndDrive, Launch, AlreadyTracked, At
    <3> QED
      BY <1>0, <3>1, LeasesEnd
  <2>11. ASSUME pending = Idle, pending' = Idle, record' = record, pc' = pc, NEW t,
                NEW outcome \in Outcomes, Settle(t, outcome) \/ tasks' = tasks
         PROVE  WritersFit' /\ ExclusiveWriters'
    <3>1. \A u \in Tasks : tasks'[u] = tasks[u] \/ tasks'[u].status # "Leased"
      BY <1>0, <2>11 DEF Settle, Outcomes
    <3> QED
      BY <1>0, <2>11, <3>1, LeasesEnd
  <2>12. ASSUME NEW r \in Runs, NEW l \in plan[r], LaunchFails(r, l)
         PROVE  WritersFit' /\ ExclusiveWriters'
    BY <2>11, <2>12 DEF LaunchFails, At, Outcomes
  <2>13. ASSUME NEW w \in Workers, NEW outcome \in Outcomes, Finalize(RunOf(w), w, outcome)
         PROVE  WritersFit' /\ ExclusiveWriters'
    BY <2>11, <2>13 DEF Finalize, At
  <2>14. ASSUME NEW t \in Tasks, Cancel(t)
         PROVE  WritersFit' /\ ExclusiveWriters'
    BY <2>11, <2>14 DEF Cancel, Outcomes
  <2>15. CASE UNCHANGED vars
    BY <1>0, <2>15 DEF vars, WritersFit, ExclusiveWriters, HoldsLease, IsLive, Overlap
  <2> QED
    BY <2>2, <2>3, <2>4, <2>5, <2>6, <2>7, <2>8, <2>9, <2>10, <2>12, <2>13, <2>14, <2>15
    DEF Next, DriverStep, ChildExits
<1> QED
  BY <1>1, <1>2

(* Where claims overlap only between runs of one task each, any number of   *)
(* them on any number of workers, two tasks with overlapping claims are     *)
(* never leased at once, through crashes, failed appends and restarts, as   *)
(* long as no reconciliation was skipped and no settled task restarted.     *)
THEOREM WritersAreExclusive == ASSUME OneTaskPerRun PROVE Spec => []ExclusiveWriters
<1>1. Init => WInv
  BY CoordinationInit, RunsInit, WritersInit DEF WInv
<1>2. WInv /\ [Next]_vars => WInv'
  BY StepFits, RunsKept, WritersKept DEF WInv
<1>3. WInv => ExclusiveWriters
  BY DEF WInv
<1> QED
  BY <1>1, <1>2, <1>3, PTL DEF Spec
=============================================================================
