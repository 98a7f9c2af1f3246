---------------------------- MODULE FleetRecovery ---------------------------
(***************************************************************************)
(* The life of one fleet run around failures: it is created task by task   *)
(* (create_queued_run_with_descriptor), a manager beats, leases and drives *)
(* its tasks (schedule_run_excluding), and resume_run reclaims leases      *)
(* whose heartbeat is too old (fleet/scheduler.rs).                        *)
(*                                                                         *)
(* Every task has a worker of its own.  Time is relative: age[t] is how    *)
(* many seconds old the last heartbeat of t's worker is, lag[r] how long   *)
(* ago resumer r read its clock; ages beyond what anyone tells apart are   *)
(* one, and so is the age of a task that is not leased.  FleetManager has   *)
(* the details of children and of run ownership.                           *)
(***************************************************************************)
EXTENDS Integers, FiniteSets

CONSTANTS
  Tasks, Channels,
  Resumers,      \* processes that call resume_run
  MaxAttempts,   \* retry_policy.max_attempts
  Timeout,       \* stale_after, in seconds
  MaxLag,        \* bound: seconds a resumer waits between its clock and a lock
  Scenarios      \* what may happen: each behaviour is one of these

(* A run (its tasks, the processes that resume it, whether children may     *)
(* hang) and bounds: a resumer's lag and crashes of any process.            *)
ASSUME RecoveryAssumption ==
  /\ MaxAttempts \in Nat \ {0} /\ Timeout \in Nat /\ MaxLag \in Nat
  /\ Scenarios \subseteq [tasks: SUBSET Tasks, resumers: SUBSET Resumers,
                          hang: BOOLEAN, lag: 0..MaxLag, crashes: Nat]

VARIABLES
  status, attempts, age,   \* the tasks in the ledger
  alerts,      \* <<task, channel>> of the alerts recorded
  run_status,  \* the last RunStatusChanged
  missing,     \* tasks that a Completed leaves out: not enqueued yet (history)
  creator,     \* the process that creates the run
  manager,     \* where the manager loop is
  beats,       \* tasks the manager still has to heartbeat
  verdict,     \* verdict[p]: the status p's refresh derived, and missing with it
  child,       \* child[t]: the attempt the manager's child runs, 0 for none
  hung,        \* tasks whose child neither ends nor reports
  job, lag,    \* job[r], lag[r]: what resumer r is at
  changed,     \* changed[r]: tasks r's version of is out of date
  exhausted,   \* tasks failed for want of attempts (history)
  used         \* the scenario, and how many crashes there were

tasks == <<status, attempts, age>>
driver == <<manager, beats, child, hung>>
resumer == <<job, lag>>
vars == <<tasks, alerts, run_status, missing, creator, driver, verdict, resumer, changed,
          exhausted, used>>

Outcomes == {"Completed", "Failed", "Cancelled"}
Oldest == Timeout + MaxLag + 1
Idle == [step |-> "Idle", todo |-> {}, task |-> {}, channels |-> {}]
NoVerdict == [status |-> "Running", missing |-> {}]
Jobs ==
  [step: {"Idle", "Read", "Mark", "Decide", "Alert", "ReadStatus", "WriteStatus"},
   todo: SUBSET Tasks, task: SUBSET Tasks, channels: SUBSET Channels]

TypeOK ==
  /\ status \in [Tasks -> {"Absent", "Enqueued", "Leased"} \cup Outcomes]
  /\ attempts \in [Tasks -> 0..MaxAttempts] /\ age \in [Tasks -> 0..Oldest]
  /\ alerts \subseteq Tasks \X Channels
  /\ run_status \in {"Queued", "Running"} \cup Outcomes
  /\ creator \in {"creating", "created", "gone"}
  /\ missing \subseteq Tasks
  /\ manager \in {"off", "beat", "lease", "read", "write", "drive", "rewrite", "check"}
  /\ beats \subseteq Tasks /\ hung \subseteq Tasks
  /\ child \in [Tasks -> 0..MaxAttempts]
  /\ job \in [Resumers -> Jobs] /\ lag \in [Resumers -> 0..MaxLag]
  /\ changed \in [Resumers -> SUBSET Tasks]
  /\ exhausted \subseteq Tasks
  /\ used.crashes \in 0..used.scenario.crashes

Init ==
  /\ status = [t \in Tasks |-> "Absent"]
  /\ attempts = [t \in Tasks |-> 0] /\ age = [t \in Tasks |-> Oldest]
  /\ alerts = {}
  /\ run_status = "Queued" /\ missing = {}
  /\ creator = "creating"
  /\ manager = "off" /\ beats = {}
  /\ verdict = [p \in Resumers \cup {"manager"} |-> NoVerdict]
  /\ child = [t \in Tasks |-> 0] /\ hung = {}
  /\ job = [r \in Resumers |-> Idle] /\ lag = [r \in Resumers |-> 0]
  /\ changed = [r \in Resumers |-> {}]
  /\ exhausted = {} /\ used \in [crashes: {0}, scenario: Scenarios]

Leased == {t \in Tasks : status[t] = "Leased"}
HasOpenWork == \E t \in Tasks : status[t] \in {"Enqueued", "Leased"}

MayCrash == used.crashes < used.scenario.crashes
Crashed == used' = [used EXCEPT !.crashes = @ + 1]

(* refresh_run_status: of the tasks that exist by now; without any the run   *)
(* is complete.                                                            *)
DoneUnlessLeased ==   \* fault: queued tasks are overlooked
  CASE Leased # {} -> "Running"
    [] \E t \in Tasks : status[t] = "Failed" -> "Failed"
    [] OTHER -> "Completed"

DerivedStatus ==
  CASE HasOpenWork -> "Running"
    [] \E t \in Tasks : status[t] = "Failed" -> "Failed"
    [] OTHER -> "Completed"

Unenqueued == {t \in used.scenario.tasks : status[t] = "Absent"}

Verdict ==
  [status |-> DerivedStatus,
   missing |-> IF DerivedStatus = "Completed" THEN Unenqueued ELSE {}]

(* Records on t make the version of it that others read out of date. *)
Concerns(r, t) == t \in job[r].todo \cup job[r].task

Touch(others, t) ==
  changed' = [r \in Resumers |->
    IF r \in others /\ Concerns(r, t) THEN changed[r] \cup {t} ELSE changed[r]]

TouchNone == UNCHANGED changed

(***************************************************************************)
(* create_queued_run_with_descriptor: the run record, then its tasks, each  *)
(* in a transaction of its own.  Nothing keeps others from starting and     *)
(* resuming the run meanwhile.                                             *)
(***************************************************************************)
Enqueue(t) ==
  /\ t \in used.scenario.tasks
  /\ creator = "creating" /\ status[t] = "Absent"
  /\ status' = [status EXCEPT ![t] = "Enqueued"]
  /\ creator' = IF Unenqueued = {t} THEN "created" ELSE creator
  /\ UNCHANGED <<attempts, age, alerts, run_status, missing, driver, verdict, resumer,
                 changed, exhausted, used>>

CreatorCrashes ==
  /\ MayCrash /\ creator = "creating"
  /\ creator' = "gone" /\ Crashed
  /\ UNCHANGED <<tasks, alerts, run_status, missing, driver, verdict, resumer, changed,
                 exhausted>>

(***************************************************************************)
(* The manager.                                                            *)
(***************************************************************************)
Start ==
  /\ manager = "off"
  /\ run_status \notin Outcomes
  /\ run_status' = "Running" /\ missing' = {}
  /\ manager' = "beat" /\ beats' = Leased
  /\ UNCHANGED <<tasks, alerts, creator, child, hung, verdict, resumer, changed, exhausted,
                 used>>

(* The leased tasks get a heartbeat, whatever their children do.  A second  *)
(* heartbeat within a second is the same to everybody who compares.         *)
Beat(t) ==
  /\ manager = "beat" /\ t \in beats
  /\ beats' = beats \ {t}
  /\ age' = IF t \in Leased THEN [age EXCEPT ![t] = 0] ELSE age
  /\ IF age[t] # 0 THEN Touch(Resumers, t) ELSE TouchNone
  /\ UNCHANGED <<status, attempts, alerts, run_status, missing, creator, manager, child,
                 hung, verdict, resumer, exhausted, used>>

EndBeat ==
  /\ manager = "beat" /\ beats = {}
  /\ manager' = "lease"
  /\ UNCHANGED <<tasks, alerts, run_status, missing, creator, beats, child, hung, verdict,
                 resumer, changed, exhausted, used>>

Lease(t) ==
  /\ manager = "lease" /\ status[t] = "Enqueued"
  /\ status' = [status EXCEPT ![t] = "Leased"]
  /\ attempts' = [attempts EXCEPT ![t] = @ + 1]
  /\ age' = [age EXCEPT ![t] = 0]
  /\ Touch(Resumers, t)
  /\ UNCHANGED <<alerts, run_status, missing, creator, driver, verdict, resumer, exhausted,
                 used>>

EndLease ==
  /\ manager = "lease" /\ \A t \in Tasks : status[t] # "Enqueued"
  /\ manager' = "read"
  /\ UNCHANGED <<tasks, alerts, run_status, missing, creator, beats, child, hung, verdict,
                 resumer, changed, exhausted, used>>

(* A tick refreshes the status when all is leased and when the children     *)
(* were driven; then it does so twice in a row, which is one here.          *)
ReadStatus ==
  /\ \/ manager = "read" /\ manager' = "write"
     \/ manager = "drive" /\ manager' = "rewrite"
  /\ verdict' = [verdict EXCEPT !["manager"] = Verdict]
  /\ UNCHANGED <<tasks, alerts, run_status, missing, creator, beats, child, hung, resumer,
                 changed, exhausted, used>>

ChildrenUnfenced ==   \* fault: a tracked child is left to run
  [t \in Tasks |-> IF t \in Leased /\ child[t] = 0 THEN attempts[t] ELSE child[t]]

Children == [t \in Tasks |-> IF t \in Leased THEN attempts[t] ELSE 0]

Record(p) ==
  /\ run_status' = verdict[p].status /\ missing' = verdict[p].missing
  /\ verdict' = [verdict EXCEPT ![p] = NoVerdict]

(* After the first one it launches leased attempts, and stops children of   *)
(* attempts that the ledger has left behind.                                *)
WriteStatus ==
  /\ manager = "write"
  /\ Record("manager")
  /\ manager' = "drive"
  /\ child' = Children
  /\ hung' = {t \in hung : t \in Leased /\ child[t] = attempts[t]}
  /\ UNCHANGED <<tasks, alerts, creator, beats, resumer, changed, exhausted, used>>

RewriteStatus ==
  /\ manager = "rewrite"
  /\ Record("manager")
  /\ manager' = "check"
  /\ UNCHANGED <<tasks, alerts, creator, beats, child, hung, resumer, changed, exhausted,
                 used>>

RunsCurrent(t) == t \in Leased /\ child[t] = attempts[t]

(* Output of a child, recorded under its lease. *)
Progress(t) ==
  /\ manager = "drive" /\ RunsCurrent(t) /\ t \notin hung
  /\ \E r \in Resumers : Concerns(r, t) /\ t \notin changed[r]
  /\ Touch(Resumers, t)
  /\ UNCHANGED <<tasks, alerts, run_status, missing, creator, driver, verdict, resumer,
                 exhausted, used>>

Finish(t, outcome) ==
  /\ manager = "drive" /\ RunsCurrent(t) /\ t \notin hung
  /\ status' = [status EXCEPT ![t] = outcome]
  /\ age' = [age EXCEPT ![t] = Oldest]
  /\ child' = [child EXCEPT ![t] = 0]
  /\ Touch(Resumers, t)
  /\ UNCHANGED <<attempts, alerts, run_status, missing, creator, manager, beats, hung,
                 verdict, resumer, exhausted, used>>

Hang(t) ==
  /\ used.scenario.hang
  /\ manager = "drive" /\ RunsCurrent(t) /\ t \notin hung
  /\ hung' = hung \cup {t}
  /\ UNCHANGED <<tasks, alerts, run_status, missing, creator, manager, beats, child,
                 verdict, resumer, changed, exhausted, used>>

(* The next tick, or the return of the loop when no work is open. *)
EndTick ==
  /\ manager = "check"
  /\ manager' = IF HasOpenWork THEN "beat" ELSE "off"
  /\ beats' = Leased
  /\ UNCHANGED <<tasks, alerts, run_status, missing, creator, child, hung, verdict,
                 resumer, changed, exhausted, used>>

ManagerCrashes ==
  /\ MayCrash /\ manager # "off"
  /\ manager' = "off" /\ beats' = {}
  /\ child' = [t \in Tasks |-> 0] /\ hung' = {}
  /\ verdict' = [verdict EXCEPT !["manager"] = NoVerdict]
  /\ Crashed
  /\ UNCHANGED <<tasks, alerts, run_status, missing, creator, resumer, changed, exhausted>>

(***************************************************************************)
(* resume_run.                                                             *)
(***************************************************************************)
At(r, step) == job[r].step = step
Become(r, new_job) == job' = [job EXCEPT ![r] = new_job]

(* The clock is read first, then the locks are waited for. *)
Resume(r) ==
  /\ r \in used.scenario.resumers
  /\ At(r, "Idle")
  /\ Become(r, [Idle EXCEPT !.step = "Read"])
  /\ lag' = [lag EXCEPT ![r] = 0]
  /\ UNCHANGED <<tasks, alerts, run_status, missing, creator, driver, verdict, changed,
                 exhausted, used>>

(* A heartbeat later than the clock has no age, which counts as too old. *)
IsStale(r, t) == age[t] < lag[r] \/ age[t] - lag[r] > Timeout

ReadLeases(r) ==
  /\ At(r, "Read")
  /\ Become(r, [Idle EXCEPT !.step = "Mark", !.todo = {t \in Leased : IsStale(r, t)}])
  /\ changed' = [changed EXCEPT ![r] = {}]
  /\ UNCHANGED <<tasks, alerts, run_status, missing, creator, driver, verdict, lag,
                 exhausted, used>>

IsUnchangedNever(r, t) == TRUE   \* fault: the version is not compared

IsUnchanged(r, t) == t \notin changed[r]

(* append_event_if_lease_unchanged(Stale) *)
Mark(r, t) ==
  /\ At(r, "Mark") /\ t \in job[r].todo
  /\ IF IsUnchanged(r, t) /\ t \in Leased
     THEN /\ Become(r, [job[r] EXCEPT !.step = "Decide", !.task = {t}, !.todo = @ \ {t}])
          /\ Touch(Resumers \ {r}, t)
     ELSE Become(r, [job[r] EXCEPT !.todo = @ \ {t}]) /\ TouchNone
  /\ UNCHANGED <<tasks, alerts, run_status, missing, creator, driver, verdict, lag,
                 exhausted, used>>

Continue(r) == Become(r, [job[r] EXCEPT !.step = "Mark", !.task = {}])

HasAttemptsLeft(t) == attempts[t] < MaxAttempts

(* retry_or_fail with attempts left *)
Retry(r, t) ==
  /\ At(r, "Decide") /\ job[r].task = {t}
  /\ HasAttemptsLeft(t)
  /\ Continue(r)
  /\ IF IsUnchanged(r, t) /\ t \in Leased
     THEN /\ attempts' = [attempts EXCEPT ![t] = @ + 1]
          /\ age' = [age EXCEPT ![t] = lag[r]]
          /\ Touch(Resumers \ {r}, t)
     ELSE UNCHANGED <<attempts, age, changed>>
  /\ UNCHANGED <<status, alerts, run_status, missing, creator, driver, verdict, lag,
                 exhausted, used>>

(* ... and without: the terminal event, then one alert per channel. *)
AlertNobody == {}   \* fault: the failure is not escalated

ChannelsToAlert == Channels

FailExhausted(r, t) ==
  /\ At(r, "Decide") /\ job[r].task = {t}
  /\ ~HasAttemptsLeft(t)
  /\ IF IsUnchanged(r, t) /\ t \in Leased
     THEN /\ status' = [status EXCEPT ![t] = "Failed"]
          /\ age' = [age EXCEPT ![t] = Oldest]
          /\ exhausted' = exhausted \cup {t}
          /\ Touch(Resumers \ {r}, t)
          /\ Become(r, [job[r] EXCEPT !.step = "Alert", !.channels = ChannelsToAlert])
     ELSE Continue(r) /\ UNCHANGED <<status, age, exhausted, changed>>
  /\ UNCHANGED <<attempts, alerts, run_status, missing, creator, driver, verdict, lag,
                 used>>

(* record_failed_attempt_alert_once *)
Alert(r, t, channel) ==
  /\ At(r, "Alert") /\ job[r].task = {t} /\ channel \in job[r].channels
  /\ alerts' = IF status[t] = "Failed" THEN alerts \cup {<<t, channel>>} ELSE alerts
  /\ Touch(Resumers \ {r}, t)
  /\ Become(r, [job[r] EXCEPT !.channels = @ \ {channel}])
  /\ UNCHANGED <<tasks, run_status, missing, creator, driver, verdict, lag, exhausted,
                 used>>

EndAlerts(r) ==
  /\ At(r, "Alert") /\ job[r].channels = {}
  /\ Continue(r)
  /\ UNCHANGED <<tasks, alerts, run_status, missing, creator, driver, verdict, lag,
                 changed, exhausted, used>>

EndMarks(r) ==
  /\ At(r, "Mark") /\ job[r].todo = {}
  /\ Become(r, [Idle EXCEPT !.step = "WriteStatus"])
  /\ verdict' = [verdict EXCEPT ![r] = Verdict]
  /\ changed' = [changed EXCEPT ![r] = {}]
  /\ UNCHANGED <<tasks, alerts, run_status, missing, creator, driver, lag, exhausted, used>>

EndResume(r) ==
  /\ At(r, "WriteStatus")
  /\ Become(r, Idle)
  /\ lag' = [lag EXCEPT ![r] = 0]
  /\ changed' = [changed EXCEPT ![r] = {}]
  /\ Record(r)
  /\ UNCHANGED <<tasks, alerts, creator, driver, exhausted, used>>

ResumerCrashes(r) ==
  /\ MayCrash /\ ~At(r, "Idle")
  /\ Become(r, Idle)
  /\ lag' = [lag EXCEPT ![r] = 0]
  /\ changed' = [changed EXCEPT ![r] = {}]
  /\ verdict' = [verdict EXCEPT ![r] = NoVerdict]
  /\ Crashed
  /\ UNCHANGED <<tasks, alerts, run_status, missing, creator, driver, exhausted>>

(***************************************************************************)
(* Time.                                                                   *)
(***************************************************************************)
Tick ==
  /\ \A r \in Resumers : At(r, "Idle") \/ lag[r] < used.scenario.lag
  /\ age' = [t \in Tasks |-> IF age[t] < Oldest THEN age[t] + 1 ELSE Oldest]
  /\ lag' = [r \in Resumers |-> IF At(r, "Idle") THEN 0 ELSE lag[r] + 1]
  /\ UNCHANGED <<status, attempts, alerts, run_status, missing, creator, driver, verdict,
                 job, changed, exhausted, used>>

(***************************************************************************)
(* The specification.                                                      *)
(***************************************************************************)
ManagerStep ==
  \/ \E t \in Tasks : Beat(t) \/ Lease(t)
  \/ EndBeat \/ EndLease \/ ReadStatus \/ WriteStatus \/ RewriteStatus \/ EndTick

ChildEnds(t) == \E outcome \in {"Completed", "Failed"} : Finish(t, outcome)

ResumerStep(r) ==
  \/ ReadLeases(r) \/ EndMarks(r) \/ EndAlerts(r) \/ EndResume(r)
  \/ \E t \in Tasks :
       \/ Mark(r, t) \/ Retry(r, t) \/ FailExhausted(r, t)
       \/ \E channel \in Channels : Alert(r, t, channel)

Next ==
  \/ \E t \in Tasks : Enqueue(t) \/ Progress(t) \/ Hang(t) \/ ChildEnds(t)
  \/ Start \/ ManagerStep \/ Tick
  \/ \E r \in Resumers : Resume(r) \/ ResumerStep(r) \/ ResumerCrashes(r)
  \/ CreatorCrashes \/ ManagerCrashes

(* Processes keep running, children that do not hang end, time passes, and  *)
(* a run without a manager is resumed and started again and again.          *)
Fairness ==
  /\ WF_vars(\E t \in Tasks : Enqueue(t))
  /\ WF_vars(Start \/ ManagerStep)
  /\ \A t \in Tasks : SF_vars(ChildEnds(t))
  /\ \A r \in Resumers : WF_vars(Resume(r) \/ ResumerStep(r))

Spec == Init /\ [][Next]_vars

FairSpec == Spec /\ Fairness

(***************************************************************************)
(* Safety.                                                                 *)
(***************************************************************************)
(* An attempt is spent only on a lease that nobody has heartbeat for the    *)
(* timeout ("Terminal and healthy tasks are left untouched"), however       *)
(* several resumes and a live manager interleave.  A resume that had to wait *)
(* is left out: heartbeats later than its clock count as stale.             *)
HealthyIsLeftAlone ==
  [][\A t \in Tasks :
       /\ \A r \in Resumers : lag[r] = 0
       /\ (t \in Leased /\ attempts'[t] > attempts[t]) \/ t \in exhausted' \ exhausted
       => age[t] > Timeout]_vars

AreCompleted(some) == \A t \in some : status[t] = "Completed"

(* While a run is recorded Completed, every task that existed when this was *)
(* derived is Completed: all the tasks of the run, if its creation was over. *)
(* The record says nothing of tasks that are enqueued later, or never: a     *)
(* start or a resume does not wait for the creator.                        *)
CompletedRunIsDone ==
  run_status = "Completed" => AreCompleted(used.scenario.tasks \ missing)

(* A run is Completed only when it is, and the types: no attempt beyond the *)
(* retry policy.                                                           *)
RecoveryInv == TypeOK /\ CompletedRunIsDone

(***************************************************************************)
(* Liveness.                                                               *)
(***************************************************************************)
(* A task that is failed because its retries are used up is escalated on    *)
(* every channel of its alert policy, as long as nobody crashes: alerts a    *)
(* crash left out are not made up for.                                      *)
ExhaustedIsEscalated ==
  []<>(exhausted \X Channels \subseteq alerts \/ used.crashes > 0)

(* Whatever crashes, a run that was created whole is brought to an end,      *)
(* unless a child hangs under a manager that heartbeats for it.             *)
CreatedRunEnds == creator = "created" ~> ~HasOpenWork \/ hung # {}
=============================================================================
