----------------------------- MODULE Automations -----------------------------
(***************************************************************************)
(* Automations and delayed triggers (automation_manager.rs) of one process. *)
(*                                                                         *)
(* All state is on disk: a record per automation, a directory of run        *)
(* records, a record per trigger.  Users edit them and start runs by hand;  *)
(* the scheduler repeats three phases: start the runs that are due, fold    *)
(* the results of tasks into their runs, fire the triggers that are due.    *)
(* One mutex covers each read and each write, and is released across every  *)
(* call of the task manager, so user commands come in between.              *)
(*                                                                         *)
(* A run is named by its schedule slot, one started by hand by Manual.  The *)
(* tasks themselves are external.  A run's Queued counts as Running here,   *)
(* Canceled as Failed; the limits on how many recent runs are looked at (25 *)
(* and 100) are never reached.                                             *)
(***************************************************************************)
EXTENDS Naturals, FiniteSets

CONSTANTS
  Automations, Triggers,
  Absent, Deleted, Nothing, Manual,
  MaxTime,        \* bound: the largest instant
  Scenarios       \* what may happen: each behaviour is one of these

(* Which automations and triggers are created, which are watchers; and       *)
(* bounds: when the clock stops, commands of users, runs by hand, faults    *)
(* (crashes and failing writes).                                           *)
ASSUME AutomationAssumption ==
  /\ MaxTime \in Nat
  /\ Scenarios \subseteq
       [automations: SUBSET Automations, watchers: SUBSET Automations,
        triggers: SUBSET Triggers, clock: 0..MaxTime,
        commands: Nat, calls: Nat, faults: Nat]

VARIABLES
  now,
  automation,   \* automation[a]: the record of a
  runs,         \* runs[a][s]: the record of a's run for slot s
  task,         \* task[a][s]: what became of the task last started for it
  trigger,      \* trigger[g]: the record of g
  scheduler,    \* the phase, what it has still to do, the item under way
  call,         \* the run started by hand that is under way
  used,         \* the scenario, and how much of its bounds is used up
  started,      \* started[a][s]: tasks started for the slot
  recorded,     \* slots whose run was saved at some time
  lost,         \* slots and triggers of which a start left no trace in time
  fired         \* fired[g]: tasks started for the trigger

disk == <<automation, runs, trigger>>
history == <<started, recorded, lost, fired>>
vars == <<now, disk, task, scheduler, call, used, history>>

Never == MaxTime + 2
Slots == 1..(MaxTime + 1)
Schedules == [once: {FALSE}, at: {1}] \cup [once: {TRUE}, at: 1..MaxTime]
AllRuns == [automation: Automations, slot: Slots \cup {Manual}]
Scheduled == [automation: Automations, slot: Slots]

AutomationRecords ==
  [status: {"Active", "Paused"}, schedule: Schedules, next: Slots \cup {Never}]
TriggerRecords ==
  [status: {"Pending", "Fired", "Failed", "Canceled"}, fire_at: 1..MaxTime]
Calls == [automation: Automations, result: {Nothing, "Running", "Failed"}]
RunStatuses == {"Running", "Completed", "Failed"}
TaskStatuses == {"Open", "Completed", "Silent", "Failed"}

(* What stands for no record is none; runs and triggers are different.     *)
ASSUME ValueAssumption ==
  /\ {Absent, Deleted} \cap AutomationRecords = {} /\ Absent \notin TriggerRecords
  /\ Absent \notin RunStatuses \cup TaskStatuses /\ Manual \notin Slots
  /\ Nothing \notin Calls \cup RunStatuses \cup AllRuns \cup Triggers
  /\ Triggers \cap AllRuns = {}

Exists(a) == automation[a] \notin {Absent, Deleted}
IsActive(a) == Exists(a) /\ automation[a].status = "Active"

TypeOK ==
  /\ now \in 0..MaxTime
  /\ automation \in [Automations -> {Absent, Deleted} \cup AutomationRecords]
  /\ \A a \in Automations : IsActive(a) => automation[a].next # Never
  /\ runs \in [Automations -> [Slots \cup {Manual} -> {Absent} \cup RunStatuses]]
  /\ task \in [Automations -> [Slots \cup {Manual} -> {Absent} \cup TaskStatuses]]
  /\ trigger \in [Triggers -> {Absent} \cup TriggerRecords]
  /\ scheduler.step \in
       {"tick", "runs", "save", "reconcile", "lookup", "fold", "triggers", "fire", "record"}
  /\ scheduler.todo \subseteq AllRuns \cup Triggers
  /\ call \in {Nothing} \cup Calls
  /\ recorded \subseteq Scheduled /\ lost \subseteq AllRuns \cup Triggers

Start == [step |-> "tick", todo |-> {}, item |-> Nothing, result |-> Nothing]

Init ==
  /\ now = 0
  /\ automation = [a \in Automations |-> Absent]
  /\ runs = [a \in Automations |-> [s \in Slots \cup {Manual} |-> Absent]]
  /\ task = runs
  /\ trigger = [g \in Triggers |-> Absent]
  /\ scheduler = Start
  /\ call = Nothing
  /\ used \in [commands: {0}, calls: {0}, faults: {0}, scenario: Scenarios]
  /\ started = [a \in Automations |-> [s \in Slots |-> 0]]
  /\ recorded = {}
  /\ lost = {}
  /\ fired = [g \in Triggers |-> 0]

Use(b) == used[b] < used.scenario[b] /\ used' = [used EXCEPT ![b] = @ + 1]

(***************************************************************************)
(* Schedules.  A recurring one has a slot at every instant.                 *)
(***************************************************************************)
NextAfter(schedule, t) ==
  IF ~schedule.once THEN t + 1 ELSE IF schedule.at > t THEN schedule.at ELSE Never

NextAfterNow(schedule, slot) ==   \* fault: missed slots are dropped
  IF schedule.once THEN Never ELSE now + 1

NextAfterSlot(schedule, slot) == IF schedule.once THEN Never ELSE slot + 1

AdvancedAnew(a, slot) ==   \* fault: the status is set from the next slot alone
  LET next == NextAfterSlot(automation[a].schedule, slot) IN
  [automation[a] EXCEPT !.next = next, !.status = IF next = Never THEN "Paused" ELSE "Active"]

(* advance_automation_after_slot: status only ever goes to Paused. *)
Advanced(a, slot) ==
  LET next == NextAfterSlot(automation[a].schedule, slot) IN
  [automation[a] EXCEPT !.next = next, !.status = IF next = Never THEN "Paused" ELSE @]

(***************************************************************************)
(* Commands.  One without a future slot to give is refused.                *)
(***************************************************************************)
Create(a, schedule, status) ==
  /\ a \in used.scenario.automations /\ automation[a] = Absent
  /\ status = "Active" => NextAfter(schedule, now) # Never
  /\ automation' = [automation EXCEPT ![a] =
       [status |-> status, schedule |-> schedule,
        next |-> IF status = "Active" THEN NextAfter(schedule, now) ELSE Never]]
  /\ UNCHANGED <<now, runs, task, trigger, scheduler, call, used, history>>

Command(a) ==
  /\ Exists(a) /\ Use("commands")
  /\ UNCHANGED <<now, task, trigger, scheduler, call, history>>

Reschedule(a, schedule) ==
  /\ Command(a)
  /\ IsActive(a) => NextAfter(schedule, now) # Never
  /\ automation' = [automation EXCEPT ![a] =
       [automation[a] EXCEPT !.schedule = schedule,
          !.next = IF IsActive(a) THEN NextAfter(schedule, now) ELSE automation[a].next]]
  /\ UNCHANGED runs

Pause(a) ==
  /\ Command(a)
  /\ automation' = [automation EXCEPT ![a] = [@ EXCEPT !.status = "Paused", !.next = Never]]
  /\ UNCHANGED runs

Resume(a) ==
  /\ Command(a)
  /\ LET next == NextAfter(automation[a].schedule, now) IN
     /\ next # Never
     /\ automation' = [automation EXCEPT ![a] = [@ EXCEPT !.status = "Active", !.next = next]]
  /\ UNCHANGED runs

Delete(a) ==
  /\ Command(a)
  /\ automation' = [automation EXCEPT ![a] = Deleted]
  /\ runs' = [runs EXCEPT ![a] = [s \in Slots \cup {Manual} |-> Absent]]

(* run_now: read the automation, start a task without the lock, save. *)
RunNow(a) ==
  /\ Exists(a) /\ call = Nothing /\ Use("calls")
  /\ call' = [automation |-> a, result |-> Nothing]
  /\ UNCHANGED <<now, disk, task, scheduler, history>>

RunNowEnqueue(result) ==
  /\ call # Nothing /\ call.result = Nothing
  /\ call' = [call EXCEPT !.result = result]
  /\ task' = [task EXCEPT ![call.automation][Manual] = IF result = "Running" THEN "Open" ELSE @]
  /\ UNCHANGED <<now, disk, scheduler, used, history>>

(* Saved also when the automation was deleted meanwhile. *)
RunNowSave ==
  /\ call # Nothing /\ call.result # Nothing
  /\ runs' = [runs EXCEPT ![call.automation][Manual] = call.result]
  /\ call' = Nothing
  /\ UNCHANGED <<now, automation, trigger, task, scheduler, used, history>>

CreateTrigger(g, at) ==
  /\ g \in used.scenario.triggers /\ trigger[g] = Absent /\ at > now
  /\ trigger' = [trigger EXCEPT ![g] = [status |-> "Pending", fire_at |-> at]]
  /\ UNCHANGED <<now, automation, runs, task, scheduler, call, used, history>>

CancelTrigger(g) ==
  /\ trigger[g] # Absent /\ trigger[g].status = "Pending"
  /\ Use("commands")
  /\ trigger' = [trigger EXCEPT ![g] = [@ EXCEPT !.status = "Canceled"]]
  /\ UNCHANGED <<now, automation, runs, task, scheduler, call, history>>

(***************************************************************************)
(* The scheduler.                                                          *)
(***************************************************************************)
At(step) == scheduler.step = step

Proceed(step, todo) ==
  scheduler' = [step |-> step, todo |-> todo, item |-> Nothing, result |-> Nothing]

Begin(step, item, result) ==
  /\ item \in scheduler.todo
  /\ scheduler' = [step |-> step, todo |-> scheduler.todo \ {item},
                   item |-> item, result |-> result]

(* A write fails: the phase is given up, or the process crashes there. *)
GiveUp(step) ==
  /\ Use("faults")
  /\ \/ Proceed(step, {}) /\ UNCHANGED call
     \/ scheduler' = Start /\ call' = Nothing

(* collect_due_runs *)
Due == {a \in Automations : IsActive(a) /\ automation[a].next <= now}

NoRun(a, slot) == FALSE   \* fault: the runs are not looked at

HasRun(a, slot) == runs[a][slot] # Absent

KeptSlot(a) == automation[a]   \* fault: a slot that has its run is skipped over

Swept(a) ==
  IF a \in Due /\ HasRun(a, automation[a].next) THEN Advanced(a, automation[a].next)
  ELSE automation[a]

CollectDue ==
  /\ At("tick")
  /\ automation' = [a \in Automations |-> Swept(a)]
  /\ Proceed("runs", {[automation |-> a, slot |-> automation[a].next] :
                      a \in {b \in Due : ~HasRun(b, automation[b].next)}})
  /\ UNCHANGED <<now, runs, task, trigger, call, used, history>>

(* What was swept before the failing write stays; nothing is enqueued. *)
CollectFails ==
  /\ At("tick")
  /\ \E b \in Automations, done \in SUBSET Automations :
       /\ Swept(b) # automation[b] /\ b \notin done
       /\ automation' = [a \in Automations |-> IF a \in done THEN Swept(a) ELSE automation[a]]
  /\ GiveUp("reconcile")
  /\ UNCHANGED <<now, runs, task, trigger, history>>

(* enqueue_run_task: the task manager accepts or refuses. *)
EnqueueRun(run, result) ==
  /\ At("runs") /\ Begin("save", run, result)
  /\ IF result = "Running"
     THEN /\ task' = [task EXCEPT ![run.automation][run.slot] = "Open"]
          /\ started' = [started EXCEPT ![run.automation][run.slot] = @ + 1]
     ELSE UNCHANGED <<task, started>>
  /\ UNCHANGED <<now, disk, call, used, recorded, lost, fired>>

SaveRun ==
  LET run == scheduler.item IN
  /\ runs' = [runs EXCEPT ![run.automation][run.slot] = scheduler.result]
  /\ recorded' = recorded \cup {run}

(* finish_scheduled_run: the run, then the automation, re-read. *)
FinishRun ==
  LET run == scheduler.item  a == run.automation IN
  /\ At("save")
  /\ SaveRun
  /\ automation' = [automation EXCEPT ![a] = IF Exists(a) THEN Advanced(a, run.slot) ELSE @]
  /\ Proceed("runs", scheduler.todo)
  /\ UNCHANGED <<now, trigger, task, call, used, started, lost, fired>>

FinishFails ==
  /\ At("save")
  /\ \/ SaveRun /\ UNCHANGED lost
     \/ UNCHANGED <<runs, recorded>> /\ lost' = lost \cup {scheduler.item}
  /\ GiveUp("reconcile")
  /\ UNCHANGED <<now, automation, trigger, task, started, fired>>

(* collect_pending_runs *)
PendingIfActive ==   \* fault: paused automations are passed over
  {run \in AllRuns : IsActive(run.automation) /\ runs[run.automation][run.slot] = "Running"}

PendingRuns ==
  {run \in AllRuns : Exists(run.automation) /\ runs[run.automation][run.slot] = "Running"}

CollectPending ==
  /\ At("reconcile")
  /\ Proceed("lookup", PendingRuns)
  /\ UNCHANGED <<now, disk, task, call, used, history>>

LookUp(run) ==
  /\ At("lookup")
  /\ Begin("fold", run, task[run.automation][run.slot])
  /\ UNCHANGED <<now, disk, task, call, used, history>>

(* A completed watcher that had nothing to say leaves no run behind. *)
IsSilentWatch(run) ==
  /\ run.automation \in used.scenario.watchers /\ Exists(run.automation)
  /\ scheduler.result = "Silent"

(* apply_task_status *)
Outcome(result) == CASE result = "Open" -> "Running"
                     [] result = "Silent" -> "Completed"
                     [] OTHER -> result

(* Of the snapshot that was looked up: the run of an automation deleted     *)
(* meanwhile is written again.                                             *)
FoldRun ==
  LET run == scheduler.item  a == run.automation  silent == IsSilentWatch(run) IN
  /\ runs' = IF scheduler.result = "Open" THEN runs
             ELSE [runs EXCEPT ![a][run.slot] =
                     IF silent THEN Absent ELSE Outcome(scheduler.result)]
  /\ lost' = IF silent /\ automation[a].next = run.slot THEN lost \cup {run} ELSE lost

Fold ==
  /\ At("fold")
  /\ FoldRun
  /\ Proceed("lookup", scheduler.todo)
  /\ UNCHANGED <<now, automation, trigger, task, call, used, started, recorded, fired>>

FoldFails ==
  /\ At("fold") /\ scheduler.result # "Open"
  /\ FoldRun \/ UNCHANGED <<runs, lost>>
  /\ GiveUp("triggers")
  /\ UNCHANGED <<now, automation, trigger, task, started, recorded, fired>>

(* collect_due_triggers *)
DueUnlessFired ==   \* fault: only fired triggers are left out
  {g \in Triggers : trigger[g] # Absent /\ trigger[g].status # "Fired" /\ trigger[g].fire_at <= now}

DueTriggers ==
  {g \in Triggers : trigger[g] # Absent /\ trigger[g].status = "Pending" /\ trigger[g].fire_at <= now}

CollectTriggers ==
  /\ At("triggers")
  /\ Proceed("fire", DueTriggers)
  /\ UNCHANGED <<now, disk, task, call, used, history>>

FireTrigger(g, result) ==
  /\ At("fire") /\ Begin("record", g, result)
  /\ fired' = [fired EXCEPT ![g] = IF result = "Fired" THEN @ + 1 ELSE @]
  /\ UNCHANGED <<now, disk, task, call, used, started, recorded, lost>>

(* The record that was collected is written, whatever it is now. *)
RecordTrigger ==
  /\ At("record")
  /\ trigger' = [trigger EXCEPT ![scheduler.item] = [@ EXCEPT !.status = scheduler.result]]
  /\ Proceed("fire", scheduler.todo)
  /\ UNCHANGED <<now, automation, runs, task, call, used, history>>

RecordFails ==
  /\ At("record")
  /\ lost' = lost \cup {scheduler.item}
  /\ GiveUp("tick")
  /\ UNCHANGED <<now, disk, task, started, recorded, fired>>

EndPhase ==
  /\ scheduler.todo = {}
  /\ \/ At("runs") /\ Proceed("reconcile", {})
     \/ At("lookup") /\ Proceed("triggers", {})
     \/ At("fire") /\ Proceed("tick", {})
  /\ UNCHANGED <<now, disk, task, call, used, history>>

(***************************************************************************)
(* Tasks, time, crashes.                                                   *)
(***************************************************************************)
TaskEnds(a, s, result) ==
  /\ task[a][s] = "Open"
  /\ result = "Silent" => a \in used.scenario.watchers   \* for others it is Completed
  /\ task' = [task EXCEPT ![a][s] = result]
  /\ UNCHANGED <<now, disk, scheduler, call, used, history>>

Tick ==
  /\ now < used.scenario.clock
  /\ now' = now + 1
  /\ UNCHANGED <<disk, task, scheduler, call, used, history>>

(* Between two writes: what was enqueued and not saved left no trace. *)
Crash ==
  /\ Use("faults")
  /\ ~(At("save") \/ At("record"))
  /\ scheduler' = Start /\ call' = Nothing
  /\ UNCHANGED <<now, disk, task, history>>

SchedulerStep ==
  \/ CollectDue \/ CollectFails
  \/ \E run \in Scheduled, result \in {"Running", "Failed"} : EnqueueRun(run, result)
  \/ FinishRun \/ FinishFails
  \/ CollectPending
  \/ \E run \in AllRuns : LookUp(run)
  \/ Fold \/ FoldFails
  \/ CollectTriggers
  \/ \E g \in Triggers, result \in {"Fired", "Failed"} : FireTrigger(g, result)
  \/ RecordTrigger \/ RecordFails
  \/ EndPhase

UserStep ==
  \/ \E a \in Automations :
       \/ \E schedule \in Schedules :
            \/ \E status \in {"Active", "Paused"} : Create(a, schedule, status)
            \/ Reschedule(a, schedule)
       \/ Pause(a) \/ Resume(a) \/ Delete(a) \/ RunNow(a)
  \/ \E result \in {"Running", "Failed"} : RunNowEnqueue(result)
  \/ RunNowSave
  \/ \E g \in Triggers : CancelTrigger(g) \/ \E at \in 1..MaxTime : CreateTrigger(g, at)

Next ==
  \/ SchedulerStep \/ UserStep \/ Tick \/ Crash
  \/ \E run \in AllRuns, result \in {"Completed", "Silent", "Failed"} :
       TaskEnds(run.automation, run.slot, result)

Spec == Init /\ [][Next]_vars
FairSpec == Spec /\ WF_vars(SchedulerStep)

(***************************************************************************)
(* Properties.                                                             *)
(***************************************************************************)
(* A slot starts a second task only if the first one left no run record by   *)
(* which the sweep could tell: the save failed, or a silent watcher's run    *)
(* was removed before the slot was advanced.  Commands, failing writes and  *)
(* catching up never do that.                                              *)
SlotRunsOnce ==
  \A run \in Scheduled : started[run.automation][run.slot] > 1 => run \in lost

(* One task per slot, and the types: an active automation has a next slot. *)
AutomationInv == TypeOK /\ SlotRunsOnce

(* The scheduler moves an automation past a slot only after a run for the    *)
(* slot was saved, and then to the very next slot: what was missed while it  *)
(* was busy or down is caught up.  Not when a user gave the automation a     *)
(* single later slot while its run was being enqueued: that one is lost.    *)
Overtaken(a) ==
  At("save") /\ scheduler.item.automation = a
  /\ automation[a].schedule.once /\ automation[a].next # scheduler.item.slot

EverySlotRuns ==
  [][\A a \in Automations :
       IsActive(a) /\ used'.commands = used.commands /\ ~Overtaken(a) =>
         LET slot == automation[a].next IN
         \/ automation'[a].next <= slot
         \/ /\ [automation |-> a, slot |-> slot] \in recorded'
            /\ automation'[a].next <= NextAfterSlot(automation[a].schedule, slot)]_vars

(* Only a user makes an automation active, changes its schedule or deletes   *)
(* it; a deleted one stays away, although the scheduler goes on with what it *)
(* read before.                                                            *)
UserWins ==
  [][\A a \in Automations :
       used'.commands = used.commands /\ automation[a] # Absent =>
         /\ Exists(a) <=> Exists(a)'
         /\ Exists(a) => automation'[a].schedule = automation[a].schedule
         /\ Exists(a) /\ automation'[a].status = "Active" => IsActive(a)]_vars

(* A trigger starts one task, a second only if the record of the first could *)
(* not be saved; once canceled, none, unless the scheduler had collected it  *)
(* already: then the cancel is overwritten.                                *)
InFlight(g) == g \in scheduler.todo \/ scheduler.item = g

TriggersHold ==
  [][\A g \in Triggers :
       /\ fired'[g] # fired[g] /\ fired[g] > 0 => g \in lost
       /\ trigger[g] # Absent /\ trigger[g].status = "Canceled" /\ ~InFlight(g) =>
            trigger'[g] = trigger[g] /\ ~InFlight(g)']_vars

(* Again and again nothing is left that is due, after any crash or failed    *)
(* write: the scheduler neither gets stuck on a slot nor forgets a trigger. *)
DueWorkIsDone == []<>(Due = {} /\ DueTriggers = {})

(* The run of an existing automation follows its task to the end, also when  *)
(* the automation was paused or a fold failed.                             *)
RunsFollowTasks ==
  []<>(\A run \in AllRuns :
         LET status == runs[run.automation][run.slot]
             result == task[run.automation][run.slot]
         IN /\ Exists(run.automation) /\ status = "Running" => result = "Open"
            /\ status = "Completed" => result \in {"Completed", "Silent"})
=============================================================================
