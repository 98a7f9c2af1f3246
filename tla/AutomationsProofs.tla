-------------------------- MODULE AutomationsProofs --------------------------
(***************************************************************************)
(* Automations, for every set of automations and triggers and every bound: *)
(* one task per slot (AutomationInv), no slot passed over (EverySlotRuns), *)
(* the scheduler never undoes a command (UserWins) and triggers fire once  *)
(* and stay canceled (TriggersHold).                                       *)
(*                                                                         *)
(* SlotRunsOnce is about three reads and writes with the mutex released in *)
(* between.  Its invariant says of every slot that has started a task and  *)
(* left a trace that the next slot of its automation is later, or the same *)
(* and its run is saved or about to be (BehindFit), and of those that wait *)
(* to be started that none has been (DueFit, OrderFit), whatever users do  *)
(* to the automation meanwhile; TriggersFit is the same for triggers, and  *)
(* TracksFit that what is looked up and folded is of a run that was saved. *)
(***************************************************************************)
EXTENDS Automations, TLAPS

UsedFits ==
  used \in [commands: Nat, calls: Nat, faults: Nat, scenario: Scenarios]

HistoryFits ==
  /\ started \in [Automations -> [Slots -> Nat]]
  /\ fired \in [Triggers -> Nat]

Steps ==
  {"tick", "runs", "save", "reconcile", "lookup", "fold", "triggers", "fire", "record"}
Results ==
  {Nothing, Absent, "Running", "Open", "Completed", "Silent", "Failed", "Fired"}

(* What a phase has to do and the item under way, by the phase.            *)
SchedulerFits ==
  /\ scheduler \in [step: Steps, todo: SUBSET (AllRuns \cup Triggers),
                    item: {Nothing} \cup AllRuns \cup Triggers, result: Results]
  /\ scheduler.step \in {"tick", "reconcile", "triggers"} => scheduler.todo = {}
  /\ scheduler.step \in {"runs", "save"} => scheduler.todo \subseteq Scheduled
  /\ scheduler.step \in {"lookup", "fold"} => scheduler.todo \subseteq AllRuns
  /\ scheduler.step \in {"fire", "record"} => scheduler.todo \subseteq Triggers
  /\ At("save") => scheduler.item \in Scheduled /\ scheduler.result \in {"Running", "Failed"}
  /\ At("fold") => /\ scheduler.item \in AllRuns
                   /\ scheduler.result \in {"Open", "Completed", "Silent", "Failed"}
  /\ At("record") => scheduler.item \in Triggers /\ scheduler.result \in {"Fired", "Failed"}
  /\ scheduler.step \notin {"save", "fold", "record"} => scheduler.item = Nothing

HasTask(run) == task[run.automation][run.slot] # Absent
IsLookedUp(run) ==
  scheduler.step \in {"lookup", "fold"} /\ (run \in scheduler.todo \/ scheduler.item = run)

(* A run that is Running has a task; one on disk, or looked up there, was  *)
(* saved for its slot.                                                     *)
TracksFit ==
  /\ \A run \in AllRuns : runs[run.automation][run.slot] = "Running" => HasTask(run)
  /\ \A run \in Scheduled : HasRun(run.automation, run.slot) => run \in recorded
  /\ At("save") /\ scheduler.result = "Running" => HasTask(scheduler.item)
  /\ \A run \in AllRuns :
       IsLookedUp(run) => HasTask(run) /\ (run \in Scheduled => run \in recorded)
  /\ call # Nothing /\ call.result = "Running" => task[call.automation][Manual] # Absent

Traced(run) == started[run.automation][run.slot] > 0 /\ run \notin lost
Saving(run) == At("save") /\ scheduler.item = run
Awaited(run) == scheduler.step \in {"runs", "save"} /\ run \in scheduler.todo

(* A slot that started a task is behind its automation, or its run is      *)
(* saved, or about to be.                                                  *)
IsBehind(run) ==
  \/ run.slot < automation[run.automation].next
  \/ /\ run.slot = automation[run.automation].next
     /\ HasRun(run.automation, run.slot) \/ Saving(run)

BehindFit ==
  \A run \in Scheduled :
    Traced(run) => run.slot <= now /\ (Exists(run.automation) => IsBehind(run))

(* A slot that waits to be started has come, and is not passed over.       *)
DueFit ==
  \A run \in Scheduled :
    Awaited(run) \/ Saving(run) =>
      /\ run.slot <= now
      /\ Exists(run.automation) => run.slot <= automation[run.automation].next

(* It is the only one of its automation, and later than all that started. *)
OrderFit ==
  \A run, other \in Scheduled :
    other.automation = run.automation =>
      /\ Awaited(run) /\ Traced(other) => other.slot < run.slot
      /\ Saving(run) /\ Traced(other) => other.slot <= run.slot
      /\ Awaited(run) => ~Saving(other) /\ (Awaited(other) => other = run)

(* A trigger that fired and left a trace is no longer Pending, or about to *)
(* be recorded; none that waits to be fired has.                           *)
TriggersFit ==
  \A g \in Triggers :
    /\ fired[g] > 0 /\ g \notin lost =>
         \/ At("record") /\ scheduler.item = g
         \/ trigger[g] # Absent /\ trigger[g].status # "Pending"
    /\ scheduler.step \in {"fire", "record"} /\ g \in scheduler.todo =>
         /\ fired[g] = 0 \/ g \in lost
         /\ trigger[g] # Absent /\ scheduler.item # g
    /\ At("record") /\ scheduler.item = g => trigger[g] # Absent

AInv ==
  /\ TypeOK /\ UsedFits /\ HistoryFits /\ SchedulerFits
  /\ TracksFit /\ BehindFit /\ DueFit /\ OrderFit /\ SlotRunsOnce /\ TriggersFit

(***************************************************************************)
(* The records and the operators on them.                                  *)
(***************************************************************************)
LEMMA RunParts ==
  ASSUME NEW run \in AllRuns
  PROVE  /\ run.automation \in Automations /\ run.slot \in Slots \cup {Manual}
         /\ run = [automation |-> run.automation, slot |-> run.slot]
BY DEF AllRuns

(* A run of a slot, as opposed to one by hand. *)
LEMMA ScheduledParts ==
  ASSUME NEW run \in Scheduled
  PROVE  /\ run \in AllRuns /\ run.automation \in Automations /\ run.slot \in Slots
         /\ run.slot \in Nat /\ run = [automation |-> run.automation, slot |-> run.slot]
BY AutomationAssumption DEF AllRuns, Scheduled, Slots

(* A run is known by its automation and its slot.                          *)
LEMMA SameRun ==
  ASSUME NEW run \in AllRuns, NEW other \in AllRuns,
         run.automation = other.automation, run.slot = other.slot
  PROVE  run = other
<1>1. run = [automation |-> run.automation, slot |-> run.slot]
  BY RunParts
<1>2. other = [automation |-> other.automation, slot |-> other.slot]
  BY RunParts
<1> QED  BY <1>1, <1>2

(* The fields of an automation that exists. *)
LEMMA RecordParts ==
  ASSUME AInv, NEW a \in Automations, Exists(a)
  PROVE  /\ automation[a] \in AutomationRecords
         /\ automation[a].status \in {"Active", "Paused"}
         /\ automation[a].schedule \in Schedules
         /\ automation[a].next \in Slots \cup {Never}
         /\ automation[a].next \in Nat
         /\ IsActive(a) => automation[a].next # Never
<1>1. automation[a] \in AutomationRecords /\ (IsActive(a) => automation[a].next # Never)
  BY DEF AInv, TypeOK, Exists
<1> QED  BY <1>1, AutomationAssumption DEF AutomationRecords, Slots, Never

(* What a schedule is made of. *)
LEMMA ScheduleParts ==
  ASSUME NEW schedule \in Schedules
  PROVE  schedule.once \in BOOLEAN /\ schedule.at \in Nat /\ schedule.at <= MaxTime + 1
<1>1. schedule.once \in {TRUE, FALSE} /\ schedule.at \in {1} \cup (1..MaxTime)
  BY Zenon DEF Schedules
<1>2. \A t \in {1} \cup (1..MaxTime) : t \in Nat /\ t <= MaxTime + 1
  BY AutomationAssumption
<1>3. schedule.once \in BOOLEAN
  BY <1>1, Zenon
<1> QED  BY <1>1, <1>2, <1>3

(* The clock is within its bound. *)
LEMMA NowFits == ASSUME AInv PROVE now \in Nat /\ now <= MaxTime /\ MaxTime \in Nat
BY AutomationAssumption DEF AInv, TypeOK

(* A next slot is later than the time it is asked for; Never has none. *)
LEMMA NextAfterFits ==
  ASSUME AInv, NEW schedule \in Schedules
  PROVE  /\ NextAfter(schedule, now) \in Slots \cup {Never}
         /\ NextAfter(schedule, now) \in Nat /\ NextAfter(schedule, now) > now
BY NowFits, ScheduleParts DEF NextAfter, Slots, Never

(* advance_automation_after_slot goes past the slot, and touches nothing    *)
(* that a user decides but by pausing what has no slot left.               *)
LEMMA AdvancedParts ==
  ASSUME AInv, NEW a \in Automations, Exists(a), NEW slot \in Slots, slot <= now
  PROVE  /\ Advanced(a, slot) \in AutomationRecords
         /\ Advanced(a, slot).next = NextAfterSlot(automation[a].schedule, slot)
         /\ Advanced(a, slot).next \in Nat /\ Advanced(a, slot).next > slot
         /\ Advanced(a, slot).schedule = automation[a].schedule
         /\ Advanced(a, slot).status = "Active" =>
              automation[a].status = "Active" /\ Advanced(a, slot).next # Never
<1> DEFINE next == NextAfterSlot(automation[a].schedule, slot)
<1>1. slot \in Nat /\ next \in Slots \cup {Never} /\ next \in Nat /\ next > slot
  BY NowFits, RecordParts, ScheduleParts DEF NextAfterSlot, Slots, Never
<1>2. Advanced(a, slot) = [automation[a] EXCEPT !.next = next,
                             !.status = IF next = Never THEN "Paused" ELSE @]
  BY DEF Advanced
<1>3. automation[a] \in AutomationRecords
  BY RecordParts
<1> HIDE DEF next
<1>4. /\ Advanced(a, slot) \in AutomationRecords
      /\ Advanced(a, slot).next = next /\ Advanced(a, slot).schedule = automation[a].schedule
      /\ Advanced(a, slot).status = IF next = Never THEN "Paused" ELSE automation[a].status
  BY <1>1, <1>2, <1>3 DEF AutomationRecords
<1> QED  BY <1>1, <1>4 DEF next

(* One run, one task and one counter get another value.                    *)
LEMMA RunSet ==
  ASSUME AInv, NEW run \in AllRuns, NEW value \in {Absent} \cup RunStatuses,
         runs' = [runs EXCEPT ![run.automation][run.slot] = value]
  PROVE  /\ runs' \in [Automations -> [Slots \cup {Manual} -> {Absent} \cup RunStatuses]]
         /\ \A other \in AllRuns :
              runs'[other.automation][other.slot] =
                IF other = run THEN value ELSE runs[other.automation][other.slot]
<1>1. run.automation \in Automations /\ run.slot \in Slots \cup {Manual}
  BY RunParts
<1>2. runs \in [Automations -> [Slots \cup {Manual} -> {Absent} \cup RunStatuses]]
  BY DEF AInv, TypeOK
<1>3. ASSUME NEW other \in AllRuns
      PROVE  runs'[other.automation][other.slot] =
               IF other = run THEN value ELSE runs[other.automation][other.slot]
  <2>1. other # run => other.automation # run.automation \/ other.slot # run.slot
    BY SameRun
  <2>2. other.automation \in Automations /\ other.slot \in Slots \cup {Manual}
    BY RunParts
  <2> QED  BY <1>1, <1>2, <2>1, <2>2
<1> QED  BY <1>1, <1>2, <1>3

(* What one change of the task map leaves alone. *)
LEMMA TaskSet ==
  ASSUME AInv, NEW run \in AllRuns, NEW value \in {Absent} \cup TaskStatuses,
         task' = [task EXCEPT ![run.automation][run.slot] = value]
  PROVE  /\ task' \in [Automations -> [Slots \cup {Manual} -> {Absent} \cup TaskStatuses]]
         /\ \A other \in AllRuns :
              task'[other.automation][other.slot] =
                IF other = run THEN value ELSE task[other.automation][other.slot]
<1>1. run.automation \in Automations /\ run.slot \in Slots \cup {Manual}
  BY RunParts
<1>2. task \in [Automations -> [Slots \cup {Manual} -> {Absent} \cup TaskStatuses]]
  BY DEF AInv, TypeOK
<1>3. ASSUME NEW other \in AllRuns
      PROVE  task'[other.automation][other.slot] =
               IF other = run THEN value ELSE task[other.automation][other.slot]
  <2>1. other # run => other.automation # run.automation \/ other.slot # run.slot
    BY SameRun
  <2>2. other.automation \in Automations /\ other.slot \in Slots \cup {Manual}
    BY RunParts
  <2> QED  BY <1>1, <1>2, <2>1, <2>2
<1> QED  BY <1>1, <1>2, <1>3

(* The history counts one start more, of one slot. *)
LEMMA StartedSet ==
  ASSUME AInv, NEW run \in Scheduled,
         started' = [started EXCEPT ![run.automation][run.slot] = @ + 1]
  PROVE  /\ started' \in [Automations -> [Slots -> Nat]]
         /\ started'[run.automation][run.slot] = started[run.automation][run.slot] + 1
         /\ \A other \in Scheduled : other # run =>
              started'[other.automation][other.slot] = started[other.automation][other.slot]
<1>1. run.automation \in Automations /\ run.slot \in Slots
  BY ScheduledParts
<1>2. started \in [Automations -> [Slots -> Nat]]
  BY DEF AInv, HistoryFits
<1>3. started[run.automation][run.slot] \in Nat
  BY <1>1, <1>2
<1>4. ASSUME NEW other \in Scheduled, other # run
      PROVE  started'[other.automation][other.slot] = started[other.automation][other.slot]
  <2>1. other.automation # run.automation \/ other.slot # run.slot
    BY <1>4, SameRun, ScheduledParts
  <2>2. other.automation \in Automations /\ other.slot \in Slots
    BY ScheduledParts
  <2> QED  BY <1>1, <1>2, <2>1, <2>2
<1> QED  BY <1>1, <1>2, <1>3, <1>4

(* What a looked up result makes of its run.                               *)
LEMMA FoldSet ==
  ASSUME AInv, At("fold"), FoldRun
  PROVE  /\ runs' \in [Automations -> [Slots \cup {Manual} -> {Absent} \cup RunStatuses]]
         /\ lost' \subseteq AllRuns \cup Triggers
         /\ \A run \in AllRuns :
              \/ runs'[run.automation][run.slot] = runs[run.automation][run.slot]
              \/ /\ run = scheduler.item /\ scheduler.result # "Open"
                 /\ runs'[run.automation][run.slot] \in RunStatuses \ {"Running"}
              \/ /\ run = scheduler.item /\ IsSilentWatch(run)
                 /\ runs'[run.automation][run.slot] = Absent
                 /\ automation[run.automation].next = run.slot => run \in lost'
         /\ lost \subseteq lost'
<1> DEFINE item == scheduler.item  silent == IsSilentWatch(item)
<1>1. item \in AllRuns /\ scheduler.result \in {"Open", "Completed", "Silent", "Failed"}
  BY DEF AInv, SchedulerFits
<1>2. lost' = IF silent /\ automation[item.automation].next = item.slot
              THEN lost \cup {item} ELSE lost
  BY DEF FoldRun
<1>3. CASE scheduler.result = "Open"
  <2>1. runs' = runs
    BY <1>3 DEF FoldRun
  <2> QED  BY <1>1, <1>2, <2>1 DEF AInv, TypeOK
<1>4. CASE scheduler.result # "Open"
  <2> DEFINE value == IF silent THEN Absent ELSE Outcome(scheduler.result)
  <2>1. runs' = [runs EXCEPT ![item.automation][item.slot] = value]
    BY <1>4 DEF FoldRun
  <2>2. ~silent => value \in RunStatuses \ {"Running"}
    BY <1>1, <1>4 DEF Outcome, RunStatuses
  <2>3. value \in {Absent} \cup RunStatuses /\ (silent => value = Absent)
    BY <2>2
  <2> HIDE DEF value, silent, item
  <2>4. /\ runs' \in [Automations -> [Slots \cup {Manual} -> {Absent} \cup RunStatuses]]
        /\ \A run \in AllRuns :
             runs'[run.automation][run.slot] =
               IF run = item THEN value ELSE runs[run.automation][run.slot]
    <3>1. item \in AllRuns
      BY <1>1 DEF item
    <3> QED  BY <2>1, <2>3, <3>1, RunSet
  <2>5. lost \subseteq lost' /\ lost' \subseteq AllRuns \cup Triggers
    BY <1>1, <1>2 DEF AInv, TypeOK, item
  <2> QED  BY <1>2, <1>4, <2>2, <2>3, <2>4, <2>5 DEF silent, item
<1> QED  BY <1>3, <1>4

(* What the sweep makes of an automation.                                  *)
LEMMA SweptParts ==
  ASSUME AInv, NEW a \in Automations, Swept(a) # automation[a]
  PROVE  /\ IsActive(a) /\ automation[a].next <= now /\ HasRun(a, automation[a].next)
         /\ automation[a].next \in Slots /\ a \in Due
         /\ Swept(a) = Advanced(a, automation[a].next)
<1>1. /\ a \in Due /\ HasRun(a, automation[a].next)
      /\ Swept(a) = Advanced(a, automation[a].next)
  BY DEF Swept
<1> QED  BY <1>1, RecordParts DEF Due, IsActive

(* One automation gets another record.                                     *)
LEMMA RecordSet ==
  ASSUME AInv, NEW a \in Automations, NEW rec \in AutomationRecords,
         rec.status = "Active" => rec.next # Never,
         automation' = [automation EXCEPT ![a] = rec]
  PROVE  /\ automation' \in [Automations -> {Absent, Deleted} \cup AutomationRecords]
         /\ \A b \in Automations : IsActive(b)' => automation'[b].next # Never
         /\ automation'[a] = rec
         /\ \A b \in Automations \ {a} : automation'[b] = automation[b]
BY DEF AInv, TypeOK, IsActive, Exists

(* Users move automations to later slots, or leave the slot as it is.      *)
LEMMA SlotsStay ==
  ASSUME AInv, TypeOK', UNCHANGED <<now, scheduler, started, lost>>,
         \A b \in Automations : Exists(b)' =>
           \/ automation'[b].next \in Nat /\ automation'[b].next > now
           \/ Exists(b) /\ automation'[b].next = automation[b].next /\ runs'[b] = runs[b]
  PROVE  BehindFit' /\ DueFit'
<1>1. ASSUME NEW run \in Scheduled, Traced(run)'
      PROVE  run.slot <= now /\ (Exists(run.automation)' => IsBehind(run)')
  <2>1. Traced(run) /\ run.slot <= now /\ (Exists(run.automation) => IsBehind(run))
    BY <1>1 DEF Traced, AInv, BehindFit
  <2>2. run.automation \in Automations /\ run.slot \in Nat /\ now \in Nat
    BY ScheduledParts, NowFits
  <2> QED  BY <2>1, <2>2 DEF IsBehind, HasRun, Saving, At
<1>2. ASSUME NEW run \in Scheduled, Awaited(run)' \/ Saving(run)'
      PROVE  run.slot <= now /\ (Exists(run.automation)' => run.slot <= automation'[run.automation].next)
  <2>1. /\ run.slot <= now
        /\ Exists(run.automation) => run.slot <= automation[run.automation].next
    BY <1>2 DEF Awaited, Saving, At, AInv, DueFit
  <2>2. run.automation \in Automations /\ run.slot \in Nat /\ now \in Nat
    BY ScheduledParts, NowFits
  <2> QED  BY <2>1, <2>2
<1> QED  BY <1>1, <1>2 DEF BehindFit, DueFit

(* The sweep passes over slots that have their run.                        *)
LEMMA SweepKeeps ==
  ASSUME AInv, At("tick"), UNCHANGED <<now, runs>>,
         \A a \in Automations : automation'[a] \in {automation[a], Swept(a)},
         NEW run \in Scheduled, Traced(run)
  PROVE  /\ run.slot <= now
         /\ Exists(run.automation)' =>
              \/ run.slot < automation'[run.automation].next
              \/ /\ run.slot = automation'[run.automation].next
                 /\ HasRun(run.automation, run.slot)'
<1> DEFINE a == run.automation
<1>1. a \in Automations /\ run.slot \in Nat
  BY ScheduledParts
<1>2. run.slot <= now /\ (Exists(a) => IsBehind(run)) /\ ~Saving(run)
  BY DEF AInv, BehindFit, Saving, At
<1>3. CASE automation'[a] = automation[a]
  BY <1>2, <1>3 DEF IsBehind, Exists, HasRun
<1>4. CASE automation'[a] # automation[a]
  <2>1. Swept(a) # automation[a] /\ automation'[a] = Swept(a)
    BY <1>1, <1>4
  <2>2. /\ Exists(a) /\ automation[a].next \in Slots /\ automation[a].next <= now
        /\ automation'[a] = Advanced(a, automation[a].next)
    BY <1>1, <2>1, SweptParts DEF IsActive
  <2>3. automation'[a].next \in Nat /\ automation'[a].next > automation[a].next
    BY <1>1, <2>2, AdvancedParts
  <2>4. automation[a].next \in Nat
    BY <1>1, <2>2, RecordParts
  <2> QED  BY <1>1, <1>2, <2>2, <2>3, <2>4 DEF IsBehind
<1> QED  BY <1>3, <1>4

(* A sweep writes records, and no active one without a slot. *)
LEMMA SweepFits ==
  ASSUME AInv, automation' \in [Automations -> UNION {{automation[a], Swept(a)} : a \in Automations}],
         \A a \in Automations : automation'[a] \in {automation[a], Swept(a)}
  PROVE  /\ automation' \in [Automations -> {Absent, Deleted} \cup AutomationRecords]
         /\ \A a \in Automations : IsActive(a)' => automation'[a].next # Never
<1>1. ASSUME NEW a \in Automations
      PROVE  /\ automation'[a] \in {Absent, Deleted} \cup AutomationRecords
             /\ IsActive(a)' => automation'[a].next # Never
  <2>1. CASE automation'[a] = automation[a]
    BY <2>1 DEF AInv, TypeOK, IsActive, Exists
  <2>2. CASE Swept(a) # automation[a] /\ automation'[a] = Swept(a)
    BY <2>2, SweptParts, AdvancedParts DEF IsActive
  <2> QED  BY <2>1, <2>2
<1> QED  BY <1>1

(* What update_automation makes of a record when only its schedule changes. *)
LEMMA RescheduledParts ==
  ASSUME AInv, NEW a \in Automations, NEW schedule \in Schedules, Reschedule(a, schedule)
  PROVE  \E rec \in AutomationRecords :
           /\ automation' = [automation EXCEPT ![a] = rec]
           /\ Exists(a) /\ rec.schedule = schedule
           /\ rec.status = automation[a].status
           /\ rec.status = "Active" => rec.next # Never
           /\ \/ rec.next = automation[a].next
              \/ rec.next \in Nat /\ rec.next > now
<1> DEFINE next == IF IsActive(a) THEN NextAfter(schedule, now) ELSE automation[a].next
           rec == [automation[a] EXCEPT !.schedule = schedule, !.next = next]
<1>1. Exists(a) /\ automation[a] \in AutomationRecords
  BY RecordParts DEF Reschedule, Command
<1>2. next \in Slots \cup {Never} /\ (IsActive(a) => next # Never)
  BY <1>1, NextAfterFits, RecordParts DEF Reschedule
<1>3. IsActive(a) <=> automation[a].status = "Active"
  BY <1>1 DEF IsActive
<1>4. next = automation[a].next \/ (next \in Nat /\ next > now)
  BY NextAfterFits
<1>5. automation' = [automation EXCEPT ![a] = rec]
  BY DEF Reschedule
<1> HIDE DEF next
<1>6. /\ rec \in AutomationRecords /\ rec.schedule = schedule /\ rec.next = next
      /\ rec.status = automation[a].status
  BY <1>1, <1>2 DEF AutomationRecords
<1> HIDE DEF rec
<1> QED  BY <1>1, <1>2, <1>3, <1>4, <1>5, <1>6

(***************************************************************************)
(* Steps. One lemma for each action, and in it one step for each part of   *)
(* the invariant.                                                          *)
(***************************************************************************)
LEMMA CreateStep ==
  ASSUME AInv, NEW a \in Automations, NEW schedule \in Schedules, NEW status \in
         {"Active", "Paused"}, Create(a, schedule, status)
  PROVE  AInv'
<1>1. UsedFits'  BY DEF AInv, UsedFits, Create, history
<1>2. HistoryFits'  BY DEF AInv, HistoryFits, Create, history
<1>3. SchedulerFits'
  BY DEF AInv, SchedulerFits, Create, history, AllRuns, At, Results, Scheduled,
     Steps, Slots
<1>4. TypeOK'
  <2> DEFINE rec == [status |-> status, schedule |-> schedule,
              next |-> IF status = "Active" THEN NextAfter(schedule, now) ELSE Never]
  <2>6. rec \in AutomationRecords /\ (rec.status = "Active" => rec.next # Never)
    BY NextAfterFits DEF Create, AutomationRecords
  <2>7. automation' = [automation EXCEPT ![a] = rec]
    BY DEF Create
  <2> HIDE DEF rec
  <2>8. /\ automation' \in [Automations -> {Absent, Deleted} \cup AutomationRecords]
        /\ \A b \in Automations : IsActive(b)' => automation'[b].next # Never
    BY <2>6, <2>7, RecordSet
  <2> QED  BY <2>8 DEF Create, AInv, TypeOK, history
<1>5. TracksFit'
  BY DEF AInv, TracksFit, Create, history, AllRuns, At, HasRun, HasTask,
     IsLookedUp, Scheduled, Slots
<1>6. BehindFit'
  <2>1. Never \in Nat /\ Never > now
    BY NowFits DEF Never
  <2>9. \A b \in Automations : Exists(b)' =>
          \/ automation'[b].next \in Nat /\ automation'[b].next > now
          \/ Exists(b) /\ automation'[b].next = automation[b].next /\ runs'[b] = runs[b]
    <3>1. NextAfter(schedule, now) \in Nat /\ NextAfter(schedule, now) > now
      BY NextAfterFits
    <3> QED  BY <2>1, <3>1 DEF Create, Exists, AInv, TypeOK
  <2> QED  BY <1>4, <2>9, SlotsStay DEF Create, history
<1>7. DueFit'
  <2>1. Never \in Nat /\ Never > now
    BY NowFits DEF Never
  <2>9. \A b \in Automations : Exists(b)' =>
          \/ automation'[b].next \in Nat /\ automation'[b].next > now
          \/ Exists(b) /\ automation'[b].next = automation[b].next /\ runs'[b] = runs[b]
    <3>1. NextAfter(schedule, now) \in Nat /\ NextAfter(schedule, now) > now
      BY NextAfterFits
    <3> QED  BY <2>1, <3>1 DEF Create, Exists, AInv, TypeOK
  <2> QED  BY <1>4, <2>9, SlotsStay DEF Create, history
<1>8. OrderFit'
  BY DEF AInv, OrderFit, Create, history, Awaited, Saving, Scheduled, Traced,
     At, Slots
<1>9. SlotRunsOnce'  BY DEF AInv, SlotRunsOnce, Create, history
<1>10. TriggersFit'  BY DEF AInv, TriggersFit, Create, history, At
<1> QED  BY <1>1, <1>2, <1>3, <1>4, <1>5, <1>6, <1>7, <1>8, <1>9, <1>10 DEF AInv

LEMMA RescheduleStep ==
  ASSUME AInv, NEW a \in Automations, NEW schedule \in Schedules, Reschedule(a,
         schedule)
  PROVE  AInv'
<1>1. UsedFits'  BY DEF AInv, UsedFits, Reschedule, Command, history, Use
<1>2. HistoryFits'  BY DEF AInv, HistoryFits, Reschedule, Command, history, Use
<1>3. SchedulerFits'
  BY DEF AInv, SchedulerFits, Reschedule, Command, history, Use, AllRuns, At,
     Results, Scheduled, Steps, Slots
<1>4. TypeOK'
  <2>1. PICK rec \in AutomationRecords : /\ automation' = [automation EXCEPT ![a] = rec]
                                         /\ rec.status = "Active" => rec.next # Never
    BY RescheduledParts
  <2>2. /\ automation' \in [Automations -> {Absent, Deleted} \cup AutomationRecords]
        /\ \A b \in Automations : IsActive(b)' => automation'[b].next # Never
    BY <2>1, RecordSet
  <2> QED  BY <2>2 DEF Reschedule, Command, AInv, TypeOK, history
<1>5. TracksFit'
  BY DEF AInv, TracksFit, Reschedule, Command, history, Use, AllRuns, At,
     HasRun, HasTask, IsLookedUp, Scheduled, Slots
<1>6. BehindFit'
  <2>1. PICK rec \in AutomationRecords :
          /\ automation' = [automation EXCEPT ![a] = rec] /\ Exists(a)
          /\ rec.status = "Active" => rec.next # Never
          /\ rec.next = automation[a].next \/ (rec.next \in Nat /\ rec.next > now)
    BY RescheduledParts
  <2>2. automation'[a] = rec /\ \A b \in Automations \ {a} : automation'[b] = automation[b]
    BY <2>1, RecordSet
  <2>3. \A b \in Automations : Exists(b)' =>
          \/ automation'[b].next \in Nat /\ automation'[b].next > now
          \/ Exists(b) /\ automation'[b].next = automation[b].next /\ runs'[b] = runs[b]
    BY <2>1, <2>2 DEF Reschedule, Exists
  <2> QED  BY <1>4, <2>3, SlotsStay DEF Reschedule, Command, history
<1>7. DueFit'
  <2>1. PICK rec \in AutomationRecords :
          /\ automation' = [automation EXCEPT ![a] = rec] /\ Exists(a)
          /\ rec.status = "Active" => rec.next # Never
          /\ rec.next = automation[a].next \/ (rec.next \in Nat /\ rec.next > now)
    BY RescheduledParts
  <2>2. automation'[a] = rec /\ \A b \in Automations \ {a} : automation'[b] = automation[b]
    BY <2>1, RecordSet
  <2>3. \A b \in Automations : Exists(b)' =>
          \/ automation'[b].next \in Nat /\ automation'[b].next > now
          \/ Exists(b) /\ automation'[b].next = automation[b].next /\ runs'[b] = runs[b]
    BY <2>1, <2>2 DEF Reschedule, Exists
  <2> QED  BY <1>4, <2>3, SlotsStay DEF Reschedule, Command, history
<1>8. OrderFit'
  BY DEF AInv, OrderFit, Reschedule, Command, history, Use, Awaited, Saving,
     Scheduled, Traced, At, Slots
<1>9. SlotRunsOnce'
  BY DEF AInv, SlotRunsOnce, Reschedule, Command, history, Use
<1>10. TriggersFit'
  BY DEF AInv, TriggersFit, Reschedule, Command, history, Use, At
<1> QED  BY <1>1, <1>2, <1>3, <1>4, <1>5, <1>6, <1>7, <1>8, <1>9, <1>10 DEF AInv

LEMMA PauseStep ==
  ASSUME AInv, NEW a \in Automations, Pause(a)
  PROVE  AInv'
<1>1. UsedFits'  BY DEF AInv, UsedFits, Pause, Command, history, Use
<1>2. HistoryFits'  BY DEF AInv, HistoryFits, Pause, Command, history, Use
<1>3. SchedulerFits'
  BY DEF AInv, SchedulerFits, Pause, Command, history, Use, AllRuns, At,
     Results, Scheduled, Steps, Slots
<1>4. TypeOK'
  <2> DEFINE rec == [automation[a] EXCEPT !.status = "Paused", !.next = Never]
  <2>1. Exists(a) /\ automation[a] \in AutomationRecords
    BY RecordParts DEF Pause, Command
  <2>6. rec \in AutomationRecords /\ (rec.status = "Active" => rec.next # Never)
    BY <2>1 DEF AutomationRecords
  <2>7. automation' = [automation EXCEPT ![a] = rec]
    BY DEF Pause
  <2> HIDE DEF rec
  <2>8. /\ automation' \in [Automations -> {Absent, Deleted} \cup AutomationRecords]
        /\ \A b \in Automations : IsActive(b)' => automation'[b].next # Never
    BY <2>6, <2>7, RecordSet
  <2> QED  BY <2>8 DEF Pause, Command, AInv, TypeOK, history
<1>5. TracksFit'
  BY DEF AInv, TracksFit, Pause, Command, history, Use, AllRuns, At, HasRun,
     HasTask, IsLookedUp, Scheduled, Slots
<1>6. BehindFit'
  <2>1. Never \in Nat /\ Never > now
    BY NowFits DEF Never
  <2>9. \A b \in Automations : Exists(b)' =>
          \/ automation'[b].next \in Nat /\ automation'[b].next > now
          \/ Exists(b) /\ automation'[b].next = automation[b].next /\ runs'[b] = runs[b]
    <3>1. automation[a] \in AutomationRecords
      BY RecordParts DEF Pause, Command
    <3>2. automation'[a].next = Never
      BY <3>1 DEF Pause, AutomationRecords, AInv, TypeOK
    <3>3. \A b \in Automations \ {a} : automation'[b] = automation[b]
      BY DEF Pause, AInv, TypeOK
    <3> QED  BY <2>1, <3>2, <3>3 DEF Pause, Exists
  <2> QED  BY <1>4, <2>9, SlotsStay DEF Pause, Command, history
<1>7. DueFit'
  <2>1. Never \in Nat /\ Never > now
    BY NowFits DEF Never
  <2>9. \A b \in Automations : Exists(b)' =>
          \/ automation'[b].next \in Nat /\ automation'[b].next > now
          \/ Exists(b) /\ automation'[b].next = automation[b].next /\ runs'[b] = runs[b]
    <3>1. automation[a] \in AutomationRecords
      BY RecordParts DEF Pause, Command
    <3>2. automation'[a].next = Never
      BY <3>1 DEF Pause, AutomationRecords, AInv, TypeOK
    <3>3. \A b \in Automations \ {a} : automation'[b] = automation[b]
      BY DEF Pause, AInv, TypeOK
    <3> QED  BY <2>1, <3>2, <3>3 DEF Pause, Exists
  <2> QED  BY <1>4, <2>9, SlotsStay DEF Pause, Command, history
<1>8. OrderFit'
  BY DEF AInv, OrderFit, Pause, Command, history, Use, Awaited, Saving,
     Scheduled, Traced, At, Slots
<1>9. SlotRunsOnce'  BY DEF AInv, SlotRunsOnce, Pause, Command, history, Use
<1>10. TriggersFit'  BY DEF AInv, TriggersFit, Pause, Command, history, Use, At
<1> QED  BY <1>1, <1>2, <1>3, <1>4, <1>5, <1>6, <1>7, <1>8, <1>9, <1>10 DEF AInv

LEMMA ResumeStep ==
  ASSUME AInv, NEW a \in Automations, Resume(a)
  PROVE  AInv'
<1>1. UsedFits'  BY DEF AInv, UsedFits, Resume, Command, history, Use
<1>2. HistoryFits'  BY DEF AInv, HistoryFits, Resume, Command, history, Use
<1>3. SchedulerFits'
  BY DEF AInv, SchedulerFits, Resume, Command, history, Use, AllRuns, At,
     Results, Scheduled, Steps, Slots
<1>4. TypeOK'
  <2> DEFINE rec == [automation[a] EXCEPT !.status = "Active",
                                   !.next = NextAfter(automation[a].schedule, now)]
  <2>1. Exists(a) /\ automation[a] \in AutomationRecords
    BY RecordParts DEF Resume, Command
  <2>6. rec \in AutomationRecords /\ (rec.status = "Active" => rec.next # Never)
    <3>1. NextAfter(automation[a].schedule, now) \in Slots \cup {Never}
      BY <2>1, RecordParts, NextAfterFits
    <3> QED  BY <2>1, <3>1 DEF Resume, AutomationRecords
  <2>7. automation' = [automation EXCEPT ![a] = rec]
    BY DEF Resume
  <2> HIDE DEF rec
  <2>8. /\ automation' \in [Automations -> {Absent, Deleted} \cup AutomationRecords]
        /\ \A b \in Automations : IsActive(b)' => automation'[b].next # Never
    BY <2>6, <2>7, RecordSet
  <2> QED  BY <2>8 DEF Resume, Command, AInv, TypeOK, history
<1>5. TracksFit'
  BY DEF AInv, TracksFit, Resume, Command, history, Use, AllRuns, At, HasRun,
     HasTask, IsLookedUp, Scheduled, Slots
<1>6. BehindFit'
  <2>9. \A b \in Automations : Exists(b)' =>
          \/ automation'[b].next \in Nat /\ automation'[b].next > now
          \/ Exists(b) /\ automation'[b].next = automation[b].next /\ runs'[b] = runs[b]
    <3>1. automation[a] \in AutomationRecords /\ automation[a].schedule \in Schedules
      BY RecordParts DEF Resume, Command
    <3>2. /\ automation'[a].next = NextAfter(automation[a].schedule, now)
          /\ automation'[a].next \in Nat /\ automation'[a].next > now
      BY <3>1, NextAfterFits DEF Resume, AutomationRecords, AInv, TypeOK
    <3>3. \A b \in Automations \ {a} : automation'[b] = automation[b]
      BY DEF Resume, AInv, TypeOK
    <3> QED  BY <3>2, <3>3 DEF Resume, Exists
  <2> QED  BY <1>4, <2>9, SlotsStay DEF Resume, Command, history
<1>7. DueFit'
  <2>9. \A b \in Automations : Exists(b)' =>
          \/ automation'[b].next \in Nat /\ automation'[b].next > now
          \/ Exists(b) /\ automation'[b].next = automation[b].next /\ runs'[b] = runs[b]
    <3>1. automation[a] \in AutomationRecords /\ automation[a].schedule \in Schedules
      BY RecordParts DEF Resume, Command
    <3>2. /\ automation'[a].next = NextAfter(automation[a].schedule, now)
          /\ automation'[a].next \in Nat /\ automation'[a].next > now
      BY <3>1, NextAfterFits DEF Resume, AutomationRecords, AInv, TypeOK
    <3>3. \A b \in Automations \ {a} : automation'[b] = automation[b]
      BY DEF Resume, AInv, TypeOK
    <3> QED  BY <3>2, <3>3 DEF Resume, Exists
  <2> QED  BY <1>4, <2>9, SlotsStay DEF Resume, Command, history
<1>8. OrderFit'
  BY DEF AInv, OrderFit, Resume, Command, history, Use, Awaited, Saving,
     Scheduled, Traced, At, Slots
<1>9. SlotRunsOnce'  BY DEF AInv, SlotRunsOnce, Resume, Command, history, Use
<1>10. TriggersFit'  BY DEF AInv, TriggersFit, Resume, Command, history, Use, At
<1> QED  BY <1>1, <1>2, <1>3, <1>4, <1>5, <1>6, <1>7, <1>8, <1>9, <1>10 DEF AInv

LEMMA DeleteStep ==
  ASSUME AInv, NEW a \in Automations, Delete(a)
  PROVE  AInv'
<1>1. UsedFits'  BY DEF AInv, UsedFits, Delete, Command, history, Use
<1>2. HistoryFits'  BY DEF AInv, HistoryFits, Delete, Command, history, Use
<1>3. SchedulerFits'
  BY DEF AInv, SchedulerFits, Delete, Command, history, Use, AllRuns, At,
     Results, Scheduled, Steps, Slots
<1>4. TypeOK'
  BY AutomationAssumption, ValueAssumption DEF AInv, TypeOK, UsedFits,
     SchedulerFits, HistoryFits, Delete, Command, AllRuns, AutomationRecords,
     Calls, IsActive, Never, RunStatuses, Scheduled, Slots, TaskStatuses,
     TriggerRecords, At, Results, Steps, Exists, Use, history, Schedules
<1>5. TracksFit'
  BY AutomationAssumption, ValueAssumption DEF AInv, TracksFit, TypeOK,
     SchedulerFits, Delete, Command, AllRuns, At, HasRun, HasTask, IsLookedUp,
     Scheduled, AutomationRecords, Calls, IsActive, Never, RunStatuses, Slots,
     TaskStatuses, TriggerRecords, Results, Steps, Exists, Use, history,
     Schedules
<1>6. BehindFit'
  <2>9. \A b \in Automations : Exists(b)' =>
          \/ automation'[b].next \in Nat /\ automation'[b].next > now
          \/ Exists(b) /\ automation'[b].next = automation[b].next /\ runs'[b] = runs[b]
    <3>1. \A b \in Automations \ {a} : automation'[b] = automation[b] /\ runs'[b] = runs[b]
      BY DEF Delete, AInv, TypeOK
    <3>2. ~Exists(a)'
      BY DEF Delete, Exists, AInv, TypeOK
    <3> QED  BY <3>1, <3>2 DEF Exists
  <2> QED  BY <1>4, <2>9, SlotsStay DEF Delete, Command, history
<1>7. DueFit'
  <2>9. \A b \in Automations : Exists(b)' =>
          \/ automation'[b].next \in Nat /\ automation'[b].next > now
          \/ Exists(b) /\ automation'[b].next = automation[b].next /\ runs'[b] = runs[b]
    <3>1. \A b \in Automations \ {a} : automation'[b] = automation[b] /\ runs'[b] = runs[b]
      BY DEF Delete, AInv, TypeOK
    <3>2. ~Exists(a)'
      BY DEF Delete, Exists, AInv, TypeOK
    <3> QED  BY <3>1, <3>2 DEF Exists
  <2> QED  BY <1>4, <2>9, SlotsStay DEF Delete, Command, history
<1>8. OrderFit'
  BY DEF AInv, OrderFit, Delete, Command, history, Use, Awaited, Saving,
     Scheduled, Traced, At, Slots
<1>9. SlotRunsOnce'  BY DEF AInv, SlotRunsOnce, Delete, Command, history, Use
<1>10. TriggersFit'  BY DEF AInv, TriggersFit, Delete, Command, history, Use, At
<1> QED  BY <1>1, <1>2, <1>3, <1>4, <1>5, <1>6, <1>7, <1>8, <1>9, <1>10 DEF AInv

LEMMA RunNowStep ==
  ASSUME AInv, NEW a \in Automations, RunNow(a)
  PROVE  AInv'
<1>1. UsedFits'  BY DEF AInv, UsedFits, RunNow, disk, history, Use
<1>2. HistoryFits'  BY DEF AInv, HistoryFits, RunNow, disk, history, Use
<1>3. SchedulerFits'
  BY DEF AInv, SchedulerFits, RunNow, disk, history, Use, AllRuns, At, Results,
     Scheduled, Steps, Slots
<1>4. TypeOK'
  BY AutomationAssumption, ValueAssumption DEF AInv, TypeOK, UsedFits,
     SchedulerFits, HistoryFits, RunNow, AllRuns, AutomationRecords, Calls,
     IsActive, Never, RunStatuses, Scheduled, Slots, TaskStatuses,
     TriggerRecords, At, Results, Steps, Exists, Use, disk, history, Schedules
<1>5. TracksFit'
  BY AutomationAssumption, ValueAssumption DEF AInv, TracksFit, TypeOK,
     SchedulerFits, RunNow, AllRuns, At, HasRun, HasTask, IsLookedUp, Scheduled,
     AutomationRecords, Calls, IsActive, Never, RunStatuses, Slots,
     TaskStatuses, TriggerRecords, Results, Steps, Exists, Use, disk, history,
     Schedules
<1>6. BehindFit'
  BY DEF AInv, BehindFit, RunNow, disk, history, Use, Exists, IsBehind,
     Scheduled, Traced, HasRun, Saving, Slots, At
<1>7. DueFit'
  BY DEF AInv, DueFit, RunNow, disk, history, Use, Awaited, Exists, Saving,
     Scheduled, At, Slots
<1>8. OrderFit'
  BY DEF AInv, OrderFit, RunNow, disk, history, Use, Awaited, Saving, Scheduled,
     Traced, At, Slots
<1>9. SlotRunsOnce'  BY DEF AInv, SlotRunsOnce, RunNow, disk, history, Use
<1>10. TriggersFit'  BY DEF AInv, TriggersFit, RunNow, disk, history, Use, At
<1> QED  BY <1>1, <1>2, <1>3, <1>4, <1>5, <1>6, <1>7, <1>8, <1>9, <1>10 DEF AInv

LEMMA RunNowEnqueueStep ==
  ASSUME AInv, NEW result \in {"Running", "Failed"}, RunNowEnqueue(result)
  PROVE  AInv'
<1>1. UsedFits'  BY DEF AInv, UsedFits, RunNowEnqueue, disk, history
<1>2. HistoryFits'  BY DEF AInv, HistoryFits, RunNowEnqueue, disk, history
<1>3. SchedulerFits'
  BY DEF AInv, SchedulerFits, RunNowEnqueue, disk, history, AllRuns, At,
     Results, Scheduled, Steps, Slots
<1>4. TypeOK'
  <2>1. task' \in [Automations -> [Slots \cup {Manual} -> {Absent} \cup TaskStatuses]]
    BY DEF RunNowEnqueue, AInv, TypeOK, Calls, TaskStatuses
  <2>2. call' \in {Nothing} \cup Calls
    BY DEF RunNowEnqueue, AInv, TypeOK, Calls
  <2> QED  BY <2>1, <2>2 DEF RunNowEnqueue, AInv, TypeOK, disk, history, IsActive, Exists
<1>5. TracksFit'
  BY AutomationAssumption, ValueAssumption DEF AInv, TracksFit, TypeOK,
     SchedulerFits, RunNowEnqueue, AllRuns, At, HasRun, HasTask, IsLookedUp,
     Scheduled, AutomationRecords, Calls, IsActive, Never, RunStatuses, Slots,
     TaskStatuses, TriggerRecords, Results, Steps, disk, history, Schedules,
     Exists
<1>6. BehindFit'
  BY DEF AInv, BehindFit, RunNowEnqueue, disk, history, Exists, IsBehind,
     Scheduled, Traced, HasRun, Saving, Slots, At
<1>7. DueFit'
  BY DEF AInv, DueFit, RunNowEnqueue, disk, history, Awaited, Exists, Saving,
     Scheduled, At, Slots
<1>8. OrderFit'
  BY DEF AInv, OrderFit, RunNowEnqueue, disk, history, Awaited, Saving,
     Scheduled, Traced, At, Slots
<1>9. SlotRunsOnce'  BY DEF AInv, SlotRunsOnce, RunNowEnqueue, disk, history
<1>10. TriggersFit'  BY DEF AInv, TriggersFit, RunNowEnqueue, disk, history, At
<1> QED  BY <1>1, <1>2, <1>3, <1>4, <1>5, <1>6, <1>7, <1>8, <1>9, <1>10 DEF AInv

LEMMA RunNowSaveStep ==
  ASSUME AInv, RunNowSave
  PROVE  AInv'
<1>1. UsedFits'  BY DEF AInv, UsedFits, RunNowSave, history
<1>2. HistoryFits'  BY DEF AInv, HistoryFits, RunNowSave, history
<1>3. SchedulerFits'
  BY DEF AInv, SchedulerFits, RunNowSave, history, AllRuns, At, Results,
     Scheduled, Steps, Slots
<1>4. TypeOK'
  BY AutomationAssumption, ValueAssumption DEF AInv, TypeOK, UsedFits,
     SchedulerFits, HistoryFits, RunNowSave, AllRuns, AutomationRecords, Calls,
     IsActive, Never, RunStatuses, Scheduled, Slots, TaskStatuses,
     TriggerRecords, At, Results, Steps, history, Schedules, Exists
<1>5. TracksFit'
  BY AutomationAssumption, ValueAssumption DEF AInv, TracksFit, RunNowSave,
     history, AllRuns, At, HasRun, HasTask, IsLookedUp, Scheduled, Slots,
     TypeOK, SchedulerFits
<1>6. BehindFit'
  BY AutomationAssumption, ValueAssumption DEF AInv, BehindFit, RunNowSave,
     history, Exists, IsBehind, Scheduled, Traced, HasRun, Saving, Slots, At,
     TypeOK, SchedulerFits, HistoryFits, DueFit, OrderFit
<1>7. DueFit'
  BY DEF AInv, DueFit, RunNowSave, history, Awaited, Exists, Saving, Scheduled,
     At, Slots
<1>8. OrderFit'
  BY DEF AInv, OrderFit, RunNowSave, history, Awaited, Saving, Scheduled,
     Traced, At, Slots
<1>9. SlotRunsOnce'  BY DEF AInv, SlotRunsOnce, RunNowSave, history
<1>10. TriggersFit'  BY DEF AInv, TriggersFit, RunNowSave, history, At
<1> QED  BY <1>1, <1>2, <1>3, <1>4, <1>5, <1>6, <1>7, <1>8, <1>9, <1>10 DEF AInv

LEMMA CreateTriggerStep ==
  ASSUME AInv, NEW g \in Triggers, NEW at \in 1..MaxTime, CreateTrigger(g, at)
  PROVE  AInv'
<1>1. UsedFits'  BY DEF AInv, UsedFits, CreateTrigger, history
<1>2. HistoryFits'  BY DEF AInv, HistoryFits, CreateTrigger, history
<1>3. SchedulerFits'
  BY DEF AInv, SchedulerFits, CreateTrigger, history, AllRuns, At, Results,
     Scheduled, Steps, Slots
<1>4. TypeOK'
  BY AutomationAssumption, ValueAssumption DEF AInv, TypeOK, UsedFits,
     SchedulerFits, HistoryFits, CreateTrigger, AllRuns, AutomationRecords,
     Calls, IsActive, Never, RunStatuses, Scheduled, Slots, TaskStatuses,
     TriggerRecords, At, Results, Steps, history, Schedules, Exists
<1>5. TracksFit'
  BY DEF AInv, TracksFit, CreateTrigger, history, AllRuns, At, HasRun, HasTask,
     IsLookedUp, Scheduled, Slots
<1>6. BehindFit'
  BY DEF AInv, BehindFit, CreateTrigger, history, Exists, IsBehind, Scheduled,
     Traced, HasRun, Saving, Slots, At
<1>7. DueFit'
  BY DEF AInv, DueFit, CreateTrigger, history, Awaited, Exists, Saving,
     Scheduled, At, Slots
<1>8. OrderFit'
  BY DEF AInv, OrderFit, CreateTrigger, history, Awaited, Saving, Scheduled,
     Traced, At, Slots
<1>9. SlotRunsOnce'  BY DEF AInv, SlotRunsOnce, CreateTrigger, history
<1>10. TriggersFit'  BY DEF AInv, TriggersFit, CreateTrigger, history, At
<1> QED  BY <1>1, <1>2, <1>3, <1>4, <1>5, <1>6, <1>7, <1>8, <1>9, <1>10 DEF AInv

LEMMA CancelTriggerStep ==
  ASSUME AInv, NEW g \in Triggers, CancelTrigger(g)
  PROVE  AInv'
<1>1. UsedFits'  BY DEF AInv, UsedFits, CancelTrigger, history, Use
<1>2. HistoryFits'  BY DEF AInv, HistoryFits, CancelTrigger, history, Use
<1>3. SchedulerFits'
  BY DEF AInv, SchedulerFits, CancelTrigger, history, Use, AllRuns, At, Results,
     Scheduled, Steps, Slots
<1>4. TypeOK'
  <2>1. [trigger[g] EXCEPT !.status = "Canceled"] \in TriggerRecords
    BY DEF CancelTrigger, AInv, TypeOK, TriggerRecords
  <2>2. trigger' \in [Triggers -> {Absent} \cup TriggerRecords]
    BY <2>1 DEF CancelTrigger, AInv, TypeOK
  <2> QED  BY <2>2 DEF CancelTrigger, AInv, TypeOK, history, IsActive, Exists
<1>5. TracksFit'
  BY DEF AInv, TracksFit, CancelTrigger, history, Use, AllRuns, At, HasRun,
     HasTask, IsLookedUp, Scheduled, Slots
<1>6. BehindFit'
  BY DEF AInv, BehindFit, CancelTrigger, history, Use, Exists, IsBehind,
     Scheduled, Traced, HasRun, Saving, Slots, At
<1>7. DueFit'
  BY DEF AInv, DueFit, CancelTrigger, history, Use, Awaited, Exists, Saving,
     Scheduled, At, Slots
<1>8. OrderFit'
  BY DEF AInv, OrderFit, CancelTrigger, history, Use, Awaited, Saving,
     Scheduled, Traced, At, Slots
<1>9. SlotRunsOnce'  BY DEF AInv, SlotRunsOnce, CancelTrigger, history, Use
<1>10. TriggersFit'
  BY AutomationAssumption, ValueAssumption DEF AInv, TriggersFit, TypeOK,
     SchedulerFits, HistoryFits, CancelTrigger, At, AllRuns, AutomationRecords,
     Calls, IsActive, Never, RunStatuses, Scheduled, Slots, TaskStatuses,
     TriggerRecords, Results, Steps, Use, history, Schedules, Exists
<1> QED  BY <1>1, <1>2, <1>3, <1>4, <1>5, <1>6, <1>7, <1>8, <1>9, <1>10 DEF AInv

LEMMA CollectDueStep ==
  ASSUME AInv, CollectDue
  PROVE  AInv'
<1>1. UsedFits'  BY DEF AInv, UsedFits, CollectDue, history, Proceed, At
<1>2. HistoryFits'  BY DEF AInv, HistoryFits, CollectDue, history, Proceed, At
<1>3. SchedulerFits'
  <2> DEFINE todo == {[automation |-> a, slot |-> automation[a].next] :
                        a \in {b \in Due : ~HasRun(b, automation[b].next)}}
  <2>1. todo \subseteq Scheduled
    BY RecordParts DEF Due, IsActive, Scheduled
  <2>2. todo \subseteq AllRuns
    BY <2>1, ScheduledParts
  <2>3. scheduler' = [step |-> "runs", todo |-> todo, item |-> Nothing, result |-> Nothing]
    BY DEF CollectDue, Proceed
  <2> HIDE DEF todo
  <2> QED  BY <2>1, <2>2, <2>3 DEF SchedulerFits, Steps, Results, At
<1>4. TypeOK'
  <2>1. /\ automation' \in [Automations -> {Absent, Deleted} \cup AutomationRecords]
        /\ \A a \in Automations : IsActive(a)' => automation'[a].next # Never
    BY SweepFits DEF CollectDue
  <2> QED  BY <1>3, <2>1 DEF CollectDue, SchedulerFits, Steps, AInv, TypeOK, history
<1>5. TracksFit'
  BY DEF AInv, TracksFit, CollectDue, history, Proceed, At, AllRuns, HasRun,
     HasTask, IsLookedUp, Scheduled, Slots
<1>6. BehindFit'
  <2>1. \A run \in Scheduled : (Traced(run)' => Traced(run)) /\ ~Saving(run)'
    BY DEF CollectDue, Traced, Saving, Proceed, At, history
  <2>2. \A a \in Automations : automation'[a] \in {automation[a], Swept(a)}
    BY DEF CollectDue
  <2>3. At("tick") /\ UNCHANGED <<now, runs>>
    BY DEF CollectDue
  <2> QED  BY <2>1, <2>2, <2>3, SweepKeeps DEF BehindFit, IsBehind
<1>7. DueFit'
  <2>1. ASSUME NEW run \in Scheduled, Awaited(run)'
        PROVE  /\ run.automation \in Due /\ ~HasRun(run.automation, run.slot)
               /\ run.slot = automation[run.automation].next
    <3>1. PICK a \in Due : /\ ~HasRun(a, automation[a].next)
                           /\ run = [automation |-> a, slot |-> automation[a].next]
      BY <2>1 DEF CollectDue, Proceed, Awaited
    <3> QED  BY <3>1
  <2>2. \A run \in Scheduled : ~Saving(run)'
    BY DEF CollectDue, Proceed, Saving, At
  <2>3. ASSUME NEW run \in Scheduled, Awaited(run)'
        PROVE  /\ run.slot <= now' /\ automation'[run.automation] = automation[run.automation]
               /\ run.slot = automation[run.automation].next /\ run.slot \in Nat
    BY <2>1, <2>3, ScheduledParts DEF CollectDue, Swept, Due
  <2> QED  BY <2>2, <2>3 DEF DueFit
<1>8. OrderFit'
  <2>1. ASSUME NEW run \in Scheduled, Awaited(run)'
        PROVE  /\ run.automation \in Due /\ ~HasRun(run.automation, run.slot)
               /\ run.slot = automation[run.automation].next
    <3>1. PICK a \in Due : /\ ~HasRun(a, automation[a].next)
                           /\ run = [automation |-> a, slot |-> automation[a].next]
      BY <2>1 DEF CollectDue, Proceed, Awaited
    <3> QED  BY <3>1
  <2>2. \A run \in Scheduled : ~Saving(run)'
    BY DEF CollectDue, Proceed, Saving, At
  <2>3. ASSUME NEW run \in Scheduled, NEW other \in Scheduled, Awaited(run)',
               other.automation = run.automation, Traced(other)'
        PROVE  other.slot < run.slot
    <3>1. Traced(other) /\ ~Saving(other)
      BY <2>3 DEF CollectDue, Traced, Saving, At, history
    <3>2. IsBehind(other)
      BY <2>1, <2>3, <3>1 DEF AInv, BehindFit, Due, IsActive
    <3> QED  BY <2>1, <2>3, <3>1, <3>2 DEF IsBehind
  <2>4. ASSUME NEW run \in Scheduled, NEW other \in Scheduled, Awaited(run)', Awaited(other)',
               other.automation = run.automation
        PROVE  other = run
    BY <2>1, <2>4, ScheduledParts, SameRun
  <2> QED  BY <2>2, <2>3, <2>4 DEF OrderFit
<1>9. SlotRunsOnce'  BY DEF AInv, SlotRunsOnce, CollectDue, history, Proceed, At
<1>10. TriggersFit'  BY DEF AInv, TriggersFit, CollectDue, history, Proceed, At
<1> QED  BY <1>1, <1>2, <1>3, <1>4, <1>5, <1>6, <1>7, <1>8, <1>9, <1>10 DEF AInv

LEMMA CollectFailStep ==
  ASSUME AInv, CollectFails
  PROVE  AInv'
<1>1. UsedFits'
  BY DEF CollectFails, GiveUp, Use, AInv, UsedFits
<1>2. HistoryFits'  BY DEF AInv, HistoryFits, CollectFails, history, GiveUp, At
<1>3. SchedulerFits'
  BY DEF CollectFails, GiveUp, Proceed, Start, SchedulerFits, Steps, Results, At
<1>4. TypeOK'
  <2>1. call' \in {call, Nothing}
    BY DEF CollectFails, GiveUp
  <2>2. /\ automation' \in [Automations -> {Absent, Deleted} \cup AutomationRecords]
        /\ \A a \in Automations : IsActive(a)' => automation'[a].next # Never
    BY SweepFits DEF CollectFails
  <2> QED  BY <1>3, <2>1, <2>2 DEF CollectFails, SchedulerFits, Steps, AInv, TypeOK, history
<1>5. TracksFit'
  <2>1. /\ scheduler'.step \in {"reconcile", "tick"} /\ scheduler'.todo = {}
        /\ scheduler'.item = Nothing /\ scheduler'.result = Nothing
        /\ call' \in {call, Nothing}
    BY DEF CollectFails, GiveUp, Proceed, Start
  <2> QED  BY <2>1 DEF CollectFails, AInv, TracksFit, HasTask, HasRun, IsLookedUp, At, history
<1>6. BehindFit'
  <2>1. /\ scheduler'.step \in {"reconcile", "tick"} /\ scheduler'.todo = {}
        /\ scheduler'.item = Nothing /\ scheduler'.result = Nothing
        /\ call' \in {call, Nothing}
    BY DEF CollectFails, GiveUp, Proceed, Start
  <2>2. \A run \in Scheduled : ~Saving(run)' /\ ~Awaited(run)'
    BY <2>1 DEF Saving, Awaited, At
  <2>3. \A run \in Scheduled : Traced(run)' => Traced(run)
    BY DEF CollectFails, Traced, history
  <2>4. \A a \in Automations : automation'[a] \in {automation[a], Swept(a)}
    BY DEF CollectFails
  <2>5. At("tick") /\ UNCHANGED <<now, runs>>
    BY DEF CollectFails
  <2> QED  BY <2>2, <2>3, <2>4, <2>5, SweepKeeps DEF BehindFit, IsBehind
<1>7. DueFit'
  <2>1. /\ scheduler'.step \in {"reconcile", "tick"} /\ scheduler'.todo = {}
        /\ scheduler'.item = Nothing /\ scheduler'.result = Nothing
        /\ call' \in {call, Nothing}
    BY DEF CollectFails, GiveUp, Proceed, Start
  <2>2. \A run \in Scheduled : ~Saving(run)' /\ ~Awaited(run)'
    BY <2>1 DEF Saving, Awaited, At
  <2> QED  BY <2>2 DEF DueFit
<1>8. OrderFit'
  <2>1. /\ scheduler'.step \in {"reconcile", "tick"} /\ scheduler'.todo = {}
        /\ scheduler'.item = Nothing /\ scheduler'.result = Nothing
        /\ call' \in {call, Nothing}
    BY DEF CollectFails, GiveUp, Proceed, Start
  <2>2. \A run \in Scheduled : ~Saving(run)' /\ ~Awaited(run)'
    BY <2>1 DEF Saving, Awaited, At
  <2> QED  BY <2>2 DEF OrderFit
<1>9. SlotRunsOnce'
  BY DEF AInv, SlotRunsOnce, CollectFails, history, GiveUp, At
<1>10. TriggersFit'
  <2>1. /\ scheduler'.step \in {"reconcile", "tick"} /\ scheduler'.todo = {}
        /\ scheduler'.item = Nothing /\ scheduler'.result = Nothing
        /\ call' \in {call, Nothing}
    BY DEF CollectFails, GiveUp, Proceed, Start
  <2> QED  BY <2>1 DEF CollectFails, AInv, TriggersFit, At, history
<1> QED  BY <1>1, <1>2, <1>3, <1>4, <1>5, <1>6, <1>7, <1>8, <1>9, <1>10 DEF AInv

LEMMA EnqueueRunStep ==
  ASSUME AInv, NEW run \in Scheduled, NEW result \in {"Running", "Failed"},
         EnqueueRun(run, result)
  PROVE  AInv'
<1>1. UsedFits'  BY DEF AInv, UsedFits, EnqueueRun, disk, Begin, At
<1>2. HistoryFits'
  BY StartedSet DEF EnqueueRun, AInv, HistoryFits
<1>3. SchedulerFits'
  BY DEF AInv, SchedulerFits, EnqueueRun, disk, Begin, At, AllRuns, Results,
     Scheduled, Steps, Slots
<1>4. TypeOK'
  <2>1. "Open" \in {Absent} \cup TaskStatuses /\ run \in AllRuns
    BY ScheduledParts DEF TaskStatuses
  <2>2. task' \in [Automations -> [Slots \cup {Manual} -> {Absent} \cup TaskStatuses]]
    BY <2>1, TaskSet DEF EnqueueRun, AInv, TypeOK
  <2> QED  BY <1>3, <2>2
           DEF EnqueueRun, SchedulerFits, Steps, AInv, TypeOK, disk, IsActive, Exists
<1>5. TracksFit'
  <2>1. "Open" \in {Absent} \cup TaskStatuses /\ run \in AllRuns /\ "Open" # Absent
    BY ScheduledParts, ValueAssumption DEF TaskStatuses
  <2>2. \/ task' = task /\ result # "Running"
        \/ \A other \in AllRuns : task'[other.automation][other.slot] =
             IF other = run THEN "Open" ELSE task[other.automation][other.slot]
    BY <2>1, TaskSet DEF EnqueueRun
  <2>3. call # Nothing => [automation |-> call.automation, slot |-> Manual] \in AllRuns
    BY DEF AInv, TypeOK, Calls, AllRuns
  <2>4. /\ \A other \in AllRuns : HasTask(other) => HasTask(other)'
        /\ result = "Running" => HasTask(run)'
    BY <2>1, <2>2 DEF HasTask
  <2>5. call # Nothing /\ task[call.automation][Manual] # Absent =>
          task'[call.automation][Manual] # Absent
    BY <2>3, <2>4 DEF HasTask
  <2>6. /\ scheduler'.step = "save" /\ scheduler'.item = run /\ scheduler'.result = result
        /\ UNCHANGED <<runs, recorded, call>>
    BY DEF EnqueueRun, Begin, disk
  <2> QED  BY <2>1, <2>4, <2>5, <2>6 DEF AInv, TracksFit, HasRun, IsLookedUp, At
<1>6. BehindFit'
  <2>1. ASSUME NEW other \in Scheduled
        PROVE  /\ other # run => started'[other.automation][other.slot]
                                  = started[other.automation][other.slot]
               /\ started'[run.automation][run.slot] <= started[run.automation][run.slot] + 1
               /\ Traced(other)' => Traced(other) \/ other = run
    <3>1. started[run.automation][run.slot] \in Nat
      BY ScheduledParts DEF AInv, HistoryFits
    <3>2. \/ started' = started
          \/ /\ started'[run.automation][run.slot] = started[run.automation][run.slot] + 1
             /\ other # run => started'[other.automation][other.slot]
                                 = started[other.automation][other.slot]
      BY StartedSet DEF EnqueueRun
    <3> QED  BY <3>1, <3>2 DEF EnqueueRun, Traced
  <2>2. /\ scheduler.step = "runs" /\ Awaited(run)
        /\ scheduler'.step = "save" /\ scheduler'.item = run
        /\ scheduler'.todo = scheduler.todo \ {run} /\ UNCHANGED <<now, automation, runs, lost>>
    BY DEF EnqueueRun, Begin, At, Awaited, disk
  <2>3. \A other \in Scheduled : ~Saving(other) /\ (Saving(other)' <=> other = run)
                                /\ (Awaited(other)' => Awaited(other) /\ other # run)
    BY <2>2 DEF Saving, Awaited, At
  <2>4. run.slot <= now /\ (Exists(run.automation) => run.slot <= automation[run.automation].next)
    BY <2>2 DEF AInv, DueFit
  <2>5. Exists(run.automation) => automation[run.automation].next \in Nat
    BY RecordParts, ScheduledParts
  <2>6. run.slot \in Nat
    BY ScheduledParts
  <2> QED  BY <2>1, <2>2, <2>3, <2>4, <2>5, <2>6 DEF AInv, BehindFit, IsBehind, Exists, HasRun
<1>7. DueFit'
  BY DEF AInv, DueFit, EnqueueRun, disk, Begin, At, Awaited, Exists, Saving,
     Scheduled, Slots
<1>8. OrderFit'
  <2>1. ASSUME NEW other \in Scheduled
        PROVE  /\ other # run => started'[other.automation][other.slot]
                                  = started[other.automation][other.slot]
               /\ started'[run.automation][run.slot] <= started[run.automation][run.slot] + 1
               /\ Traced(other)' => Traced(other) \/ other = run
    <3>1. started[run.automation][run.slot] \in Nat
      BY ScheduledParts DEF AInv, HistoryFits
    <3>2. \/ started' = started
          \/ /\ started'[run.automation][run.slot] = started[run.automation][run.slot] + 1
             /\ other # run => started'[other.automation][other.slot]
                                 = started[other.automation][other.slot]
      BY StartedSet DEF EnqueueRun
    <3> QED  BY <3>1, <3>2 DEF EnqueueRun, Traced
  <2>2. /\ scheduler.step = "runs" /\ Awaited(run)
        /\ scheduler'.step = "save" /\ scheduler'.item = run
        /\ scheduler'.todo = scheduler.todo \ {run} /\ UNCHANGED <<now, automation, runs, lost>>
    BY DEF EnqueueRun, Begin, At, Awaited, disk
  <2>3. \A other \in Scheduled : ~Saving(other) /\ (Saving(other)' <=> other = run)
                                /\ (Awaited(other)' => Awaited(other) /\ other # run)
    BY <2>2 DEF Saving, Awaited, At
  <2>4. \A other \in Scheduled : other.slot \in Nat
    BY ScheduledParts
  <2> QED  BY <2>1, <2>2, <2>3, <2>4 DEF AInv, OrderFit
<1>9. SlotRunsOnce'
  <2>1. ASSUME NEW other \in Scheduled
        PROVE  /\ other # run => started'[other.automation][other.slot]
                                  = started[other.automation][other.slot]
               /\ started'[run.automation][run.slot] <= started[run.automation][run.slot] + 1
               /\ Traced(other)' => Traced(other) \/ other = run
    <3>1. started[run.automation][run.slot] \in Nat
      BY ScheduledParts DEF AInv, HistoryFits
    <3>2. \/ started' = started
          \/ /\ started'[run.automation][run.slot] = started[run.automation][run.slot] + 1
             /\ other # run => started'[other.automation][other.slot]
                                 = started[other.automation][other.slot]
      BY StartedSet DEF EnqueueRun
    <3> QED  BY <3>1, <3>2 DEF EnqueueRun, Traced
  <2>2. /\ scheduler.step = "runs" /\ Awaited(run)
        /\ scheduler'.step = "save" /\ scheduler'.item = run
        /\ scheduler'.todo = scheduler.todo \ {run} /\ UNCHANGED <<now, automation, runs, lost>>
    BY DEF EnqueueRun, Begin, At, Awaited, disk
  <2>3. \A other \in Scheduled : ~Saving(other) /\ (Saving(other)' <=> other = run)
                                /\ (Awaited(other)' => Awaited(other) /\ other # run)
    BY <2>2 DEF Saving, Awaited, At
  <2>4. run.slot \in Nat /\ started[run.automation][run.slot] \in Nat
        /\ started'[run.automation][run.slot] \in Nat
    BY <1>2, ScheduledParts DEF AInv, HistoryFits
  <2>5. ~Traced(run)
    BY <2>2, <2>4 DEF AInv, OrderFit
  <2> QED  BY <2>1, <2>2, <2>4, <2>5 DEF AInv, SlotRunsOnce, Traced
<1>10. TriggersFit'  BY DEF AInv, TriggersFit, EnqueueRun, disk, Begin, At
<1> QED  BY <1>1, <1>2, <1>3, <1>4, <1>5, <1>6, <1>7, <1>8, <1>9, <1>10 DEF AInv

LEMMA FinishRunStep ==
  ASSUME AInv, FinishRun
  PROVE  AInv'
<1>1. UsedFits'  BY DEF AInv, UsedFits, FinishRun, SaveRun, Proceed, At
<1>2. HistoryFits'  BY DEF AInv, HistoryFits, FinishRun, SaveRun, Proceed, At
<1>3. SchedulerFits'
  BY DEF AInv, SchedulerFits, FinishRun, SaveRun, Proceed, At, AllRuns, Results,
     Scheduled, Steps, Slots
<1>4. TypeOK'
  <2>1. /\ scheduler.item \in Scheduled /\ At("save")
        /\ scheduler.result \in {"Running", "Failed"}
    BY DEF FinishRun, AInv, SchedulerFits
  <2> DEFINE run == scheduler.item  a == run.automation
  <2>2. a \in Automations /\ run.slot \in Slots /\ run.slot <= now /\ run.slot \in Slots \cup {Manual}
    BY <2>1, ScheduledParts DEF AInv, DueFit, Saving
  <2>3. /\ automation' \in [Automations -> {Absent, Deleted} \cup AutomationRecords]
        /\ \A b \in Automations : IsActive(b)' => automation'[b].next # Never
    <3>1. CASE Exists(a)
      <4>1. automation' = [automation EXCEPT ![a] = Advanced(a, run.slot)]
        BY <3>1 DEF FinishRun
      <4> QED  BY <2>2, <3>1, <4>1, AdvancedParts, RecordSet
    <3>2. CASE ~Exists(a)
      <4>1. automation' = automation
        BY <3>2 DEF FinishRun, AInv, TypeOK
      <4> QED  BY <4>1 DEF AInv, TypeOK, IsActive, Exists
    <3> QED  BY <3>1, <3>2
  <2>4. runs' \in [Automations -> [Slots \cup {Manual} -> {Absent} \cup RunStatuses]]
    BY <2>1, <2>2 DEF FinishRun, SaveRun, AInv, TypeOK, RunStatuses
  <2>5. recorded' \subseteq Scheduled
    BY <2>1 DEF FinishRun, SaveRun, AInv, TypeOK
  <2> QED  BY <1>3, <2>3, <2>4, <2>5 DEF FinishRun, SchedulerFits, Steps, AInv, TypeOK
<1>5. TracksFit'
  <2>1. /\ scheduler.item \in Scheduled /\ At("save")
        /\ scheduler.result \in {"Running", "Failed"}
    BY DEF FinishRun, AInv, SchedulerFits
  <2>2. ASSUME NEW run \in AllRuns
        PROVE  runs'[run.automation][run.slot] =
                 IF run = scheduler.item THEN scheduler.result ELSE runs[run.automation][run.slot]
    BY <2>1, RunParts, ScheduledParts, SameRun DEF FinishRun, SaveRun, AInv, TypeOK
  <2>3. /\ recorded' = recorded \cup {scheduler.item} /\ UNCHANGED <<task, call>>
        /\ scheduler'.step = "runs"
    BY DEF FinishRun, SaveRun, Proceed
  <2>4. Scheduled \subseteq AllRuns
    BY ScheduledParts
  <2> QED  BY <2>1, <2>2, <2>3, <2>4 DEF AInv, TracksFit, HasTask, HasRun, IsLookedUp, At
<1>6. BehindFit'
  BY AutomationAssumption, ValueAssumption DEF AInv, BehindFit, TypeOK,
     SchedulerFits, HistoryFits, DueFit, OrderFit, FinishRun, SaveRun, Exists,
     IsBehind, Scheduled, Traced, AllRuns, AutomationRecords, Calls, IsActive,
     Never, RunStatuses, Slots, TaskStatuses, TriggerRecords, At, Results,
     Steps, Awaited, Saving, Advanced, Proceed, HasRun, Schedules, NextAfterSlot
<1>7. DueFit'
  <2>1. /\ scheduler.item \in Scheduled /\ At("save")
        /\ scheduler.result \in {"Running", "Failed"}
    BY DEF FinishRun, AInv, SchedulerFits
  <2>2. ASSUME NEW run \in Scheduled, Awaited(run)' \/ Saving(run)'
        PROVE  Awaited(run) /\ run.automation # scheduler.item.automation
    <3>1. Awaited(run)
      BY <2>1, <2>2 DEF FinishRun, Proceed, Awaited, Saving, At
    <3> QED  BY <2>1, <3>1 DEF AInv, OrderFit, Saving
  <2>3. ASSUME NEW run \in Scheduled, run.automation # scheduler.item.automation
        PROVE  automation'[run.automation] = automation[run.automation]
    BY <2>1, <2>3, ScheduledParts DEF FinishRun, AInv, TypeOK
  <2>4. now' = now
    BY DEF FinishRun
  <2> QED  BY <2>2, <2>3, <2>4 DEF AInv, DueFit, Exists
<1>8. OrderFit'
  BY DEF AInv, OrderFit, FinishRun, SaveRun, Proceed, At, Awaited, Saving,
     Scheduled, Traced, Slots
<1>9. SlotRunsOnce'  BY DEF AInv, SlotRunsOnce, FinishRun, SaveRun, Proceed, At
<1>10. TriggersFit'  BY DEF AInv, TriggersFit, FinishRun, SaveRun, Proceed, At
<1> QED  BY <1>1, <1>2, <1>3, <1>4, <1>5, <1>6, <1>7, <1>8, <1>9, <1>10 DEF AInv

LEMMA FinishFailStep ==
  ASSUME AInv, FinishFails
  PROVE  AInv'
<1>1. UsedFits'
  BY DEF AInv, UsedFits, FinishFails, SaveRun, GiveUp, At, Proceed, Start, Use
<1>2. HistoryFits'  BY DEF AInv, HistoryFits, FinishFails, SaveRun, GiveUp, At
<1>3. SchedulerFits'
  BY DEF AInv, SchedulerFits, FinishFails, SaveRun, GiveUp, At, AllRuns,
     Results, Scheduled, Steps, Slots, Proceed, Start, Use
<1>4. TypeOK'
  <2>1. /\ scheduler.item \in Scheduled /\ At("save")
        /\ scheduler.result \in {"Running", "Failed"}
    BY DEF FinishFails, AInv, SchedulerFits
  <2>2. scheduler.item.automation \in Automations /\ scheduler.item.slot \in Slots \cup {Manual}
        /\ scheduler.item \in AllRuns
    BY <2>1, ScheduledParts
  <2>3. runs' \in [Automations -> [Slots \cup {Manual} -> {Absent} \cup RunStatuses]]
    <3>1. CASE runs' = runs
      BY <3>1 DEF AInv, TypeOK
    <3>2. CASE SaveRun
      <4>1. scheduler.result \in {Absent} \cup RunStatuses
        BY <2>1 DEF RunStatuses
      <4> QED  BY <2>2, <3>2, <4>1, RunSet DEF SaveRun
    <3> QED  BY <3>1, <3>2 DEF FinishFails
  <2>4. recorded' \subseteq Scheduled /\ lost' \subseteq AllRuns \cup Triggers
    BY <2>1, <2>2 DEF FinishFails, SaveRun, AInv, TypeOK
  <2>5. call' \in {Nothing} \cup Calls
    BY DEF FinishFails, GiveUp, AInv, TypeOK
  <2> QED  BY <1>3, <2>3, <2>4, <2>5
           DEF FinishFails, SchedulerFits, Steps, AInv, TypeOK, IsActive, Exists
<1>5. TracksFit'
  <2>1. /\ scheduler.item \in Scheduled /\ At("save")
        /\ scheduler.result \in {"Running", "Failed"}
    BY DEF FinishFails, AInv, SchedulerFits
  <2>2. \/ runs' = runs /\ recorded' = recorded
        \/ SaveRun
    BY DEF FinishFails
  <2>3. ASSUME SaveRun, NEW run \in AllRuns
        PROVE  runs'[run.automation][run.slot] =
                 IF run = scheduler.item THEN scheduler.result ELSE runs[run.automation][run.slot]
    BY <2>1, <2>3, RunParts, ScheduledParts, SameRun DEF SaveRun, AInv, TypeOK
  <2>4. SaveRun => recorded' = recorded \cup {scheduler.item}
    BY DEF SaveRun
  <2>5. /\ call' \in {call, Nothing} /\ scheduler'.step \in {"reconcile", "tick"} /\ task' = task
    BY DEF FinishFails, GiveUp, Proceed, Start
  <2>6. Scheduled \subseteq AllRuns
    BY ScheduledParts
  <2> QED  BY <2>1, <2>2, <2>3, <2>4, <2>5, <2>6
           DEF AInv, TracksFit, HasTask, HasRun, IsLookedUp, At
<1>6. BehindFit'
  BY AutomationAssumption, ValueAssumption DEF AInv, BehindFit, TypeOK,
     SchedulerFits, HistoryFits, DueFit, OrderFit, FinishFails, SaveRun, Exists,
     IsBehind, Scheduled, Traced, AllRuns, AutomationRecords, Calls, IsActive,
     Never, RunStatuses, Slots, TaskStatuses, TriggerRecords, At, Results,
     Steps, Awaited, Saving, GiveUp, HasRun, Schedules, Proceed, Start, Use
<1>7. DueFit'
  BY DEF AInv, DueFit, FinishFails, SaveRun, GiveUp, At, Awaited, Exists,
     Saving, Scheduled, Slots, Proceed, Start, Use
<1>8. OrderFit'
  BY DEF AInv, OrderFit, FinishFails, SaveRun, GiveUp, At, Awaited, Saving,
     Scheduled, Traced, Slots, Proceed, Start, Use
<1>9. SlotRunsOnce'  BY DEF AInv, SlotRunsOnce, FinishFails, SaveRun, GiveUp, At
<1>10. TriggersFit'
  BY DEF AInv, TriggersFit, FinishFails, SaveRun, GiveUp, At, Proceed, Start,
     Use
<1> QED  BY <1>1, <1>2, <1>3, <1>4, <1>5, <1>6, <1>7, <1>8, <1>9, <1>10 DEF AInv

LEMMA CollectPendingStep ==
  ASSUME AInv, CollectPending
  PROVE  AInv'
<1>1. UsedFits'
  BY DEF AInv, UsedFits, CollectPending, disk, history, Proceed, At
<1>2. HistoryFits'
  BY DEF AInv, HistoryFits, CollectPending, disk, history, Proceed, At
<1>3. SchedulerFits'
  BY DEF AInv, SchedulerFits, CollectPending, disk, history, Proceed, At,
     AllRuns, Results, Scheduled, Steps, Slots, PendingRuns, Exists
<1>4. TypeOK'
  BY AutomationAssumption, ValueAssumption DEF AInv, TypeOK, UsedFits,
     SchedulerFits, HistoryFits, CollectPending, AllRuns, AutomationRecords,
     Calls, IsActive, Never, RunStatuses, Scheduled, Slots, TaskStatuses,
     TriggerRecords, At, Results, Steps, PendingRuns, Proceed, disk, history,
     Schedules, Exists
<1>5. TracksFit'
  BY AutomationAssumption, ValueAssumption DEF AInv, TracksFit, TypeOK,
     SchedulerFits, CollectPending, AllRuns, At, HasRun, HasTask, IsLookedUp,
     Scheduled, AutomationRecords, Calls, IsActive, Never, RunStatuses, Slots,
     TaskStatuses, TriggerRecords, Results, Steps, PendingRuns, Proceed, disk,
     history, Schedules, Exists
<1>6. BehindFit'
  BY DEF AInv, BehindFit, CollectPending, disk, history, Proceed, At, Exists,
     IsBehind, Scheduled, Traced, HasRun, Saving, Slots
<1>7. DueFit'
  BY DEF AInv, DueFit, CollectPending, disk, history, Proceed, At, Awaited,
     Exists, Saving, Scheduled, Slots
<1>8. OrderFit'
  BY DEF AInv, OrderFit, CollectPending, disk, history, Proceed, At, Awaited,
     Saving, Scheduled, Traced, Slots
<1>9. SlotRunsOnce'
  BY DEF AInv, SlotRunsOnce, CollectPending, disk, history, Proceed, At
<1>10. TriggersFit'
  BY DEF AInv, TriggersFit, CollectPending, disk, history, Proceed, At
<1> QED  BY <1>1, <1>2, <1>3, <1>4, <1>5, <1>6, <1>7, <1>8, <1>9, <1>10 DEF AInv

LEMMA LookUpStep ==
  ASSUME AInv, NEW run \in AllRuns, LookUp(run)
  PROVE  AInv'
<1>1. UsedFits'  BY DEF AInv, UsedFits, LookUp, disk, history, Begin, At
<1>2. HistoryFits'  BY DEF AInv, HistoryFits, LookUp, disk, history, Begin, At
<1>3. SchedulerFits'
  <2>1. HasTask(run) /\ run.automation \in Automations /\ run.slot \in Slots \cup {Manual}
    BY RunParts DEF LookUp, Begin, At, AInv, TracksFit, IsLookedUp
  <2>2. task[run.automation][run.slot] \in {"Open", "Completed", "Silent", "Failed"}
    BY <2>1 DEF HasTask, AInv, TypeOK, TaskStatuses
  <2> QED  BY <2>2 DEF LookUp, Begin, At, AInv, SchedulerFits, Steps, Results
<1>4. TypeOK'
  BY AutomationAssumption, ValueAssumption DEF AInv, TypeOK, UsedFits,
     SchedulerFits, HistoryFits, LookUp, AllRuns, AutomationRecords, Calls,
     IsActive, Never, RunStatuses, Scheduled, Slots, TaskStatuses,
     TriggerRecords, At, Results, Steps, Begin, disk, history, Schedules, Exists
<1>5. TracksFit'
  BY DEF AInv, TracksFit, LookUp, disk, history, Begin, At, AllRuns, HasRun,
     HasTask, IsLookedUp, Scheduled, Slots
<1>6. BehindFit'
  BY DEF AInv, BehindFit, LookUp, disk, history, Begin, At, Exists, IsBehind,
     Scheduled, Traced, HasRun, Saving, Slots
<1>7. DueFit'
  BY DEF AInv, DueFit, LookUp, disk, history, Begin, At, Awaited, Exists,
     Saving, Scheduled, Slots
<1>8. OrderFit'
  BY DEF AInv, OrderFit, LookUp, disk, history, Begin, At, Awaited, Saving,
     Scheduled, Traced, Slots
<1>9. SlotRunsOnce'  BY DEF AInv, SlotRunsOnce, LookUp, disk, history, Begin, At
<1>10. TriggersFit'  BY DEF AInv, TriggersFit, LookUp, disk, history, Begin, At
<1> QED  BY <1>1, <1>2, <1>3, <1>4, <1>5, <1>6, <1>7, <1>8, <1>9, <1>10 DEF AInv

LEMMA FoldStep ==
  ASSUME AInv, Fold
  PROVE  AInv'
<1>1. UsedFits'  BY DEF AInv, UsedFits, Fold, FoldRun, Proceed, At
<1>2. HistoryFits'  BY DEF AInv, HistoryFits, Fold, FoldRun, Proceed, At
<1>3. SchedulerFits'
  BY DEF AInv, SchedulerFits, Fold, FoldRun, Proceed, At, AllRuns, Results,
     Scheduled, Steps, Slots
<1>4. TypeOK'
  BY AutomationAssumption, ValueAssumption DEF AInv, TypeOK, UsedFits,
     SchedulerFits, HistoryFits, Fold, FoldRun, AllRuns, AutomationRecords,
     Calls, IsActive, Never, RunStatuses, Scheduled, Slots, TaskStatuses,
     TriggerRecords, At, Results, Steps, Proceed, IsSilentWatch, Outcome,
     Schedules, Exists
<1>5. TracksFit'
  BY AutomationAssumption, ValueAssumption DEF AInv, TracksFit, Fold, FoldRun,
     Proceed, At, AllRuns, HasRun, HasTask, IsLookedUp, Scheduled, Slots,
     IsSilentWatch, Outcome, Exists, TypeOK, SchedulerFits
<1>6. BehindFit'
  <2> DEFINE item == scheduler.item
  <2>1. /\ At("fold") /\ UNCHANGED <<now, automation, started>>
        /\ FoldRun \/ UNCHANGED <<runs, lost>>
    BY DEF Fold, history
  <2>2. /\ lost \subseteq lost'
        /\ \A run \in AllRuns :
             \/ runs'[run.automation][run.slot] = runs[run.automation][run.slot]
             \/ runs'[run.automation][run.slot] \in RunStatuses
             \/ automation[run.automation].next = run.slot => run \in lost'
    BY <2>1, FoldSet
  <2>3. ASSUME NEW run \in Scheduled, Traced(run)'
        PROVE  Traced(run) /\ ~Saving(run) /\ (Exists(run.automation) => IsBehind(run))
    BY <2>1, <2>2, <2>3 DEF Traced, Saving, At, AInv, BehindFit
  <2>4. ASSUME NEW run \in Scheduled, Traced(run)', Exists(run.automation)
        PROVE  \/ run.slot < automation[run.automation].next
               \/ /\ run.slot = automation[run.automation].next
                  /\ HasRun(run.automation, run.slot)'
    <3>1. CASE run.slot = automation[run.automation].next /\ HasRun(run.automation, run.slot)
      <4>1. run \notin lost' /\ run \in AllRuns
        BY <2>4, ScheduledParts DEF Traced
      <4> QED  BY <2>2, <3>1, <4>1, ValueAssumption DEF HasRun
    <3> QED  BY <2>3, <2>4, <3>1 DEF IsBehind
  <2> QED  BY <2>1, <2>3, <2>4 DEF AInv, BehindFit, IsBehind, Exists
<1>7. DueFit'
  BY DEF AInv, DueFit, Fold, FoldRun, Proceed, At, Awaited, Exists, Saving,
     Scheduled, Slots
<1>8. OrderFit'
  BY DEF AInv, OrderFit, Fold, FoldRun, Proceed, At, Awaited, Saving, Scheduled,
     Traced, Slots
<1>9. SlotRunsOnce'  BY DEF AInv, SlotRunsOnce, Fold, FoldRun, Proceed, At
<1>10. TriggersFit'  BY DEF AInv, TriggersFit, Fold, FoldRun, Proceed, At
<1> QED  BY <1>1, <1>2, <1>3, <1>4, <1>5, <1>6, <1>7, <1>8, <1>9, <1>10 DEF AInv

LEMMA FoldFailStep ==
  ASSUME AInv, FoldFails
  PROVE  AInv'
<1>1. UsedFits'
  BY DEF AInv, UsedFits, FoldFails, FoldRun, GiveUp, At, IsSilentWatch, Outcome,
     Proceed, Start, Use, Exists
<1>2. HistoryFits'  BY DEF AInv, HistoryFits, FoldFails, FoldRun, GiveUp, At
<1>3. SchedulerFits'
  BY DEF AInv, SchedulerFits, FoldFails, FoldRun, GiveUp, At, AllRuns, Results,
     Scheduled, Steps, Slots, IsSilentWatch, Outcome, Proceed, Start, Use,
     Exists
<1>4. TypeOK'
  <2>1. At("fold") /\ (FoldRun \/ UNCHANGED <<runs, lost>>)
    BY DEF FoldFails
  <2>2. /\ runs' \in [Automations -> [Slots \cup {Manual} -> {Absent} \cup RunStatuses]]
        /\ lost' \subseteq AllRuns \cup Triggers
    BY <2>1, FoldSet DEF AInv, TypeOK
  <2>3. call' \in {Nothing} \cup Calls
    BY DEF FoldFails, GiveUp, AInv, TypeOK
  <2> QED  BY <1>3, <2>2, <2>3
           DEF FoldFails, SchedulerFits, Steps, AInv, TypeOK, IsActive, Exists
<1>5. TracksFit'
  <2> DEFINE item == scheduler.item
  <2>1. /\ item \in AllRuns /\ item.automation \in Automations /\ item.slot \in Slots \cup {Manual}
        /\ IsLookedUp(item) /\ scheduler.result # "Open"
    BY RunParts DEF FoldFails, At, AInv, SchedulerFits, IsLookedUp
  <2>2. ASSUME NEW run \in AllRuns
        PROVE  runs'[run.automation][run.slot] = runs[run.automation][run.slot] \/ run = item
    <3>1. run # item => run.automation # item.automation \/ run.slot # item.slot
      BY <2>1, SameRun
    <3> QED  BY <2>1, <3>1, RunParts DEF FoldFails, FoldRun, AInv, TypeOK
  <2>3. HasTask(item) /\ (item \in Scheduled => item \in recorded)
    BY <2>1 DEF AInv, TracksFit
  <2>4. /\ call' \in {call, Nothing} /\ scheduler'.step \in {"triggers", "tick"}
        /\ UNCHANGED <<task, recorded>>
    BY DEF FoldFails, GiveUp, Proceed, Start
  <2>5. Scheduled \subseteq AllRuns
    BY ScheduledParts
  <2> QED  BY <2>2, <2>3, <2>4, <2>5 DEF AInv, TracksFit, HasTask, HasRun, IsLookedUp, At
<1>6. BehindFit'
  <2> DEFINE item == scheduler.item
  <2>1. /\ At("fold") /\ UNCHANGED <<now, automation, started>>
        /\ FoldRun \/ UNCHANGED <<runs, lost>>
    BY DEF FoldFails, history
  <2>2. /\ lost \subseteq lost'
        /\ \A run \in AllRuns :
             \/ runs'[run.automation][run.slot] = runs[run.automation][run.slot]
             \/ runs'[run.automation][run.slot] \in RunStatuses
             \/ automation[run.automation].next = run.slot => run \in lost'
    BY <2>1, FoldSet
  <2>3. ASSUME NEW run \in Scheduled, Traced(run)'
        PROVE  Traced(run) /\ ~Saving(run) /\ (Exists(run.automation) => IsBehind(run))
    BY <2>1, <2>2, <2>3 DEF Traced, Saving, At, AInv, BehindFit
  <2>4. ASSUME NEW run \in Scheduled, Traced(run)', Exists(run.automation)
        PROVE  \/ run.slot < automation[run.automation].next
               \/ /\ run.slot = automation[run.automation].next
                  /\ HasRun(run.automation, run.slot)'
    <3>1. CASE run.slot = automation[run.automation].next /\ HasRun(run.automation, run.slot)
      <4>1. run \notin lost' /\ run \in AllRuns
        BY <2>4, ScheduledParts DEF Traced
      <4> QED  BY <2>2, <3>1, <4>1, ValueAssumption DEF HasRun
    <3> QED  BY <2>3, <2>4, <3>1 DEF IsBehind
  <2> QED  BY <2>1, <2>3, <2>4 DEF AInv, BehindFit, IsBehind, Exists
<1>7. DueFit'
  BY DEF AInv, DueFit, FoldFails, FoldRun, GiveUp, At, Awaited, Exists, Saving,
     Scheduled, Slots, IsSilentWatch, Outcome, Proceed, Start, Use
<1>8. OrderFit'
  BY DEF AInv, OrderFit, FoldFails, FoldRun, GiveUp, At, Awaited, Saving,
     Scheduled, Traced, Slots, IsSilentWatch, Outcome, Proceed, Start, Use,
     Exists
<1>9. SlotRunsOnce'  BY DEF AInv, SlotRunsOnce, FoldFails, FoldRun, GiveUp, At
<1>10. TriggersFit'
  BY DEF AInv, TriggersFit, FoldFails, FoldRun, GiveUp, At, IsSilentWatch,
     Outcome, Proceed, Start, Use, Exists
<1> QED  BY <1>1, <1>2, <1>3, <1>4, <1>5, <1>6, <1>7, <1>8, <1>9, <1>10 DEF AInv

LEMMA CollectTriggersStep ==
  ASSUME AInv, CollectTriggers
  PROVE  AInv'
<1>1. UsedFits'
  BY DEF AInv, UsedFits, CollectTriggers, disk, history, Proceed, At
<1>2. HistoryFits'
  BY DEF AInv, HistoryFits, CollectTriggers, disk, history, Proceed, At
<1>3. SchedulerFits'
  BY DEF AInv, SchedulerFits, CollectTriggers, disk, history, Proceed, At,
     AllRuns, Results, Scheduled, Steps, Slots, DueTriggers
<1>4. TypeOK'
  BY AutomationAssumption, ValueAssumption DEF AInv, TypeOK, UsedFits,
     SchedulerFits, HistoryFits, CollectTriggers, AllRuns, AutomationRecords,
     Calls, IsActive, Never, RunStatuses, Scheduled, Slots, TaskStatuses,
     TriggerRecords, At, Results, Steps, DueTriggers, Proceed, disk, history,
     Schedules, Exists
<1>5. TracksFit'
  BY DEF AInv, TracksFit, CollectTriggers, disk, history, Proceed, At, AllRuns,
     HasRun, HasTask, IsLookedUp, Scheduled, Slots
<1>6. BehindFit'
  BY DEF AInv, BehindFit, CollectTriggers, disk, history, Proceed, At, Exists,
     IsBehind, Scheduled, Traced, HasRun, Saving, Slots
<1>7. DueFit'
  BY DEF AInv, DueFit, CollectTriggers, disk, history, Proceed, At, Awaited,
     Exists, Saving, Scheduled, Slots
<1>8. OrderFit'
  BY DEF AInv, OrderFit, CollectTriggers, disk, history, Proceed, At, Awaited,
     Saving, Scheduled, Traced, Slots
<1>9. SlotRunsOnce'
  BY DEF AInv, SlotRunsOnce, CollectTriggers, disk, history, Proceed, At
<1>10. TriggersFit'
  BY AutomationAssumption, ValueAssumption DEF AInv, TriggersFit,
     CollectTriggers, disk, history, Proceed, At, DueTriggers, TypeOK,
     SchedulerFits, HistoryFits
<1> QED  BY <1>1, <1>2, <1>3, <1>4, <1>5, <1>6, <1>7, <1>8, <1>9, <1>10 DEF AInv

LEMMA FireTriggerStep ==
  ASSUME AInv, NEW g \in Triggers, NEW result \in {"Fired", "Failed"},
         FireTrigger(g, result)
  PROVE  AInv'
<1>1. UsedFits'  BY DEF AInv, UsedFits, FireTrigger, disk, Begin, At
<1>2. HistoryFits'  BY DEF AInv, HistoryFits, FireTrigger, disk, Begin, At
<1>3. SchedulerFits'
  BY DEF AInv, SchedulerFits, FireTrigger, disk, Begin, At, AllRuns, Results,
     Scheduled, Steps, Slots
<1>4. TypeOK'
  BY AutomationAssumption, ValueAssumption DEF AInv, TypeOK, UsedFits,
     SchedulerFits, HistoryFits, FireTrigger, AllRuns, AutomationRecords, Calls,
     IsActive, Never, RunStatuses, Scheduled, Slots, TaskStatuses,
     TriggerRecords, At, Results, Steps, Begin, disk, Schedules, Exists
<1>5. TracksFit'
  BY DEF AInv, TracksFit, FireTrigger, disk, Begin, At, AllRuns, HasRun,
     HasTask, IsLookedUp, Scheduled, Slots
<1>6. BehindFit'
  BY DEF AInv, BehindFit, FireTrigger, disk, Begin, At, Exists, IsBehind,
     Scheduled, Traced, HasRun, Saving, Slots
<1>7. DueFit'
  BY DEF AInv, DueFit, FireTrigger, disk, Begin, At, Awaited, Exists, Saving,
     Scheduled, Slots
<1>8. OrderFit'
  BY DEF AInv, OrderFit, FireTrigger, disk, Begin, At, Awaited, Saving,
     Scheduled, Traced, Slots
<1>9. SlotRunsOnce'  BY DEF AInv, SlotRunsOnce, FireTrigger, disk, Begin, At
<1>10. TriggersFit'  BY DEF AInv, TriggersFit, FireTrigger, disk, Begin, At
<1> QED  BY <1>1, <1>2, <1>3, <1>4, <1>5, <1>6, <1>7, <1>8, <1>9, <1>10 DEF AInv

LEMMA RecordTriggerStep ==
  ASSUME AInv, RecordTrigger
  PROVE  AInv'
<1>1. UsedFits'  BY DEF AInv, UsedFits, RecordTrigger, history, Proceed, At
<1>2. HistoryFits'
  BY DEF AInv, HistoryFits, RecordTrigger, history, Proceed, At
<1>3. SchedulerFits'
  BY DEF AInv, SchedulerFits, RecordTrigger, history, Proceed, At, AllRuns,
     Results, Scheduled, Steps, Slots
<1>4. TypeOK'
  <2>1. trigger[scheduler.item] \in TriggerRecords
    BY DEF RecordTrigger, At, AInv, TypeOK, SchedulerFits, TriggersFit
  <2>2. [trigger[scheduler.item] EXCEPT !.status = scheduler.result] \in TriggerRecords
    BY <2>1 DEF RecordTrigger, At, AInv, SchedulerFits, TriggerRecords
  <2>3. trigger' \in [Triggers -> {Absent} \cup TriggerRecords]
    BY <2>2 DEF RecordTrigger, AInv, TypeOK
  <2> QED  BY <1>3, <2>3
           DEF RecordTrigger, SchedulerFits, Steps, AInv, TypeOK, history, IsActive, Exists
<1>5. TracksFit'
  BY DEF AInv, TracksFit, RecordTrigger, history, Proceed, At, AllRuns, HasRun,
     HasTask, IsLookedUp, Scheduled, Slots
<1>6. BehindFit'
  BY DEF AInv, BehindFit, RecordTrigger, history, Proceed, At, Exists, IsBehind,
     Scheduled, Traced, HasRun, Saving, Slots
<1>7. DueFit'
  BY DEF AInv, DueFit, RecordTrigger, history, Proceed, At, Awaited, Exists,
     Saving, Scheduled, Slots
<1>8. OrderFit'
  BY DEF AInv, OrderFit, RecordTrigger, history, Proceed, At, Awaited, Saving,
     Scheduled, Traced, Slots
<1>9. SlotRunsOnce'
  BY DEF AInv, SlotRunsOnce, RecordTrigger, history, Proceed, At
<1>10. TriggersFit'
  <2>1. scheduler.item \in Triggers /\ trigger[scheduler.item] \in TriggerRecords
    BY DEF RecordTrigger, At, AInv, TypeOK, SchedulerFits, TriggersFit
  <2>2. /\ trigger'[scheduler.item] = [trigger[scheduler.item] EXCEPT !.status = scheduler.result]
        /\ \A g \in Triggers : g # scheduler.item => trigger'[g] = trigger[g]
    BY <2>1 DEF RecordTrigger, AInv, TypeOK
  <2>3. trigger'[scheduler.item] \in TriggerRecords /\ trigger'[scheduler.item].status # "Pending"
    BY <2>1, <2>2 DEF RecordTrigger, At, AInv, SchedulerFits, TriggerRecords
  <2>4. /\ At("record") /\ scheduler'.step = "fire" /\ scheduler'.item = Nothing
        /\ scheduler'.todo = scheduler.todo /\ UNCHANGED <<fired, lost>>
    BY DEF RecordTrigger, Proceed, history
  <2> QED  BY <2>2, <2>3, <2>4, ValueAssumption DEF AInv, TriggersFit, At
<1> QED  BY <1>1, <1>2, <1>3, <1>4, <1>5, <1>6, <1>7, <1>8, <1>9, <1>10 DEF AInv

LEMMA RecordFailStep ==
  ASSUME AInv, RecordFails
  PROVE  AInv'
<1>1. UsedFits'
  BY DEF AInv, UsedFits, RecordFails, disk, GiveUp, At, Proceed, Start, Use
<1>2. HistoryFits'  BY DEF AInv, HistoryFits, RecordFails, disk, GiveUp, At
<1>3. SchedulerFits'
  BY DEF AInv, SchedulerFits, RecordFails, disk, GiveUp, At, AllRuns, Results,
     Scheduled, Steps, Slots, Proceed, Start, Use
<1>4. TypeOK'
  <2>1. lost' \subseteq AllRuns \cup Triggers
    BY DEF RecordFails, At, AInv, TypeOK, SchedulerFits
  <2>2. call' \in {Nothing} \cup Calls
    BY DEF RecordFails, GiveUp, AInv, TypeOK
  <2> QED  BY <1>3, <2>1, <2>2
           DEF RecordFails, SchedulerFits, Steps, AInv, TypeOK, disk, history, IsActive,
               Exists, At
<1>5. TracksFit'
  BY DEF AInv, TracksFit, RecordFails, disk, GiveUp, At, AllRuns, HasRun,
     HasTask, IsLookedUp, Scheduled, Slots, Proceed, Start, Use
<1>6. BehindFit'
  BY DEF AInv, BehindFit, RecordFails, disk, GiveUp, At, Exists, IsBehind,
     Scheduled, Traced, HasRun, Saving, Slots
<1>7. DueFit'
  BY DEF AInv, DueFit, RecordFails, disk, GiveUp, At, Awaited, Exists, Saving,
     Scheduled, Slots, Proceed, Start, Use
<1>8. OrderFit'
  BY DEF AInv, OrderFit, RecordFails, disk, GiveUp, At, Awaited, Saving,
     Scheduled, Traced, Slots, Proceed, Start, Use
<1>9. SlotRunsOnce'  BY DEF AInv, SlotRunsOnce, RecordFails, disk, GiveUp, At
<1>10. TriggersFit'
  BY DEF AInv, TriggersFit, RecordFails, disk, GiveUp, At, Proceed, Start, Use
<1> QED  BY <1>1, <1>2, <1>3, <1>4, <1>5, <1>6, <1>7, <1>8, <1>9, <1>10 DEF AInv

LEMMA EndPhaseStep ==
  ASSUME AInv, EndPhase
  PROVE  AInv'
<1>1. UsedFits'  BY DEF AInv, UsedFits, EndPhase, disk, history, Proceed, At
<1>2. HistoryFits'
  BY DEF AInv, HistoryFits, EndPhase, disk, history, Proceed, At
<1>3. SchedulerFits'
  BY DEF AInv, SchedulerFits, EndPhase, disk, history, Proceed, At, AllRuns,
     Results, Scheduled, Steps, Slots
<1>4. TypeOK'
  <2> QED  BY <1>3
           DEF EndPhase, SchedulerFits, Steps, AInv, TypeOK, disk, history, IsActive, Exists
<1>5. TracksFit'
  BY DEF AInv, TracksFit, EndPhase, disk, history, Proceed, At, AllRuns, HasRun,
     HasTask, IsLookedUp, Scheduled, Slots
<1>6. BehindFit'
  BY DEF AInv, BehindFit, EndPhase, disk, history, Proceed, At, Exists,
     IsBehind, Scheduled, Traced, HasRun, Saving, Slots
<1>7. DueFit'
  BY DEF AInv, DueFit, EndPhase, disk, history, Proceed, At, Awaited, Exists,
     Saving, Scheduled, Slots
<1>8. OrderFit'
  BY DEF AInv, OrderFit, EndPhase, disk, history, Proceed, At, Awaited, Saving,
     Scheduled, Traced, Slots
<1>9. SlotRunsOnce'
  BY DEF AInv, SlotRunsOnce, EndPhase, disk, history, Proceed, At
<1>10. TriggersFit'
  BY DEF AInv, TriggersFit, EndPhase, disk, history, Proceed, At
<1> QED  BY <1>1, <1>2, <1>3, <1>4, <1>5, <1>6, <1>7, <1>8, <1>9, <1>10 DEF AInv

LEMMA TaskEndStep ==
  ASSUME AInv, NEW run \in AllRuns, NEW result \in {"Completed", "Silent",
         "Failed"}, TaskEnds(run.automation, run.slot, result)
  PROVE  AInv'
<1>1. UsedFits'  BY DEF AInv, UsedFits, TaskEnds, disk, history
<1>2. HistoryFits'  BY DEF AInv, HistoryFits, TaskEnds, disk, history
<1>3. SchedulerFits'
  BY DEF AInv, SchedulerFits, TaskEnds, disk, history, AllRuns, At, Results,
     Scheduled, Steps, Slots
<1>4. TypeOK'
  BY AutomationAssumption, ValueAssumption DEF AInv, TypeOK, UsedFits,
     SchedulerFits, HistoryFits, TaskEnds, AllRuns, AutomationRecords, Calls,
     IsActive, Never, RunStatuses, Scheduled, Slots, TaskStatuses,
     TriggerRecords, At, Results, Steps, disk, history, Schedules, Exists
<1>5. TracksFit'
  BY AutomationAssumption, ValueAssumption DEF AInv, TracksFit, TypeOK,
     SchedulerFits, TaskEnds, AllRuns, At, HasRun, HasTask, IsLookedUp,
     Scheduled, AutomationRecords, Calls, IsActive, Never, RunStatuses, Slots,
     TaskStatuses, TriggerRecords, Results, Steps, disk, history, Schedules,
     Exists
<1>6. BehindFit'
  BY DEF AInv, BehindFit, TaskEnds, disk, history, Exists, IsBehind, Scheduled,
     Traced, HasRun, Saving, Slots, At
<1>7. DueFit'
  BY DEF AInv, DueFit, TaskEnds, disk, history, Awaited, Exists, Saving,
     Scheduled, At, Slots
<1>8. OrderFit'
  BY DEF AInv, OrderFit, TaskEnds, disk, history, Awaited, Saving, Scheduled,
     Traced, At, Slots
<1>9. SlotRunsOnce'  BY DEF AInv, SlotRunsOnce, TaskEnds, disk, history
<1>10. TriggersFit'  BY DEF AInv, TriggersFit, TaskEnds, disk, history, At
<1> QED  BY <1>1, <1>2, <1>3, <1>4, <1>5, <1>6, <1>7, <1>8, <1>9, <1>10 DEF AInv

LEMMA TickStep ==
  ASSUME AInv, Tick
  PROVE  AInv'
<1>1. UsedFits'  BY DEF AInv, UsedFits, Tick, disk, history
<1>2. HistoryFits'  BY DEF AInv, HistoryFits, Tick, disk, history
<1>3. SchedulerFits'
  BY DEF AInv, SchedulerFits, Tick, disk, history, AllRuns, At, Results,
     Scheduled, Steps, Slots
<1>4. TypeOK'
  <2>1. used.scenario.clock \in 0..MaxTime
    BY AutomationAssumption DEF AInv, UsedFits
  <2>2. now' \in 0..MaxTime
    BY <2>1, NowFits DEF Tick
  <2> QED  BY <2>2 DEF Tick, AInv, TypeOK, disk, history, IsActive, Exists
<1>5. TracksFit'
  BY DEF AInv, TracksFit, Tick, disk, history, AllRuns, At, HasRun, HasTask,
     IsLookedUp, Scheduled, Slots
<1>6. BehindFit'
  BY DEF AInv, BehindFit, Tick, disk, history, Exists, IsBehind, Scheduled,
     Traced, HasRun, Saving, Slots, At, TypeOK, SchedulerFits, HistoryFits,
     DueFit, OrderFit
<1>7. DueFit'
  BY DEF AInv, DueFit, Tick, disk, history, Awaited, Exists, Saving, Scheduled,
     At, Slots, TypeOK, SchedulerFits
<1>8. OrderFit'
  BY DEF AInv, OrderFit, Tick, disk, history, Awaited, Saving, Scheduled,
     Traced, At, Slots
<1>9. SlotRunsOnce'  BY DEF AInv, SlotRunsOnce, Tick, disk, history
<1>10. TriggersFit'  BY DEF AInv, TriggersFit, Tick, disk, history, At
<1> QED  BY <1>1, <1>2, <1>3, <1>4, <1>5, <1>6, <1>7, <1>8, <1>9, <1>10 DEF AInv

LEMMA CrashStep ==
  ASSUME AInv, Crash
  PROVE  AInv'
<1>1. UsedFits'  BY DEF AInv, UsedFits, Crash, disk, history, Use, At
<1>2. HistoryFits'  BY DEF AInv, HistoryFits, Crash, disk, history, Use, At
<1>3. SchedulerFits'
  BY DEF AInv, SchedulerFits, Crash, disk, history, Use, At, AllRuns, Results,
     Scheduled, Steps, Slots, Start
<1>4. TypeOK'
  BY AutomationAssumption, ValueAssumption DEF AInv, TypeOK, UsedFits,
     SchedulerFits, HistoryFits, Crash, AllRuns, AutomationRecords, Calls,
     IsActive, Never, RunStatuses, Scheduled, Slots, TaskStatuses,
     TriggerRecords, At, Results, Steps, Start, Use, disk, history, Schedules,
     Exists
<1>5. TracksFit'
  BY DEF AInv, TracksFit, Crash, disk, history, Use, At, AllRuns, HasRun,
     HasTask, IsLookedUp, Scheduled, Slots, Start
<1>6. BehindFit'
  BY DEF AInv, BehindFit, Crash, disk, history, Use, At, Exists, IsBehind,
     Scheduled, Traced, HasRun, Saving, Slots
<1>7. DueFit'
  BY DEF AInv, DueFit, Crash, disk, history, Use, At, Awaited, Exists, Saving,
     Scheduled, Slots, Start
<1>8. OrderFit'
  BY DEF AInv, OrderFit, Crash, disk, history, Use, At, Awaited, Saving,
     Scheduled, Traced, Slots, Start
<1>9. SlotRunsOnce'  BY DEF AInv, SlotRunsOnce, Crash, disk, history, Use, At
<1>10. TriggersFit'
  BY DEF AInv, TriggersFit, Crash, disk, history, Use, At, Start
<1> QED  BY <1>1, <1>2, <1>3, <1>4, <1>5, <1>6, <1>7, <1>8, <1>9, <1>10 DEF AInv

(* The invariant holds at first, *)
LEMMA InitFits == ASSUME Init PROVE AInv
<1>1. scheduler = [step |-> "tick", todo |-> {}, item |-> Nothing, result |-> Nothing]
  BY DEF Init, Start
<1>2. TypeOK
  BY <1>1, AutomationAssumption DEF Init, TypeOK, IsActive, Exists
<1>3. UsedFits /\ HistoryFits
  BY DEF Init, UsedFits, HistoryFits
<1>4. SchedulerFits
  BY <1>1 DEF SchedulerFits, Steps, Results, At
<1>5. TracksFit
  BY <1>1, ValueAssumption, RunParts, ScheduledParts
     DEF Init, TracksFit, HasRun, HasTask, IsLookedUp, At, RunStatuses
<1>6. \A run \in Scheduled : started[run.automation][run.slot] = 0
  BY ScheduledParts DEF Init
<1>7. BehindFit /\ DueFit /\ OrderFit /\ SlotRunsOnce
  BY <1>1, <1>6 DEF BehindFit, DueFit, OrderFit, SlotRunsOnce, Traced, Awaited, Saving, At
<1>8. TriggersFit
  BY <1>1 DEF Init, TriggersFit, At
<1> QED  BY <1>2, <1>3, <1>4, <1>5, <1>7, <1>8 DEF AInv

(* is not disturbed by a step of others, *)
LEMMA StutterFits == ASSUME AInv, UNCHANGED vars PROVE AInv'
<1> USE DEF vars, disk, history
<1>1. TypeOK' /\ UsedFits' /\ HistoryFits'
  BY DEF AInv, TypeOK, UsedFits, HistoryFits, IsActive, Exists
<1>2. SchedulerFits' /\ TracksFit'
  BY DEF AInv, SchedulerFits, TracksFit, At, HasRun, HasTask, IsLookedUp
<1>3. BehindFit' /\ DueFit' /\ OrderFit'
  BY
  DEF AInv, BehindFit, DueFit, OrderFit, Traced, Awaited, Saving, IsBehind, HasRun, Exists,
      At
<1>4. SlotRunsOnce' /\ TriggersFit'
  BY DEF AInv, SlotRunsOnce, TriggersFit, At
<1> QED  BY <1>1, <1>2, <1>3, <1>4 DEF AInv

(* and is kept by every step. *)
LEMMA NextFits == ASSUME AInv, Next PROVE AInv'
<1>1. CASE SchedulerStep
  BY <1>1, CollectDueStep, CollectFailStep, EnqueueRunStep, FinishRunStep, FinishFailStep,
     CollectPendingStep, LookUpStep, FoldStep, FoldFailStep, CollectTriggersStep,
     FireTriggerStep, RecordTriggerStep, RecordFailStep, EndPhaseStep DEF SchedulerStep
<1>2. CASE UserStep
  BY <1>2, CreateStep, RescheduleStep, PauseStep, ResumeStep, DeleteStep, RunNowStep,
     RunNowEnqueueStep, RunNowSaveStep, CreateTriggerStep, CancelTriggerStep DEF UserStep
<1>3. CASE Tick \/ Crash
  BY <1>3, TickStep, CrashStep
<1>4. CASE \E run \in AllRuns, result \in {"Completed", "Silent", "Failed"} :
             TaskEnds(run.automation, run.slot, result)
  BY <1>4, TaskEndStep
<1> QED  BY <1>1, <1>2, <1>3, <1>4 DEF Next

(* So it always holds. *)
LEMMA AInvHolds == Spec => []AInv
<1>1. Init => AInv
  BY InitFits
<1>2. AInv /\ [Next]_vars => AInv'
  BY NextFits, StutterFits
<1> QED  BY <1>1, <1>2, PTL DEF Spec

(***************************************************************************)
(* The theorems.                                                           *)
(***************************************************************************)
(* A slot is started a second time only if its first start left no trace,  *)
(* however commands, crashes and failing writes come between the reads and *)
(* writes of run_due and reconcile_runs, and an active automation always   *)
(* has a next slot.                                                        *)
THEOREM SlotsRunOnce == Spec => []AutomationInv
<1>1. AInv => AutomationInv
  BY DEF AInv, AutomationInv
<1> QED  BY <1>1, AInvHolds, PTL

(* What a step does to the automation records when no user gives a command: *)
(* it may create one, and advance one past a slot.                          *)
LEMMA OnlyCommandsChange ==
  ASSUME AInv, Next, used'.commands = used.commands, NEW a \in Automations,
         automation[a] # Absent, automation'[a] # automation[a]
  PROVE  /\ Exists(a)
         /\ \/ At("tick") /\ automation'[a] = Swept(a) /\ UNCHANGED <<runs, recorded>>
            \/ FinishRun /\ scheduler.item.automation = a
<1>1. ASSUME UNCHANGED automation PROVE FALSE
  BY <1>1
<1>2. ASSUME NEW b \in Automations, Command(b) PROVE FALSE
  BY <1>2 DEF Command, Use, AInv, UsedFits
<1>3. ASSUME NEW b \in Automations, NEW schedule \in Schedules,
             NEW status \in {"Active", "Paused"}, Create(b, schedule, status)
      PROVE  FALSE
  <2>1. b # a
    BY <1>3 DEF Create
  <2> QED  BY <1>3, <2>1 DEF Create, AInv, TypeOK
<1>4. ~UserStep
  BY <1>1, <1>2, <1>3 DEF UserStep, Reschedule, Pause, Resume, Delete, RunNow, RunNowEnqueue,
     RunNowSave, CreateTrigger, CancelTrigger, disk
<1>5. CollectDue \/ CollectFails \/ FinishRun
  BY <1>1, <1>4 DEF Next, SchedulerStep, EnqueueRun, FinishFails, CollectPending, LookUp, Fold,
     FoldFails, CollectTriggers, FireTrigger, RecordTrigger, RecordFails, EndPhase, TaskEnds,
     Tick, Crash, disk
<1>6. CASE CollectDue \/ CollectFails
  <2>1. automation'[a] = Swept(a) /\ At("tick") /\ UNCHANGED <<runs, recorded>>
    BY <1>6 DEF CollectDue, CollectFails, history
  <2> QED  BY <2>1, SweptParts DEF IsActive
<1>7. CASE FinishRun
  <2>1. /\ automation' = [automation EXCEPT ![scheduler.item.automation] =
             IF Exists(scheduler.item.automation)
             THEN Advanced(scheduler.item.automation, scheduler.item.slot) ELSE @]
    BY <1>7 DEF FinishRun
  <2>2. scheduler.item.automation = a /\ Exists(a)
    BY <2>1 DEF AInv, TypeOK
  <2> QED  BY <1>7, <2>2
<1> QED  BY <1>5, <1>6, <1>7

(* finish_scheduled_run saves the run and advances its automation.         *)
LEMMA FinishParts ==
  ASSUME AInv, FinishRun, NEW a \in Automations, scheduler.item.automation = a, Exists(a)
  PROVE  /\ scheduler.item \in Scheduled /\ scheduler.item.slot \in Slots
         /\ scheduler.item.slot <= now /\ scheduler.item.slot <= automation[a].next
         /\ automation'[a] = Advanced(a, scheduler.item.slot)
         /\ scheduler.item \in recorded'
<1>1. At("save") /\ scheduler.item \in Scheduled /\ scheduler.item.slot \in Slots
  BY ScheduledParts DEF FinishRun, AInv, SchedulerFits
<1>2. scheduler.item.slot <= now /\ scheduler.item.slot <= automation[a].next
  BY <1>1 DEF AInv, DueFit, Saving
<1>3. automation'[a] = Advanced(a, scheduler.item.slot)
  BY DEF FinishRun, AInv, TypeOK
<1> QED  BY <1>1, <1>2, <1>3 DEF FinishRun, SaveRun

(* In both cases the automation is advanced past a slot that has come.     *)
LEMMA AdvancedOnly ==
  ASSUME AInv, Next, used'.commands = used.commands, NEW a \in Automations,
         automation[a] # Absent, automation'[a] # automation[a]
  PROVE  \E slot \in Slots :
           Exists(a) /\ slot <= now /\ automation'[a] = Advanced(a, slot)
<1>1. CASE automation'[a] = Swept(a)
  <2> DEFINE slot == automation[a].next
  <2>1. Exists(a) /\ slot \in Slots /\ slot <= now /\ Swept(a) = Advanced(a, slot)
    BY <1>1, SweptParts DEF IsActive
  <2> QED  BY <1>1, <2>1
<1>2. CASE FinishRun /\ scheduler.item.automation = a
  <2>1. Exists(a)
    BY OnlyCommandsChange
  <2> QED  BY <1>2, <2>1, FinishParts
<1> QED  BY <1>1, <1>2, OnlyCommandsChange

(* Whatever the scheduler read before and writes now, pausing, resuming,   *)
(* rescheduling and deleting are the users' alone.                         *)
THEOREM UsersWin == Spec => UserWins
<1> DEFINE Kept(a) ==
      /\ Exists(a) <=> Exists(a)'
      /\ Exists(a) => automation'[a].schedule = automation[a].schedule
      /\ Exists(a) /\ automation'[a].status = "Active" => IsActive(a)
<1>1. ASSUME AInv, [Next]_vars, NEW a \in Automations,
             used'.commands = used.commands, automation[a] # Absent
      PROVE  Kept(a)
  <2>1. CASE automation'[a] = automation[a]
    BY <2>1 DEF Exists, IsActive
  <2>2. CASE automation'[a] # automation[a]
    <3>1. Next
      BY <1>1, <2>2 DEF vars, disk
    <3>2. PICK slot \in Slots : Exists(a) /\ slot <= now /\ automation'[a] = Advanced(a, slot)
      BY <1>1, <2>2, <3>1, AdvancedOnly
    <3>3. /\ automation'[a] \in AutomationRecords
          /\ automation'[a].schedule = automation[a].schedule
          /\ automation'[a].status = "Active" => automation[a].status = "Active"
      BY <1>1, <3>2, AdvancedParts
    <3> QED  BY <3>2, <3>3, ValueAssumption DEF Exists, IsActive
  <2> QED  BY <2>1, <2>2
<1>2. AInv /\ [Next]_vars =>
        [\A a \in Automations :
           used'.commands = used.commands /\ automation[a] # Absent => Kept(a)]_vars
  BY <1>1
<1> QED  BY <1>2, AInvHolds, PTL DEF Spec, UserWins

(* The next slot moves only past a slot whose run was saved, and by one    *)
(* slot at a time, whatever was missed meanwhile.                          *)
THEOREM NoSlotIsPassedOver == Spec => EverySlotRuns
<1> DEFINE Ran(a) ==
      LET slot == automation[a].next IN
      \/ automation'[a].next <= slot
      \/ /\ [automation |-> a, slot |-> slot] \in recorded'
         /\ automation'[a].next <= NextAfterSlot(automation[a].schedule, slot)
<1>1. ASSUME AInv, [Next]_vars, NEW a \in Automations,
             IsActive(a), used'.commands = used.commands, ~Overtaken(a)
      PROVE  Ran(a)
  <2> DEFINE slot == automation[a].next
  <2>1. /\ Exists(a) /\ automation[a] # Absent /\ slot \in Slots /\ slot \in Nat
        /\ automation[a].schedule \in Schedules
    BY <1>1, RecordParts DEF IsActive, Exists
  <2>2. CASE automation'[a] = automation[a]
    BY <2>1, <2>2
  <2>3. CASE automation'[a] # automation[a]
    <3>1. Next
      BY <1>1, <2>3 DEF vars, disk
    <3>2. CASE At("tick") /\ automation'[a] = Swept(a) /\ UNCHANGED <<runs, recorded>>
      <4>1. slot <= now /\ HasRun(a, slot) /\ automation'[a] = Advanced(a, slot)
        BY <1>1, <2>3, <3>2, SweptParts
      <4>2. automation'[a].next = NextAfterSlot(automation[a].schedule, slot)
               /\ automation'[a].next \in Nat
        BY <1>1, <2>1, <4>1, AdvancedParts
      <4>3. [automation |-> a, slot |-> slot] \in Scheduled
        BY <2>1 DEF Scheduled
      <4>4. [automation |-> a, slot |-> slot] \in recorded
        BY <1>1, <4>1, <4>3 DEF AInv, TracksFit
      <4> QED  BY <3>2, <4>2, <4>4
    <3>3. CASE FinishRun /\ scheduler.item.automation = a
      <4> DEFINE item == scheduler.item
      <4>1. /\ item \in Scheduled /\ item.slot \in Slots /\ item.slot <= now /\ item.slot <= slot
            /\ automation'[a] = Advanced(a, item.slot) /\ item \in recorded'
        BY <1>1, <2>1, <3>3, FinishParts
      <4>2. /\ automation'[a].next = NextAfterSlot(automation[a].schedule, item.slot)
            /\ automation'[a].next \in Nat
        BY <1>1, <2>1, <4>1, AdvancedParts
      <4>3. item = [automation |-> a, slot |-> item.slot] /\ item.slot \in Nat
        BY <3>3, <4>1, ScheduledParts
      <4>4. CASE item.slot = slot
        BY <4>1, <4>2, <4>3, <4>4
      <4>5. CASE item.slot # slot
        <5>1. ~automation[a].schedule.once
          BY <1>1, <3>3, <4>5 DEF Overtaken, FinishRun
        <5> QED  BY <2>1, <4>1, <4>2, <4>3, <4>5, <5>1 DEF NextAfterSlot
      <4> QED  BY <4>4, <4>5
    <3> QED  BY <1>1, <2>1, <2>3, <3>1, <3>2, <3>3, OnlyCommandsChange
  <2> QED  BY <2>2, <2>3
<1>2. AInv /\ [Next]_vars =>
        [\A a \in Automations :
           IsActive(a) /\ used'.commands = used.commands /\ ~Overtaken(a) => Ran(a)]_vars
  BY <1>1
<1> QED  BY <1>2, AInvHolds, PTL DEF Spec, EverySlotRuns

(* What a step does to a trigger: it collects those that are pending and   *)
(* due, fires one it collected, or writes the one it fired.                *)
LEMMA TriggerSteps ==
  ASSUME AInv, Next, NEW g \in Triggers
  PROVE  /\ fired'[g] # fired[g] =>
              scheduler.step = "fire" /\ g \in scheduler.todo
         /\ trigger'[g] # trigger[g] /\ trigger[g] # Absent =>
              trigger[g].status = "Pending" \/ (At("record") /\ scheduler.item = g)
         /\ InFlight(g)' => \/ InFlight(g)
                            \/ trigger[g] # Absent /\ trigger[g].status = "Pending"
<1>1. g \notin AllRuns /\ g # Nothing
  BY ValueAssumption
<1>2. CASE UserStep \/ Tick \/ \E run \in AllRuns, result \in {"Completed", "Silent", "Failed"} :
             TaskEnds(run.automation, run.slot, result)
  <2>1. UNCHANGED <<scheduler, fired>>
    BY <1>2 DEF UserStep, Create, Reschedule, Pause, Resume, Delete, Command, RunNow,
       RunNowEnqueue, RunNowSave, CreateTrigger, CancelTrigger, Tick, TaskEnds, history
  <2>2. \/ UNCHANGED trigger
        \/ \E other \in Triggers : CancelTrigger(other) \/ \E at \in 1..MaxTime : CreateTrigger(other, at)
    BY <1>2 DEF UserStep, Create, Reschedule, Pause, Resume, Delete, Command, RunNow,
       RunNowEnqueue, RunNowSave, Tick, TaskEnds, disk
  <2>3. trigger'[g] # trigger[g] /\ trigger[g] # Absent => trigger[g].status = "Pending"
    BY <2>2 DEF CancelTrigger, CreateTrigger, AInv, TypeOK
  <2> QED  BY <2>1, <2>3 DEF InFlight
<1>3. CASE Crash
  <2>1. scheduler'.todo = {} /\ scheduler'.item = Nothing /\ UNCHANGED <<fired, trigger>>
    BY <1>3 DEF Crash, Start, disk, history
  <2> QED  BY <1>1, <2>1 DEF InFlight
<1>4. CASE CollectDue \/ CollectFails \/ CollectPending
  <2>1. UNCHANGED <<fired, trigger>>
    BY <1>4 DEF CollectDue, CollectFails, CollectPending, disk, history
  <2>2. \A a \in Due : ~HasRun(a, automation[a].next) =>
          [automation |-> a, slot |-> automation[a].next] \in AllRuns
    BY RecordParts DEF Due, IsActive, AllRuns
  <2>3. scheduler'.todo \subseteq AllRuns /\ scheduler'.item = Nothing
    BY <1>4, <2>2 DEF CollectDue, CollectFails, CollectPending, GiveUp, Proceed, Start,
       PendingRuns
  <2> QED  BY <1>1, <2>1, <2>3 DEF InFlight
<1>5. CASE \/ \E run \in Scheduled, result \in {"Running", "Failed"} : EnqueueRun(run, result)
           \/ \E run \in AllRuns : LookUp(run)
  <2>1. PICK run \in AllRuns :
          \/ \E result \in {"Running", "Failed"} : EnqueueRun(run, result)
          \/ LookUp(run)
    BY <1>5, ScheduledParts
  <2>2. scheduler'.todo \subseteq scheduler.todo /\ scheduler'.item = run
    BY <2>1 DEF EnqueueRun, LookUp, Begin
  <2>3. UNCHANGED <<fired, trigger>>
    BY <2>1 DEF EnqueueRun, LookUp, disk, history
  <2> QED  BY <1>1, <2>2, <2>3 DEF InFlight
<1>6. CASE FinishRun \/ FinishFails \/ Fold \/ FoldFails \/ EndPhase
  <2>1. scheduler'.todo \subseteq scheduler.todo /\ scheduler'.item = Nothing
    BY <1>6 DEF FinishRun, FinishFails, Fold, FoldFails, EndPhase, GiveUp, Proceed, Start
  <2> QED  BY <1>1, <1>6, <2>1 DEF FinishRun, FinishFails, Fold, FoldFails, EndPhase, InFlight,
         disk, history
<1>7. CASE CollectTriggers
  BY <1>1, <1>7 DEF CollectTriggers, Proceed, DueTriggers, InFlight, disk, history
<1>8. ASSUME NEW other \in Triggers, NEW result \in {"Fired", "Failed"}, FireTrigger(other, result)
      PROVE  /\ other \in scheduler.todo /\ At("fire") /\ UNCHANGED trigger
             /\ fired' = [fired EXCEPT ![other] = IF result = "Fired" THEN @ + 1 ELSE @]
             /\ scheduler'.todo \subseteq scheduler.todo /\ scheduler'.item = other
  BY <1>8 DEF FireTrigger, Begin, disk
<1>9. CASE RecordTrigger \/ RecordFails
  <2>1. scheduler'.todo \subseteq scheduler.todo /\ scheduler'.item = Nothing /\ UNCHANGED fired
    BY <1>9 DEF RecordTrigger, RecordFails, GiveUp, Proceed, Start, history
  <2>2. At("record") /\ (trigger'[g] # trigger[g] => scheduler.item = g)
    BY <1>9 DEF RecordTrigger, RecordFails, disk, AInv, TypeOK
  <2> QED  BY <1>1, <2>1, <2>2 DEF InFlight
<1>10. ASSUME NEW other \in Triggers, NEW result \in {"Fired", "Failed"}, FireTrigger(other, result)
       PROVE  /\ fired'[g] # fired[g] => scheduler.step = "fire" /\ g \in scheduler.todo
              /\ UNCHANGED trigger
              /\ InFlight(g)' => InFlight(g)
  BY <1>8, <1>10 DEF InFlight, AInv, HistoryFits, At
<1> QED  BY <1>2, <1>3, <1>4, <1>5, <1>6, <1>7, <1>9, <1>10 DEF Next, SchedulerStep

(* A trigger fires a second task only if the first was lost, and a          *)
(* canceled one that the scheduler does not hold never fires again.         *)
THEOREM TriggersFireOnce == Spec => TriggersHold
<1> DEFINE Holds(g) ==
      /\ fired'[g] # fired[g] /\ fired[g] > 0 => g \in lost
      /\ trigger[g] # Absent /\ trigger[g].status = "Canceled" /\ ~InFlight(g) =>
           trigger'[g] = trigger[g] /\ ~InFlight(g)'
<1>1. ASSUME AInv, Next, NEW g \in Triggers PROVE Holds(g)
  <2>1. fired'[g] # fired[g] => fired[g] = 0 \/ g \in lost
    BY <1>1, TriggerSteps DEF AInv, TriggersFit
  <2>2. trigger[g] # Absent /\ trigger[g].status = "Canceled" /\ ~InFlight(g) =>
           trigger'[g] = trigger[g] /\ ~InFlight(g)'
    BY <1>1, TriggerSteps DEF InFlight
  <2>3. fired[g] \in Nat
    BY <1>1 DEF AInv, HistoryFits
  <2> QED  BY <2>1, <2>2, <2>3
<1>2. AInv /\ [Next]_vars => [\A g \in Triggers : Holds(g)]_vars
  BY <1>1
<1> QED  BY <1>2, AInvHolds, PTL DEF Spec, TriggersHold
==============================================================================
