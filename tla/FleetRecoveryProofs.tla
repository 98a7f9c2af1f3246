------------------------- MODULE FleetRecoveryProofs -------------------------
(***************************************************************************)
(* FleetRecovery, for every set of tasks, channels and resumers, every     *)
(* retry policy, timeout and scenario: the types and the status of a run   *)
(* (RecoveryInv), and that no healthy lease loses an attempt.              *)
(*                                                                         *)
(* A status is written after the locks under which it was derived are      *)
(* released, so CompletedRunIsDone needs that a derived Completed stays    *)
(* true until then of the tasks it was derived from (VerdictsHold), which  *)
(* rests on ended tasks not being touched again; tasks that are enqueued   *)
(* meanwhile are among those it leaves out.  HealthyIsLeftAlone needs that *)
(* what a resumer found stale is stale still wherever its version has not  *)
(* moved (StalesFit): the heartbeats and leases that end it all move it.   *)
(***************************************************************************)
EXTENDS FleetRecovery, TLAPS

UsedFits == used \in [crashes: Nat, scenario: Scenarios]

Verdicts == {"Running", "Completed", "Failed"}
VerdictsFit ==
  verdict \in [Resumers \cup {"manager"} -> [status: Verdicts, missing: SUBSET Tasks]]

(* Nothing cancels a task here, and attempts are spent from the lease on.  *)
TasksFit ==
  \A t \in Tasks :
    /\ status[t] # "Cancelled"
    /\ status[t] \in {"Absent", "Enqueued"} => attempts[t] = 0

VerdictsHold ==
  \A p \in Resumers \cup {"manager"} :
    verdict[p].status = "Completed" => AreCompleted(used.scenario.tasks \ verdict[p].missing)

(* A resumer between two calls has nothing to do.                          *)
IdlesFit ==
  \A r \in Resumers : job[r].step = "Idle" => job[r].task = {} /\ job[r].todo = {}

StalesFit ==
  \A r \in Resumers :
    /\ job[r].task \cap job[r].todo = {}
    /\ \A t \in job[r].task \cup job[r].todo :
         t \notin changed[r] /\ t \in Leased => IsStale(r, t)

RInv ==
  /\ TypeOK /\ UsedFits /\ VerdictsFit /\ TasksFit
  /\ VerdictsHold /\ CompletedRunIsDone
  /\ IdlesFit /\ StalesFit

(***************************************************************************)
(* The operators.                                                          *)
(***************************************************************************)
(* refresh_run_status derives one of three statuses.                       *)
LEMMA VerdictFits ==
  ASSUME RInv PROVE Verdict \in [status: Verdicts, missing: SUBSET Tasks]
<1>1. DerivedStatus \in Verdicts
  BY DEF DerivedStatus, Verdicts
<1>2. Unenqueued \subseteq Tasks
  BY RecoveryAssumption DEF Unenqueued, RInv, UsedFits
<1> QED  BY <1>1, <1>2 DEF Verdict

(* A status is derived as Completed only when every task that is enqueued  *)
(* has completed.                                                          *)
LEMMA VerdictHolds ==
  ASSUME RInv, Verdict.status = "Completed"
  PROVE  AreCompleted(used.scenario.tasks \ Verdict.missing)
<1>1. DerivedStatus = "Completed" /\ Verdict.missing = Unenqueued
  BY DEF Verdict
<1>2. ~HasOpenWork /\ \A t \in Tasks : status[t] # "Failed"
  BY <1>1 DEF DerivedStatus
<1>3. \A t \in Tasks : status[t] \in {"Absent", "Completed"}
  BY <1>2 DEF HasOpenWork, RInv, TypeOK, TasksFit, Outcomes
<1>4. used.scenario.tasks \subseteq Tasks
  BY RecoveryAssumption DEF RInv, UsedFits
<1> QED  BY <1>1, <1>3, <1>4 DEF AreCompleted, Unenqueued

(* The statuses that wait to be written fit when one of them is derived,   *)
(* forgotten in a crash, or written.                                       *)
LEMMA DeriveKeeps ==
  ASSUME RInv, NEW p \in Resumers \cup {"manager"}, verdict' = [verdict EXCEPT ![p] = Verdict],
         UNCHANGED <<status, used>>
  PROVE  VerdictsFit' /\ VerdictsHold'
<1>1. VerdictsFit'
  BY VerdictFits DEF RInv, VerdictsFit
<1>2. ASSUME NEW q \in Resumers \cup {"manager"}, verdict'[q].status = "Completed"
      PROVE  AreCompleted(used.scenario.tasks \ verdict[q].missing)'
  <2>1. CASE q = p
    <3>1. verdict'[q] = Verdict
      BY <2>1 DEF RInv, VerdictsFit
    <3>2. AreCompleted(used.scenario.tasks \ Verdict.missing)
      BY <1>2, <3>1, VerdictHolds
    <3> QED  BY <3>1, <3>2 DEF AreCompleted
  <2>2. CASE q # p
    <3>1. verdict'[q] = verdict[q]
      BY <2>2 DEF RInv, VerdictsFit
    <3> QED  BY <1>2, <3>1 DEF RInv, VerdictsHold, AreCompleted
  <2> QED  BY <2>1, <2>2
<1> QED  BY <1>1, <1>2 DEF VerdictsHold

LEMMA ForgetKeeps ==
  ASSUME RInv, NEW p \in Resumers \cup {"manager"},
         verdict' = [verdict EXCEPT ![p] = NoVerdict],
         UNCHANGED <<status, used.scenario>>
  PROVE  VerdictsFit' /\ VerdictsHold'
<1>1. NoVerdict \in [status: Verdicts, missing: SUBSET Tasks] /\ NoVerdict.status # "Completed"
  BY DEF NoVerdict, Verdicts
<1>2. VerdictsFit'
  BY <1>1 DEF RInv, VerdictsFit
<1>3. \A q \in Resumers \cup {"manager"} : verdict'[q] = IF q = p THEN NoVerdict ELSE verdict[q]
  BY DEF RInv, VerdictsFit
<1> QED  BY <1>1, <1>2, <1>3 DEF RInv, VerdictsHold, AreCompleted

LEMMA RecordKeeps ==
  ASSUME RInv, NEW p \in Resumers \cup {"manager"}, Record(p), UNCHANGED <<status, used>>
  PROVE  /\ VerdictsFit' /\ VerdictsHold' /\ CompletedRunIsDone'
         /\ run_status' \in Verdicts /\ missing' \subseteq Tasks
<1>1. VerdictsFit' /\ VerdictsHold'
  BY ForgetKeeps DEF Record
<1>2. verdict[p] \in [status: Verdicts, missing: SUBSET Tasks]
  BY DEF RInv, VerdictsFit
<1>3. CompletedRunIsDone'
  BY <1>2 DEF Record, RInv, VerdictsHold, CompletedRunIsDone, AreCompleted
<1> QED  BY <1>1, <1>2, <1>3 DEF Record

(* What a resumer's job may become.                                        *)
LEMMA JobParts ==
  ASSUME RInv, NEW r \in Resumers
  PROVE  /\ job[r] \in Jobs /\ Idle \in Jobs
         /\ job[r].todo \subseteq Tasks /\ job[r].task \subseteq Tasks
         /\ changed[r] \subseteq Tasks
BY DEF RInv, TypeOK, Jobs, Idle

(* What Become and Touch write is well typed. *)
LEMMA BecomeFits ==
  ASSUME RInv, NEW r \in Resumers, NEW new \in Jobs, Become(r, new)
  PROVE  job' \in [Resumers -> Jobs]
BY DEF RInv, TypeOK, Become

LEMMA TouchFits ==
  ASSUME RInv, NEW t \in Tasks, NEW others, Touch(others, t)
  PROVE  changed' \in [Resumers -> SUBSET Tasks]
BY DEF RInv, TypeOK, Touch

(* A resumer between two calls holds nothing. *)
LEMMA IdleHasNoTasks ==
  ASSUME RInv, NEW r \in Resumers, job[r].step = "Idle"
  PROVE  job[r].task = {} /\ job[r].todo = {}
BY DEF RInv, IdlesFit

(* Become writes the job of one resumer. *)
LEMMA BecomeParts ==
  ASSUME RInv, NEW r \in Resumers, NEW new, Become(r, new), NEW q \in Resumers
  PROVE  job'[q] = IF q = r THEN new ELSE job[q]
BY DEF RInv, TypeOK, Become

(***************************************************************************)
(* Steps. One lemma for each action, and in it one step for each part of   *)
(* the invariant.                                                          *)
(***************************************************************************)
LEMMA EnqueueStep ==
  ASSUME RInv, NEW t \in Tasks, Enqueue(t)
  PROVE  RInv'
<1>1. TypeOK'  BY DEF RInv, TypeOK, Enqueue, tasks, driver, resumer
<1>2. UsedFits'  BY DEF RInv, UsedFits, Enqueue, tasks, driver, resumer
<1>3. VerdictsFit'  BY DEF RInv, VerdictsFit, Enqueue, tasks, driver, resumer
<1>4. TasksFit'  BY DEF RInv, TasksFit, Enqueue, tasks, driver, resumer
<1>5. VerdictsHold'  BY DEF RInv, VerdictsHold, Enqueue, tasks, driver,
        resumer, AreCompleted
<1>6. CompletedRunIsDone'  BY DEF RInv, CompletedRunIsDone, AreCompleted, Enqueue, tasks,
        driver, resumer
<1>7. IdlesFit'  BY DEF RInv, IdlesFit, Enqueue, tasks, driver, resumer
<1>8. StalesFit'  BY DEF RInv, StalesFit, Enqueue, tasks, driver, resumer,
        IsStale, Leased
<1> QED  BY <1>1, <1>2, <1>3, <1>4, <1>5, <1>6, <1>7, <1>8 DEF RInv

LEMMA CreatorCrashStep ==
  ASSUME RInv, CreatorCrashes
  PROVE  RInv'
<1>1. TypeOK'  BY RecoveryAssumption DEF RInv, TypeOK, CreatorCrashes, tasks,
        driver, resumer, Crashed, MayCrash, UsedFits, TasksFit, VerdictsFit
<1>2. UsedFits'  BY DEF RInv, UsedFits, CreatorCrashes, tasks, driver,
        resumer, Crashed, MayCrash
<1>3. VerdictsFit'  BY DEF RInv, VerdictsFit, CreatorCrashes, tasks, driver,
        resumer
<1>4. TasksFit'  BY DEF RInv, TasksFit, CreatorCrashes, tasks, driver, resumer
<1>5. VerdictsHold'  BY DEF RInv, VerdictsHold, CreatorCrashes, tasks, driver,
        resumer, AreCompleted, Crashed, MayCrash
<1>6. CompletedRunIsDone'  BY DEF RInv, CompletedRunIsDone, AreCompleted, CreatorCrashes,
        tasks, driver, resumer, Crashed, MayCrash
<1>7. IdlesFit'  BY DEF RInv, IdlesFit, CreatorCrashes, tasks, driver, resumer
<1>8. StalesFit'  BY DEF RInv, StalesFit, CreatorCrashes, tasks, driver,
        resumer, IsStale, Leased
<1> QED  BY <1>1, <1>2, <1>3, <1>4, <1>5, <1>6, <1>7, <1>8 DEF RInv

LEMMA StartStep ==
  ASSUME RInv, Start
  PROVE  RInv'
<1>1. TypeOK'  BY DEF RInv, TypeOK, Start, tasks, resumer, Leased,
        Outcomes
<1>2. UsedFits'  BY DEF RInv, UsedFits, Start, tasks, resumer
<1>3. VerdictsFit'  BY DEF RInv, VerdictsFit, Start, tasks, resumer
<1>4. TasksFit'  BY DEF RInv, TasksFit, Start, tasks, resumer
<1>5. VerdictsHold'  BY DEF RInv, VerdictsHold, Start, tasks, resumer, AreCompleted
<1>6. CompletedRunIsDone'  BY DEF RInv, CompletedRunIsDone, AreCompleted, Start, tasks,
        resumer
<1>7. IdlesFit'  BY DEF RInv, IdlesFit, Start, tasks, resumer
<1>8. StalesFit'  BY DEF RInv, StalesFit, Start, tasks, resumer, IsStale,
        Leased
<1> QED  BY <1>1, <1>2, <1>3, <1>4, <1>5, <1>6, <1>7, <1>8 DEF RInv

LEMMA BeatStep ==
  ASSUME RInv, NEW t \in Tasks, Beat(t)
  PROVE  RInv'
<1>1. TypeOK'
  <2>1. changed' \in [Resumers -> SUBSET Tasks]
    BY TouchFits DEF Beat, TouchNone, RInv, TypeOK
  <2>2. age' \in [Tasks -> 0..Oldest]
    BY RecoveryAssumption DEF Beat, RInv, TypeOK, Oldest
  <2> QED  BY <2>1, <2>2 DEF Beat, RInv, TypeOK, resumer
<1>2. UsedFits'  BY DEF RInv, UsedFits, Beat, resumer
<1>3. VerdictsFit'  BY DEF RInv, VerdictsFit, Beat, resumer
<1>4. TasksFit'  BY DEF RInv, TasksFit, Beat, resumer
<1>5. VerdictsHold'  BY DEF RInv, VerdictsHold, Beat, resumer, AreCompleted, tasks
<1>6. CompletedRunIsDone'  BY DEF RInv, CompletedRunIsDone, AreCompleted, Beat, resumer
<1>7. IdlesFit'  BY DEF RInv, IdlesFit, Beat, resumer
<1>8. StalesFit'  BY DEF RInv, StalesFit, Beat, resumer, IsStale, Leased,
        Touch, TouchNone, Concerns
<1> QED  BY <1>1, <1>2, <1>3, <1>4, <1>5, <1>6, <1>7, <1>8 DEF RInv

LEMMA EndBeatStep ==
  ASSUME RInv, EndBeat
  PROVE  RInv'
<1>1. TypeOK'  BY DEF RInv, TypeOK, EndBeat, tasks, resumer
<1>2. UsedFits'  BY DEF RInv, UsedFits, EndBeat, tasks, resumer
<1>3. VerdictsFit'  BY DEF RInv, VerdictsFit, EndBeat, tasks, resumer
<1>4. TasksFit'  BY DEF RInv, TasksFit, EndBeat, tasks, resumer
<1>5. VerdictsHold'  BY DEF RInv, VerdictsHold, EndBeat, tasks, resumer,
        AreCompleted
<1>6. CompletedRunIsDone'  BY DEF RInv, CompletedRunIsDone, AreCompleted, EndBeat, tasks,
        resumer
<1>7. IdlesFit'  BY DEF RInv, IdlesFit, EndBeat, tasks, resumer
<1>8. StalesFit'  BY DEF RInv, StalesFit, EndBeat, tasks, resumer, IsStale,
        Leased
<1> QED  BY <1>1, <1>2, <1>3, <1>4, <1>5, <1>6, <1>7, <1>8 DEF RInv

LEMMA LeaseStep ==
  ASSUME RInv, NEW t \in Tasks, Lease(t)
  PROVE  RInv'
<1>1. TypeOK'  BY RecoveryAssumption DEF RInv, TypeOK, UsedFits, TasksFit,
        VerdictsFit, Lease, Jobs, Oldest, Outcomes, Verdicts, Touch, driver,
        resumer, Concerns
<1>2. UsedFits'  BY DEF RInv, UsedFits, Lease, driver, resumer
<1>3. VerdictsFit'  BY DEF RInv, VerdictsFit, Lease, driver, resumer
<1>4. TasksFit'  BY DEF RInv, TasksFit, Lease, driver, resumer, TypeOK
<1>5. VerdictsHold'  BY DEF RInv, VerdictsHold, Lease, driver, resumer,
        AreCompleted, tasks
<1>6. CompletedRunIsDone'  BY DEF RInv, CompletedRunIsDone, AreCompleted, Lease, driver,
        resumer
<1>7. IdlesFit'  BY DEF RInv, IdlesFit, Lease, driver, resumer
<1>8. StalesFit'  BY DEF RInv, StalesFit, Lease, driver, resumer, IsStale,
        Leased, Touch, Concerns
<1> QED  BY <1>1, <1>2, <1>3, <1>4, <1>5, <1>6, <1>7, <1>8 DEF RInv

LEMMA EndLeaseStep ==
  ASSUME RInv, EndLease
  PROVE  RInv'
<1>1. TypeOK'  BY DEF RInv, TypeOK, EndLease, tasks, resumer
<1>2. UsedFits'  BY DEF RInv, UsedFits, EndLease, tasks, resumer
<1>3. VerdictsFit'  BY DEF RInv, VerdictsFit, EndLease, tasks, resumer
<1>4. TasksFit'  BY DEF RInv, TasksFit, EndLease, tasks, resumer
<1>5. VerdictsHold'  BY DEF RInv, VerdictsHold, EndLease, tasks, resumer,
        AreCompleted
<1>6. CompletedRunIsDone'  BY DEF RInv, CompletedRunIsDone, AreCompleted, EndLease, tasks,
        resumer
<1>7. IdlesFit'  BY DEF RInv, IdlesFit, EndLease, tasks, resumer
<1>8. StalesFit'  BY DEF RInv, StalesFit, EndLease, tasks, resumer, IsStale,
        Leased
<1> QED  BY <1>1, <1>2, <1>3, <1>4, <1>5, <1>6, <1>7, <1>8 DEF RInv

LEMMA ReadStatusStep ==
  ASSUME RInv, ReadStatus
  PROVE  RInv'
<1>1. TypeOK'  BY DEF RInv, TypeOK, ReadStatus, tasks, resumer
<1>2. UsedFits'  BY DEF RInv, UsedFits, ReadStatus, tasks, resumer
<1>3. VerdictsFit' /\ VerdictsHold'
  BY DeriveKeeps DEF ReadStatus, tasks
<1>4. TasksFit'  BY DEF RInv, TasksFit, ReadStatus, tasks, resumer
<1>5. CompletedRunIsDone'  BY DEF RInv, CompletedRunIsDone, AreCompleted, ReadStatus, tasks,
        resumer
<1>6. IdlesFit'  BY DEF RInv, IdlesFit, ReadStatus, tasks, resumer
<1>7. StalesFit'  BY DEF RInv, StalesFit, ReadStatus, tasks, resumer, IsStale,
        Leased
<1> QED  BY <1>1, <1>2, <1>3, <1>4, <1>5, <1>6, <1>7 DEF RInv

LEMMA WriteStatusStep ==
  ASSUME RInv, WriteStatus
  PROVE  RInv'
<1>1. TypeOK'
  <2>1. run_status' \in Verdicts /\ missing' \subseteq Tasks
    BY RecordKeeps DEF WriteStatus, tasks
  <2>2. child' \in [Tasks -> 0..MaxAttempts] /\ hung' \subseteq Tasks
    BY RecoveryAssumption DEF WriteStatus, Children, Leased, RInv, TypeOK
  <2> QED  BY <2>1, <2>2 DEF WriteStatus, RInv, TypeOK, Outcomes, Verdicts, tasks, resumer
<1>2. UsedFits'  BY DEF RInv, UsedFits, WriteStatus, tasks, resumer
<1>3. VerdictsFit' /\ VerdictsHold' /\ CompletedRunIsDone'
  BY RecordKeeps DEF WriteStatus, tasks
<1>4. TasksFit'  BY DEF RInv, TasksFit, WriteStatus, tasks, resumer
<1>5. IdlesFit'  BY DEF RInv, IdlesFit, WriteStatus, tasks, resumer
<1>6. StalesFit'  BY DEF RInv, StalesFit, WriteStatus, tasks, resumer,
        IsStale, Leased
<1> QED  BY <1>1, <1>2, <1>3, <1>4, <1>5, <1>6 DEF RInv

LEMMA RewriteStatusStep ==
  ASSUME RInv, RewriteStatus
  PROVE  RInv'
<1>1. TypeOK'
  <2>1. run_status' \in Verdicts /\ missing' \subseteq Tasks
    BY RecordKeeps DEF RewriteStatus, tasks
  <2> QED  BY <2>1 DEF RewriteStatus, RInv, TypeOK, Outcomes, Verdicts, tasks, resumer
<1>2. UsedFits'  BY DEF RInv, UsedFits, RewriteStatus
<1>3. VerdictsFit' /\ VerdictsHold' /\ CompletedRunIsDone'
  BY RecordKeeps DEF RewriteStatus, tasks
<1>4. TasksFit'  BY DEF RInv, TasksFit, RewriteStatus, tasks
<1>5. IdlesFit'  BY DEF RInv, IdlesFit, RewriteStatus, resumer
<1>6. StalesFit'  BY DEF RInv, StalesFit, RewriteStatus, tasks, resumer,
        IsStale, Leased
<1> QED  BY <1>1, <1>2, <1>3, <1>4, <1>5, <1>6 DEF RInv

LEMMA ProgressStep ==
  ASSUME RInv, NEW t \in Tasks, Progress(t)
  PROVE  RInv'
<1>1. TypeOK'  BY DEF RInv, TypeOK, Progress, tasks, driver, resumer,
        Concerns, RunsCurrent, Touch, Leased
<1>2. UsedFits'  BY DEF RInv, UsedFits, Progress, tasks, driver, resumer
<1>3. VerdictsFit'  BY DEF RInv, VerdictsFit, Progress, tasks, driver, resumer
<1>4. TasksFit'  BY DEF RInv, TasksFit, Progress, tasks, driver, resumer
<1>5. VerdictsHold'  BY DEF RInv, VerdictsHold, Progress, tasks, driver,
        resumer, AreCompleted
<1>6. CompletedRunIsDone'  BY DEF RInv, CompletedRunIsDone, AreCompleted, Progress, tasks,
        driver, resumer
<1>7. IdlesFit'  BY DEF RInv, IdlesFit, Progress, tasks, driver, resumer
<1>8. StalesFit'  BY DEF RInv, StalesFit, Progress, tasks, driver, resumer,
        IsStale, Leased, Concerns, RunsCurrent, Touch
<1> QED  BY <1>1, <1>2, <1>3, <1>4, <1>5, <1>6, <1>7, <1>8 DEF RInv

LEMMA ChildEndStep ==
  ASSUME RInv, NEW t \in Tasks, ChildEnds(t)
  PROVE  RInv'
<1>1. TypeOK'  BY RecoveryAssumption DEF RInv, TypeOK, UsedFits, TasksFit,
        VerdictsFit, ChildEnds, Finish, Jobs, Oldest, Outcomes, Verdicts,
        RunsCurrent, Touch, resumer, Leased, Concerns
<1>2. UsedFits'  BY DEF RInv, UsedFits, ChildEnds, Finish, resumer
<1>3. VerdictsFit'  BY DEF RInv, VerdictsFit, ChildEnds, Finish, resumer
<1>4. TasksFit'  BY DEF RInv, TasksFit, ChildEnds, Finish, resumer
<1>5. VerdictsHold'  BY DEF RInv, VerdictsHold, ChildEnds, Finish, resumer,
        AreCompleted, tasks, Oldest, RunsCurrent, Touch, Leased, Concerns
<1>6. CompletedRunIsDone'  BY DEF RInv, CompletedRunIsDone, AreCompleted, ChildEnds, Finish,
        resumer, Oldest, RunsCurrent, Touch, Leased, Concerns
<1>7. IdlesFit'  BY DEF RInv, IdlesFit, ChildEnds, Finish, resumer
<1>8. StalesFit'  BY DEF RInv, StalesFit, ChildEnds, Finish, resumer, IsStale,
        Leased, Oldest, RunsCurrent, Touch, Concerns
<1> QED  BY <1>1, <1>2, <1>3, <1>4, <1>5, <1>6, <1>7, <1>8 DEF RInv

LEMMA HangStep ==
  ASSUME RInv, NEW t \in Tasks, Hang(t)
  PROVE  RInv'
<1>1. TypeOK'  BY DEF RInv, TypeOK, Hang, tasks, resumer
<1>2. UsedFits'  BY DEF RInv, UsedFits, Hang, tasks, resumer
<1>3. VerdictsFit'  BY DEF RInv, VerdictsFit, Hang, tasks, resumer
<1>4. TasksFit'  BY DEF RInv, TasksFit, Hang, tasks, resumer
<1>5. VerdictsHold'  BY DEF RInv, VerdictsHold, Hang, tasks, resumer, AreCompleted
<1>6. CompletedRunIsDone'  BY DEF RInv, CompletedRunIsDone, AreCompleted, Hang, tasks,
        resumer
<1>7. IdlesFit'  BY DEF RInv, IdlesFit, Hang, tasks, resumer
<1>8. StalesFit'  BY DEF RInv, StalesFit, Hang, tasks, resumer, IsStale,
        Leased
<1> QED  BY <1>1, <1>2, <1>3, <1>4, <1>5, <1>6, <1>7, <1>8 DEF RInv

LEMMA EndTickStep ==
  ASSUME RInv, EndTick
  PROVE  RInv'
<1>1. TypeOK'  BY DEF RInv, TypeOK, EndTick, tasks, resumer, HasOpenWork,
        Leased
<1>2. UsedFits'  BY DEF RInv, UsedFits, EndTick, tasks, resumer
<1>3. VerdictsFit'  BY DEF RInv, VerdictsFit, EndTick, tasks, resumer
<1>4. TasksFit'  BY DEF RInv, TasksFit, EndTick, tasks, resumer
<1>5. VerdictsHold'  BY DEF RInv, VerdictsHold, EndTick, tasks, resumer,
        AreCompleted
<1>6. CompletedRunIsDone'  BY DEF RInv, CompletedRunIsDone, AreCompleted, EndTick, tasks,
        resumer
<1>7. IdlesFit'  BY DEF RInv, IdlesFit, EndTick, tasks, resumer
<1>8. StalesFit'  BY DEF RInv, StalesFit, EndTick, tasks, resumer, IsStale,
        Leased
<1> QED  BY <1>1, <1>2, <1>3, <1>4, <1>5, <1>6, <1>7, <1>8 DEF RInv

LEMMA ManagerCrashStep ==
  ASSUME RInv, ManagerCrashes
  PROVE  RInv'
<1>1. TypeOK'  BY RecoveryAssumption DEF RInv, TypeOK, ManagerCrashes, tasks,
        resumer, Crashed, MayCrash, UsedFits, TasksFit, VerdictsFit
<1>2. UsedFits'  BY DEF RInv, UsedFits, ManagerCrashes, tasks, resumer,
        Crashed, MayCrash
<1>3. VerdictsFit' /\ VerdictsHold'
  BY ForgetKeeps DEF ManagerCrashes, Crashed, tasks, RInv, UsedFits
<1>4. TasksFit'  BY DEF RInv, TasksFit, ManagerCrashes, tasks, resumer
<1>5. CompletedRunIsDone'  BY DEF RInv, CompletedRunIsDone, AreCompleted, ManagerCrashes,
        tasks, resumer, Crashed, MayCrash
<1>6. IdlesFit'  BY DEF RInv, IdlesFit, ManagerCrashes, tasks, resumer
<1>7. StalesFit'  BY DEF RInv, StalesFit, ManagerCrashes, tasks, resumer,
        IsStale, Leased
<1> QED  BY <1>1, <1>2, <1>3, <1>4, <1>5, <1>6, <1>7 DEF RInv

LEMMA ResumeStep ==
  ASSUME RInv, NEW r \in Resumers, Resume(r)
  PROVE  RInv'
<1>1. TypeOK'
  <2>1. job' \in [Resumers -> Jobs]
    <3>1. [Idle EXCEPT !.step = "Read"] \in Jobs
      BY JobParts DEF Jobs, Idle
    <3> QED  BY <3>1, BecomeFits DEF Resume
  <2>2. lag' \in [Resumers -> 0..MaxLag]
    BY RecoveryAssumption DEF Resume, RInv, TypeOK
  <2> QED  BY <2>1, <2>2 DEF Resume, RInv, TypeOK, tasks, driver
<1>2. UsedFits'  BY DEF RInv, UsedFits, Resume, tasks, driver
<1>3. VerdictsFit'  BY DEF RInv, VerdictsFit, Resume, tasks, driver
<1>4. TasksFit'  BY DEF RInv, TasksFit, Resume, tasks, driver
<1>5. VerdictsHold'  BY DEF RInv, VerdictsHold, Resume, tasks, driver, AreCompleted
<1>6. CompletedRunIsDone'  BY DEF RInv, CompletedRunIsDone, AreCompleted, Resume, tasks,
        driver
<1>7. IdlesFit'  BY DEF RInv, IdlesFit, Resume, tasks, driver, At, Become,
        Idle
<1>8. StalesFit'  BY DEF RInv, StalesFit, Resume, tasks, driver, IsStale,
        Leased, At, Become, Idle, TypeOK
<1> QED  BY <1>1, <1>2, <1>3, <1>4, <1>5, <1>6, <1>7, <1>8 DEF RInv

LEMMA ReadLeasesStep ==
  ASSUME RInv, NEW r \in Resumers, ReadLeases(r)
  PROVE  RInv'
<1>1. TypeOK'  BY RecoveryAssumption DEF RInv, TypeOK, UsedFits, TasksFit,
        VerdictsFit, ReadLeases, Jobs, Oldest, Outcomes, Verdicts, At, Become,
        Idle, IsStale, Leased, driver, tasks
<1>2. UsedFits'  BY DEF RInv, UsedFits, ReadLeases, tasks, driver
<1>3. VerdictsFit'  BY DEF RInv, VerdictsFit, ReadLeases, tasks, driver
<1>4. TasksFit'  BY DEF RInv, TasksFit, ReadLeases, tasks, driver
<1>5. VerdictsHold'  BY DEF RInv, VerdictsHold, ReadLeases, tasks, driver,
        AreCompleted
<1>6. CompletedRunIsDone'  BY DEF RInv, CompletedRunIsDone, AreCompleted, ReadLeases, tasks,
        driver
<1>7. IdlesFit'  BY DEF RInv, IdlesFit, ReadLeases, tasks, driver, At, Become,
        Idle, IsStale, Leased
<1>8. StalesFit'  BY DEF RInv, StalesFit, ReadLeases, tasks, driver, IsStale,
        Leased, At, Become, Idle, TypeOK
<1> QED  BY <1>1, <1>2, <1>3, <1>4, <1>5, <1>6, <1>7, <1>8 DEF RInv

LEMMA MarkStep ==
  ASSUME RInv, NEW r \in Resumers, NEW t \in Tasks, Mark(r, t)
  PROVE  RInv'
<1>1. TypeOK'
  <2>1. job' \in [Resumers -> Jobs]
    <3>1. /\ [job[r] EXCEPT !.step = "Decide", !.task = {t}, !.todo = @ \ {t}] \in Jobs
          /\ [job[r] EXCEPT !.todo = @ \ {t}] \in Jobs
      BY JobParts DEF Jobs
    <3> QED  BY <3>1, BecomeFits DEF Mark
  <2>3. changed' \in [Resumers -> SUBSET Tasks]
    BY TouchFits DEF Mark, TouchNone, RInv, TypeOK
  <2> QED  BY <2>1, <2>3 DEF Mark, RInv, TypeOK, tasks, driver, resumer
<1>2. UsedFits'  BY DEF RInv, UsedFits, Mark, tasks, driver
<1>3. VerdictsFit'  BY DEF RInv, VerdictsFit, Mark, tasks, driver
<1>4. TasksFit'  BY DEF RInv, TasksFit, Mark, tasks, driver
<1>5. VerdictsHold'  BY DEF RInv, VerdictsHold, Mark, tasks, driver, AreCompleted
<1>6. CompletedRunIsDone'  BY DEF RInv, CompletedRunIsDone, AreCompleted, Mark, tasks,
        driver
<1>7. IdlesFit'
  <2> SUFFICES ASSUME NEW q \in Resumers, job'[q].step = "Idle"
               PROVE  job'[q] = job[q]
    BY DEF IdlesFit, RInv
  <2>1. /\ [job[r] EXCEPT !.step = "Decide", !.task = {t}, !.todo = @ \ {t}].step = "Decide"
        /\ [job[r] EXCEPT !.todo = @ \ {t}].step = "Mark"
    BY JobParts DEF Jobs, Mark, At
  <2> QED  BY <2>1, BecomeParts DEF Mark
<1>8. StalesFit'
  <2> SUFFICES ASSUME NEW q \in Resumers
               PROVE  /\ job'[q].task \cap job'[q].todo = {}
                      /\ \A u \in job'[q].task \cup job'[q].todo :
                           u \notin changed'[q] /\ u \in Leased' => IsStale(q, u)'
    BY DEF StalesFit
  <2> USE JobParts
  <2>1. UNCHANGED <<status, age, lag>>
    BY DEF Mark, tasks
  <2>2. /\ job'[q].task \cap job'[q].todo = {}
        /\ job'[q].task \cup job'[q].todo \subseteq job[q].task \cup job[q].todo
    <3>1. job'[q] \in {job[q],
                       [job[r] EXCEPT !.step = "Decide", !.task = {t}, !.todo = @ \ {t}],
                       [job[r] EXCEPT !.todo = @ \ {t}]}
      BY BecomeParts DEF Mark
    <3>2. t \in job[r].todo /\ (job'[q] # job[q] => q = r)
      BY BecomeParts DEF Mark
    <3>3. /\ [job[r] EXCEPT !.step = "Decide", !.task = {t}, !.todo = @ \ {t}].task = {t}
          /\ [job[r] EXCEPT !.step = "Decide", !.task = {t}, !.todo = @ \ {t}].todo
               = job[r].todo \ {t}
          /\ [job[r] EXCEPT !.todo = @ \ {t}].task = job[r].task
          /\ [job[r] EXCEPT !.todo = @ \ {t}].todo = job[r].todo \ {t}
      BY DEF Jobs
    <3> QED  BY <3>1, <3>2, <3>3 DEF RInv, StalesFit
  <2>3. changed[q] \subseteq changed'[q]
    BY DEF Mark, Touch, TouchNone, RInv, TypeOK
  <2> QED  BY <2>1, <2>2, <2>3 DEF RInv, StalesFit, Leased, IsStale
<1> QED  BY <1>1, <1>2, <1>3, <1>4, <1>5, <1>6, <1>7, <1>8 DEF RInv

LEMMA RetryStep ==
  ASSUME RInv, NEW r \in Resumers, NEW t \in Tasks, Retry(r, t)
  PROVE  RInv'
<1>1. TypeOK'
  <2>1. job' \in [Resumers -> Jobs]
    <3>1. [job[r] EXCEPT !.step = "Mark", !.task = {}] \in Jobs
      BY JobParts DEF Jobs
    <3> QED  BY <3>1, BecomeFits DEF Retry, Continue
  <2>2. attempts' \in [Tasks -> 0..MaxAttempts] /\ age' \in [Tasks -> 0..Oldest]
    BY RecoveryAssumption DEF Retry, HasAttemptsLeft, RInv, TypeOK, Oldest
  <2>3. changed' \in [Resumers -> SUBSET Tasks]
    BY TouchFits DEF Retry, TouchNone, RInv, TypeOK
  <2> QED  BY <2>1, <2>3, <2>2 DEF Retry, RInv, TypeOK, tasks, driver, resumer
<1>2. UsedFits'  BY DEF RInv, UsedFits, Retry, driver
<1>3. VerdictsFit'  BY DEF RInv, VerdictsFit, Retry, driver
<1>4. TasksFit'  BY DEF RInv, TasksFit, Retry, driver, At, Continue,
        HasAttemptsLeft, IsUnchanged, Leased, Touch, Become, Concerns, TypeOK
<1>5. VerdictsHold'  BY DEF RInv, VerdictsHold, Retry, driver, AreCompleted, tasks
<1>6. CompletedRunIsDone'  BY DEF RInv, CompletedRunIsDone, AreCompleted, Retry, driver
<1>7. IdlesFit'  BY DEF RInv, IdlesFit, Retry, driver, At, Continue,
        HasAttemptsLeft, IsUnchanged, Leased, Touch, Become, Concerns
<1>8. StalesFit'
  <2> SUFFICES ASSUME NEW q \in Resumers
               PROVE  /\ job'[q].task \cap job'[q].todo = {}
                      /\ \A u \in job'[q].task \cup job'[q].todo :
                           u \notin changed'[q] /\ u \in Leased' => IsStale(q, u)'
    BY DEF StalesFit
  <2> USE JobParts
  <2>1. /\ job'[q].task \cap job'[q].todo = {}
        /\ job'[q].task \cup job'[q].todo \subseteq job[q].task \cup job[q].todo
        /\ q = r => t \notin job'[q].task \cup job'[q].todo
    BY DEF Retry, Continue, Become, Jobs, RInv, StalesFit, TypeOK
  <2>2. UNCHANGED <<status, lag>> /\ \A u \in Tasks \ {t} : age'[u] = age[u]
    BY DEF Retry, RInv, TypeOK
  <2>3. changed[q] \subseteq changed'[q]
    BY DEF Retry, Touch, RInv, TypeOK
  <2>4. CASE age' = age
    BY <2>1, <2>2, <2>3, <2>4 DEF RInv, StalesFit, Leased, IsStale
  <2>5. CASE age' # age
    <3>1. q # r /\ t \in job[q].task \cup job[q].todo => t \in changed'[q]
      BY <2>5 DEF Retry, Touch, Concerns, RInv, TypeOK
    <3> QED  BY <2>1, <2>2, <2>3, <3>1 DEF RInv, StalesFit, Leased, IsStale
  <2> QED  BY <2>4, <2>5
<1> QED  BY <1>1, <1>2, <1>3, <1>4, <1>5, <1>6, <1>7, <1>8 DEF RInv

LEMMA FailExhaustedStep ==
  ASSUME RInv, NEW r \in Resumers, NEW t \in Tasks, FailExhausted(r, t)
  PROVE  RInv'
<1>1. TypeOK'
  <2>1. job' \in [Resumers -> Jobs]
    <3>1. /\ [job[r] EXCEPT !.step = "Mark", !.task = {}] \in Jobs
          /\ [job[r] EXCEPT !.step = "Alert", !.channels = Channels] \in Jobs
      BY JobParts DEF Jobs
    <3> QED  BY <3>1, BecomeFits DEF FailExhausted, Continue, ChannelsToAlert
  <2>2. /\ status' \in [Tasks -> {"Absent", "Enqueued", "Leased"} \cup Outcomes]
        /\ age' \in [Tasks -> 0..Oldest] /\ exhausted' \subseteq Tasks
    BY RecoveryAssumption DEF FailExhausted, RInv, TypeOK, Outcomes, Oldest
  <2>3. changed' \in [Resumers -> SUBSET Tasks]
    BY TouchFits DEF FailExhausted, TouchNone, RInv, TypeOK
  <2> QED  BY <2>1, <2>3, <2>2 DEF FailExhausted, RInv, TypeOK, tasks, driver, resumer
<1>2. UsedFits'  BY DEF RInv, UsedFits, FailExhausted, driver
<1>3. VerdictsFit'  BY DEF RInv, VerdictsFit, FailExhausted, driver
<1>4. TasksFit'  BY DEF RInv, TasksFit, FailExhausted, driver, TypeOK
<1>5. VerdictsHold'  BY RecoveryAssumption DEF RInv, VerdictsHold,
        FailExhausted, driver, AreCompleted, tasks, At, Become, ChannelsToAlert,
        Continue, HasAttemptsLeft, IsUnchanged, Leased, Oldest, Touch,
        Concerns, TypeOK, VerdictsFit, UsedFits
<1>6. CompletedRunIsDone'  BY RecoveryAssumption DEF RInv, CompletedRunIsDone, AreCompleted,
        FailExhausted, driver, tasks, At, Become, ChannelsToAlert, Continue,
        HasAttemptsLeft, IsUnchanged, Leased, Oldest, Touch, Concerns, TypeOK,
        VerdictsHold, UsedFits
<1>7. IdlesFit'
  <2> SUFFICES ASSUME NEW q \in Resumers, job'[q].step = "Idle"
               PROVE  job'[q] = job[q]
    BY DEF IdlesFit, RInv
  <2>1. /\ [job[r] EXCEPT !.step = "Mark", !.task = {}].step = "Mark"
        /\ [job[r] EXCEPT !.step = "Alert", !.channels = Channels].step = "Alert"
    BY JobParts DEF Jobs
  <2> QED  BY <2>1, BecomeParts DEF FailExhausted, Continue, ChannelsToAlert
<1>8. StalesFit'
  <2> SUFFICES ASSUME NEW q \in Resumers
               PROVE  /\ job'[q].task \cap job'[q].todo = {}
                      /\ \A u \in job'[q].task \cup job'[q].todo :
                           u \notin changed'[q] /\ u \in Leased' => IsStale(q, u)'
    BY DEF StalesFit
  <2> USE JobParts
  <2>1. /\ job'[q].task \cap job'[q].todo = {}
        /\ job'[q].task \cup job'[q].todo \subseteq job[q].task \cup job[q].todo
    <3>1. job'[q] \in {job[q], [job[r] EXCEPT !.step = "Mark", !.task = {}],
                       [job[r] EXCEPT !.step = "Alert", !.channels = Channels]}
      BY BecomeParts DEF FailExhausted, Continue, ChannelsToAlert
    <3>2. job'[q] # job[q] => q = r
      BY BecomeParts DEF FailExhausted, Continue
    <3>3. /\ [job[r] EXCEPT !.step = "Mark", !.task = {}].task = {}
          /\ [job[r] EXCEPT !.step = "Mark", !.task = {}].todo = job[r].todo
          /\ [job[r] EXCEPT !.step = "Alert", !.channels = Channels].task = job[r].task
          /\ [job[r] EXCEPT !.step = "Alert", !.channels = Channels].todo = job[r].todo
      BY DEF Jobs
    <3> QED  BY <3>1, <3>2, <3>3 DEF RInv, StalesFit
  <2>2. /\ UNCHANGED lag /\ Leased' \subseteq Leased
        /\ \A u \in Leased' : age'[u] = age[u]
    BY DEF FailExhausted, RInv, TypeOK, Leased
  <2>3. changed[q] \subseteq changed'[q]
    BY DEF FailExhausted, Touch, RInv, TypeOK
  <2> QED  BY <2>1, <2>2, <2>3 DEF RInv, StalesFit, IsStale
<1> QED  BY <1>1, <1>2, <1>3, <1>4, <1>5, <1>6, <1>7, <1>8 DEF RInv

LEMMA AlertStep ==
  ASSUME RInv, NEW r \in Resumers, NEW t \in Tasks, NEW channel \in Channels, Alert(r, t, channel)
  PROVE  RInv'
<1>1. TypeOK'
  <2>1. job' \in [Resumers -> Jobs]
    <3>1. [job[r] EXCEPT !.channels = @ \ {channel}] \in Jobs
      BY JobParts DEF Jobs
    <3> QED  BY <3>1, BecomeFits DEF Alert
  <2>3. changed' \in [Resumers -> SUBSET Tasks]
    BY TouchFits DEF Alert, TouchNone, RInv, TypeOK
  <2> QED  BY <2>1, <2>3 DEF Alert, RInv, TypeOK, tasks, driver, resumer
<1>2. UsedFits'  BY DEF RInv, UsedFits, Alert, tasks, driver
<1>3. VerdictsFit'  BY DEF RInv, VerdictsFit, Alert, tasks, driver
<1>4. TasksFit'  BY DEF RInv, TasksFit, Alert, tasks, driver
<1>5. VerdictsHold'  BY DEF RInv, VerdictsHold, Alert, tasks, driver, AreCompleted
<1>6. CompletedRunIsDone'  BY DEF RInv, CompletedRunIsDone, AreCompleted, Alert, tasks,
        driver
<1>7. IdlesFit'  BY DEF RInv, IdlesFit, Alert, tasks, driver, At, Become,
        Touch, Concerns
<1>8. StalesFit'
  <2> SUFFICES ASSUME NEW q \in Resumers
               PROVE  /\ job'[q].task \cap job'[q].todo = {}
                      /\ \A u \in job'[q].task \cup job'[q].todo :
                           u \notin changed'[q] /\ u \in Leased' => IsStale(q, u)'
    BY DEF StalesFit
  <2> USE JobParts
  <2>1. UNCHANGED <<status, age, lag>>
    BY DEF Alert, tasks
  <2>2. job'[q].task = job[q].task /\ job'[q].todo = job[q].todo
    BY DEF Alert, Become, Jobs, RInv, TypeOK
  <2>3. changed[q] \subseteq changed'[q]
    BY DEF Alert, Touch, RInv, TypeOK
  <2> QED  BY <2>1, <2>2, <2>3 DEF RInv, StalesFit, Leased, IsStale
<1> QED  BY <1>1, <1>2, <1>3, <1>4, <1>5, <1>6, <1>7, <1>8 DEF RInv

LEMMA EndAlertsStep ==
  ASSUME RInv, NEW r \in Resumers, EndAlerts(r)
  PROVE  RInv'
<1>1. TypeOK'
  <2>1. job' \in [Resumers -> Jobs]
    <3>1. [job[r] EXCEPT !.step = "Mark", !.task = {}] \in Jobs
      BY JobParts DEF Jobs
    <3> QED  BY <3>1, BecomeFits DEF EndAlerts, Continue
  <2> QED  BY <2>1 DEF EndAlerts, RInv, TypeOK, tasks, driver
<1>2. UsedFits'  BY DEF RInv, UsedFits, EndAlerts, tasks, driver
<1>3. VerdictsFit'  BY DEF RInv, VerdictsFit, EndAlerts, tasks, driver
<1>4. TasksFit'  BY DEF RInv, TasksFit, EndAlerts, tasks, driver
<1>5. VerdictsHold'  BY DEF RInv, VerdictsHold, EndAlerts, tasks, driver,
        AreCompleted
<1>6. CompletedRunIsDone'  BY DEF RInv, CompletedRunIsDone, AreCompleted, EndAlerts, tasks,
        driver
<1>7. IdlesFit'  BY DEF RInv, IdlesFit, EndAlerts, tasks, driver, At,
        Continue, Become
<1>8. StalesFit'  BY DEF RInv, StalesFit, EndAlerts, tasks, driver, IsStale,
        Leased, At, Continue, Become
<1> QED  BY <1>1, <1>2, <1>3, <1>4, <1>5, <1>6, <1>7, <1>8 DEF RInv

LEMMA EndMarksStep ==
  ASSUME RInv, NEW r \in Resumers, EndMarks(r)
  PROVE  RInv'
<1>1. TypeOK'  BY RecoveryAssumption DEF RInv, TypeOK, UsedFits, TasksFit,
        VerdictsFit, EndMarks, Jobs, Oldest, Outcomes, Verdicts, At, Become,
        DerivedStatus, Idle, driver, tasks, HasOpenWork
<1>2. UsedFits'  BY DEF RInv, UsedFits, EndMarks, tasks, driver
<1>3. VerdictsFit' /\ VerdictsHold'
  BY DeriveKeeps DEF EndMarks, tasks
<1>4. TasksFit'  BY DEF RInv, TasksFit, EndMarks, tasks, driver
<1>5. CompletedRunIsDone'  BY DEF RInv, CompletedRunIsDone, AreCompleted, EndMarks, tasks,
        driver
<1>6. IdlesFit'  BY DEF RInv, IdlesFit, EndMarks, tasks, driver, At, Become,
        Idle
<1>7. StalesFit'  BY DEF RInv, StalesFit, EndMarks, tasks, driver, IsStale,
        Leased, At, Become, Idle, TypeOK
<1> QED  BY <1>1, <1>2, <1>3, <1>4, <1>5, <1>6, <1>7 DEF RInv

LEMMA EndResumeStep ==
  ASSUME RInv, NEW r \in Resumers, EndResume(r)
  PROVE  RInv'
<1>1. TypeOK'
  <2>1. run_status' \in Verdicts /\ missing' \subseteq Tasks
    BY RecordKeeps DEF EndResume, tasks
  <2>2. job' \in [Resumers -> Jobs]
    BY JobParts, BecomeFits DEF EndResume
  <2>3. lag' \in [Resumers -> 0..MaxLag] /\ changed' \in [Resumers -> SUBSET Tasks]
    BY RecoveryAssumption DEF EndResume, RInv, TypeOK
  <2> QED  BY <2>1, <2>2, <2>3 DEF EndResume, RInv, TypeOK, Outcomes, Verdicts, tasks, driver
<1>2. UsedFits'  BY DEF RInv, UsedFits, EndResume, tasks, driver
<1>3. VerdictsFit' /\ VerdictsHold' /\ CompletedRunIsDone'
  BY RecordKeeps DEF EndResume, tasks
<1>4. TasksFit'  BY DEF RInv, TasksFit, EndResume, tasks, driver
<1>5. IdlesFit'  BY DEF RInv, IdlesFit, EndResume, tasks, driver, At, Become,
        Idle
<1>6. StalesFit'  BY DEF RInv, StalesFit, EndResume, tasks, driver, IsStale,
        Leased, At, Become, Idle, TypeOK
<1> QED  BY <1>1, <1>2, <1>3, <1>4, <1>5, <1>6 DEF RInv

LEMMA ResumerCrashStep ==
  ASSUME RInv, NEW r \in Resumers, ResumerCrashes(r)
  PROVE  RInv'
<1>1. TypeOK'
  <2>1. job' \in [Resumers -> Jobs]
    BY JobParts, BecomeFits DEF ResumerCrashes
  <2>2. used'.crashes \in 0..used'.scenario.crashes
    BY RecoveryAssumption DEF ResumerCrashes, MayCrash, Crashed, RInv, TypeOK, UsedFits
  <2>3. lag' \in [Resumers -> 0..MaxLag] /\ changed' \in [Resumers -> SUBSET Tasks]
    BY RecoveryAssumption DEF ResumerCrashes, RInv, TypeOK
  <2> QED  BY <2>1, <2>2, <2>3 DEF ResumerCrashes, RInv, TypeOK, tasks, driver
<1>2. UsedFits'
  BY DEF ResumerCrashes, Crashed, RInv, UsedFits
<1>3. VerdictsFit' /\ VerdictsHold'
  BY ForgetKeeps DEF ResumerCrashes, Crashed, tasks, RInv, UsedFits
<1>4. TasksFit'  BY DEF RInv, TasksFit, ResumerCrashes, tasks, driver
<1>5. CompletedRunIsDone'  BY DEF RInv, CompletedRunIsDone, AreCompleted, ResumerCrashes,
        tasks, driver, At, Become, Crashed, Idle, MayCrash
<1>6. IdlesFit'  BY DEF RInv, IdlesFit, ResumerCrashes, tasks, driver, At,
        Become, Crashed, Idle, MayCrash
<1>7. StalesFit'  BY DEF RInv, StalesFit, ResumerCrashes, tasks, driver,
        IsStale, Leased, At, Become, Crashed, Idle, MayCrash, TypeOK
<1> QED  BY <1>1, <1>2, <1>3, <1>4, <1>5, <1>6, <1>7 DEF RInv

LEMMA TickStep ==
  ASSUME RInv, Tick
  PROVE  RInv'
<1>1. TypeOK'  BY RecoveryAssumption DEF RInv, TypeOK, Tick, driver, At,
        Oldest, UsedFits, TasksFit, VerdictsFit
<1>2. UsedFits'  BY DEF RInv, UsedFits, Tick, driver
<1>3. VerdictsFit'  BY DEF RInv, VerdictsFit, Tick, driver
<1>4. TasksFit'  BY DEF RInv, TasksFit, Tick, driver
<1>5. VerdictsHold'  BY DEF RInv, VerdictsHold, Tick, driver, AreCompleted, tasks
<1>6. CompletedRunIsDone'  BY DEF RInv, CompletedRunIsDone, AreCompleted, Tick, driver
<1>7. IdlesFit'  BY DEF RInv, IdlesFit, Tick, driver
<1>8. StalesFit'
  <2> SUFFICES ASSUME NEW q \in Resumers
               PROVE  /\ job[q].task \cap job[q].todo = {}
                      /\ \A u \in job[q].task \cup job[q].todo :
                           u \notin changed[q] /\ u \in Leased => IsStale(q, u)'
    BY DEF Tick, StalesFit, Leased, tasks
  <2> SUFFICES ASSUME NEW u \in job[q].task \cup job[q].todo, u \notin changed[q], u \in Leased
               PROVE  IsStale(q, u)'
    BY DEF RInv, StalesFit
  <2>1. ~At(q, "Idle")
    <3>1. SUFFICES ASSUME job[q].step = "Idle" PROVE FALSE
      BY DEF At
    <3> QED  BY <3>1, IdleHasNoTasks
  <2>2. u \in Tasks /\ age[u] \in 0..Oldest /\ lag[q] \in 0..MaxLag
    BY JobParts DEF RInv, TypeOK
  <2>3. lag[q] < MaxLag /\ lag'[q] = lag[q] + 1
    BY <2>1, <2>2, RecoveryAssumption DEF Tick, RInv, TypeOK, UsedFits
  <2>4. age'[u] = IF age[u] < Oldest THEN age[u] + 1 ELSE Oldest
    BY <2>2 DEF Tick
  <2>5. IsStale(q, u)
    BY DEF RInv, StalesFit
  <2> QED  BY <2>2, <2>3, <2>4, <2>5, RecoveryAssumption DEF IsStale, Oldest
<1> QED  BY <1>1, <1>2, <1>3, <1>4, <1>5, <1>6, <1>7, <1>8 DEF RInv

(***************************************************************************)
(* The invariant holds.                                                    *)
(***************************************************************************)
(* The invariant holds at first, *)
LEMMA InitFits == ASSUME Init PROVE RInv
<1>1. \A r \in Resumers : job[r] = Idle
  BY DEF Init
<1>2. TypeOK
  BY RecoveryAssumption DEF Init, TypeOK, Jobs, Idle, Oldest
<1>3. IdlesFit /\ VerdictsHold /\ CompletedRunIsDone
  BY <1>1 DEF Init, IdlesFit, VerdictsHold, CompletedRunIsDone, Idle, NoVerdict
<1>4. StalesFit
  BY <1>1 DEF StalesFit, Idle
<1> QED  BY <1>2, <1>3, <1>4 DEF Init, RInv, UsedFits, VerdictsFit, Verdicts, TasksFit,
         NoVerdict

(* is not disturbed by a step of others, *)
LEMMA StutterFits == ASSUME RInv, UNCHANGED vars PROVE RInv'
<1> USE DEF vars, tasks, driver, resumer
<1>1. TypeOK' /\ UsedFits' /\ VerdictsFit' /\ TasksFit' /\ IdlesFit'
  BY DEF RInv, TypeOK, UsedFits, VerdictsFit, TasksFit, IdlesFit
<1>2. VerdictsHold' /\ CompletedRunIsDone'
  BY DEF RInv, VerdictsHold, CompletedRunIsDone, AreCompleted
<1>3. StalesFit'
  BY DEF RInv, StalesFit, IsStale, Leased
<1> QED  BY <1>1, <1>2, <1>3 DEF RInv

(* and is kept by every step. *)
LEMMA NextFits == ASSUME RInv, Next PROVE RInv'
<1>1. CASE \E t \in Tasks : Enqueue(t) \/ Progress(t) \/ Hang(t) \/ ChildEnds(t)
  BY <1>1, EnqueueStep, ProgressStep, HangStep, ChildEndStep
<1>2. CASE Start \/ Tick \/ CreatorCrashes \/ ManagerCrashes
  BY <1>2, StartStep, TickStep, CreatorCrashStep, ManagerCrashStep
<1>3. CASE ManagerStep
  BY <1>3, BeatStep, LeaseStep, EndBeatStep, EndLeaseStep, ReadStatusStep, WriteStatusStep,
     RewriteStatusStep, EndTickStep DEF ManagerStep
<1>4. CASE \E r \in Resumers : Resume(r) \/ ResumerCrashes(r)
  BY <1>4, ResumeStep, ResumerCrashStep
<1>5. ASSUME NEW r \in Resumers, ResumerStep(r) PROVE RInv'
  BY <1>5, ReadLeasesStep, EndMarksStep, EndAlertsStep, EndResumeStep, MarkStep, RetryStep,
     FailExhaustedStep, AlertStep DEF ResumerStep
<1> QED  BY <1>1, <1>2, <1>3, <1>4, <1>5 DEF Next

(* So it always holds. *)
LEMMA RInvHolds == Spec => []RInv
<1>1. Init => RInv
  BY InitFits
<1>2. RInv /\ [Next]_vars => RInv'
  BY NextFits, StutterFits
<1> QED  BY <1>1, <1>2, PTL DEF Spec

(***************************************************************************)
(* The theorems.                                                           *)
(***************************************************************************)
(* However creation, starts, manager loops, resumes and crashes interleave, *)
(* as long as a run is recorded Completed every task is that was enqueued  *)
(* when this was derived, no attempt goes beyond the retry policy, and the *)
(* variables keep their types.                                             *)
THEOREM CompletedRunsAreDone == Spec => []RecoveryInv
<1>1. RInv => RecoveryInv
  BY DEF RInv, RecoveryInv
<1> QED  BY <1>1, RInvHolds, PTL

(* The only steps that spend an attempt of a leased task or exhaust it     *)
(* find it stale.                                                          *)
LEMMA DecidesOnStale ==
  ASSUME RInv, NEW r \in Resumers, NEW t \in Tasks, Retry(r, t) \/ FailExhausted(r, t),
         IsUnchanged(r, t), t \in Leased, lag[r] = 0
  PROVE  age[t] > Timeout
<1>1. t \in job[r].task
  BY DEF Retry, FailExhausted
<1>2. IsStale(r, t)
  BY <1>1 DEF RInv, StalesFit, IsUnchanged
<1>3. age[t] \in 0..Oldest
  BY DEF RInv, TypeOK
<1> QED  BY <1>2, <1>3, RecoveryAssumption DEF IsStale, Oldest

(* retry_or_fail spends an attempt on, and fails for want of attempts,     *)
(* only leases that nobody has heartbeat for the timeout, for any number   *)
(* of resumers and crashes and beside any manager.                         *)
THEOREM HealthyLeasesAreLeftAlone == Spec => HealthyIsLeftAlone
<1> DEFINE Step ==
      \A t \in Tasks :
        /\ \A r \in Resumers : lag[r] = 0
        /\ (t \in Leased /\ attempts'[t] > attempts[t]) \/ t \in exhausted' \ exhausted
        => age[t] > Timeout
<1>1. RInv /\ [Next]_vars => [Step]_vars
  <2> SUFFICES ASSUME RInv, Next, NEW t \in Tasks,
                      \A r \in Resumers : lag[r] = 0,
                      (t \in Leased /\ attempts'[t] > attempts[t]) \/ t \in exhausted' \ exhausted
               PROVE  age[t] > Timeout
    OBVIOUS
  <2>1. \/ attempts'[t] # attempts[t] /\ t \in Leased
        \/ t \in exhausted' \ exhausted
    <3>1. attempts[t] \in Nat
      BY DEF RInv, TypeOK
    <3> QED  BY <3>1
  <2>2. \/ \E r \in Resumers, u \in Tasks : Retry(r, u) \/ FailExhausted(r, u)
        \/ UNCHANGED <<attempts, exhausted>>
        \/ \E u \in Tasks : Lease(u)
    <3>1. CASE \E u \in Tasks : Enqueue(u) \/ Progress(u) \/ Hang(u) \/ ChildEnds(u)
      BY <3>1 DEF Enqueue, Progress, Hang, ChildEnds, Finish, tasks
    <3>2. CASE Start \/ Tick \/ CreatorCrashes \/ ManagerCrashes
      BY <3>2 DEF Start, Tick, CreatorCrashes, ManagerCrashes, tasks
    <3>3. CASE ManagerStep
      BY <3>3 DEF ManagerStep, Beat, EndBeat, EndLease, ReadStatus, WriteStatus,
         RewriteStatus, EndTick, tasks
    <3>4. CASE \E r \in Resumers : Resume(r) \/ ResumerCrashes(r)
      BY <3>4 DEF Resume, ResumerCrashes, tasks
    <3>5. ASSUME NEW r \in Resumers, ResumerStep(r)
          PROVE  \/ \E u \in Tasks : Retry(r, u) \/ FailExhausted(r, u)
                 \/ UNCHANGED <<attempts, exhausted>>
      BY <3>5 DEF ResumerStep, ReadLeases, EndMarks, EndAlerts, EndResume, Mark, Alert, tasks
    <3> QED  BY <3>1, <3>2, <3>3, <3>4, <3>5 DEF Next
  <2>3. ASSUME NEW u \in Tasks, Lease(u) PROVE FALSE
    <3>1. t # u
      BY <2>1, <2>3 DEF Lease, Leased
    <3> QED  BY <2>1, <2>3, <3>1 DEF Lease, RInv, TypeOK
  <2>4. ASSUME NEW r \in Resumers, NEW u \in Tasks, Retry(r, u) PROVE age[t] > Timeout
    <3>1. u = t /\ IsUnchanged(r, t) /\ t \in Leased
      BY <2>1, <2>4 DEF Retry, RInv, TypeOK
    <3> QED  BY <2>4, <3>1, DecidesOnStale
  <2>5. ASSUME NEW r \in Resumers, NEW u \in Tasks, FailExhausted(r, u) PROVE age[t] > Timeout
    <3>1. u = t /\ IsUnchanged(r, t) /\ t \in Leased
      BY <2>1, <2>5 DEF FailExhausted
    <3> QED  BY <2>5, <3>1, DecidesOnStale
  <2> QED  BY <2>1, <2>2, <2>3, <2>4, <2>5
<1> QED  BY <1>1, RInvHolds, PTL DEF Spec, HealthyIsLeftAlone
=============================================================================
