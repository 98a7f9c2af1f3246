---------------------------- MODULE TaskAttempts ----------------------------
(***************************************************************************)
(* What the fleet promises about its tasks, without records, events,       *)
(* sequence numbers, locks, crashes or clocks: a task is queued once, is   *)
(* worked on in numbered attempts by the one worker that took it first,    *)
(* each attempt has at most one outcome, and a worker works on at most     *)
(* one task at a time.  FleetLedger implements it.                         *)
(***************************************************************************)
EXTENDS Naturals

CONSTANTS
  Tasks, Workers, NoWorker,
  Outcomes    \* how an attempt, or a task nobody took, can end

VARIABLES
  phase,      \* phase[t]: "Absent", "Enqueued", "Leased" or an outcome
  owner,      \* owner[t]: the worker that took t first
  attempts    \* attempts[t]: the attempts begun

vars == <<phase, owner, attempts>>

Init ==
  /\ phase = [t \in Tasks |-> "Absent"]
  /\ owner = [t \in Tasks |-> NoWorker]
  /\ attempts = [t \in Tasks |-> 0]

WorksOn(w, t) == phase[t] = "Leased" /\ owner[t] = w

Queue(t) ==
  /\ phase[t] = "Absent"
  /\ phase' = [phase EXCEPT ![t] = "Enqueued"]
  /\ UNCHANGED <<owner, attempts>>

(* The first attempt takes a queued task, a later one may interrupt its     *)
(* predecessor or follow its outcome, but never leaves the worker.          *)
Begin(t, w) ==
  /\ \/ phase[t] = "Enqueued"
     \/ owner[t] = w
  /\ \A u \in Tasks \ {t} : ~WorksOn(w, u)
  /\ phase' = [phase EXCEPT ![t] = "Leased"]
  /\ owner' = [owner EXCEPT ![t] = w]
  /\ attempts' = [attempts EXCEPT ![t] = @ + 1]

Settle(t, outcome) ==
  /\ phase[t] \in {"Enqueued", "Leased"}
  /\ phase' = [phase EXCEPT ![t] = outcome]
  /\ UNCHANGED <<owner, attempts>>

Next ==
  \E t \in Tasks :
    \/ Queue(t)
    \/ \E w \in Workers : Begin(t, w)
    \/ \E outcome \in Outcomes : Settle(t, outcome)

Spec == Init /\ [][Next]_vars
=============================================================================
