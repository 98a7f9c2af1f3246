----------------------------- MODULE FleetReplay ----------------------------
(***************************************************************************)
(* Replay of the ledger's history to a client of the Runtime API: the      *)
(* lines of .hakus/fleet.jsonl as the writers append, tear and compact     *)
(* them, the server-sent event stream over replay_events, and a client     *)
(* that reconnects after its last cursor and reloads the run's projection  *)
(* when it is told to.                                                     *)
(*                                                                         *)
(* History is numbered 1, 2, ... and one run is looked at.  The records a  *)
(* compaction writes stand for what was there before and carry number 0.   *)
(***************************************************************************)
EXTENDS Integers, Sequences, SequencesExt

CONSTANTS
  Limit,           \* events of one page
  MaxHistory,      \* bound: events of the run
  MaxCompactions,  \* bound: compactions
  MaxTorn,         \* bound: lines a crash left unterminated
  MaxDrops         \* bound: connections lost or clients that lose their cursor

ASSUME LimitAssumption == Limit \in Nat \ {0}

VARIABLES
  lines,   \* the ledger file: [kind |-> ..., ids |-> ...], a line each
  epoch,   \* the replay epoch of the file, 0 for "legacy"
  total,   \* the number of events there ever were
  page,    \* what the stream has read and not yet sent
  live,    \* is the stream open
  notice,  \* is the truncation notice of the page still to be sent
  after,   \* the cursor of the last event the client received
  known,   \* the part of history the client knows
  owed,    \* was the client told to reload what it did not yet reload
  sent,    \* what it received since it last subscribed without a cursor
  torn, drops  \* bounded counters

ledger == <<lines, epoch, total, torn>>
stream == <<page, live, notice>>
client == <<after, known, owed, sent>>
vars == <<lines, epoch, total, torn, page, live, notice, after, known, owed, sent, drops>>

NoCursor == <<>>

Line(kind, ids) == [kind |-> kind, ids |-> ids]

Init ==
  /\ lines = <<Line("Record", <<1>>)>>
  /\ epoch = 0
  /\ total = 1
  /\ page = <<>>
  /\ live = FALSE
  /\ notice = FALSE
  /\ after = NoCursor
  /\ known = {}
  /\ owed = FALSE
  /\ sent = {}
  /\ torn = 0
  /\ drops = 0

(***************************************************************************)
(* The writers of the ledger.                                              *)
(***************************************************************************)
AppendLine(line) ==
  /\ lines' = Append(lines, line)
  /\ total' = total + Len(line.ids)
  /\ UNCHANGED <<epoch, drops, stream, client>>

(* A finalized attempt is one record and two events. *)
AppendRecord ==
  /\ total < MaxHistory
  /\ \/ AppendLine(Line("Record", <<total + 1>>))
     \/ AppendLine(Line("Finalized", <<total + 1, total + 2>>))
  /\ UNCHANGED torn

(* A fragment is quarantined as a line of its own by the next append. *)
Tear ==
  /\ torn < MaxTorn
  /\ AppendLine(Line("Torn", <<>>))
  /\ torn' = torn + 1

Compact ==
  /\ epoch < MaxCompactions
  /\ \E n \in 1..Len(lines) :
       lines' = <<Line("Epoch", <<>>)>> \o [i \in 1..n |-> Line("Record", <<0>>)]
  /\ epoch' = epoch + 1
  /\ UNCHANGED <<total, torn, drops, stream, client>>

(***************************************************************************)
(* replay_events.                                                          *)
(***************************************************************************)
CursorAnyKind(ordinal, kind) == <<epoch, ordinal>>         \* fault: one per line
CursorAnyEpoch(ordinal, kind) == <<ordinal, kind>>         \* fault: for all files

fleet_runtime_cursor(ordinal, kind) == <<epoch, ordinal, kind>>

EventsOf(i) ==
  [k \in 1..Len(lines[i].ids) |->
     [id |-> lines[i].ids[k],
      cursor |-> fleet_runtime_cursor(i, IF k = 1 THEN "worker" ELSE "receipt")]]

AllEvents == FlattenSeq([i \in 1..Len(lines) |-> EventsOf(i)])

HistoryCompacted == \E i \in 1..Len(lines) : lines[i].kind = "Epoch"

Positions(cursor) == {i \in 1..Len(AllEvents) : AllEvents[i].cursor = cursor}

AfterPage(position) == position + Limit   \* fault: pages are counted, not events

Following(position) == position + 1

Least(m, n) == IF m < n THEN m ELSE n

(* A page of what follows the cursor, or of the newest tail without one. *)
PageAfter(cursor) ==
  LET first == Following(CHOOSE i \in Positions(cursor) :
                       \A j \in Positions(cursor) : i <= j)
  IN SubSeq(AllEvents, first, Least(first + Limit - 1, Len(AllEvents)))

TailStart == IF Len(AllEvents) > Limit THEN Len(AllEvents) - Limit + 1 ELSE 1

HistoryTruncated == TailStart > 1 \/ HistoryCompacted

Load ==
  IF after = NoCursor
  THEN /\ page' = SubSeq(AllEvents, TailStart, Len(AllEvents))
       /\ notice' = HistoryTruncated
  ELSE /\ page' = PageAfter(after)
       /\ notice' = FALSE

(***************************************************************************)
(* stream_fleet_events, replay_live_fleet_events and the client.           *)
(***************************************************************************)
Available == after = NoCursor \/ Positions(after) # {}

Subscribe ==
  /\ ~live
  /\ Available
  /\ Load
  /\ live' = TRUE
  /\ sent' = IF after = NoCursor THEN {} ELSE sent
  /\ UNCHANGED <<ledger, after, known, owed, drops>>

(* 409 on subscribing, or the notice that ends an open stream: the client  *)
(* drops the cursor and has to reload.                                     *)
CursorUnavailable ==
  /\ page = <<>>
  /\ ~Available
  /\ live' = FALSE
  /\ after' = NoCursor
  /\ owed' = TRUE
  /\ UNCHANGED <<ledger, page, notice, known, sent, drops>>

SendNotice ==
  /\ live /\ notice
  /\ notice' = FALSE
  /\ owed' = TRUE
  /\ UNCHANGED <<ledger, page, live, after, known, sent, drops>>

SendEvent ==
  /\ live /\ ~notice /\ page # <<>>
  /\ page' = Tail(page)
  /\ after' = Head(page).cursor
  /\ known' = known \cup ({Head(page).id} \ {0})
  /\ sent' = sent \cup ({Head(page).id} \ {0})
  /\ UNCHANGED <<ledger, live, notice, owed, drops>>

LoadNext ==
  /\ live /\ ~notice /\ page = <<>>
  /\ Available
  /\ Load
  /\ UNCHANGED <<ledger, live, client, drops>>

(* The connection, or the read of the ledger, fails: what was read is lost. *)
Drop ==
  /\ live
  /\ drops < MaxDrops
  /\ live' = FALSE
  /\ page' = <<>>
  /\ notice' = FALSE
  /\ drops' = drops + 1
  /\ UNCHANGED <<ledger, client>>

(* The client forgets its cursor, as a new one does. *)
Forget ==
  /\ ~live
  /\ after # NoCursor
  /\ drops < MaxDrops
  /\ after' = NoCursor
  /\ drops' = drops + 1
  /\ UNCHANGED <<ledger, stream, known, owed, sent>>

(* GET /v1/fleet/runs/{run_id}: the state rebuilt from the whole ledger. *)
Reload ==
  /\ owed
  /\ owed' = FALSE
  /\ known' = 1..total
  /\ UNCHANGED <<ledger, stream, after, sent, drops>>

Writers == AppendRecord \/ Tear \/ Compact
Stream == Subscribe \/ CursorUnavailable \/ SendNotice \/ SendEvent \/ LoadNext
Next == Writers \/ Stream \/ Drop \/ Forget \/ Reload

(* The stream goes on as long as it is open, and the client subscribes     *)
(* again and reloads when it is told to.                                   *)
Spec == Init /\ [][Next]_vars /\ WF_vars(Stream) /\ WF_vars(Reload)

(***************************************************************************)
(* Properties.                                                             *)
(***************************************************************************)
TypeOK ==
  /\ \A i \in 1..Len(lines) : lines[i].ids \in Seq(0..total)
  /\ Len(page) <= Limit
  /\ known \subseteq 1..total /\ sent \subseteq 1..total
  /\ {live, notice, owed} \subseteq BOOLEAN

(* The client reloads "instead of accepting a silent gap": across appends,  *)
(* torn lines, compactions, lost connections and lost cursors, a client     *)
(* that was not told to reload knows history without holes.                 *)
NoSilentGap == owed \/ notice \/ \A i \in known : 1..i \subseteq known

(* No gap in what a client knows, and the types. *)
ReplayInv == TypeOK /\ NoSilentGap

(* The cursor is "stable across ordinary appends": what follows it is new.  *)
(* No event is sent twice to a client that reconnects with its cursor.      *)
NothingTwice == [][SendEvent => Head(page).id \notin sent]_vars

(* Whatever was lost meanwhile, once the writers are done the client knows  *)
(* all of the run.                                                          *)
CatchesUp == <>[](known = 1..total /\ ~owed)
=============================================================================
