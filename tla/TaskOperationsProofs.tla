------------------------ MODULE TaskOperationsProofs ------------------------
(***************************************************************************)
(* The background tasks and the operations of their session, for every set *)
(* of tasks and workers and every scenario: the queue is exact (QueueInv), *)
(* a task runs once (RunsOnce), answers hold (AnswersHold), and the graph  *)
(* is never ahead of a task nor shows an end that is none                  *)
(* (SequenceIsStable, NoFalseEnd).                                         *)
(*                                                                         *)
(* MInv is about the manager.  Memory and disk are each consistent with    *)
(* the answer of every task's caller and with how often it was executed    *)
(* (RecordFits), so that whichever of them a crash leaves is.  The queue   *)
(* is what the statuses say, with no task twice; a Running task has one    *)
(* worker; a requested cancellation is in the token of what runs, which    *)
(* keeps finish_task from recording a completion.  Until a write fails,    *)
(* memory and disk agree (Exact), and a task that is Queued was never run. *)
(*                                                                         *)
(* SInv is about the session.  Until a write fails, the record of a task   *)
(* only moves forward (OwnersMove), over crashes and restarts, so what a   *)
(* listing, an answer or a graph has of it can be older but never wrong    *)
(* (IsPast, NodeFits): all of them are reported by steps of their own.     *)
(***************************************************************************)
EXTENDS TaskOperations, FiniteSetTheorems, FunctionTheorems, SequenceTheorems, TLAPS

(***************************************************************************)
(* Queues.                                                                 *)
(***************************************************************************)
(* No entry occurs twice. *)
Distinct(q) == \A i, j \in DOMAIN q : q[i] = q[j] => i = j

(* How many of a finite set of numbers are smaller tells them apart.       *)
LEMMA RanksDiffer ==
  ASSUME NEW S \in SUBSET Nat, IsFiniteSet(S), NEW n \in S, NEW k \in S, n < k
  PROVE  /\ Cardinality({m \in S : m < n}) \in 0..(Cardinality(S) - 1)
         /\ Cardinality({m \in S : m < n}) < Cardinality({m \in S : m < k})
<1> DEFINE Below(x) == {m \in S : m < x}
<1>1. \A x \in S : IsFiniteSet(Below(x)) /\ Cardinality(Below(x)) \in Nat
  BY FS_Subset, FS_CardinalityType
<1>2. Below(n) \subseteq Below(k) /\ n \in Below(k) /\ n \notin Below(n)
  <2>1. \A m \in S : m < n => m < k
    OBVIOUS
  <2>2. n < k /\ ~(n < n)
    OBVIOUS
  <2> QED  BY <2>1, <2>2, Zenon
<1>3. /\ Cardinality(Below(n)) <= Cardinality(Below(k))
      /\ Cardinality(Below(n)) # Cardinality(Below(k))
  BY <1>1, <1>2, FS_Subset
<1>4. Cardinality(Below(k)) <= Cardinality(S) /\ Cardinality(S) \in Nat
  BY FS_Subset, FS_CardinalityType
<1> QED  BY <1>1, <1>3, <1>4

(* Ranks are below the size of the set, *)
LEMMA RankFits ==
  ASSUME NEW S \in SUBSET Nat, IsFiniteSet(S), NEW n \in S
  PROVE  Cardinality({m \in S : m < n}) \in 0..(Cardinality(S) - 1)
<1> DEFINE Below == {m \in S : m < n}
<1>1. Below \subseteq S /\ n \in S /\ n \notin Below
  OBVIOUS
<1>2. /\ Cardinality(Below) \in Nat /\ Cardinality(S) \in Nat
      /\ Cardinality(Below) <= Cardinality(S) /\ Cardinality(Below) # Cardinality(S)
  BY <1>1, FS_Subset, FS_CardinalityType
<1> QED  BY <1>2

(* and belong to one number each. *)
LEMMA SameRank ==
  ASSUME NEW S \in SUBSET Nat, IsFiniteSet(S), NEW n \in S, NEW k \in S,
         Cardinality({m \in S : m < n}) = Cardinality({m \in S : m < k})
  PROVE  n = k
<1>1. /\ Cardinality({m \in S : m < n}) \in Nat /\ n \in Nat
      /\ Cardinality({m \in S : m < k}) \in Nat /\ k \in Nat
  BY RankFits
<1>2. ~(n < k)
  BY <1>1, RanksDiffer
<1>3. ASSUME k < n PROVE FALSE
  <2>1. Cardinality({m \in S : m < k}) < Cardinality({m \in S : m < n})
    BY <1>3, RanksDiffer
  <2> QED  BY <1>1, <2>1
<1> QED  BY <1>1, <1>2, <1>3

(* Every position is the rank of exactly one number.                       *)
LEMMA RanksFill ==
  ASSUME NEW S \in SUBSET Nat, IsFiniteSet(S), NEW i \in 1..Cardinality(S)
  PROVE  \E n \in S : Cardinality({m \in S : m < n}) = i - 1
<1> DEFINE rank == [n \in S |-> Cardinality({m \in S : m < n})]
           T == 0..(Cardinality(S) - 1)
<1>1. rank \in [S -> T]
  BY RankFits
<1>2. \A n, k \in S : rank[n] = rank[k] => n = k
  BY SameRank
<1>3. rank \in Injection(S, T)
  BY <1>1, <1>2, Fun_IsInj
<1>4. Cardinality(S) \in Nat /\ IsFiniteSet(T) /\ Cardinality(T) = Cardinality(S)
  <2>1. Cardinality(S) \in Nat /\ 0 \in Int /\ Cardinality(S) - 1 \in Int
    BY FS_CardinalityType
  <2> QED  BY <2>1, FS_Interval
<1>5. rank \in Surjection(S, T)
  BY <1>3, <1>4, FS_Injection
<1>6. i - 1 \in T
  BY <1>4
<1> QED  BY <1>5, <1>6 DEF Surjection

(* InOrder lists the set, each of its numbers once. *)
LEMMA InOrderFits ==
  ASSUME NEW S \in SUBSET Nat, IsFiniteSet(S)
  PROVE  /\ InOrder(S) \in Seq(S) /\ Len(InOrder(S)) = Cardinality(S)
         /\ Distinct(InOrder(S)) /\ ItemsOf(InOrder(S)) = S
<1> DEFINE at == InOrder(S)  count == Cardinality(S)
<1>1. count \in Nat
  BY FS_CardinalityType
<1>2. \A i \in 1..count : at[i] \in S /\ Cardinality({m \in S : m < at[i]}) = i - 1
  BY RanksFill DEF InOrder
<1>3. at \in [1..count -> S] /\ DOMAIN at = 1..count
  BY <1>2 DEF InOrder
<1>4. Distinct(at)
  <2>1. ASSUME NEW i \in 1..count, NEW j \in 1..count, at[i] = at[j] PROVE i = j
    <3>1. i - 1 = j - 1
      BY <1>2, <2>1
    <3> QED  BY <1>1, <3>1
  <2> QED  BY <1>3, <2>1 DEF Distinct
<1>5. ASSUME NEW n \in S PROVE \E i \in 1..count : at[i] = n
  <2> DEFINE rank == Cardinality({m \in S : m < n})  i == rank + 1
  <2>1. rank \in 0..(count - 1)
    BY RankFits
  <2>2. i \in 1..count /\ i - 1 = rank
    BY <1>1, <2>1
  <2>3. at[i] \in S /\ Cardinality({m \in S : m < at[i]}) = rank
    BY <1>2, <2>2
  <2>4. at[i] = n
    BY <2>3, SameRank
  <2> QED  BY <2>2, <2>4
<1>6. ItemsOf(at) = S
  BY <1>3, <1>5 DEF ItemsOf
<1>7. at \in Seq(S) /\ Len(at) = count
  BY <1>1, <1>3
<1> QED  BY <1>4, <1>6, <1>7

(* A queue without repetition has as many entries as it has items.         *)
LEMMA LengthOfDistinct ==
  ASSUME NEW q \in Seq(Tasks), Distinct(q)
  PROVE  Len(q) = Cardinality(ItemsOf(q))
<1>1. Len(q) \in Nat /\ DOMAIN q = 1..Len(q)
  BY LenProperties
<1>2. q \in [1..Len(q) -> ItemsOf(q)] /\ \A x \in ItemsOf(q) : \E i \in 1..Len(q) : q[i] = x
  BY <1>1 DEF ItemsOf
<1>3. q \in Bijection(1..Len(q), ItemsOf(q))
  BY <1>1, <1>2, Fun_IsBij DEF Distinct
<1>4. ExistsBijection(1..Len(q), ItemsOf(q))
  BY <1>3 DEF ExistsBijection
<1> QED  BY <1>1, <1>4, FS_CountingElements

(* retain keeps what it should, once.                                      *)
LEMMA RetainedFits ==
  ASSUME NEW q \in Seq(Tasks), Distinct(q), NEW ts
  PROVE  /\ Retained(q, ts) \in Seq(Tasks) /\ Distinct(Retained(q, ts))
         /\ ItemsOf(Retained(q, ts)) = ItemsOf(q) \cap ts
<1> DEFINE kept == {i \in DOMAIN q : q[i] \in ts}
           at == InOrder(kept)  r == Retained(q, ts)
<1>1. DOMAIN q = 1..Len(q) /\ Len(q) \in Nat /\ \A i \in DOMAIN q : q[i] \in Tasks
  BY LenProperties, ElementOfSeq
<1>2. kept \in SUBSET Nat /\ IsFiniteSet(kept)
  <2>1. IsFiniteSet(1..Len(q)) /\ kept \subseteq 1..Len(q) /\ 1..Len(q) \subseteq Nat
    BY <1>1, FS_Interval
  <2> QED  BY <2>1, FS_Subset
<1>3. at \in Seq(kept) /\ Distinct(at) /\ ItemsOf(at) = kept
  BY <1>2, InOrderFits
<1>4. DOMAIN at = 1..Len(at) /\ Len(at) \in Nat /\ \A i \in DOMAIN at : at[i] \in kept
  BY <1>3, LenProperties, ElementOfSeq
<1>5. r = [i \in DOMAIN at |-> q[at[i]]]
  BY DEF Retained
<1> HIDE DEF at, r
<1>6. DOMAIN r = 1..Len(at) /\ \A i \in DOMAIN r : r[i] = q[at[i]] /\ r[i] \in Tasks \cap ts
  BY <1>1, <1>4, <1>5
<1>7. r \in Seq(Tasks)
  <2>1. r \in [1..Len(at) -> Tasks]
    BY <1>5, <1>6
  <2> QED  BY <1>4, <2>1
<1>8. Distinct(r)
  BY <1>3, <1>4, <1>6 DEF Distinct
<1>9. ItemsOf(r) \subseteq ItemsOf(q) \cap ts
  BY <1>4, <1>6 DEF ItemsOf
<1>10. ASSUME NEW i \in DOMAIN q, q[i] \in ts PROVE q[i] \in ItemsOf(r)
  <2>1. PICK j \in DOMAIN at : at[j] = i
    BY <1>3, <1>10 DEF ItemsOf
  <2> QED  BY <1>4, <1>6, <2>1 DEF ItemsOf
<1>11. ItemsOf(q) \cap ts \subseteq ItemsOf(r)
  BY <1>10 DEF ItemsOf
<1> QED  BY <1>7, <1>8, <1>9, <1>11 DEF r

(* The empty queue, *)
LEMMA EmptyFits == <<>> \in Seq(Tasks) /\ Distinct(<<>>) /\ ItemsOf(<<>>) = {}
<1>1. DOMAIN <<>> = {}
  BY EmptySeq, LenProperties
<1> QED  BY <1>1, EmptySeq DEF Distinct, ItemsOf

(* one with a new task at its end, *)
LEMMA AppendFits ==
  ASSUME NEW q \in Seq(Tasks), Distinct(q), NEW t \in Tasks, t \notin ItemsOf(q)
  PROVE  /\ Append(q, t) \in Seq(Tasks) /\ Distinct(Append(q, t))
         /\ ItemsOf(Append(q, t)) = ItemsOf(q) \cup {t}
<1> DEFINE r == Append(q, t)  n == Len(q)
<1>1. n \in Nat /\ DOMAIN q = 1..n
  BY LenProperties
<1>2. /\ r \in Seq(Tasks) /\ Len(r) = n + 1 /\ r[n + 1] = t
      /\ \A i \in 1..n : r[i] = q[i]
  BY AppendProperties
<1>3. DOMAIN r = 1..(n + 1)
  BY <1>2, LenProperties
<1> HIDE DEF r, n
<1>4. \A i \in DOMAIN r : i \in DOMAIN q \/ i = n + 1
  BY <1>1, <1>3
<1>5. \A i \in DOMAIN q : q[i] # t /\ i \in DOMAIN r
  BY <1>1, <1>3 DEF ItemsOf
<1>6. Distinct(r)
  BY <1>1, <1>2, <1>4, <1>5 DEF Distinct
<1>7. ItemsOf(r) \subseteq ItemsOf(q) \cup {t}
  BY <1>1, <1>2, <1>4 DEF ItemsOf
<1>8. t \in ItemsOf(r)
  BY <1>1, <1>2, <1>3 DEF ItemsOf
<1>9. ItemsOf(q) \subseteq ItemsOf(r)
  BY <1>1, <1>2, <1>5 DEF ItemsOf
<1> QED  BY <1>2, <1>6, <1>7, <1>8, <1>9 DEF r

(* one without its head, *)
LEMMA TailFits ==
  ASSUME NEW q \in Seq(Tasks), Distinct(q), q # <<>>
  PROVE  /\ Tail(q) \in Seq(Tasks) /\ Distinct(Tail(q)) /\ Head(q) \in ItemsOf(q)
         /\ ItemsOf(Tail(q)) = ItemsOf(q) \ {Head(q)}
<1> DEFINE r == Tail(q)  n == Len(q)
<1>1. n \in Nat \ {0} /\ DOMAIN q = 1..n
  BY LenProperties, EmptySeq
<1>2. /\ r \in Seq(Tasks) /\ Len(r) = n - 1
      /\ \A i \in 1..(n - 1) : r[i] = q[i + 1]
  BY HeadTailProperties
<1>3. DOMAIN r = 1..(n - 1) /\ Head(q) = q[1]
  BY <1>2, LenProperties
<1> HIDE DEF r, n
<1>4. \A i \in DOMAIN r : i + 1 \in DOMAIN q /\ r[i] = q[i + 1] /\ i + 1 # 1
  BY <1>1, <1>2, <1>3
<1>5. \A i \in DOMAIN q : i = 1 \/ (i - 1 \in DOMAIN r /\ r[i - 1] = q[i])
  BY <1>1, <1>2, <1>3
<1>6. Distinct(r)
  <2>1. ASSUME NEW i \in DOMAIN r, NEW j \in DOMAIN r, r[i] = r[j] PROVE i = j
    <3>1. i + 1 = j + 1
      BY <1>4, <2>1 DEF Distinct
    <3> QED  BY <1>1, <1>3, <3>1
  <2> QED  BY <2>1 DEF Distinct
<1>7. 1 \in DOMAIN q
  BY <1>1
<1>8. ItemsOf(r) \subseteq ItemsOf(q) \ {Head(q)}
  BY <1>3, <1>4, <1>7 DEF ItemsOf, Distinct
<1>9. ItemsOf(q) \ {Head(q)} \subseteq ItemsOf(r)
  BY <1>3, <1>5 DEF ItemsOf
<1>10. Head(q) \in ItemsOf(q)
  BY <1>3, <1>7 DEF ItemsOf
<1> QED  BY <1>2, <1>6, <1>8, <1>9, <1>10 DEF r

(* and two without common tasks, one behind the other. *)
LEMMA ConcatFits ==
  ASSUME NEW p \in Seq(Tasks), NEW q \in Seq(Tasks), Distinct(p), Distinct(q),
         ItemsOf(p) \cap ItemsOf(q) = {}
  PROVE  /\ p \o q \in Seq(Tasks) /\ Distinct(p \o q)
         /\ ItemsOf(p \o q) = ItemsOf(p) \cup ItemsOf(q)
<1> DEFINE r == p \o q  m == Len(p)  n == Len(q)
<1>1. m \in Nat /\ n \in Nat /\ DOMAIN p = 1..m /\ DOMAIN q = 1..n
  BY LenProperties
<1>2. /\ r \in Seq(Tasks) /\ Len(r) = m + n
      /\ \A i \in 1..(m + n) : r[i] = IF i <= m THEN p[i] ELSE q[i - m]
  BY ConcatProperties
<1>3. DOMAIN r = 1..(m + n)
  BY <1>2, LenProperties
<1> HIDE DEF r, m, n
<1>4. \A i \in DOMAIN r : \/ i <= m /\ i \in DOMAIN p /\ r[i] = p[i]
                          \/ i > m /\ i - m \in DOMAIN q /\ r[i] = q[i - m]
  BY <1>1, <1>2, <1>3
<1>5. \A i \in DOMAIN p : i \in DOMAIN r /\ r[i] = p[i]
  BY <1>1, <1>2, <1>3
<1>6. \A i \in DOMAIN q : i + m \in DOMAIN r /\ r[i + m] = q[i]
  BY <1>1, <1>2, <1>3
<1>7. \A i \in DOMAIN p, j \in DOMAIN q : p[i] # q[j]
  BY DEF ItemsOf
<1>8. Distinct(r)
  <2>1. ASSUME NEW i \in DOMAIN r, NEW j \in DOMAIN r, r[i] = r[j] PROVE i = j
    <3>1. CASE i <= m /\ j <= m
      BY <1>1, <1>3, <1>4, <2>1, <3>1 DEF Distinct
    <3>2. CASE i > m /\ j > m
      <4>1. i - m = j - m
        BY <1>1, <1>3, <1>4, <2>1, <3>2 DEF Distinct
      <4> QED  BY <1>1, <1>3, <4>1
    <3> QED  BY <1>1, <1>3, <1>4, <1>7, <2>1, <3>1, <3>2
  <2> QED  BY <2>1 DEF Distinct
<1>9. ItemsOf(r) \subseteq ItemsOf(p) \cup ItemsOf(q)
  BY <1>4 DEF ItemsOf
<1>10. ItemsOf(p) \subseteq ItemsOf(r)
  BY <1>5 DEF ItemsOf
<1>11. ItemsOf(q) \subseteq ItemsOf(r)
  BY <1>6 DEF ItemsOf
<1> QED  BY <1>2, <1>8, <1>9, <1>10, <1>11 DEF r

(* load_state: the queue is that of the Queued tasks, whatever of it was   *)
(* on disk.                                                                *)
QueuedIn(tasks) == {t \in Tasks : tasks[t] # Absent /\ tasks[t].status = "Queued"}

LEMMA LoadedQueueFits ==
  ASSUME disk.queue \in Seq(Tasks), Distinct(disk.queue), NEW tasks
  PROVE  /\ LoadedQueue(tasks) \in Seq(Tasks) /\ Distinct(LoadedQueue(tasks))
         /\ ItemsOf(LoadedQueue(tasks)) = QueuedIn(tasks)
<1> DEFINE queued == QueuedIn(tasks)  kept == Retained(disk.queue, queued)
           missing == queued \ ItemsOf(kept)  rest == InOrder(missing)
<1>1. /\ kept \in Seq(Tasks) /\ Distinct(kept)
      /\ ItemsOf(kept) = ItemsOf(disk.queue) \cap queued
  BY RetainedFits
<1>2. missing \subseteq Tasks /\ missing \in SUBSET Nat /\ IsFiniteSet(missing)
  <2>1. missing \subseteq Tasks
    BY DEF QueuedIn
  <2> QED  BY <2>1, TaskAssumption, FS_Subset
<1>3. rest \in Seq(missing) /\ Distinct(rest) /\ ItemsOf(rest) = missing
  BY <1>2, InOrderFits
<1>4. rest \in Seq(Tasks)
  BY <1>2, <1>3, SeqMonotonic
<1>5. LoadedQueue(tasks) = kept \o rest
  BY DEF LoadedQueue, QueuedIn
<1> HIDE DEF kept, missing, rest
<1>6. ItemsOf(kept) \cap ItemsOf(rest) = {} /\ ItemsOf(kept) \cup ItemsOf(rest) = queued
  BY <1>1, <1>3 DEF missing
<1>7. /\ kept \o rest \in Seq(Tasks) /\ Distinct(kept \o rest)
      /\ ItemsOf(kept \o rest) = ItemsOf(kept) \cup ItemsOf(rest)
  BY <1>1, <1>3, <1>4, <1>6, ConcatFits
<1> QED  BY <1>5, <1>6, <1>7

(***************************************************************************)
(* The invariant of the manager.                                           *)
(***************************************************************************)
UsedFits == used \in [crashes: Nat, errors: Nat, refusals: Nat, scenario: Scenarios]

(* What a record of a task, in memory or on disk, says to the answer that  *)
(* its caller got and to how often it was executed; with exact, no write   *)
(* has failed.                                                             *)
RecordFits(r, said, runs, exact) ==
  /\ said = "Refused" => r = Absent
  /\ said \in {"Added", "Requested", "Forced"} => r # Absent
  /\ said = "Forced" => r.status = "Canceled"
  /\ said = "Requested" => r.status \notin {"Queued", "Completed"}
  /\ r = Absent => runs = 0
  /\ exact /\ r # Absent /\ r.status = "Queued" => runs = 0

Runs(state, t) == state.step = "Run" /\ state.task = t

(* The queue is exact, a worker runs what is Running and no other worker   *)
(* does, and a cancellation that was requested has reached the token.      *)
MemoryFits(m, said, runs, exact) ==
  /\ m \in Memories
  /\ Distinct(m.queue) /\ ItemsOf(m.queue) = QueuedIn(m.tasks)
  /\ \A w \in Workers, t \in Tasks :
       Runs(m.worker[w], t) =>
         /\ m.tasks[t] # Absent /\ m.tasks[t].status = "Running"
         /\ \A v \in Workers : Runs(m.worker[v], t) => v = w
  /\ \A t \in Tasks :
       /\ RecordFits(m.tasks[t], said[t], runs[t], exact)
       /\ said[t] = "Requested" /\ m.tasks[t].status = "Running" => t \in m.token

Exact == used.errors = 0

(* Memory and disk know the same tasks, and the same of them until a write *)
(* fails.                                                                  *)
MInv ==
  /\ TypeOK /\ UsedFits
  /\ Distinct(disk.queue)
  /\ \A t \in Tasks : RecordFits(disk.file[t], told[t], executions[t], Exact)
  /\ IsUp => /\ MemoryFits(mgr, told, executions, Exact)
             /\ \A t \in Tasks : mgr.tasks[t] = Absent <=> disk.file[t] = Absent
             /\ Exact => mgr.tasks = disk.file
  /\ Exact => \A t \in Tasks : executions[t] <= 1

(***************************************************************************)
(* The invariant of the session.                                           *)
(***************************************************************************)
(* What was listed or returned earlier is not ahead of the task, and what  *)
(* it says of an end is so.                                                *)
IsPast(r, now) ==
  /\ now # Absent /\ r.seq <= now.seq
  /\ r.seq = now.seq => r.status = now.status
  /\ r.status \in Ended => now.status = r.status

ListingFits(tasks) == \A t \in Tasks : tasks[t] # Absent => IsPast(tasks[t], Owner(t))

(* The same of what an operation has seen and of the state it shows.       *)
NodeFits(node, said, now) ==
  /\ node.seen.seq > 0 /\ said # "Refused" =>
       /\ now # Absent /\ node.seen.seq <= now.seq
       /\ node.seen.seq = now.seq => node.seen.owner_state = now.status
  /\ node.state \in {"Completed", "Failed", "Cancelled"} =>
       \/ said = "Refused" /\ node.state = "Failed"
       \/ now # Absent /\ node.state = StateOf(now.status)

CallFits(c, said, now) ==
  /\ c.step = "Registered" => c.task = Absent
  /\ c.step = "Refused" => c.task = Absent /\ said = "Refused"
  /\ c.step \in {"Reported", "Forced"} => c.task # Absent /\ (Exact => IsPast(c.task, now))
  /\ c.step = "Forced" => c.task.status = "Canceled"

Listings == [tasks: [Tasks -> Records \cup {Absent}], left: SUBSET Tasks]
IsRestoring == restore \notin {Absent, Due}

GraphFits(graph) ==
  /\ graph \in [Tasks -> Operations \cup {Absent}]
  /\ Exact => \A t \in Tasks : graph[t] # Absent => NodeFits(graph[t], told[t], Owner(t))

CallsFit ==
  /\ call \in [Tasks -> Calls \cup {Absent}]
  /\ \A t \in Tasks : call[t] # Absent => CallFits(call[t], told[t], Owner(t))

PanelFits ==
  /\ panel \in Listings \cup {Absent}
  /\ Exact /\ panel # Absent => ListingFits(panel.tasks)

RestoreFits ==
  /\ restore \in Listings \cup {Absent, Due}
  /\ IsRestoring => \A t \in restore.left : operation[t] \in Operations
  /\ Exact /\ IsRestoring => ListingFits(restore.tasks)

SInv == GraphFits(operation) /\ GraphFits(saved) /\ CallsFit /\ PanelFits /\ RestoreFits

(***************************************************************************)
(* What the operations make of the manager's memory.                       *)
(***************************************************************************)
LEMMA CanceledQueuedParts ==
  ASSUME mgr \in Memories, NEW t \in Tasks, mgr.tasks[t] # Absent
  PROVE  LET m == CanceledQueued(t) IN
         /\ m.tasks = [mgr.tasks EXCEPT ![t] =
                         [mgr.tasks[t] EXCEPT !.status = "Canceled", !.seq = @ + 1]]
         /\ m.queue = Retained(mgr.queue, Tasks \ {t})
         /\ m.token = mgr.token /\ m.worker = mgr.worker
         /\ m.permit = mgr.permit /\ m.stopping = mgr.stopping
         /\ m.tasks \in [Tasks -> Records \cup {Absent}] /\ m.queue \in Seq(Tasks) => m \in Memories
BY DEF CanceledQueued, Memories

(* cancel_task, of a task that runs. *)
LEMMA CanceledRunningParts ==
  ASSUME mgr \in Memories, NEW t \in Tasks, mgr.tasks[t] # Absent
  PROVE  LET m == CanceledRunning(t) IN
         /\ m.tasks = [mgr.tasks EXCEPT ![t] = [mgr.tasks[t] EXCEPT !.seq = @ + 1]]
         /\ m.token = mgr.token \cup {t}
         /\ m.queue = mgr.queue /\ m.worker = mgr.worker
         /\ m.permit = mgr.permit /\ m.stopping = mgr.stopping
         /\ m.tasks \in [Tasks -> Records \cup {Absent}] /\ m.queue \in Seq(Tasks) => m \in Memories
BY DEF CanceledRunning, Memories

(* worker_loop, with a task from the queue. *)
LEMMA StartsTaskParts ==
  ASSUME mgr \in Memories, NEW w \in Workers, NEW t \in Tasks, mgr.tasks[t] # Absent
  PROVE  LET m == StartsTask(w, t) IN
         /\ m.tasks = [mgr.tasks EXCEPT ![t] =
                         [mgr.tasks[t] EXCEPT !.status = "Running", !.seq = @ + 1]]
         /\ m.queue = Tail(mgr.queue)
         /\ m.worker = [mgr.worker EXCEPT ![w] = [step |-> "Run", task |-> t, interrupt |-> "None"]]
         /\ m.token = mgr.token /\ m.permit = mgr.permit /\ m.stopping = mgr.stopping
         /\ /\ m.tasks \in [Tasks -> Records \cup {Absent}] /\ m.queue \in Seq(Tasks)
            /\ m.worker \in [Workers -> WorkerStates]
            => m \in Memories
BY DEF StartsTask, Popped, Memories

(* finish_task. *)
LEMMA FinishedParts ==
  ASSUME mgr \in Memories, NEW w \in Workers, NEW reason
  PROVE  LET m == Finished(w, reason)
             t == mgr.worker[w].task
             final == FinalReason(t, reason)
         IN
         /\ m.tasks = [mgr.tasks EXCEPT ![t] =
              [status |-> StatusOf(final), seq |-> mgr.tasks[t].seq + 1, reason |-> final]]
         /\ m.token = mgr.token \ {t}
         /\ m.worker = [mgr.worker EXCEPT ![w] = Idle("Poll")]
         /\ m.queue = mgr.queue /\ m.permit = mgr.permit /\ m.stopping = mgr.stopping
         /\ /\ m.tasks \in [Tasks -> Records \cup {Absent}] /\ m.worker \in [Workers -> WorkerStates]
            => m \in Memories
BY DEF Finished, Memories

(* A lifecycle step: a record that has not ended gets a higher number.     *)
Moves(r, s) ==
  \/ s = r
  \/ r # Absent /\ s # Absent /\ r.status \notin Ended /\ s.seq > r.seq

(* The fields of a record. *)
LEMMA RecordParts ==
  ASSUME NEW r \in Records
  PROVE  /\ r # Absent /\ r.seq \in Nat /\ r.reason \in Reasons \cup {"None"}
         /\ r.status \in {"Queued", "Running"} \cup Ended
BY ValueAssumption DEF Records

(* The next record of a task, with a new status *)
LEMMA NextRecord ==
  ASSUME NEW r \in Records, NEW status \in {"Queued", "Running"} \cup Ended
  PROVE  LET s == [r EXCEPT !.status = status, !.seq = @ + 1] IN
         s \in Records /\ s.status = status /\ s.seq = r.seq + 1
<1>1. r.seq + 1 \in Nat
  BY RecordParts
<1> QED  BY <1>1 DEF Records

(* or the same. *)
LEMMA NextSequence ==
  ASSUME NEW r \in Records
  PROVE  LET s == [r EXCEPT !.seq = @ + 1] IN
         s \in Records /\ s.status = r.status /\ s.seq = r.seq + 1
<1>1. r.seq + 1 \in Nat
  BY RecordParts
<1> QED  BY <1>1 DEF Records

(* One record changes. *)
LEMMA OneTaskSet ==
  ASSUME NEW tasks \in [Tasks -> Records \cup {Absent}], NEW t \in Tasks, NEW s \in Records
  PROVE  LET new == [tasks EXCEPT ![t] = s] IN
         /\ new \in [Tasks -> Records \cup {Absent}]
         /\ new[t] = s /\ s # Absent /\ \A u \in Tasks \ {t} : new[u] = tasks[u]
         /\ s.status # "Queued" => QueuedIn(new) = QueuedIn(tasks) \ {t}
BY ValueAssumption DEF QueuedIn

(* A worker that runs has a task. *)
LEMMA WorkerParts ==
  ASSUME NEW state \in WorkerStates, state.step = "Run"
  PROVE  state.task \in Tasks /\ state.interrupt \in Reasons \cup {"None"}
BY DEF WorkerStates

(* A worker that does not. *)
LEMMA IdleFits ==
  ASSUME NEW step \in {"Poll", "Wait", "Parked", "Exited"}
  PROVE  Idle(step) \in WorkerStates /\ Idle(step).step = step
BY DEF Idle, WorkerStates

(* A cancellation leaves a memory that fits the answer it gives. *)
LEMMA CanceledFits ==
  ASSUME MInv, NEW t \in Tasks, MayCancel(t), NEW said \in {told[t], Disposition(t)}
  PROVE  /\ MemoryFits(Canceled(t), [told EXCEPT ![t] = said], executions, Exact)
         /\ \A u \in Tasks : Moves(mgr.tasks[u], Canceled(t).tasks[u])
<1> DEFINE m == Canceled(t)  answers == [told EXCEPT ![t] = said]  r == mgr.tasks[t]
<1>1. /\ MemoryFits(mgr, told, executions, Exact) /\ mgr \in Memories
      /\ r # Absent /\ told[t] = "Added" /\ DOMAIN told = Tasks
  BY DEF MInv, MayCancel, MemoryFits, TypeOK
<1>2. mgr.tasks \in [Tasks -> Records \cup {Absent}] /\ r \in Records
  BY <1>1 DEF Memories
<1>3. \A u \in Tasks : answers[u] = IF u = t THEN said ELSE told[u]
  BY <1>1
<1> HIDE DEF answers, m
<1>4. CASE r.status = "Queued"
  <2> DEFINE s == [r EXCEPT !.status = "Canceled", !.seq = @ + 1]
  <2>1. m = CanceledQueued(t) /\ said \in {"Added", "Forced"}
    BY <1>1, <1>4 DEF Canceled, Disposition, m
  <2>2. s \in Records /\ s.status = "Canceled" /\ s.seq = r.seq + 1 /\ r.seq \in Nat
    BY <1>2, RecordParts, NextRecord DEF Ended
  <2>3. /\ m.tasks = [mgr.tasks EXCEPT ![t] = s] /\ m.queue = Retained(mgr.queue, Tasks \ {t})
        /\ m.token = mgr.token /\ m.worker = mgr.worker
        /\ m.permit = mgr.permit /\ m.stopping = mgr.stopping
    BY <1>1, <2>1, CanceledQueuedParts
  <2> HIDE DEF s, r
  <2>4. /\ m.tasks \in [Tasks -> Records \cup {Absent}] /\ m.tasks[t] = s /\ s # Absent
        /\ \A u \in Tasks \ {t} : m.tasks[u] = mgr.tasks[u]
        /\ QueuedIn(m.tasks) = QueuedIn(mgr.tasks) \ {t}
    BY <1>2, <2>2, <2>3, OneTaskSet
  <2>5. mgr.queue \in Seq(Tasks) /\ Distinct(mgr.queue) /\ ItemsOf(mgr.queue) = QueuedIn(mgr.tasks)
    BY <1>1 DEF MemoryFits, Memories
  <2>6. /\ m.queue \in Seq(Tasks) /\ Distinct(m.queue)
        /\ ItemsOf(m.queue) = ItemsOf(mgr.queue) \cap (Tasks \ {t})
    BY <2>3, <2>5, RetainedFits
  <2>7. ItemsOf(m.queue) = QueuedIn(m.tasks)
    BY <2>4, <2>5, <2>6 DEF QueuedIn
  <2>8. m \in Memories
    BY <1>1, <2>1, <2>4, <2>6, CanceledQueuedParts DEF r
  <2> QED  BY <1>1, <1>2, <1>3, <1>4, <2>1, <2>2, <2>3, <2>4, <2>6, <2>7, <2>8
           DEF MemoryFits, RecordFits, Runs, Moves, Ended, m, r, answers
<1>5. CASE r.status = "Running"
  <2> DEFINE s == [r EXCEPT !.seq = @ + 1]
  <2>1. m = CanceledRunning(t) /\ said \in {"Added", "Requested"}
    BY <1>1, <1>5 DEF Canceled, Disposition, m
  <2>2. s \in Records /\ s.status = "Running" /\ s.seq = r.seq + 1 /\ r.seq \in Nat
    BY <1>2, <1>5, RecordParts, NextSequence
  <2>3. /\ m.tasks = [mgr.tasks EXCEPT ![t] = s] /\ m.token = mgr.token \cup {t}
        /\ m.queue = mgr.queue /\ m.worker = mgr.worker
        /\ m.permit = mgr.permit /\ m.stopping = mgr.stopping
    BY <1>1, <2>1, CanceledRunningParts
  <2> HIDE DEF s, r
  <2>4. /\ m.tasks \in [Tasks -> Records \cup {Absent}] /\ m.tasks[t] = s /\ s # Absent
        /\ \A u \in Tasks \ {t} : m.tasks[u] = mgr.tasks[u]
        /\ QueuedIn(m.tasks) = QueuedIn(mgr.tasks) \ {t}
    BY <1>2, <2>2, <2>3, OneTaskSet
  <2>5. QueuedIn(m.tasks) = QueuedIn(mgr.tasks)
    BY <1>5, <2>4 DEF QueuedIn, r
  <2>6. m \in Memories
    <3>1. m.queue \in Seq(Tasks)
      BY <1>1, <2>3 DEF Memories
    <3> QED  BY <1>1, <2>1, <2>4, <3>1, CanceledRunningParts DEF r
  <2> QED  BY <1>1, <1>2, <1>3, <1>5, <2>1, <2>2, <2>3, <2>4, <2>5, <2>6
           DEF MemoryFits, RecordFits, Runs, Moves, Ended, m, r, answers
<1>6. CASE r.status \in Ended
  <2>1. m = mgr /\ said = told[t]
    <3>1. r.status # "Queued" /\ r.status # "Running"
      BY <1>6 DEF Ended
    <3> QED  BY <3>1 DEF Canceled, Disposition, m
  <2>2. answers = told
    BY <2>1 DEF answers, MInv, TypeOK
  <2> QED  BY <1>1, <2>1, <2>2 DEF Moves, m, answers
<1> QED  BY <1>2, <1>4, <1>5, <1>6, RecordParts

(* A start leaves the queue exact and one worker with the task. *)
LEMMA StartsTaskFits ==
  ASSUME MInv, NEW w \in Workers, IsAt(w, "Poll"), mgr.queue # <<>>,
         NEW t \in Tasks, t = Head(mgr.queue), IsRunnable(t),
         NEW runs \in {executions, [executions EXCEPT ![t] = @ + 1]}
  PROVE  /\ MemoryFits(StartsTask(w, t), told, runs, Exact)
         /\ \A u \in Tasks : Moves(mgr.tasks[u], StartsTask(w, t).tasks[u])
<1> DEFINE m == StartsTask(w, t)  r == mgr.tasks[t]
           s == [r EXCEPT !.status = "Running", !.seq = @ + 1]
           state == [step |-> "Run", task |-> t, interrupt |-> "None"]
<1>1. /\ MemoryFits(mgr, told, executions, Exact) /\ mgr \in Memories
      /\ r # Absent /\ r.status = "Queued" /\ executions \in [Tasks -> Nat]
  BY DEF MInv, IsAt, IsRunnable, MemoryFits, TypeOK
<1>2. /\ mgr.tasks \in [Tasks -> Records \cup {Absent}] /\ r \in Records
      /\ mgr.worker \in [Workers -> WorkerStates]
  BY <1>1 DEF Memories
<1>3. s \in Records /\ s.status = "Running" /\ s.seq = r.seq + 1 /\ r.seq \in Nat
  BY <1>2, RecordParts, NextRecord
<1>4. /\ m.tasks = [mgr.tasks EXCEPT ![t] = s] /\ m.queue = Tail(mgr.queue)
      /\ m.worker = [mgr.worker EXCEPT ![w] = state]
      /\ m.token = mgr.token /\ m.permit = mgr.permit /\ m.stopping = mgr.stopping
  BY <1>1, StartsTaskParts
<1>5. state \in WorkerStates
  BY DEF WorkerStates
<1>6. \A u \in Tasks : runs[u] = IF u = t THEN runs[t] ELSE executions[u]
  BY <1>1
<1>7. mgr.queue \in Seq(Tasks) /\ Distinct(mgr.queue) /\ ItemsOf(mgr.queue) = QueuedIn(mgr.tasks)
  BY <1>1 DEF MemoryFits, Memories
<1>8. /\ Tail(mgr.queue) \in Seq(Tasks) /\ Distinct(Tail(mgr.queue))
      /\ ItemsOf(Tail(mgr.queue)) = ItemsOf(mgr.queue) \ {t}
  BY <1>7, TailFits
<1>9. m \in Memories
  <2>1. m.tasks \in [Tasks -> Records \cup {Absent}]
    BY <1>2, <1>3, <1>4
  <2>2. m.worker \in [Workers -> WorkerStates]
    BY <1>2, <1>4, <1>5
  <2>3. m.queue \in Seq(Tasks)
    BY <1>4, <1>8
  <2> HIDE DEF s, state
  <2> QED  BY <1>1, <2>1, <2>2, <2>3, StartsTaskParts
<1> HIDE DEF m, s, r, state
<1>10. /\ m.tasks[t] = s /\ s # Absent /\ \A u \in Tasks \ {t} : m.tasks[u] = mgr.tasks[u]
       /\ QueuedIn(m.tasks) = QueuedIn(mgr.tasks) \ {t}
  BY <1>2, <1>3, <1>4, OneTaskSet
<1>11. /\ Runs(m.worker[w], t) /\ \A v \in Workers \ {w} : m.worker[v] = mgr.worker[v]
       /\ \A u \in Tasks : Runs(m.worker[w], u) => u = t
  BY <1>2, <1>4 DEF Runs, state
<1>12. \A v \in Workers : ~Runs(mgr.worker[v], t)
  BY <1>1 DEF MemoryFits, r
<1>13. ASSUME NEW v \in Workers, NEW u \in Tasks, Runs(m.worker[v], u)
       PROVE  /\ m.tasks[u] # Absent /\ m.tasks[u].status = "Running"
              /\ \A x \in Workers : Runs(m.worker[x], u) => x = v
  <2>1. CASE v = w
    BY <1>3, <1>10, <1>11, <1>12, <1>13, <2>1
  <2>2. CASE v # w
    BY <1>1, <1>10, <1>11, <1>12, <1>13, <2>2 DEF MemoryFits
  <2> QED  BY <2>1, <2>2
<1>14. ASSUME NEW u \in Tasks
       PROVE  /\ RecordFits(m.tasks[u], told[u], runs[u], Exact)
              /\ told[u] = "Requested" /\ m.tasks[u].status = "Running" => u \in m.token
  <2>1. CASE u = t
    <3>1. told[t] \notin {"Refused", "Forced", "Requested"}
      BY <1>1 DEF MemoryFits, RecordFits, r
    <3> QED  BY <1>3, <1>10, <2>1, <3>1 DEF RecordFits
  <2>2. CASE u # t
    BY <1>1, <1>4, <1>6, <1>10, <2>2 DEF MemoryFits
  <2> QED  BY <2>1, <2>2
<1>15. \A u \in Tasks : Moves(mgr.tasks[u], m.tasks[u])
  BY <1>1, <1>3, <1>10 DEF Moves, Ended, r
<1>16. Distinct(m.queue) /\ ItemsOf(m.queue) = QueuedIn(m.tasks)
  BY <1>4, <1>7, <1>8, <1>10
<1> QED  BY <1>9, <1>13, <1>14, <1>15, <1>16 DEF MemoryFits, m

(* Every reason ends a task, and none completes a canceled one. *)
LEMMA FinalReasonFits ==
  ASSUME NEW t, NEW reason \in Reasons
  PROVE  /\ FinalReason(t, reason) \in Reasons /\ StatusOf(FinalReason(t, reason)) \in Ended
         /\ t \in mgr.token => StatusOf(FinalReason(t, reason)) # "Completed"
BY DEF FinalReason, StatusOf, Reasons, Timeouts, Ended

(* An end frees the worker and is what a cancellation allows. *)
LEMMA FinishedFits ==
  ASSUME MInv, NEW w \in Workers, IsAt(w, "Run"), NEW reason \in Reasons
  PROVE  /\ MemoryFits(Finished(w, reason), told, executions, Exact)
         /\ \A u \in Tasks : Moves(mgr.tasks[u], Finished(w, reason).tasks[u])
<1> DEFINE m == Finished(w, reason)  t == mgr.worker[w].task  r == mgr.tasks[t]
           final == FinalReason(t, reason)
           s == [status |-> StatusOf(final), seq |-> r.seq + 1, reason |-> final]
<1>1. MemoryFits(mgr, told, executions, Exact) /\ mgr \in Memories
  BY DEF MInv, IsAt, MemoryFits
<1>2. /\ mgr.tasks \in [Tasks -> Records \cup {Absent}]
      /\ mgr.worker \in [Workers -> WorkerStates]
  BY <1>1 DEF Memories
<1>3. t \in Tasks /\ Runs(mgr.worker[w], t)
  BY <1>2, WorkerParts DEF IsAt, Runs
<1>4. r \in Records /\ r.status = "Running" /\ r.seq \in Nat
  BY <1>1, <1>2, <1>3, RecordParts DEF MemoryFits
<1>5. s \in Records /\ s.status \in Ended /\ (t \in mgr.token => s.status # "Completed")
  BY <1>4, FinalReasonFits DEF Records
<1>6. /\ m.tasks = [mgr.tasks EXCEPT ![t] = s] /\ m.token = mgr.token \ {t}
      /\ m.worker = [mgr.worker EXCEPT ![w] = Idle("Poll")]
      /\ m.queue = mgr.queue /\ m.permit = mgr.permit /\ m.stopping = mgr.stopping
  BY <1>1, FinishedParts
<1>7. s.seq = r.seq + 1
  OBVIOUS
<1>8. m \in Memories
  <2>1. m.tasks \in [Tasks -> Records \cup {Absent}]
    BY <1>2, <1>5, <1>6
  <2>2. m.worker \in [Workers -> WorkerStates]
    BY <1>2, <1>6, IdleFits
  <2> QED  BY <1>1, <2>1, <2>2, FinishedParts
<1> HIDE DEF m, s, r, t
<1>9. /\ m.tasks[t] = s /\ s # Absent /\ \A u \in Tasks \ {t} : m.tasks[u] = mgr.tasks[u]
      /\ QueuedIn(m.tasks) = QueuedIn(mgr.tasks) \ {t}
  <2>1. s.status # "Queued"
    BY <1>5 DEF Ended
  <2> QED  BY <1>2, <1>3, <1>5, <1>6, <2>1, OneTaskSet
<1>10. QueuedIn(m.tasks) = QueuedIn(mgr.tasks)
  BY <1>4, <1>9 DEF QueuedIn, r
<1>11. \A v \in Workers, u \in Tasks :
         Runs(m.worker[v], u) => Runs(mgr.worker[v], u) /\ v # w
  BY <1>2, <1>6, IdleFits DEF Runs
<1>12. \A v \in Workers : v # w => ~Runs(mgr.worker[v], t)
  BY <1>1, <1>3 DEF MemoryFits
<1>13. ASSUME NEW v \in Workers, NEW u \in Tasks, Runs(m.worker[v], u)
       PROVE  /\ m.tasks[u] # Absent /\ m.tasks[u].status = "Running"
              /\ \A x \in Workers : Runs(m.worker[x], u) => x = v
  <2>1. Runs(mgr.worker[v], u) /\ u # t
    BY <1>11, <1>12, <1>13
  <2> QED  BY <1>1, <1>9, <1>11, <2>1 DEF MemoryFits
<1>14. ASSUME NEW u \in Tasks
       PROVE  /\ RecordFits(m.tasks[u], told[u], executions[u], Exact)
              /\ told[u] = "Requested" /\ m.tasks[u].status = "Running" => u \in m.token
  <2>1. CASE u = t
    BY <1>1, <1>3, <1>4, <1>5, <1>9, <2>1 DEF MemoryFits, RecordFits, r, Ended
  <2>2. CASE u # t
    BY <1>1, <1>6, <1>9, <2>2 DEF MemoryFits
  <2> QED  BY <2>1, <2>2
<1>15. \A u \in Tasks : Moves(mgr.tasks[u], m.tasks[u])
  BY <1>4, <1>7, <1>9, ValueAssumption DEF Moves, Ended, r
<1>16. Distinct(m.queue) /\ ItemsOf(m.queue) = QueuedIn(m.tasks)
  BY <1>1, <1>6, <1>10 DEF MemoryFits
<1> QED  BY <1>8, <1>13, <1>14, <1>15, <1>16 DEF MemoryFits, m

(***************************************************************************)
(* Steps of the manager.  Until a write fails, the record of a task, in    *)
(* memory or, while the process is down, on disk, only moves forward.      *)
(***************************************************************************)
OwnersMove == Exact' => Exact /\ \A t \in Tasks : Owner(t) # Absent => Moves(Owner(t), Owner(t)')

UsedOK ==
  UsedFits /\ \A b \in {"crashes", "errors", "refusals"} : used[b] \in 0..used.scenario[b]

(* What is used up stays within the scenario. *)
LEMMA UseKeeps ==
  ASSUME MInv, NEW b \in {"crashes", "errors", "refusals"}, Use(b)
  PROVE  /\ UsedOK' /\ (Exact' => Exact) /\ (b = "errors" => ~Exact')
         /\ b # "errors" => Exact' = Exact
<1>1. /\ used \in [crashes: Nat, errors: Nat, refusals: Nat, scenario: Scenarios]
      /\ used[b] < used.scenario[b] /\ used' = [used EXCEPT ![b] = @ + 1]
  BY DEF MInv, UsedFits, Use
<1>2. used.scenario[b] \in Nat
  <2>1. used.scenario \in [pool: SUBSET Workers, session: SUBSET Tasks, others: SUBSET Tasks,
                           crashes: Nat, errors: Nat, refusals: Nat]
    BY <1>1, ScenarioAssumption
  <2> QED  BY <2>1
<1>3. \A c \in {"crashes", "errors", "refusals"} : used[c] \in 0..used.scenario[c]
  BY DEF MInv, TypeOK
<1>4. used' \in [crashes: Nat, errors: Nat, refusals: Nat, scenario: Scenarios]
  BY <1>1
<1>5. /\ used'[b] = used[b] + 1 /\ used'.scenario = used.scenario
      /\ \A c \in {"crashes", "errors", "refusals"} \ {b} : used'[c] = used[c]
  BY <1>1
<1>6. used[b] \in Nat /\ used.errors \in Nat
  BY <1>1
<1>7. \A c \in {"crashes", "errors", "refusals"} : used'[c] \in 0..used'.scenario[c]
  BY <1>1, <1>2, <1>3, <1>5, <1>6
<1> QED  BY <1>4, <1>5, <1>6, <1>7 DEF UsedOK, UsedFits, Exact

(* So it does if nothing is used. *)
LEMMA UsedStays == ASSUME MInv, UNCHANGED used PROVE UsedOK' /\ Exact' = Exact
BY DEF MInv, TypeOK, UsedOK, UsedFits, Exact

(* Memory that fits fits as well if a write has failed since. *)
LEMMA LessExact ==
  ASSUME NEW m, NEW said, NEW runs, NEW before, NEW after,
         MemoryFits(m, said, runs, before), after => before
  PROVE  MemoryFits(m, said, runs, after)
BY DEF MemoryFits, RecordFits

(* persist_all_locked, whole or cut short.                                 *)
LEMMA DiskStep ==
  ASSUME MInv, NEW m \in Memories, SaveAll(m) \/ SaveSome(m)
  PROVE  /\ disk' \in [file: [Tasks -> Records \cup {Absent}], queue: Seq(Tasks),
                       staged: SUBSET Tasks]
         /\ disk'.queue \in {disk.queue, m.queue}
         /\ \A t \in Tasks : disk'.file[t] \in {disk.file[t], m.tasks[t]}
         /\ SaveAll(m) => \A t \in Tasks :
              disk'.file[t] = IF m.tasks[t] # Absent THEN m.tasks[t] ELSE disk.file[t]
<1>1. /\ disk \in [file: [Tasks -> Records \cup {Absent}], queue: Seq(Tasks), staged: SUBSET Tasks]
      /\ m.tasks \in [Tasks -> Records \cup {Absent}] /\ m.queue \in Seq(Tasks)
  BY DEF MInv, TypeOK, Memories
<1>2. ASSUME NEW ts \in SUBSET Tasks,
             disk' = [disk EXCEPT !.queue = m.queue, !.file = Written(m, ts)]
      PROVE  /\ disk' \in [file: [Tasks -> Records \cup {Absent}], queue: Seq(Tasks),
                           staged: SUBSET Tasks]
             /\ disk'.queue = m.queue
             /\ \A t \in Tasks : disk'.file[t] = IF t \in ts THEN m.tasks[t] ELSE disk.file[t]
  <2>1. Written(m, ts) \in [Tasks -> Records \cup {Absent}]
    BY <1>1 DEF Written
  <2>2. disk'.file = Written(m, ts) /\ disk'.queue = m.queue /\ disk'.staged = disk.staged
    BY <1>1, <1>2
  <2> QED  BY <1>1, <1>2, <2>1, <2>2 DEF Written
<1>3. CASE SaveAll(m)
  <2>1. /\ disk' = [disk EXCEPT !.queue = m.queue, !.file = Written(m, Known(m))]
        /\ Known(m) \in SUBSET Tasks /\ \A t \in Tasks : t \in Known(m) <=> m.tasks[t] # Absent
    BY <1>3 DEF SaveAll, Known
  <2> QED  BY <1>2, <2>1
<1>4. CASE SaveSome(m) /\ ~SaveAll(m)
  <2>1. CASE UNCHANGED disk
    BY <1>1, <1>4, <2>1
  <2>2. CASE \E ts \in SUBSET Tasks :
               disk' = [disk EXCEPT !.queue = m.queue, !.file = Written(m, ts)]
    BY <1>2, <1>4, <2>2
  <2> QED  BY <1>4, <2>1, <2>2 DEF SaveSome, Known
<1> QED  BY <1>3, <1>4

(* An operation that changes memory and saves it keeps the invariant.      *)
Answers == {"Nothing", "Added", "Refused", "Requested", "Forced"}

LEMMA SaveKeeps ==
  ASSUME MInv, IsUp, NEW m, told' \in [Tasks -> Answers], executions' \in [Tasks -> Nat],
         MemoryFits(m, told', executions', Exact),
         \A t \in Tasks : Moves(mgr.tasks[t], m.tasks[t]),
         Exact' => \A t \in Tasks : executions'[t] <= 1,
         \/ Saved(m)
         \/ SaveFails(m) /\ UNCHANGED told
         \/ SaveCrashes(m) /\ UNCHANGED <<told, executions>>
  PROVE  MInv' /\ OwnersMove
<1>1. m \in Memories /\ mgr \in Memories /\ MemoryFits(mgr, told, executions, Exact)
  BY DEF MInv, MemoryFits
<1>2. /\ UsedOK' /\ (Exact' => Exact)
      /\ SaveFails(m) => ~Exact'
  BY UseKeeps, UsedStays DEF Saved, SaveFails, SaveCrashes, Failing, Crashing
<1>3. /\ disk' \in [file: [Tasks -> Records \cup {Absent}], queue: Seq(Tasks), staged: SUBSET Tasks]
      /\ disk'.queue \in {disk.queue, m.queue}
      /\ \A t \in Tasks : disk'.file[t] \in {disk.file[t], m.tasks[t]}
      /\ SaveAll(m) => \A t \in Tasks :
           disk'.file[t] = IF m.tasks[t] # Absent THEN m.tasks[t] ELSE disk.file[t]
  BY <1>1, DiskStep DEF Saved, SaveFails, SaveCrashes
<1>4. mgr' \in {m, Down} /\ (mgr' = Down => SaveCrashes(m))
  BY <1>1, ValueAssumption DEF Saved, SaveFails, SaveCrashes
<1>5. TypeOK'
  BY <1>1, <1>2, <1>3, <1>4 DEF TypeOK, UsedOK, Answers
<1>6. Distinct(disk'.queue)
  BY <1>3 DEF MInv, MemoryFits
<1>7. \A t \in Tasks : /\ mgr.tasks[t] = Absent <=> disk.file[t] = Absent
                       /\ m.tasks[t] = Absent <=> disk.file[t] = Absent
  BY DEF MInv, Moves
<1>8. ASSUME NEW t \in Tasks
      PROVE  /\ RecordFits(m.tasks[t], told'[t], executions'[t], Exact')
             /\ RecordFits(disk'.file[t], told'[t], executions'[t], Exact')
  <2>1. RecordFits(m.tasks[t], told'[t], executions'[t], Exact')
    BY <1>2 DEF MemoryFits, RecordFits
  <2>2. CASE disk'.file[t] = m.tasks[t]
    BY <2>1, <2>2
  <2>3. CASE disk'.file[t] # m.tasks[t]
    <3>1. disk'.file[t] = disk.file[t] /\ ~SaveAll(m)
      BY <1>3, <1>7, <2>3
    <3>2. /\ UNCHANGED told /\ RecordFits(disk.file[t], told[t], executions[t], Exact)
          /\ Exact' => UNCHANGED executions
      BY <1>2, <3>1 DEF Saved, MInv
    <3> QED  BY <1>2, <1>7, <2>1, <3>1, <3>2 DEF RecordFits
  <2> QED  BY <2>2, <2>3, <2>1
<1>9. ASSUME IsUp'
      PROVE  /\ MemoryFits(mgr', told', executions', Exact')
             /\ \A t \in Tasks : mgr'.tasks[t] = Absent <=> disk'.file[t] = Absent
             /\ Exact' => mgr'.tasks = disk'.file
  <2>1. mgr' = m /\ (Exact' => Saved(m))
    BY <1>2, <1>4, <1>9 DEF IsUp, SaveCrashes
  <2>2. Exact' => \A t \in Tasks : m.tasks[t] = disk'.file[t]
    BY <1>3, <1>7, <2>1 DEF Saved
  <2>3. Exact' => m.tasks = disk'.file
    BY <1>1, <1>3, <2>2 DEF Memories
  <2> QED  BY <1>2, <1>3, <1>7, <2>1, <2>3, LessExact
<1>10. MInv'
  BY <1>2, <1>5, <1>6, <1>8, <1>9 DEF MInv, UsedOK
<1>11. OwnersMove
  <2> SUFFICES ASSUME Exact', NEW t \in Tasks, Owner(t) # Absent
               PROVE  Moves(Owner(t), Owner(t)')
    BY <1>2 DEF OwnersMove
  <2>1. Owner(t) = mgr.tasks[t] /\ Owner(t) = disk.file[t]
    BY <1>2 DEF Owner, MInv
  <2>2. Owner(t)' \in {m.tasks[t], disk'.file[t]}
    BY <1>4 DEF Owner, IsUp
  <2> QED  BY <1>3, <2>1, <2>2 DEF Moves
<1> QED  BY <1>10, <1>11

(* What changes neither tasks nor queue, starts no run and drops no token. *)
LEMMA QuietStep ==
  ASSUME MInv, IsUp, mgr' \in Memories, UNCHANGED <<disk, told, executions, used>>,
         mgr'.tasks = mgr.tasks, mgr'.queue = mgr.queue, mgr.token \subseteq mgr'.token,
         \A w \in Workers, t \in Tasks : Runs(mgr'.worker[w], t) => Runs(mgr.worker[w], t)
  PROVE  MInv' /\ OwnersMove
<1>1. mgr' # Down
  BY ValueAssumption
<1>2. UsedOK' /\ Exact' = Exact
  BY UsedStays
<1>3. MemoryFits(mgr', told, executions, Exact)
  BY DEF MInv, MemoryFits
<1>4. MInv'
  BY <1>1, <1>2, <1>3 DEF MInv, TypeOK, UsedOK, IsUp
<1>5. OwnersMove
  BY <1>1, <1>2 DEF OwnersMove, Owner, IsUp, Moves
<1> QED  BY <1>4, <1>5

(* A worker without a task moves. *)
LEMMA WorkerSet ==
  ASSUME MInv, IsUp, NEW w \in Workers, NEW step \in {"Poll", "Wait", "Parked", "Exited"},
         \/ mgr' = [mgr EXCEPT !.worker[w] = Idle(step)]
         \/ mgr' = [mgr EXCEPT !.permit = FALSE, !.worker[w] = Idle(step)],
         UNCHANGED <<disk, told, executions, used>>
  PROVE  MInv' /\ OwnersMove
<1>1. mgr \in Memories /\ Idle(step) \in WorkerStates /\ Idle(step).step = step
  BY IdleFits DEF MInv, MemoryFits
<1>2. /\ mgr' \in Memories /\ mgr'.tasks = mgr.tasks /\ mgr'.queue = mgr.queue
      /\ mgr'.token = mgr.token /\ mgr'.worker = [mgr.worker EXCEPT ![w] = Idle(step)]
  <2>1. CASE mgr' = [mgr EXCEPT !.worker[w] = Idle(step)]
    BY <1>1, <2>1 DEF Memories
  <2>2. CASE mgr' = [mgr EXCEPT !.permit = FALSE, !.worker[w] = Idle(step)]
    BY <1>1, <2>2 DEF Memories
  <2> QED  BY <2>1, <2>2
<1>3. \A v \in Workers, t \in Tasks : Runs(mgr'.worker[v], t) => Runs(mgr.worker[v], t)
  BY <1>1, <1>2 DEF Runs, Memories
<1> QED  BY <1>2, <1>3, QuietStep

(* worker_loop without a task, *)
LEMMA IdleSteps ==
  ASSUME MInv, NEW w \in Workers, FindNothing(w) \/ Wait(w) \/ Exit(w)
  PROVE  MInv' /\ OwnersMove
<1>1. IsUp /\ UNCHANGED <<disk, told, executions, used>>
  BY DEF FindNothing, Wait, Exit, IsAt
<1>2. PICK step \in {"Poll", "Wait", "Parked", "Exited"} :
        \/ mgr' = [mgr EXCEPT !.worker[w] = Idle(step)]
        \/ mgr' = [mgr EXCEPT !.permit = FALSE, !.worker[w] = Idle(step)]
  <2>1. CASE FindNothing(w)
    BY <2>1 DEF FindNothing
  <2>2. CASE Wait(w)
    BY <2>2 DEF Wait
  <2>3. CASE Exit(w)
    BY <2>3 DEF Exit
  <2> QED  BY <2>1, <2>2, <2>3
<1> QED  BY <1>1, <1>2, WorkerSet

(* the guard of a run, *)
LEMMA InterruptStep ==
  ASSUME MInv, NEW w \in Workers, Interrupt(w)
  PROVE  MInv' /\ OwnersMove
<1> DEFINE t == mgr.worker[w].task
<1>1. IsUp /\ UNCHANGED <<disk, told, executions, used>>
  BY DEF Interrupt, IsAt
<1>2. mgr \in Memories
  BY <1>1 DEF MInv, MemoryFits
<1>3. mgr.worker[w].step = "Run" /\ mgr.worker[w] \in WorkerStates /\ t \in Tasks
  BY <1>2, WorkerParts DEF Interrupt, IsAt, Memories
<1>4. PICK reason \in PendingInterrupts(t) :
        mgr' = [mgr EXCEPT !.token = @ \cup {t}, !.worker[w].interrupt = reason]
  BY DEF Interrupt
<1>5. reason \in Reasons
  BY DEF PendingInterrupts, Reasons, Timeouts
<1> DEFINE state == [mgr.worker[w] EXCEPT !.interrupt = reason]
<1>6. state \in WorkerStates /\ state.task = t
  BY <1>3, <1>5 DEF WorkerStates
<1>7. /\ mgr'.tasks = mgr.tasks /\ mgr'.queue = mgr.queue /\ mgr'.permit = mgr.permit
      /\ mgr'.stopping = mgr.stopping /\ mgr'.token = mgr.token \cup {t}
      /\ mgr'.worker = [mgr.worker EXCEPT ![w] = state]
  BY <1>2, <1>4 DEF Memories
<1> HIDE DEF state, t
<1>8. mgr' \in Memories
  <2>1. mgr'.worker \in [Workers -> WorkerStates] /\ mgr'.token \subseteq Tasks
    BY <1>2, <1>3, <1>6, <1>7 DEF Memories
  <2> QED  BY <1>2, <1>4, <1>7, <2>1 DEF Memories
<1>9. \A v \in Workers, u \in Tasks : Runs(mgr'.worker[v], u) => Runs(mgr.worker[v], u)
  BY <1>2, <1>3, <1>6, <1>7 DEF Runs, Memories, t
<1> QED  BY <1>1, <1>7, <1>8, <1>9, QuietStep

(* and the shutdown do so. *)
LEMMA ShutdownStep == ASSUME MInv, Shutdown PROVE MInv' /\ OwnersMove
<1>1. IsUp /\ mgr \in Memories /\ UNCHANGED <<disk, told, executions, used>>
  BY DEF Shutdown, MInv, MemoryFits
<1>2. /\ mgr' \in Memories /\ mgr'.tasks = mgr.tasks /\ mgr'.queue = mgr.queue
      /\ mgr'.token = mgr.token /\ mgr'.worker = mgr.worker
  BY <1>1 DEF Shutdown, Memories
<1> QED  BY <1>1, <1>2, QuietStep

(* A start without failing writes is the first of its task.                *)
LEMMA StartStep == ASSUME MInv, NEW w \in Workers, Start(w) PROVE MInv' /\ OwnersMove
<1> DEFINE t == Head(mgr.queue)  m == StartsTask(w, t)
<1>1. /\ IsAt(w, "Poll") /\ IsUp /\ mgr.queue # <<>> /\ IsRunnable(t) /\ UNCHANGED told
      /\ \/ /\ Saved(m) \/ SaveFails(m)
            /\ executions' = [executions EXCEPT ![t] = @ + 1]
         \/ SaveCrashes(m) /\ UNCHANGED executions
  BY DEF Start, IsAt
<1>2. /\ told \in [Tasks -> Answers] /\ executions \in [Tasks -> Nat]
      /\ MemoryFits(mgr, told, executions, Exact) /\ mgr.queue \in Seq(Tasks)
  BY <1>1 DEF MInv, TypeOK, Answers, MemoryFits, Memories
<1>3. t \in Tasks
  BY <1>1, <1>2, HeadTailProperties
<1>4. /\ executions' \in {executions, [executions EXCEPT ![t] = @ + 1]}
      /\ executions' \in [Tasks -> Nat]
  BY <1>1, <1>2, <1>3
<1> HIDE DEF t
<1>5. /\ MemoryFits(m, told, executions', Exact)
      /\ \A u \in Tasks : Moves(mgr.tasks[u], m.tasks[u])
  <2>1. t = Head(mgr.queue)
    BY DEF t
  <2> QED  BY <1>1, <1>3, <1>4, <2>1, StartsTaskFits
<1>6. Exact' => Exact
  BY <1>1, UseKeeps, UsedStays DEF Saved, SaveFails, SaveCrashes, Failing, Crashing
<1>7. Exact => executions[t] = 0
  BY <1>1, <1>2, <1>3 DEF MemoryFits, RecordFits, IsRunnable
<1>8. Exact' => \A u \in Tasks : executions'[u] <= 1
  BY <1>2, <1>3, <1>4, <1>6, <1>7 DEF MInv
<1> HIDE DEF m
<1> QED  BY <1>1, <1>2, <1>4, <1>5, <1>8, SaveKeeps

(* An end is saved, or its write fails or is cut short. *)
LEMMA FinishStep ==
  ASSUME MInv, NEW w \in Workers, IsAt(w, "Run"), NEW reason \in Reasons, Finish(w, reason)
  PROVE  MInv' /\ OwnersMove
<1> DEFINE m == Finished(w, reason)
<1>1. /\ MemoryFits(m, told, executions, Exact)
      /\ \A u \in Tasks : Moves(mgr.tasks[u], m.tasks[u])
  BY FinishedFits
<1>2. /\ IsUp /\ UNCHANGED <<told, executions>>
      /\ Saved(m) \/ SaveFails(m) \/ SaveCrashes(m)
  BY DEF Finish, IsAt
<1>3. told \in [Tasks -> Answers] /\ executions \in [Tasks -> Nat]
  BY DEF MInv, TypeOK, Answers
<1>4. Exact' => Exact
  BY <1>2, UseKeeps, UsedStays DEF Saved, SaveFails, SaveCrashes, Failing, Crashing
<1>5. Exact' => \A t \in Tasks : executions'[t] <= 1
  BY <1>2, <1>4 DEF MInv
<1> HIDE DEF m
<1> QED  BY <1>1, <1>2, <1>3, <1>5, SaveKeeps

(* Both ways a run ends. *)
LEMMA EndSteps ==
  ASSUME MInv, NEW w \in Workers, Report(w) \/ Terminalize(w)
  PROVE  MInv' /\ OwnersMove
<1>1. IsAt(w, "Run") /\ mgr.worker[w].interrupt \in Reasons \cup {"None"}
  BY WorkerParts DEF Report, Terminalize, IsAt, MInv, MemoryFits, Memories
<1>2. CASE Report(w)
  <2>1. PICK report \in Reports(mgr.worker[w].task) :
          Finish(w, Preserved(mgr.worker[w].interrupt, report))
    BY <1>2 DEF Report
  <2>2. Preserved(mgr.worker[w].interrupt, report) \in Reasons
    BY DEF Preserved, Reports, Reasons, Timeouts
  <2> QED  BY <1>1, <2>1, <2>2, FinishStep
<1>3. CASE Terminalize(w)
  <2>1. /\ Finish(w, AfterGrace(mgr.worker[w].interrupt))
        /\ AfterGrace(mgr.worker[w].interrupt) \in Reasons
    BY <1>1, <1>3 DEF Terminalize, AfterGrace, Reasons
  <2> QED  BY <1>1, <2>1, FinishStep
<1> QED  BY <1>2, <1>3

(* A cancellation, whether or not its writes succeed. *)
LEMMA CancelSteps ==
  ASSUME MInv, NEW t \in Tasks, Cancel(t) \/ CancelFails(t)
  PROVE  MInv' /\ OwnersMove
<1> DEFINE m == Canceled(t)
<1>1. /\ IsUp /\ MayCancel(t) /\ UNCHANGED executions
      /\ \/ Saved(m) /\ told' = [told EXCEPT ![t] = Disposition(t)]
         \/ (SaveFails(m) \/ SaveCrashes(m)) /\ UNCHANGED told
  BY DEF Cancel, CancelFails, MayCancel
<1>2. told \in [Tasks -> Answers] /\ executions \in [Tasks -> Nat]
  BY DEF MInv, TypeOK, Answers
<1>3. Disposition(t) \in Answers
  BY <1>2 DEF Disposition, Answers
<1>4. /\ told' \in [Tasks -> Answers]
      /\ told' \in {[told EXCEPT ![t] = said] : said \in {told[t], Disposition(t)}}
  BY <1>1, <1>2, <1>3
<1>5. /\ MemoryFits(m, told', executions, Exact)
      /\ \A u \in Tasks : Moves(mgr.tasks[u], m.tasks[u])
  BY <1>1, <1>4, CanceledFits
<1>6. Exact' => Exact
  BY <1>1, UseKeeps, UsedStays DEF Saved, SaveFails, SaveCrashes, Failing, Crashing
<1>7. Exact' => \A u \in Tasks : executions'[u] <= 1
  BY <1>1, <1>6 DEF MInv
<1> HIDE DEF m
<1> QED  BY <1>1, <1>2, <1>4, <1>5, <1>7, SaveKeeps

(* A new task is at the end of the queue, whoever is woken for it.         *)
LEMMA EnqueuedParts ==
  ASSUME mgr \in Memories, NEW t \in Tasks, NEW m \in Notified(Enqueued(t))
  PROVE  /\ m.tasks = [mgr.tasks EXCEPT ![t] = NewRecord] /\ m.queue = Append(mgr.queue, t)
         /\ m.token = mgr.token
         /\ \/ m.worker = mgr.worker
            \/ \E w \in Workers : m.worker = [mgr.worker EXCEPT ![w] = Idle("Poll")]
         /\ m \in Memories /\ Enqueued(t).queue = m.queue
<1> DEFINE e == Enqueued(t)
<1>1. /\ e \in Memories /\ e.tasks = [mgr.tasks EXCEPT ![t] = NewRecord]
      /\ e.queue = Append(mgr.queue, t) /\ e.token = mgr.token /\ e.worker = mgr.worker
  <2>1. NewRecord \in Records /\ Append(mgr.queue, t) \in Seq(Tasks)
    BY AppendProperties DEF NewRecord, Records, Memories
  <2> QED  BY <2>1 DEF Enqueued, Memories
<1> HIDE DEF e
<1>2. CASE Parked = {}
  <2>1. m = [e EXCEPT !.permit = TRUE]
    BY <1>2 DEF Notified, e
  <2> QED  BY <1>1, <2>1 DEF Memories, e
<1>3. CASE Parked # {}
  <2>1. PICK w \in Workers : m = [e EXCEPT !.worker[w] = Idle("Poll")]
    BY <1>3 DEF Notified, Parked, e
  <2>2. Idle("Poll") \in WorkerStates
    BY IdleFits
  <2>3. /\ m.tasks = e.tasks /\ m.queue = e.queue /\ m.token = e.token
        /\ m.worker = [e.worker EXCEPT ![w] = Idle("Poll")] /\ m \in Memories
    BY <1>1, <2>1, <2>2 DEF Memories
  <2> QED  BY <1>1, <2>3 DEF e
<1> QED  BY <1>2, <1>3

(* A task that nobody has asked for. *)
LEMMA NewTask ==
  ASSUME MInv, NEW t \in Tasks, IsNewId(t)
  PROVE  /\ IsUp /\ mgr \in Memories /\ MemoryFits(mgr, told, executions, Exact)
         /\ told[t] = "Nothing" /\ mgr.tasks[t] = Absent /\ disk.file[t] = Absent
         /\ executions[t] = 0
         /\ mgr.queue \in Seq(Tasks) /\ Append(mgr.queue, t) \in Seq(Tasks)
         /\ Distinct(Append(mgr.queue, t))
         /\ ItemsOf(Append(mgr.queue, t)) = QueuedIn(mgr.tasks) \cup {t}
<1>1. /\ IsUp /\ mgr \in Memories /\ MemoryFits(mgr, told, executions, Exact)
      /\ told[t] = "Nothing" /\ mgr.tasks[t] = Absent /\ disk.file[t] = Absent
      /\ mgr.queue \in Seq(Tasks)
  BY DEF IsNewId, MInv, MemoryFits, Memories
<1>2. executions[t] = 0
  BY <1>1 DEF MemoryFits, RecordFits
<1>3. Distinct(mgr.queue) /\ ItemsOf(mgr.queue) = QueuedIn(mgr.tasks) /\ t \notin ItemsOf(mgr.queue)
  BY <1>1 DEF MemoryFits, QueuedIn
<1> QED  BY <1>1, <1>2, <1>3, AppendFits

(* An added task leaves a memory that fits. *)
LEMMA EnqueuedFits ==
  ASSUME MInv, NEW t \in Tasks, IsNewId(t), NEW m \in Notified(Enqueued(t))
  PROVE  MemoryFits(m, [told EXCEPT ![t] = "Added"], executions, Exact)
<1> DEFINE answers == [told EXCEPT ![t] = "Added"]
<1>1. /\ mgr \in Memories /\ MemoryFits(mgr, told, executions, Exact)
      /\ executions[t] = 0 /\ mgr.tasks[t] = Absent
      /\ Append(mgr.queue, t) \in Seq(Tasks) /\ Distinct(Append(mgr.queue, t))
      /\ ItemsOf(Append(mgr.queue, t)) = QueuedIn(mgr.tasks) \cup {t}
  BY NewTask
<1>2. /\ m.tasks = [mgr.tasks EXCEPT ![t] = NewRecord] /\ m.queue = Append(mgr.queue, t)
      /\ m.token = mgr.token /\ m \in Memories
      /\ \/ m.worker = mgr.worker
         \/ \E w \in Workers : m.worker = [mgr.worker EXCEPT ![w] = Idle("Poll")]
  BY <1>1, EnqueuedParts
<1>3. /\ mgr.tasks \in [Tasks -> Records \cup {Absent}] /\ NewRecord \in Records
      /\ NewRecord.status = "Queued" /\ mgr.worker \in [Workers -> WorkerStates]
  BY <1>1 DEF NewRecord, Records, Memories
<1>4. /\ m.tasks[t] = NewRecord /\ NewRecord # Absent
      /\ \A u \in Tasks \ {t} : m.tasks[u] = mgr.tasks[u]
  BY <1>2, <1>3, OneTaskSet
<1>5. QueuedIn(m.tasks) = QueuedIn(mgr.tasks) \cup {t}
  BY <1>3, <1>4 DEF QueuedIn
<1>6. \A u \in Tasks : answers[u] = IF u = t THEN "Added" ELSE told[u]
  BY DEF MInv, TypeOK
<1> HIDE DEF answers
<1>7. \A w \in Workers, u \in Tasks : Runs(m.worker[w], u) => Runs(mgr.worker[w], u)
  BY <1>2, <1>3, IdleFits DEF Runs
<1>8. \A w \in Workers : ~Runs(mgr.worker[w], t)
  BY <1>1 DEF MemoryFits
<1>9. \A w \in Workers, u \in Tasks :
        Runs(m.worker[w], u) => /\ m.tasks[u] # Absent /\ m.tasks[u].status = "Running"
                                /\ \A v \in Workers : Runs(m.worker[v], u) => v = w
  BY <1>1, <1>4, <1>7, <1>8 DEF MemoryFits
<1>10. ASSUME NEW u \in Tasks
       PROVE  /\ RecordFits(m.tasks[u], answers[u], executions[u], Exact)
              /\ answers[u] = "Requested" /\ m.tasks[u].status = "Running" => u \in m.token
  <2>1. CASE u = t
    BY <1>1, <1>3, <1>4, <1>6, <2>1 DEF RecordFits
  <2>2. CASE u # t
    BY <1>1, <1>2, <1>4, <1>6, <2>2 DEF MemoryFits
  <2> QED  BY <2>1, <2>2
<1>11. MemoryFits(m, answers, executions, Exact)
  BY <1>1, <1>2, <1>5, <1>9, <1>10 DEF MemoryFits
<1> QED  BY <1>11 DEF answers

(* add_task, when all its writes succeed, *)
LEMMA AddStep == ASSUME MInv, NEW t \in Tasks, Add(t) PROVE MInv' /\ OwnersMove
<1> DEFINE answers == [told EXCEPT ![t] = "Added"]
<1>1. /\ IsNewId(t) /\ mgr' \in Notified(Enqueued(t)) /\ told' = answers
      /\ disk' = [disk EXCEPT !.queue = Enqueued(t).queue, !.file[t] = NewRecord]
      /\ UNCHANGED <<executions, used>>
  BY DEF Add
<1>2. /\ IsUp /\ mgr \in Memories /\ told[t] = "Nothing" /\ mgr.tasks[t] = Absent
      /\ disk.file[t] = Absent /\ executions[t] = 0
      /\ Append(mgr.queue, t) \in Seq(Tasks) /\ Distinct(Append(mgr.queue, t))
  BY <1>1, NewTask
<1>3. /\ mgr'.tasks = [mgr.tasks EXCEPT ![t] = NewRecord] /\ mgr' \in Memories
      /\ Enqueued(t).queue = Append(mgr.queue, t)
  BY <1>1, <1>2, EnqueuedParts
<1>4. MemoryFits(mgr', told', executions, Exact)
  BY <1>1, EnqueuedFits
<1>5. UsedOK' /\ Exact' = Exact
  BY <1>1, UsedStays
<1>6. mgr' # Down /\ NewRecord \in Records /\ NewRecord # Absent /\ NewRecord.status = "Queued"
  BY <1>3, ValueAssumption DEF NewRecord, Records
<1>7. /\ mgr.tasks \in [Tasks -> Records \cup {Absent}]
      /\ disk \in [file: [Tasks -> Records \cup {Absent}], queue: Seq(Tasks),
                   staged: SUBSET Tasks]
      /\ told \in [Tasks -> Answers] /\ executions \in [Tasks -> Nat]
  BY <1>2 DEF MInv, TypeOK, Memories, Answers
<1>8. /\ disk' \in [file: [Tasks -> Records \cup {Absent}], queue: Seq(Tasks),
                    staged: SUBSET Tasks]
      /\ disk'.queue = Append(mgr.queue, t) /\ disk'.file = [disk.file EXCEPT ![t] = NewRecord]
  BY <1>1, <1>2, <1>3, <1>6, <1>7
<1>9. told' \in [Tasks -> Answers]
  BY <1>1, <1>7 DEF Answers
<1>10. TypeOK'
  BY <1>1, <1>3, <1>5, <1>7, <1>8, <1>9 DEF TypeOK, UsedOK, Answers
<1>11. \A u \in Tasks : /\ mgr'.tasks[u] = IF u = t THEN NewRecord ELSE mgr.tasks[u]
                        /\ disk'.file[u] = IF u = t THEN NewRecord ELSE disk.file[u]
                        /\ told'[u] = IF u = t THEN "Added" ELSE told[u]
  BY <1>1, <1>3, <1>7, <1>8
<1>12. \A u \in Tasks : RecordFits(disk'.file[u], told'[u], executions'[u], Exact')
  BY <1>1, <1>2, <1>5, <1>6, <1>11 DEF MInv, RecordFits
<1>13. /\ \A u \in Tasks : mgr'.tasks[u] = Absent <=> disk'.file[u] = Absent
       /\ Exact' => mgr'.tasks = disk'.file
  BY <1>2, <1>3, <1>5, <1>8, <1>11 DEF MInv
<1>14. Exact' => \A u \in Tasks : executions'[u] <= 1
  BY <1>1, <1>5 DEF MInv
<1>15. MInv'
  BY <1>1, <1>2, <1>4, <1>5, <1>8, <1>10, <1>12, <1>13, <1>14 DEF MInv, UsedOK, IsUp
<1>16. OwnersMove
  BY <1>2, <1>5, <1>6, <1>11 DEF OwnersMove, Owner, IsUp, Moves
<1> QED  BY <1>15, <1>16

(* when one fails, and it is taken back, *)
LEMMA AddFailsStep == ASSUME MInv, NEW t \in Tasks, AddFails(t) PROVE MInv' /\ OwnersMove
<1>1. /\ IsNewId(t) /\ Use("refusals") /\ UNCHANGED <<mgr, executions>>
      /\ told' = [told EXCEPT ![t] = "Refused"]
  BY DEF AddFails, Refusing
<1>2. /\ IsUp /\ mgr \in Memories /\ MemoryFits(mgr, told, executions, Exact)
      /\ told[t] = "Nothing" /\ mgr.tasks[t] = Absent
      /\ disk.file[t] = Absent /\ executions[t] = 0 /\ mgr.queue \in Seq(Tasks)
      /\ Append(mgr.queue, t) \in Seq(Tasks) /\ Distinct(Append(mgr.queue, t))
  BY <1>1, NewTask
<1>3. Enqueued(t).queue = Append(mgr.queue, t)
  BY <1>2 DEF Enqueued, Memories
<1>4. PICK staged \in {disk.staged, disk.staged \cup {t}},
           queue \in {disk.queue, mgr.queue, Append(mgr.queue, t)} :
        disk' = [disk EXCEPT !.staged = staged, !.queue = queue]
  BY <1>3 DEF AddFails
<1>5. /\ disk \in [file: [Tasks -> Records \cup {Absent}], queue: Seq(Tasks),
                   staged: SUBSET Tasks]
      /\ told \in [Tasks -> Answers] /\ executions \in [Tasks -> Nat] /\ Distinct(disk.queue)
  BY DEF MInv, TypeOK, Answers
<1>6. queue \in Seq(Tasks) /\ Distinct(queue) /\ staged \in SUBSET Tasks
  BY <1>2, <1>5 DEF MemoryFits
<1>7. /\ disk' \in [file: [Tasks -> Records \cup {Absent}], queue: Seq(Tasks),
                    staged: SUBSET Tasks]
      /\ disk'.queue = queue /\ disk'.file = disk.file
  BY <1>4, <1>5, <1>6
<1>8. UsedOK' /\ Exact' = Exact
  BY <1>1, UseKeeps
<1>9. \A u \in Tasks : told'[u] = IF u = t THEN "Refused" ELSE told[u]
  BY <1>1, <1>5
<1>10. TypeOK'
  <2>1. told' \in [Tasks -> Answers]
    BY <1>1, <1>5 DEF Answers
  <2> QED  BY <1>1, <1>2, <1>5, <1>7, <1>8, <2>1 DEF TypeOK, UsedOK, Answers
<1>11. MemoryFits(mgr, told', executions, Exact)
  BY <1>2, <1>9 DEF MemoryFits, RecordFits
<1>12. \A u \in Tasks : RecordFits(disk'.file[u], told'[u], executions'[u], Exact')
  BY <1>1, <1>2, <1>7, <1>8, <1>9 DEF MInv, RecordFits
<1>13. MInv'
  BY <1>1, <1>6, <1>7, <1>8, <1>10, <1>11, <1>12 DEF MInv, UsedOK, IsUp
<1>14. OwnersMove
  BY <1>1, <1>7, <1>8 DEF OwnersMove, Owner, IsUp, Moves
<1> QED  BY <1>13, <1>14

(* While the process is down, the disk is all there is.                    *)
LEMMA DownKeeps ==
  ASSUME MInv, mgr' = Down, UNCHANGED <<told, executions>>, UsedOK', Exact' => Exact,
         disk' \in [file: [Tasks -> Records \cup {Absent}], queue: Seq(Tasks),
                    staged: SUBSET Tasks],
         Distinct(disk'.queue),
         \A t \in Tasks : RecordFits(disk'.file[t], told[t], executions[t], Exact),
         Exact' => \A t \in Tasks : disk.file[t] # Absent => Moves(disk.file[t], disk'.file[t])
  PROVE  MInv' /\ OwnersMove
<1>1. TypeOK'
  BY DEF MInv, TypeOK, UsedOK
<1>2. \A t \in Tasks : RecordFits(disk'.file[t], told'[t], executions'[t], Exact')
  BY DEF RecordFits
<1>3. MInv'
  BY <1>1, <1>2 DEF MInv, UsedOK, IsUp
<1>4. OwnersMove
  BY DEF OwnersMove, Owner, IsUp, MInv
<1> QED  BY <1>3, <1>4

(* and when the process dies in it. *)
LEMMA AddCrashesStep == ASSUME MInv, NEW t \in Tasks, AddCrashes(t) PROVE MInv' /\ OwnersMove
<1>1. IsNewId(t) /\ Use("crashes") /\ mgr' = Down /\ UNCHANGED <<told, executions>>
  BY DEF AddCrashes, Crashing
<1>2. /\ mgr \in Memories /\ told[t] = "Nothing" /\ disk.file[t] = Absent /\ executions[t] = 0
      /\ Append(mgr.queue, t) \in Seq(Tasks) /\ Distinct(Append(mgr.queue, t))
  BY <1>1, NewTask
<1>3. Enqueued(t).queue = Append(mgr.queue, t)
  BY <1>2 DEF Enqueued, Memories
<1>4. UsedOK' /\ Exact' = Exact
  BY <1>1, UseKeeps
<1>5. /\ disk \in [file: [Tasks -> Records \cup {Absent}], queue: Seq(Tasks),
                   staged: SUBSET Tasks]
      /\ Distinct(disk.queue)
  BY DEF MInv, TypeOK
<1>6. NewRecord \in Records /\ NewRecord # Absent
  BY ValueAssumption DEF NewRecord, Records
<1>7. /\ disk' \in [file: [Tasks -> Records \cup {Absent}], queue: Seq(Tasks),
                    staged: SUBSET Tasks]
      /\ Distinct(disk'.queue)
      /\ \A u \in Tasks : disk'.file[u] = disk.file[u]
                          \/ (u = t /\ disk'.file[u] = NewRecord)
  <2>1. CASE \E queue \in {disk.queue, Append(mgr.queue, t)} :
               disk' = [disk EXCEPT !.staged = @ \cup {t}, !.queue = queue]
    <3>1. PICK queue \in {disk.queue, Append(mgr.queue, t)} :
            disk' = [disk EXCEPT !.staged = @ \cup {t}, !.queue = queue]
      BY <2>1
    <3>2. /\ queue \in Seq(Tasks) /\ Distinct(queue)
          /\ disk.staged \cup {t} \in SUBSET Tasks
      BY <1>2, <1>5
    <3>3. disk'.file = disk.file /\ disk'.queue = queue /\ disk'.staged = disk.staged \cup {t}
      BY <1>5, <3>1
    <3> QED  BY <1>5, <3>1, <3>2, <3>3
  <2>2. CASE disk' = [disk EXCEPT !.queue = Append(mgr.queue, t), !.file[t] = NewRecord]
    BY <1>2, <1>5, <1>6, <2>2
  <2> QED  BY <1>3, <2>1, <2>2 DEF AddCrashes
<1>8. \A u \in Tasks : RecordFits(disk'.file[u], told[u], executions[u], Exact)
  BY <1>2, <1>6, <1>7 DEF MInv, RecordFits
<1>9. \A u \in Tasks : disk.file[u] # Absent => Moves(disk.file[u], disk'.file[u])
  BY <1>2, <1>7 DEF Moves
<1> QED  BY <1>1, <1>4, <1>7, <1>8, <1>9, DownKeeps

(* A crash between two operations. *)
LEMMA CrashStep == ASSUME MInv, Crash PROVE MInv' /\ OwnersMove
<1>1. UsedOK' /\ Exact' = Exact
  BY UseKeeps DEF Crash, Crashing
<1>2. mgr' = Down /\ UNCHANGED <<disk, told, executions>>
  BY DEF Crash
<1>3. /\ disk' \in [file: [Tasks -> Records \cup {Absent}], queue: Seq(Tasks),
                    staged: SUBSET Tasks]
      /\ Distinct(disk'.queue)
  BY <1>2 DEF MInv, TypeOK
<1> QED  BY <1>1, <1>2, <1>3, DownKeeps DEF MInv, Moves

(* A restart runs nothing again: what was Running has failed.              *)
LEMMA RecoveredFits ==
  ASSUME NEW r \in Records \cup {Absent}
  PROVE  /\ Recovered(r) \in Records \cup {Absent}
         /\ r = Absent <=> Recovered(r) = Absent
         /\ Moves(r, Recovered(r))
         /\ Recovered(r) # Absent => Recovered(r).status # "Running"
         /\ \A said, runs, exact :
              RecordFits(r, said, runs, exact) => RecordFits(Recovered(r), said, runs, exact)
<1> DEFINE s == [status |-> "Failed", seq |-> r.seq + 1, reason |-> "Failed"]
<1>1. CASE r # Absent /\ r.status = "Running"
  <2>1. r \in Records /\ r.seq \in Nat
    BY <1>1, RecordParts
  <2>2. s \in Records /\ s # Absent /\ s.status = "Failed" /\ s.seq > r.seq
    BY <2>1, ValueAssumption DEF Records, Ended, Reasons
  <2>3. Recovered(r) = s
    BY <1>1 DEF Recovered
  <2> HIDE DEF s
  <2> QED  BY <1>1, <2>1, <2>2, <2>3 DEF Moves, RecordFits, Ended
<1>2. CASE ~(r # Absent /\ r.status = "Running")
  BY <1>2 DEF Recovered, Moves
<1> QED  BY <1>1, <1>2

(* What load_state reads and writes. *)
LEMMA BootParts ==
  ASSUME MInv, NEW ts \in SUBSET Tasks, BootWrites(ts)
  PROVE  /\ Loaded \in [Tasks -> Records \cup {Absent}]
         /\ LoadedQueue(Loaded) \in Seq(Tasks) /\ Distinct(LoadedQueue(Loaded))
         /\ ItemsOf(LoadedQueue(Loaded)) = QueuedIn(Loaded)
         /\ disk' \in [file: [Tasks -> Records \cup {Absent}], queue: Seq(Tasks),
                       staged: SUBSET Tasks]
         /\ disk'.queue = LoadedQueue(Loaded)
         /\ \A t \in Tasks : /\ Loaded[t] = Recovered(disk.file[t])
                             /\ disk.file[t] \in Records \cup {Absent}
                             /\ disk'.file[t] = IF t \in ts THEN Loaded[t] ELSE disk.file[t]
<1>1. /\ disk \in [file: [Tasks -> Records \cup {Absent}], queue: Seq(Tasks),
                   staged: SUBSET Tasks]
      /\ Distinct(disk.queue)
  BY DEF MInv, TypeOK
<1>2. Loaded \in [Tasks -> Records \cup {Absent}]
  BY <1>1, RecoveredFits DEF Loaded
<1>3. /\ LoadedQueue(Loaded) \in Seq(Tasks) /\ Distinct(LoadedQueue(Loaded))
      /\ ItemsOf(LoadedQueue(Loaded)) = QueuedIn(Loaded)
  BY <1>1, LoadedQueueFits
<1>4. \A t \in Tasks : Loaded[t] = Recovered(disk.file[t])
  BY DEF Loaded
<1> DEFINE file == [t \in Tasks |-> IF t \in ts THEN Loaded[t] ELSE disk.file[t]]
           queue == LoadedQueue(Loaded)
<1>5. file \in [Tasks -> Records \cup {Absent}]
  BY <1>1, <1>2
<1>6. disk' = [disk EXCEPT !.queue = queue, !.file = file]
  BY DEF BootWrites
<1> HIDE DEF file, queue
<1>7. disk'.file = file /\ disk'.queue = queue /\ disk'.staged = disk.staged
  BY <1>1, <1>6
<1>8. disk' \in [file: [Tasks -> Records \cup {Absent}], queue: Seq(Tasks),
                 staged: SUBSET Tasks]
  BY <1>1, <1>3, <1>5, <1>6, <1>7 DEF queue
<1> QED  BY <1>1, <1>2, <1>3, <1>4, <1>7, <1>8 DEF file, queue

(* A restart brings memory and disk together. *)
LEMMA BootStep == ASSUME MInv, Boot PROVE MInv' /\ OwnersMove
<1> DEFINE pool == used.scenario.pool  queue == LoadedQueue(Loaded)
           m == Started(Loaded, queue, pool)
<1>1. /\ mgr = Down /\ mgr' = m /\ BootWrites(Tasks) /\ UNCHANGED <<told, executions, used>>
  BY DEF Boot
<1>2. /\ Loaded \in [Tasks -> Records \cup {Absent}]
      /\ queue \in Seq(Tasks) /\ Distinct(queue) /\ ItemsOf(queue) = QueuedIn(Loaded)
      /\ disk' \in [file: [Tasks -> Records \cup {Absent}], queue: Seq(Tasks),
                    staged: SUBSET Tasks]
      /\ disk'.queue = queue
      /\ \A t \in Tasks : /\ Loaded[t] = Recovered(disk.file[t])
                          /\ disk.file[t] \in Records \cup {Absent}
                          /\ disk'.file[t] = Loaded[t]
  BY <1>1, BootParts
<1>3. \A t \in Tasks : /\ Moves(disk.file[t], Loaded[t])
                       /\ Loaded[t] # Absent => Loaded[t].status # "Running"
                       /\ RecordFits(Loaded[t], told[t], executions[t], Exact)
  BY <1>2, RecoveredFits DEF MInv
<1> HIDE DEF queue
<1>4. /\ m.tasks = Loaded /\ m.queue = queue /\ m.token = {} /\ m.permit = FALSE
      /\ \A w \in Workers : \E step \in {"Poll", "Exited"} : m.worker[w] = Idle(step)
  BY DEF Started
<1>5. m \in Memories
  <2>1. [w \in Workers |-> Idle(IF w \in pool THEN "Poll" ELSE "Exited")]
          \in [Workers -> WorkerStates]
    BY IdleFits
  <2> QED  BY <1>2, <2>1 DEF Started, Memories
<1> HIDE DEF m
<1>6. \A w \in Workers, t \in Tasks : ~Runs(m.worker[w], t)
  BY <1>4, IdleFits DEF Runs
<1>7. MemoryFits(m, told, executions, Exact)
  <2>1. \A t \in Tasks : told[t] = "Requested" => m.tasks[t].status # "Running"
    BY <1>3, <1>4 DEF RecordFits
  <2> QED  BY <1>2, <1>3, <1>4, <1>5, <1>6, <2>1 DEF MemoryFits
<1>8. UsedOK' /\ Exact' = Exact
  BY <1>1, UsedStays
<1>9. TypeOK'
  BY <1>1, <1>2, <1>5, <1>8 DEF MInv, TypeOK, UsedOK
<1>10. m.tasks = disk'.file
  BY <1>2, <1>4
<1>11. MInv'
  BY <1>1, <1>2, <1>3, <1>7, <1>8, <1>9, <1>10 DEF MInv, UsedOK
<1>12. OwnersMove
  BY <1>1, <1>3, <1>4, <1>5, <1>8, ValueAssumption DEF OwnersMove, Owner, IsUp
<1> QED  BY <1>11, <1>12

(* One that is cut short leaves some of the records recovered. *)
LEMMA BootFailsStep == ASSUME MInv, BootFails PROVE MInv' /\ OwnersMove
<1>1. /\ mgr' = Down /\ UNCHANGED <<told, executions>>
      /\ Use("crashes") \/ Use("errors")
  BY DEF BootFails, Crashing, Failing
<1>2. PICK ts \in SUBSET Tasks : BootWrites(ts)
  BY DEF BootFails
<1>3. UsedOK' /\ (Exact' => Exact)
  BY <1>1, UseKeeps
<1>4. /\ LoadedQueue(Loaded) \in Seq(Tasks) /\ Distinct(LoadedQueue(Loaded))
      /\ disk' \in [file: [Tasks -> Records \cup {Absent}], queue: Seq(Tasks),
                    staged: SUBSET Tasks]
      /\ disk'.queue = LoadedQueue(Loaded)
      /\ \A t \in Tasks : /\ Loaded[t] = Recovered(disk.file[t])
                          /\ disk.file[t] \in Records \cup {Absent}
                          /\ disk'.file[t] \in {Loaded[t], disk.file[t]}
  BY <1>2, BootParts
<1>5. \A t \in Tasks : RecordFits(disk'.file[t], told[t], executions[t], Exact)
  BY <1>4, RecoveredFits DEF MInv
<1>6. \A t \in Tasks : Moves(disk.file[t], disk'.file[t])
  BY <1>4, RecoveredFits DEF Moves
<1> QED  BY <1>1, <1>3, <1>4, <1>5, <1>6, DownKeeps

(* An event of the executor brings one file up to date. *)
LEMMA FlushStep == ASSUME MInv, NEW w \in Workers, Flush(w) PROVE MInv' /\ OwnersMove
<1> DEFINE t == mgr.worker[w].task
<1>1. /\ IsAt(w, "Run") /\ IsUp /\ UNCHANGED <<mgr, told, executions, used>>
      /\ disk.file[t] # mgr.tasks[t] /\ disk' = [disk EXCEPT !.file[t] = mgr.tasks[t]]
  BY DEF Flush, IsAt
<1>2. mgr \in Memories /\ MemoryFits(mgr, told, executions, Exact)
  BY <1>1 DEF MInv, MemoryFits
<1>3. t \in Tasks /\ Runs(mgr.worker[w], t)
  BY <1>1, <1>2, WorkerParts DEF IsAt, Runs, Memories
<1> HIDE DEF t
<1>4. mgr.tasks[t] # Absent /\ mgr.tasks[t] \in Records
  BY <1>2, <1>3 DEF MemoryFits, Memories
<1>5. disk \in [file: [Tasks -> Records \cup {Absent}], queue: Seq(Tasks),
                staged: SUBSET Tasks]
  BY DEF MInv, TypeOK
<1>6. /\ disk' \in [file: [Tasks -> Records \cup {Absent}], queue: Seq(Tasks),
                    staged: SUBSET Tasks]
      /\ disk'.queue = disk.queue
      /\ \A u \in Tasks : disk'.file[u] = IF u = t THEN mgr.tasks[t] ELSE disk.file[u]
  BY <1>1, <1>3, <1>4, <1>5
<1>7. UsedOK' /\ Exact' = Exact /\ ~Exact
  BY <1>1, UsedStays DEF MInv
<1>8. TypeOK'
  BY <1>1, <1>6, <1>7 DEF MInv, TypeOK, UsedOK
<1>9. \A u \in Tasks : RecordFits(disk'.file[u], told[u], executions[u], Exact)
  BY <1>2, <1>3, <1>6 DEF MInv, MemoryFits
<1>10. MInv'
  BY <1>1, <1>2, <1>4, <1>6, <1>7, <1>8, <1>9 DEF MInv, UsedOK, IsUp
<1> QED  BY <1>7, <1>10 DEF OwnersMove

(* The invariant of the manager holds at first, *)
LEMMA ManagerInit == Init => MInv
<1> SUFFICES ASSUME Init PROVE MInv
  OBVIOUS
<1> DEFINE none == [t \in Tasks |-> Absent]
<1>1. /\ used \in [crashes: {0}, errors: {0}, refusals: {0}, scenario: Scenarios]
      /\ mgr = Started(none, <<>>, used.scenario.pool)
      /\ disk = [file |-> none, queue |-> <<>>, staged |-> {}]
      /\ told = [t \in Tasks |-> "Nothing"] /\ executions = [t \in Tasks |-> 0]
  BY DEF Init
<1>2. UsedOK
  <2>1. used.scenario \in [pool: SUBSET Workers, session: SUBSET Tasks, others: SUBSET Tasks,
                           crashes: Nat, errors: Nat, refusals: Nat]
    BY <1>1, ScenarioAssumption
  <2> QED  BY <1>1, <2>1 DEF UsedOK, UsedFits
<1>3. /\ mgr.tasks = none /\ mgr.queue = <<>> /\ mgr.token = {} /\ mgr.permit = FALSE
      /\ \A w \in Workers : \E step \in {"Poll", "Exited"} : mgr.worker[w] = Idle(step)
  BY <1>1 DEF Started
<1>4. mgr \in Memories
  <2>1. [w \in Workers |-> Idle(IF w \in used.scenario.pool THEN "Poll" ELSE "Exited")]
          \in [Workers -> WorkerStates]
    BY IdleFits
  <2> QED  BY <1>1, <2>1, EmptyFits DEF Started, Memories
<1>5. \A w \in Workers, t \in Tasks : ~Runs(mgr.worker[w], t)
  BY <1>3, IdleFits DEF Runs
<1>6. QueuedIn(mgr.tasks) = {}
  BY <1>3 DEF QueuedIn
<1>7. TypeOK
  BY <1>1, <1>2, <1>4, EmptyFits DEF TypeOK, UsedOK
<1>8. MemoryFits(mgr, told, executions, Exact)
  BY <1>1, <1>3, <1>4, <1>5, <1>6, EmptyFits DEF MemoryFits, RecordFits
<1> QED  BY <1>1, <1>2, <1>3, <1>7, <1>8, EmptyFits DEF MInv, UsedOK, RecordFits

(* An answer that refused a task is the last one about it.                 *)
AnswersStay == \A t \in Tasks : told[t] = "Refused" => told'[t] = "Refused"

BackgroundStep ==
  (\E t \in Tasks : Call(t)) \/ (\E w \in Workers : WorkerStep(w)) \/ ProcessStep

(* after every step of it, *)
LEMMA ManagerStep == ASSUME MInv, BackgroundStep PROVE MInv' /\ OwnersMove /\ AnswersStay
<1>1. ASSUME NEW t \in Tasks, Call(t) PROVE MInv' /\ OwnersMove
  BY <1>1, AddStep, AddFailsStep, AddCrashesStep, CancelSteps DEF Call
<1>2. ASSUME NEW w \in Workers, WorkerStep(w) PROVE MInv' /\ OwnersMove
  BY <1>2, IdleSteps, StartStep, InterruptStep, EndSteps, FlushStep DEF WorkerStep, Advance
<1>3. ASSUME ProcessStep PROVE MInv' /\ OwnersMove
  BY <1>3, ShutdownStep, CrashStep, BootStep, BootFailsStep DEF ProcessStep
<1>4. AnswersStay
  <2>1. told \in [Tasks -> Answers]
    BY DEF MInv, TypeOK, Answers
  <2>2. ASSUME NEW t \in Tasks, Call(t) PROVE AnswersStay
    <3>1. CASE Add(t) \/ AddFails(t)
      BY <2>1, <3>1 DEF Add, AddFails, IsNewId, AnswersStay
    <3>2. CASE Cancel(t)
      BY <2>1, <3>2 DEF Cancel, MayCancel, AnswersStay
    <3>3. CASE AddCrashes(t) \/ CancelFails(t)
      BY <3>3 DEF AddCrashes, CancelFails, AnswersStay
    <3> QED  BY <2>2, <3>1, <3>2, <3>3 DEF Call
  <2>3. ASSUME NEW w \in Workers, WorkerStep(w) PROVE UNCHANGED told
    BY <2>3 DEF WorkerStep, Advance, FindNothing, Start, Wait, Exit, Interrupt, Report,
                Terminalize, Finish, Flush
  <2>4. ASSUME ProcessStep PROVE UNCHANGED told
    BY <2>4 DEF ProcessStep, Shutdown, Crash, Boot, BootFails
  <2> QED  BY <2>2, <2>3, <2>4 DEF BackgroundStep, AnswersStay
<1> QED  BY <1>1, <1>2, <1>3, <1>4 DEF BackgroundStep

(* and while it does nothing. *)
LEMMA ManagerIdle ==
  ASSUME MInv, UNCHANGED vars
  PROVE  /\ MInv' /\ OwnersMove /\ AnswersStay
         /\ Exact' = Exact /\ \A t \in Tasks : Owner(t)' = Owner(t)
<1>1. Exact' = Exact /\ (IsUp' <=> IsUp) /\ \A t \in Tasks : Owner(t)' = Owner(t)
  BY DEF vars, Exact, Owner, IsUp
<1>2. MInv'
  BY <1>1 DEF vars, MInv, TypeOK, UsedFits
<1> QED  BY <1>1, <1>2 DEF OwnersMove, AnswersStay, Moves, vars

(* What the manager, or its disk, says of a task is a record or nothing. *)
LEMMA OwnerFits ==
  /\ MInv => \A t \in Tasks : Owner(t) \in Records \cup {Absent}
  /\ MInv' => \A t \in Tasks : Owner(t)' \in Records \cup {Absent}
<1>1. ASSUME MInv PROVE \A t \in Tasks : Owner(t) \in Records \cup {Absent}
  <2>1. disk.file \in [Tasks -> Records \cup {Absent}]
    BY <1>1 DEF MInv, TypeOK
  <2>2. IsUp => mgr.tasks \in [Tasks -> Records \cup {Absent}]
    BY <1>1 DEF MInv, MemoryFits, Memories
  <2> QED  BY <2>1, <2>2 DEF Owner
<1>2. ASSUME MInv' PROVE \A t \in Tasks : Owner(t)' \in Records \cup {Absent}
  <2>1. disk'.file \in [Tasks -> Records \cup {Absent}]
    BY <1>2 DEF MInv, TypeOK
  <2>2. IsUp' => mgr'.tasks \in [Tasks -> Records \cup {Absent}]
    BY <1>2 DEF MInv, MemoryFits, Memories
  <2> QED  BY <2>1, <2>2 DEF Owner
<1> QED  BY <1>1, <1>2

(***************************************************************************)
(* Steps of the session.                                                   *)
(***************************************************************************)
(* What is past stays past while the task moves on.                        *)
LEMMA PastKeeps ==
  ASSUME NEW r \in Records, NEW now \in Records, NEW next \in Records,
         IsPast(r, now), Moves(now, next)
  PROVE  IsPast(r, next)
<1>1. r.seq \in Nat /\ now.seq \in Nat /\ next.seq \in Nat /\ next # Absent
  BY RecordParts
<1> QED  BY <1>1 DEF IsPast, Moves

(* The states that show an end are those of an ended task. *)
LEMMA EndedStates ==
  ASSUME NEW r \in Records
  PROVE  /\ StateOf(r.status) \in
              {"Initializing", "Active", "Completed", "Failed", "Cancelled", "Stale"}
         /\ StateOf(r.status) \in {"Completed", "Failed", "Cancelled"} => r.status \in Ended
         /\ r.status = "Canceled" <=> StateOf(r.status) = "Cancelled"
BY RecordParts DEF StateOf, Ended

(* The fields of an operation. *)
LEMMA OperationParts ==
  ASSUME NEW node \in Operations
  PROVE  /\ node.seen.seq \in Nat
         /\ node.state \in {"Initializing", "Active", "Completed", "Failed", "Cancelled", "Stale"}
BY DEF Operations

(* What an operation says stays so while its task moves on. *)
LEMMA NodeKeeps ==
  ASSUME NEW node \in Operations, NEW said, NEW after, said = "Refused" => after = "Refused",
         NEW now \in Records \cup {Absent}, NEW next \in Records \cup {Absent},
         now # Absent => Moves(now, next), NodeFits(node, said, now)
  PROVE  NodeFits(node, after, next)
<1>1. node.seen.seq \in Nat
  BY OperationParts
<1>2. CASE now = Absent
  BY <1>2 DEF NodeFits
<1>3. CASE now # Absent
  <2>1. /\ now \in Records /\ now.seq \in Nat
        /\ next \in Records /\ next.seq \in Nat /\ next # Absent
    <3>1. next # Absent
      BY <1>3 DEF Moves
    <3> QED  BY <1>3, <3>1, RecordParts
  <2>2. node.seen.seq > 0 /\ after # "Refused" =>
          /\ next # Absent /\ node.seen.seq <= next.seq
          /\ node.seen.seq = next.seq => node.seen.owner_state = next.status
    BY <1>1, <1>3, <2>1 DEF NodeFits, Moves
  <2>3. node.state \in {"Completed", "Failed", "Cancelled"} =>
          \/ after = "Refused" /\ node.state = "Failed"
          \/ next # Absent /\ node.state = StateOf(next.status)
    <3>1. StateOf(now.status) \in {"Completed", "Failed", "Cancelled"} => now.status \in Ended
      BY <2>1, EndedStates
    <3> QED  BY <1>3, <2>1, <3>1 DEF NodeFits, Moves
  <2> QED  BY <2>2, <2>3 DEF NodeFits
<1> QED  BY <1>2, <1>3

(* The same of all operations of a graph, *)
LEMMA GraphStays ==
  ASSUME MInv, MInv', OwnersMove, AnswersStay, NEW graph, GraphFits(graph)
  PROVE  /\ graph \in [Tasks -> Operations \cup {Absent}]
         /\ Exact' => \A t \in Tasks :
              graph[t] # Absent => NodeFits(graph[t], told'[t], Owner(t)')
<1>1. graph \in [Tasks -> Operations \cup {Absent}]
  BY DEF GraphFits
<1>2. ASSUME Exact', NEW t \in Tasks, graph[t] # Absent
      PROVE  NodeFits(graph[t], told'[t], Owner(t)')
  <2>1. NodeFits(graph[t], told[t], Owner(t)) /\ graph[t] \in Operations
    BY <1>1, <1>2 DEF GraphFits, OwnersMove
  <2>2. /\ Owner(t) # Absent => Moves(Owner(t), Owner(t)')
        /\ told[t] = "Refused" => told'[t] = "Refused"
    BY <1>2 DEF OwnersMove, AnswersStay
  <2>3. Owner(t) \in Records \cup {Absent} /\ Owner(t)' \in Records \cup {Absent}
    BY OwnerFits
  <2> QED  BY <2>1, <2>2, <2>3, NodeKeeps
<1> QED  BY <1>1, <1>2

(* A record that was past stays so in the next state.                      *)
LEMMA PastStays ==
  ASSUME MInv, MInv', OwnersMove, Exact'
  PROVE  \A t \in Tasks, r \in Records : IsPast(r, Owner(t)) => IsPast(r, Owner(t)')
<1> SUFFICES ASSUME NEW t \in Tasks, NEW r \in Records, IsPast(r, Owner(t))
             PROVE  IsPast(r, Owner(t)')
  OBVIOUS
<1>1. Owner(t) \in Records
  BY OwnerFits DEF IsPast
<1>2. Moves(Owner(t), Owner(t)')
  BY DEF OwnersMove, IsPast
<1>3. Owner(t)' \in Records
  BY <1>2, OwnerFits DEF Moves, IsPast
<1> QED  BY <1>1, <1>2, <1>3, PastKeeps

(* of the records of a listing, *)
LEMMA ListingStays ==
  ASSUME MInv, MInv', OwnersMove, Exact', NEW tasks \in [Tasks -> Records \cup {Absent}],
         ListingFits(tasks)
  PROVE  \A t \in Tasks : tasks[t] # Absent => IsPast(tasks[t], Owner(t)')
BY PastStays DEF ListingFits

(* and of the answer that a tool call brings back. *)
LEMMA CallStays ==
  ASSUME MInv, MInv', OwnersMove, AnswersStay, CallsFit, NEW t \in Tasks, call[t] # Absent
  PROVE  call[t] \in Calls /\ CallFits(call[t], told[t], Owner(t))
         /\ (call[t].step = "Refused" => told'[t] = "Refused")
         /\ (call[t].step \in {"Reported", "Forced"} /\ Exact' =>
               IsPast(call[t].task, Owner(t)'))
<1>1. call[t] \in Calls /\ CallFits(call[t], told[t], Owner(t))
  BY DEF CallsFit
<1>2. call[t].task \in Records \cup {Absent}
  BY <1>1 DEF Calls
<1>3. ASSUME call[t].step \in {"Reported", "Forced"}, Exact'
      PROVE  IsPast(call[t].task, Owner(t)')
  <2>1. IsPast(call[t].task, Owner(t)) /\ call[t].task \in Records
    BY <1>1, <1>2, <1>3 DEF CallFits, OwnersMove
  <2> QED  BY <1>3, <2>1, PastStays
<1> QED  BY <1>1, <1>3 DEF CallFits, AnswersStay

(* What a step leaves alone of the session still fits.                     *)
LEMMA PartsStay ==
  ASSUME MInv, MInv', OwnersMove, AnswersStay
  PROVE  /\ GraphFits(operation) /\ UNCHANGED operation => GraphFits(operation)'
         /\ GraphFits(saved) /\ UNCHANGED saved => GraphFits(saved)'
         /\ GraphFits(saved) /\ operation' = saved => GraphFits(operation)'
         /\ CallsFit /\ UNCHANGED call => CallsFit'
         /\ PanelFits /\ UNCHANGED panel => PanelFits'
         /\ /\ RestoreFits /\ UNCHANGED restore
            /\ \A t \in Tasks : operation[t] \in Operations => operation'[t] \in Operations
            => RestoreFits'
<1>1. GraphFits(operation) /\ UNCHANGED operation => GraphFits(operation)'
  BY GraphStays DEF GraphFits
<1>2. GraphFits(saved) /\ UNCHANGED saved => GraphFits(saved)'
  BY GraphStays DEF GraphFits
<1>3. GraphFits(saved) /\ operation' = saved => GraphFits(operation)'
  BY GraphStays DEF GraphFits
<1>4. ASSUME CallsFit, UNCHANGED call PROVE CallsFit'
  BY <1>4, CallStays DEF CallsFit, CallFits
<1>5. ASSUME PanelFits, UNCHANGED panel PROVE PanelFits'
  <2>1. ASSUME Exact', panel # Absent
        PROVE  \A t \in Tasks : panel.tasks[t] # Absent => IsPast(panel.tasks[t], Owner(t)')
    <3>1. ListingFits(panel.tasks) /\ panel.tasks \in [Tasks -> Records \cup {Absent}]
      BY <1>5, <2>1 DEF PanelFits, Listings, OwnersMove
    <3> QED  BY <2>1, <3>1, ListingStays
  <2> QED  BY <1>5, <2>1 DEF PanelFits, ListingFits
<1>6. ASSUME RestoreFits, UNCHANGED restore,
             \A t \in Tasks : operation[t] \in Operations => operation'[t] \in Operations
      PROVE  RestoreFits'
  <2>1. ASSUME Exact', IsRestoring
        PROVE  \A t \in Tasks :
                 restore.tasks[t] # Absent => IsPast(restore.tasks[t], Owner(t)')
    <3>1. ListingFits(restore.tasks) /\ restore.tasks \in [Tasks -> Records \cup {Absent}]
      BY <1>6, <2>1 DEF RestoreFits, IsRestoring, Listings, OwnersMove
    <3> QED  BY <2>1, <3>1, ListingStays
  <2>2. IsRestoring => restore.left \subseteq Tasks
    BY <1>6 DEF RestoreFits, IsRestoring, Listings
  <2> QED  BY <1>6, <2>1, <2>2 DEF RestoreFits, ListingFits, IsRestoring, Due
<1> QED  BY <1>1, <1>2, <1>3, <1>4, <1>5, <1>6

(* The manager's steps: the session stays, or its last saved one is due.   *)
LEMMA FollowsStep ==
  ASSUME MInv, SInv, BackgroundStep, SessionFollows \/ LoseSession
  PROVE  MInv' /\ SInv'
<1>1. MInv' /\ OwnersMove /\ AnswersStay
  BY ManagerStep
<1>2. CASE UNCHANGED operationVars
  BY <1>1, <1>2, PartsStay DEF operationVars, SInv
<1>3. CASE LoseSession
  <2>1. GraphFits(operation)' /\ GraphFits(saved)'
    BY <1>1, <1>3, PartsStay DEF LoseSession, SInv
  <2>2. CallsFit' /\ PanelFits'
    BY <1>3 DEF LoseSession, CallsFit, PanelFits
  <2>3. RestoreFits'
    BY <1>3 DEF LoseSession, RestoreFits, IsRestoring, Due
  <2> QED  BY <1>1, <2>1, <2>2, <2>3 DEF SInv
<1> QED  BY <1>2, <1>3 DEF SessionFollows

(* A report that is past does what it should to an operation.              *)
LEMMA MoveToFits ==
  ASSUME NEW node \in Operations,
         NEW state \in {"Initializing", "Active", "Completed", "Failed", "Cancelled", "Stale"}
  PROVE  /\ MoveTo(node, state) \in Operations /\ MoveTo(node, state).seen = node.seen
         /\ MoveTo(node, state).state = IF node.state = "Cancelled" THEN "Cancelled" ELSE state
BY DEF MoveTo, Operations

(* What a report makes of an operation. *)
LEMMA ReportType ==
  ASSUME NEW node \in Operations, NEW status \in {"Queued", "Running"} \cup Ended,
         NEW seq \in Nat
  PROVE  LET next == OwnerReported(node, status, seq) IN
         /\ next \in Operations
         /\ \/ next = node
            \/ /\ next.seen = [owner_state |-> status, seq |-> seq]
               /\ next.state = IF node.state = "Cancelled" THEN "Cancelled" ELSE StateOf(status)
<1> DEFINE moved == MoveTo(node, StateOf(status))
           seen == [owner_state |-> status, seq |-> seq]
<1>1. StateOf(status) \in {"Initializing", "Active", "Completed", "Failed", "Cancelled", "Stale"}
  BY DEF StateOf, Ended
<1>2. /\ moved \in Operations
      /\ moved.state = IF node.state = "Cancelled" THEN "Cancelled" ELSE StateOf(status)
  BY <1>1, MoveToFits
<1>3. seen \in [owner_state: {"None", "Queued", "Running"} \cup Ended, seq: Nat]
  OBVIOUS
<1> HIDE DEF moved, seen
<1>4. /\ [moved EXCEPT !.seen = seen] \in Operations
      /\ [moved EXCEPT !.seen = seen].seen = seen
      /\ [moved EXCEPT !.seen = seen].state = moved.state
  BY <1>2, <1>3 DEF Operations
<1>5. OwnerReported(node, status, seq) \in {node, [moved EXCEPT !.seen = seen]}
  BY DEF OwnerReported, moved, seen
<1> QED  BY <1>2, <1>4, <1>5 DEF seen

(* An operation that takes in a report that is past still fits. *)
LEMMA ReportFits ==
  ASSUME NEW node \in Operations, NEW said, NEW now \in Records, NEW r \in Records,
         NodeFits(node, said, now), IsPast(r, now), said # "Refused"
  PROVE  NodeFits(OwnerReported(node, r.status, r.seq), said, now)
<1> DEFINE next == OwnerReported(node, r.status, r.seq)
<1>1. r.status \in {"Queued", "Running"} \cup Ended /\ r.seq \in Nat /\ now # Absent
  BY RecordParts
<1>2. \/ next = node
      \/ /\ next.seen = [owner_state |-> r.status, seq |-> r.seq]
         /\ next.state = IF node.state = "Cancelled" THEN "Cancelled" ELSE StateOf(r.status)
  <2> DEFINE status == r.status  seq == r.seq
  <2>1. status \in {"Queued", "Running"} \cup Ended /\ seq \in Nat
    BY <1>1
  <2> HIDE DEF status, seq
  <2>2. \/ OwnerReported(node, status, seq) = node
        \/ /\ OwnerReported(node, status, seq).seen = [owner_state |-> status, seq |-> seq]
           /\ OwnerReported(node, status, seq).state =
                IF node.state = "Cancelled" THEN "Cancelled" ELSE StateOf(status)
    BY <2>1, ReportType
  <2> QED  BY <2>2 DEF status, seq
<1>3. StateOf(r.status) \in {"Completed", "Failed", "Cancelled"} => r.status \in Ended
  BY EndedStates
<1> HIDE DEF next
<1>4. ASSUME next # node PROVE NodeFits(next, said, now)
  <2>1. next.seen.seq = r.seq /\ next.seen.owner_state = r.status
    BY <1>2, <1>4
  <2>2. /\ next.seen.seq <= now.seq
        /\ next.seen.seq = now.seq => next.seen.owner_state = now.status
    BY <2>1 DEF IsPast
  <2>3. next.state \in {"Completed", "Failed", "Cancelled"} => next.state = StateOf(now.status)
    BY <1>2, <1>3, <1>4 DEF IsPast, NodeFits
  <2> QED  BY <1>1, <2>2, <2>3 DEF NodeFits
<1> QED  BY <1>4 DEF next

(* A refused task is unknown, and a known one is past to itself. *)
LEMMA KnownFits ==
  ASSUME MInv, NEW t \in Tasks
  PROVE  /\ told[t] = "Refused" => Owner(t) = Absent
         /\ Owner(t) # Absent => Owner(t) \in Records /\ IsPast(Owner(t), Owner(t))
<1>1. told[t] = "Refused" => Owner(t) = Absent
  BY DEF MInv, MemoryFits, RecordFits, Owner
<1>2. Owner(t) # Absent => Owner(t) \in Records /\ IsPast(Owner(t), Owner(t))
  BY OwnerFits, RecordParts DEF IsPast
<1> QED  BY <1>1, <1>2

(* One tool call changes. *)
LEMMA CallSet ==
  ASSUME MInv, MInv', OwnersMove, AnswersStay, CallsFit,
         NEW t \in Tasks, NEW c \in Calls \cup {Absent}, call' = [call EXCEPT ![t] = c],
         c # Absent =>
           /\ c.step = "Registered" => c.task = Absent
           /\ c.step = "Refused" => c.task = Absent /\ told'[t] = "Refused"
           /\ c.step \in {"Reported", "Forced"} =>
                c.task # Absent /\ (Exact' => IsPast(c.task, Owner(t)'))
           /\ c.step = "Forced" => c.task.status = "Canceled"
  PROVE  CallsFit'
<1>1. call \in [Tasks -> Calls \cup {Absent}]
  BY DEF CallsFit
<1>2. call' \in [Tasks -> Calls \cup {Absent}]
  BY <1>1
<1>3. ASSUME NEW u \in Tasks, call'[u] # Absent
      PROVE  /\ call'[u].step = "Registered" => call'[u].task = Absent
             /\ call'[u].step = "Refused" => call'[u].task = Absent /\ told'[u] = "Refused"
             /\ call'[u].step \in {"Reported", "Forced"} =>
                  call'[u].task # Absent /\ (Exact' => IsPast(call'[u].task, Owner(u)'))
             /\ call'[u].step = "Forced" => call'[u].task.status = "Canceled"
  <2>1. CASE u = t
    <3>1. call'[u] = c
      BY <1>1, <2>1
    <3> QED  BY <1>3, <2>1, <3>1
  <2>2. CASE u # t
    <3>1. call'[u] = call[u]
      BY <1>1, <2>2
    <3> QED  BY <1>3, <3>1, CallStays DEF CallFits
  <2> QED  BY <2>1, <2>2
<1> QED  BY <1>2, <1>3 DEF CallsFit, CallFits

(* One operation changes, and the manager does not.                        *)
LEMMA OperationSet ==
  ASSUME MInv, UNCHANGED vars, GraphFits(operation), NEW t \in Tasks, NEW n \in Operations,
         Exact => NodeFits(n, told[t], Owner(t)), operation' = [operation EXCEPT ![t] = n]
  PROVE  /\ GraphFits(operation)'
         /\ \A u \in Tasks : operation[u] \in Operations => operation'[u] \in Operations
<1>1. operation \in [Tasks -> Operations \cup {Absent}]
  BY DEF GraphFits
<1>2. /\ operation' \in [Tasks -> Operations \cup {Absent}]
      /\ \A u \in Tasks : operation'[u] = IF u = t THEN n ELSE operation[u]
  BY <1>1
<1>3. Exact' = Exact /\ told' = told /\ \A u \in Tasks : Owner(u)' = Owner(u)
  BY ManagerIdle DEF vars
<1>4. Exact => \A u \in Tasks :
        operation'[u] # Absent => NodeFits(operation'[u], told[u], Owner(u))
  BY <1>2 DEF GraphFits
<1> QED  BY <1>2, <1>3, <1>4 DEF GraphFits

(* The tools: the operation is registered, *)
LEMMA RegisterStep == ASSUME MInv, SInv, NEW t \in Tasks, Register(t) PROVE MInv' /\ SInv'
<1> DEFINE n == [state |-> "Initializing", seen |-> Unseen]
           c == [step |-> "Registered", task |-> Absent]
<1>1. /\ operation' = [operation EXCEPT ![t] = n] /\ call' = [call EXCEPT ![t] = c]
      /\ UNCHANGED vars /\ UNCHANGED saved /\ UNCHANGED panel /\ UNCHANGED restore
  BY DEF Register, Calling
<1>2. MInv' /\ OwnersMove /\ AnswersStay
  BY <1>1, ManagerIdle
<1>3. n \in Operations /\ n.seen.seq = 0 /\ n.state = "Initializing"
  BY DEF Operations, Unseen
<1>4. c \in Calls /\ c.step = "Registered" /\ c.task = Absent
  BY DEF Calls
<1> HIDE DEF n, c
<1>5. /\ GraphFits(operation)'
      /\ \A u \in Tasks : operation[u] \in Operations => operation'[u] \in Operations
  <2>1. NodeFits(n, told[t], Owner(t))
    BY <1>3 DEF NodeFits
  <2> QED  BY <1>1, <1>3, <2>1, OperationSet DEF SInv
<1>6. CallsFit'
  BY <1>1, <1>2, <1>4, CallSet DEF SInv
<1> QED  BY <1>1, <1>2, <1>5, <1>6, PartsStay DEF SInv

(* its task is added or refused, *)
LEMMA CreateStep == ASSUME MInv, SInv, NEW t \in Tasks, Create(t) PROVE MInv' /\ SInv'
<1>1. /\ UNCHANGED operation /\ UNCHANGED saved /\ UNCHANGED panel /\ UNCHANGED restore
      /\ \/ Add(t) /\ call' = [call EXCEPT ![t] = [step |-> "Reported", task |-> NewRecord]]
         \/ AddFails(t) /\ call' = [call EXCEPT ![t] = [step |-> "Refused", task |-> Absent]]
  BY DEF Create, Calling
<1>2. MInv' /\ OwnersMove /\ AnswersStay
  BY <1>1, ManagerStep DEF BackgroundStep, Call
<1>3. CASE Add(t) /\ call' = [call EXCEPT ![t] = [step |-> "Reported", task |-> NewRecord]]
  <2>1. NewRecord \in Records /\ NewRecord # Absent
    BY ValueAssumption DEF NewRecord, Records
  <2> DEFINE c == [step |-> "Reported", task |-> NewRecord]
  <2>2. c \in Calls /\ c.step = "Reported" /\ c.task = NewRecord
    BY <2>1 DEF Calls
  <2>3. mgr' \in Memories /\ mgr' # Down /\ mgr'.tasks[t] = NewRecord
    <3>1. IsNewId(t) /\ mgr' \in Notified(Enqueued(t))
      BY <1>3 DEF Add
    <3>2. mgr \in Memories
      BY <3>1, NewTask
    <3>3. mgr' \in Memories /\ mgr'.tasks = [mgr.tasks EXCEPT ![t] = NewRecord]
      BY <3>1, <3>2, EnqueuedParts
    <3> QED  BY <3>2, <3>3, ValueAssumption DEF Memories
  <2>4. Owner(t)' = NewRecord /\ IsPast(NewRecord, NewRecord)
    BY <2>1, <2>3, RecordParts DEF Owner, IsUp, IsPast
  <2> HIDE DEF c
  <2>5. CallsFit'
    <3>1. call' = [call EXCEPT ![t] = c]
      BY <1>3 DEF c
    <3> QED  BY <1>2, <2>1, <2>2, <2>4, <3>1, CallSet DEF SInv
  <2> QED  BY <1>1, <1>2, <2>5, PartsStay DEF SInv
<1>4. CASE AddFails(t) /\ call' = [call EXCEPT ![t] = [step |-> "Refused", task |-> Absent]]
  <2> DEFINE c == [step |-> "Refused", task |-> Absent]
  <2>1. c \in Calls /\ c.step = "Refused" /\ c.task = Absent
    BY DEF Calls
  <2>2. told'[t] = "Refused"
    BY <1>4 DEF AddFails, MInv, TypeOK
  <2> HIDE DEF c
  <2>3. CallsFit'
    <3>1. call' = [call EXCEPT ![t] = c]
      BY <1>4 DEF c
    <3> QED  BY <1>2, <2>1, <2>2, <3>1, CallSet DEF SInv
  <2> QED  BY <1>1, <1>2, <2>3, PartsStay DEF SInv
<1> QED  BY <1>1, <1>3, <1>4

(* or canceled, *)
LEMMA CancelByToolStep ==
  ASSUME MInv, SInv, NEW t \in Tasks, CancelByTool(t) PROVE MInv' /\ SInv'
<1> DEFINE step == IF Disposition(t) = "Forced" THEN "Forced" ELSE "Reported"
           c == [step |-> step, task |-> mgr'.tasks[t]]
<1>1. /\ UNCHANGED operation /\ UNCHANGED saved /\ UNCHANGED panel /\ UNCHANGED restore
      /\ Cancel(t) /\ call' = [call EXCEPT ![t] = c]
  BY DEF CancelByTool, Calling
<1>2. MInv' /\ OwnersMove /\ AnswersStay
  BY <1>1, ManagerStep DEF BackgroundStep, Call
<1>3. /\ mgr \in Memories /\ mgr.tasks[t] # Absent /\ told[t] = "Added"
      /\ mgr' = Canceled(t) /\ told'[t] = Disposition(t)
      /\ Disposition(t) \in {"Added", "Requested", "Forced"}
  <2>1. /\ mgr \in Memories /\ mgr.tasks[t] # Absent /\ told[t] = "Added"
        /\ mgr' = Canceled(t) /\ told' = [told EXCEPT ![t] = Disposition(t)]
    BY <1>1 DEF Cancel, MayCancel, Saved, MInv, MemoryFits
  <2> QED  BY <2>1 DEF Disposition, MInv, TypeOK
<1>4. mgr' # Down
  BY <1>1, <1>3, CanceledFits, ValueAssumption DEF MemoryFits, Cancel
<1>5. /\ mgr'.tasks[t] # Absent /\ mgr'.tasks[t] \in Records
      /\ Disposition(t) = "Forced" => mgr'.tasks[t].status = "Canceled"
  <2>1. MemoryFits(mgr', told', executions', Exact')
    BY <1>2, <1>4 DEF MInv, IsUp
  <2> QED  BY <1>3, <2>1 DEF MemoryFits, RecordFits, Memories
<1>6. Owner(t)' = mgr'.tasks[t] /\ IsPast(mgr'.tasks[t], mgr'.tasks[t])
  BY <1>4, <1>5, RecordParts DEF Owner, IsUp, IsPast
<1>7. /\ c \in Calls /\ c.step \in {"Reported", "Forced"} /\ c.task = mgr'.tasks[t]
      /\ c.step = "Forced" => Disposition(t) = "Forced"
  BY <1>5 DEF Calls
<1> HIDE DEF c, step
<1>8. CallsFit'
  BY <1>1, <1>2, <1>5, <1>6, <1>7, CallSet DEF SInv
<1> QED  BY <1>1, <1>2, <1>8, PartsStay DEF SInv

(* A forced cancellation has ended the task when the graph hears of it.    *)
LEMMA CancelUpdateFits ==
  ASSUME NEW node \in Operations, NEW outcome
  PROVE  /\ CancelUpdate(node, outcome) \in Operations
         /\ \A said : \A now \in Records :
              /\ NodeFits(node, said, now)
              /\ outcome = "Forced" => now.status = "Canceled"
              => NodeFits(CancelUpdate(node, outcome), said, now)
         /\ outcome # "Forced" => CancelUpdate(node, outcome) = node
<1> DEFINE moved == MoveTo(node, "Cancelled")
<1>1. moved \in Operations /\ moved.seen = node.seen /\ moved.state = "Cancelled"
  BY MoveToFits
<1>2. CancelUpdate(node, outcome) = IF outcome = "Forced" THEN moved ELSE node
  BY DEF CancelUpdate
<1>3. \A now \in Records : now # Absent /\ (now.status = "Canceled" => StateOf(now.status) = "Cancelled")
  BY RecordParts, EndedStates
<1> HIDE DEF moved
<1> QED  BY <1>1, <1>2, <1>3 DEF NodeFits

(* A refusal fits an operation whose task is refused. *)
LEMMA RefusedFits ==
  ASSUME NEW node \in Operations, NodeFits(node, "Refused", Absent)
  PROVE  NodeFits(OwnerReported(node, "Failed", 1), "Refused", Absent)
<1> DEFINE next == OwnerReported(node, "Failed", 1)
<1>1. \/ next = node
      \/ next.state = IF node.state = "Cancelled" THEN "Cancelled" ELSE "Failed"
  <2>1. "Failed" \in {"Queued", "Running"} \cup Ended /\ 1 \in Nat /\ StateOf("Failed") = "Failed"
    BY DEF Ended, StateOf
  <2> QED  BY <2>1, ReportType
<1> HIDE DEF next
<1>2. NodeFits(next, "Refused", Absent)
  BY <1>1 DEF NodeFits
<1> QED  BY <1>2 DEF next

(* and the answer reaches the operation, however late. *)
LEMMA ReportCallStep ==
  ASSUME MInv, SInv, NEW t \in Tasks, ReportCall(t) PROVE MInv' /\ SInv'
<1> DEFINE task == call[t].task  step == call[t].step
           node == CancelUpdate(operation[t], step)
           n == IF task = Absent THEN OwnerReported(node, "Failed", 1)
                                 ELSE OwnerReported(node, task.status, task.seq)
<1>1. /\ operation' = IF operation[t] = Absent THEN operation
                                               ELSE [operation EXCEPT ![t] = n]
      /\ call' = [call EXCEPT ![t] = Absent] /\ call[t] # Absent
      /\ step \in {"Reported", "Refused", "Forced"}
      /\ UNCHANGED vars /\ UNCHANGED saved /\ UNCHANGED panel /\ UNCHANGED restore
  BY DEF ReportCall, InCall
<1>2. MInv' /\ OwnersMove /\ AnswersStay
  BY <1>1, ManagerIdle
<1>3. CallsFit'
  BY <1>1, <1>2, CallSet DEF SInv
<1>4. call[t] \in Calls /\ CallFits(call[t], told[t], Owner(t)) /\ task \in Records \cup {Absent}
  BY <1>1 DEF SInv, CallsFit, Calls
<1>5. ASSUME operation[t] # Absent
      PROVE  n \in Operations /\ (Exact => NodeFits(n, told[t], Owner(t)))
  <2>1. operation[t] \in Operations /\ (Exact => NodeFits(operation[t], told[t], Owner(t)))
    BY <1>5 DEF SInv, GraphFits
  <2>2. node \in Operations /\ (step # "Forced" => node = operation[t])
    BY <2>1, CancelUpdateFits
  <2>3. CASE task = Absent
    <3>1. step = "Refused" /\ told[t] = "Refused" /\ Owner(t) = Absent
      BY <1>1, <1>4, <2>3, KnownFits DEF CallFits
    <3>2. n = OwnerReported(node, "Failed", 1) /\ node = operation[t]
      BY <2>2, <2>3, <3>1
    <3>3. n \in Operations
      <4>1. "Failed" \in {"Queued", "Running"} \cup Ended /\ 1 \in Nat
        BY DEF Ended
      <4> HIDE DEF n, node
      <4> QED  BY <2>2, <3>2, <4>1, ReportType
    <3> HIDE DEF n, node, task, step
    <3> QED  BY <2>1, <2>2, <3>1, <3>2, <3>3, RefusedFits
  <2>4. CASE task # Absent
    <3>1. /\ step \in {"Reported", "Forced"} /\ task \in Records
          /\ Exact => IsPast(task, Owner(t))
          /\ step = "Forced" => task.status = "Canceled"
      BY <1>1, <1>4, <2>4 DEF CallFits
    <3>2. task.status \in {"Queued", "Running"} \cup Ended /\ task.seq \in Nat
      BY <3>1, RecordParts
    <3>3. n = OwnerReported(node, task.status, task.seq)
      BY <2>4
    <3> HIDE DEF node, n, task, step
    <3>4. n \in Operations
      BY <2>2, <3>2, <3>3, ReportType
    <3>5. ASSUME Exact PROVE NodeFits(n, told[t], Owner(t))
      <4>1. IsPast(task, Owner(t)) /\ Owner(t) \in Records /\ told[t] # "Refused"
        BY <3>1, <3>5, KnownFits DEF IsPast
      <4>2. step = "Forced" => Owner(t).status = "Canceled"
        BY <3>1, <4>1 DEF IsPast, Ended
      <4>3. NodeFits(node, told[t], Owner(t))
        BY <2>1, <3>5, <4>1, <4>2, CancelUpdateFits DEF node
      <4> QED  BY <2>2, <3>1, <3>3, <4>1, <4>3, ReportFits
    <3> QED  BY <3>4, <3>5
  <2> QED  BY <2>3, <2>4
<1> HIDE DEF n, node, task, step
<1>6. /\ GraphFits(operation)'
      /\ \A u \in Tasks : operation[u] \in Operations => operation'[u] \in Operations
  <2>1. CASE operation[t] = Absent
    BY <1>1, <1>2, <2>1, PartsStay DEF SInv
  <2>2. CASE operation[t] # Absent
    BY <1>1, <1>5, <2>2, OperationSet DEF SInv
  <2> QED  BY <2>1, <2>2
<1> QED  BY <1>1, <1>2, <1>3, <1>6, PartsStay DEF SInv

(* Listings only get shorter, and their records older.                     *)
LEMMA RestFits ==
  ASSUME NEW listing \in Listings, NEW t
  PROVE  Rest(listing, t) = Absent
         \/ /\ Rest(listing, t) \in Listings /\ Rest(listing, t).tasks = listing.tasks
            /\ Rest(listing, t).left \subseteq listing.left
BY DEF Rest, Listings

(* The panel reports a listing that may be old by now, *)
LEMMA ReportPanelStep ==
  ASSUME MInv, SInv, NEW t \in Tasks, ReportPanel(t) PROVE MInv' /\ SInv'
<1> DEFINE task == panel.tasks[t]
           n == OwnerReported(operation[t], task.status, task.seq)
<1>1. /\ panel # Absent /\ panel' = Rest(panel, t)
      /\ operation' = IF task = Absent \/ operation[t] = Absent THEN operation
                      ELSE [operation EXCEPT ![t] = n]
      /\ UNCHANGED vars /\ UNCHANGED saved /\ UNCHANGED call /\ UNCHANGED restore
  BY DEF ReportPanel
<1>2. MInv' /\ OwnersMove /\ AnswersStay /\ Exact' = Exact
  BY <1>1, ManagerIdle
<1>3. panel \in Listings /\ (Exact => ListingFits(panel.tasks))
  BY <1>1 DEF SInv, PanelFits
<1>4. PanelFits'
  <2>1. \/ panel' = Absent
        \/ panel' \in Listings /\ panel'.tasks = panel.tasks
    BY <1>1, <1>3, RestFits
  <2>2. Exact => \A u \in Tasks : panel.tasks[u] # Absent => IsPast(panel.tasks[u], Owner(u)')
    BY <1>1, <1>3, ManagerIdle DEF ListingFits
  <2> QED  BY <1>2, <2>1, <2>2 DEF PanelFits, ListingFits
<1>5. ASSUME task # Absent, operation[t] # Absent
      PROVE  n \in Operations /\ (Exact => NodeFits(n, told[t], Owner(t)))
  <2>1. operation[t] \in Operations /\ (Exact => NodeFits(operation[t], told[t], Owner(t)))
    BY <1>5 DEF SInv, GraphFits
  <2>2. task \in Records /\ (Exact => IsPast(task, Owner(t)))
    BY <1>3, <1>5 DEF Listings, ListingFits
  <2> HIDE DEF task
  <2>3. n \in Operations
    BY <2>1, <2>2, RecordParts, ReportType
  <2>4. ASSUME Exact PROVE NodeFits(n, told[t], Owner(t))
    <3>1. Owner(t) \in Records /\ told[t] # "Refused"
      BY <2>2, <2>4, KnownFits DEF IsPast
    <3> QED  BY <2>1, <2>2, <2>4, <3>1, ReportFits
  <2> QED  BY <2>3, <2>4
<1> HIDE DEF n, task
<1>6. /\ GraphFits(operation)'
      /\ \A u \in Tasks : operation[u] \in Operations => operation'[u] \in Operations
  <2>1. CASE task = Absent \/ operation[t] = Absent
    BY <1>1, <1>2, <2>1, PartsStay DEF SInv
  <2>2. CASE task # Absent /\ operation[t] # Absent
    BY <1>1, <1>5, <2>2, OperationSet DEF SInv
  <2> QED  BY <2>1, <2>2
<1> QED  BY <1>1, <1>2, <1>4, <1>6, PartsStay DEF SInv

(* An operation that is Stale says nothing of the end of its task.         *)
LEMMA MissingFits ==
  ASSUME NEW node \in Operations
  PROVE  /\ OwnerMissing(node) \in Operations
         /\ \A said, now : NodeFits(node, said, now) => NodeFits(OwnerMissing(node), said, now)
<1> DEFINE next == MoveTo(node, "Stale")
<1>1. /\ next \in Operations /\ next.seen = node.seen
      /\ next.state = IF node.state = "Cancelled" THEN "Cancelled" ELSE "Stale"
  BY MoveToFits
<1>2. OwnerMissing(node) = next
  BY DEF OwnerMissing
<1> HIDE DEF next
<1> QED  BY <1>1, <1>2 DEF NodeFits

(* and so does the restore, which also finds tasks missing. *)
LEMMA ReportRestoredStep ==
  ASSUME MInv, SInv, NEW t \in Tasks, ReportRestored(t) PROVE MInv' /\ SInv'
<1> DEFINE task == restore.tasks[t]
           n == IF task = Absent THEN OwnerMissing(operation[t])
                ELSE OwnerReported(operation[t], task.status, task.seq)
<1>1. /\ IsRestoring /\ t \in restore.left /\ restore' = Rest(restore, t)
      /\ operation' = [operation EXCEPT ![t] = n]
      /\ UNCHANGED vars /\ UNCHANGED saved /\ UNCHANGED call /\ UNCHANGED panel
  BY DEF ReportRestored, IsRestoring
<1>2. MInv' /\ OwnersMove /\ AnswersStay /\ Exact' = Exact
  BY <1>1, ManagerIdle
<1>3. /\ restore \in Listings /\ (Exact => ListingFits(restore.tasks))
      /\ \A u \in restore.left : operation[u] \in Operations
  BY <1>1 DEF SInv, RestoreFits, IsRestoring
<1>4. operation[t] \in Operations /\ (Exact => NodeFits(operation[t], told[t], Owner(t)))
  <2>1. t \in Tasks /\ operation[t] # Absent
    BY <1>1, <1>3, OperationAssumption
  <2> QED  BY <1>1, <1>3, <2>1 DEF SInv, GraphFits
<1>5. n \in Operations /\ (Exact => NodeFits(n, told[t], Owner(t)))
  <2>1. CASE task = Absent
    BY <1>4, <2>1, MissingFits
  <2>2. CASE task # Absent
    <3>1. task \in Records /\ (Exact => IsPast(task, Owner(t)))
      BY <1>3, <2>2 DEF Listings, ListingFits
    <3>2. n = OwnerReported(operation[t], task.status, task.seq)
      BY <2>2
    <3> HIDE DEF task, n
    <3>3. n \in Operations
      BY <1>4, <3>1, <3>2, RecordParts, ReportType
    <3>4. ASSUME Exact PROVE NodeFits(n, told[t], Owner(t))
      <4>1. Owner(t) \in Records /\ told[t] # "Refused"
        BY <3>1, <3>4, KnownFits DEF IsPast
      <4> QED  BY <1>4, <3>1, <3>2, <3>4, <4>1, ReportFits
    <3> QED  BY <3>3, <3>4
  <2> QED  BY <2>1, <2>2
<1> HIDE DEF n, task
<1>6. /\ GraphFits(operation)'
      /\ \A u \in Tasks : operation[u] \in Operations => operation'[u] \in Operations
  BY <1>1, <1>5, OperationSet DEF SInv
<1>7. RestoreFits'
  <2>1. \/ restore' = Absent
        \/ /\ restore' \in Listings /\ restore'.tasks = restore.tasks
           /\ restore'.left \subseteq restore.left /\ restore.left \subseteq Tasks
    BY <1>1, <1>3, RestFits DEF Listings
  <2>2. Exact => \A u \in Tasks : restore.tasks[u] # Absent => IsPast(restore.tasks[u], Owner(u)')
    BY <1>1, <1>3, ManagerIdle DEF ListingFits
  <2>3. \A u \in restore.left : u \in Tasks => operation'[u] \in Operations
    BY <1>3, <1>6
  <2> QED  BY <1>2, <2>1, <2>2, <2>3 DEF RestoreFits, ListingFits, IsRestoring, Due
<1> QED  BY <1>1, <1>2, <1>6, <1>7, PartsStay DEF SInv

(* Both list what is so when they do, *)
LEMMA ListForPanelStep == ASSUME MInv, SInv, ListForPanel PROVE MInv' /\ SInv'
<1>1. /\ IsUp /\ panel' = [tasks |-> mgr.tasks, left |-> Tasks]
      /\ UNCHANGED vars /\ UNCHANGED operation /\ UNCHANGED saved /\ UNCHANGED call
      /\ UNCHANGED restore
  BY DEF ListForPanel
<1>2. MInv' /\ OwnersMove /\ AnswersStay
  BY <1>1, ManagerIdle
<1>3. \A t \in Tasks : /\ Owner(t)' = mgr.tasks[t]
                       /\ mgr.tasks[t] # Absent => IsPast(mgr.tasks[t], Owner(t)')
  BY <1>1, ManagerIdle, KnownFits DEF Owner
<1>4. panel' \in Listings /\ panel'.tasks = mgr.tasks
  BY <1>1 DEF MInv, MemoryFits, Memories, Listings
<1>5. PanelFits'
  BY <1>3, <1>4 DEF PanelFits, ListingFits
<1> QED  BY <1>1, <1>2, <1>5, PartsStay DEF SInv

(* the restore only for operations there are. *)
LEMMA ListForRestoreStep == ASSUME MInv, SInv, ListForRestore PROVE MInv' /\ SInv'
<1>1. /\ IsUp /\ restore' = [tasks |-> mgr.tasks, left |-> Candidates(operation)]
      /\ UNCHANGED vars /\ UNCHANGED operation /\ UNCHANGED saved /\ UNCHANGED call
      /\ UNCHANGED panel
  BY DEF ListForRestore
<1>2. MInv' /\ OwnersMove /\ AnswersStay
  BY <1>1, ManagerIdle
<1>3. \A t \in Tasks : /\ Owner(t)' = mgr.tasks[t]
                       /\ mgr.tasks[t] # Absent => IsPast(mgr.tasks[t], Owner(t)')
  BY <1>1, ManagerIdle, KnownFits DEF Owner
<1>4. \A t \in Candidates(operation) : t \in Tasks /\ operation[t] \in Operations
  BY DEF Candidates, IsCandidate, IsLive, SInv, GraphFits
<1>5. /\ restore' \in Listings /\ restore'.tasks = mgr.tasks
      /\ restore'.left = Candidates(operation)
  BY <1>1, <1>4 DEF MInv, MemoryFits, Memories, Listings
<1>6. RestoreFits'
  BY <1>1, <1>3, <1>4, <1>5 DEF RestoreFits, ListingFits
<1> QED  BY <1>1, <1>2, <1>6, PartsStay DEF SInv

(* The session is saved as it is. *)
LEMMA SaveSessionStep == ASSUME MInv, SInv, SaveSession PROVE MInv' /\ SInv'
<1>1. /\ saved' = operation
      /\ UNCHANGED vars /\ UNCHANGED operation /\ UNCHANGED call /\ UNCHANGED panel
      /\ UNCHANGED restore
  BY DEF SaveSession
<1>2. MInv' /\ OwnersMove /\ AnswersStay
  BY <1>1, ManagerIdle
<1>3. GraphFits(operation)' /\ CallsFit' /\ PanelFits' /\ RestoreFits'
  BY <1>1, <1>2, PartsStay DEF SInv
<1>4. GraphFits(saved)'
  BY <1>1, <1>3 DEF GraphFits
<1> QED  BY <1>2, <1>3, <1>4 DEF SInv

(***************************************************************************)
(* The theorems.                                                           *)
(***************************************************************************)
LEMMA SessionInit == OperationInit => MInv /\ SInv
<1> SUFFICES ASSUME OperationInit PROVE MInv /\ SInv
  OBVIOUS
<1>1. MInv
  BY ManagerInit DEF OperationInit
<1>2. /\ operation = [t \in Tasks |-> Absent] /\ saved = operation
      /\ call = [t \in Tasks |-> Absent] /\ panel = Absent /\ restore = Absent
  BY DEF OperationInit
<1>3. SInv
  BY <1>2 DEF SInv, GraphFits, CallsFit, PanelFits, RestoreFits, IsRestoring
<1> QED  BY <1>1, <1>3

(* Every step keeps both invariants, *)
LEMMA SessionStep == MInv /\ SInv /\ [OperationNext]_allVars => MInv' /\ SInv'
<1> SUFFICES ASSUME MInv, SInv, [OperationNext]_allVars PROVE MInv' /\ SInv'
  OBVIOUS
<1>1. ASSUME NEW t \in Tasks,
             \/ Register(t) \/ Create(t) \/ CancelByTool(t)
             \/ ReportCall(t) \/ ReportPanel(t) \/ ReportRestored(t)
      PROVE  MInv' /\ SInv'
  BY <1>1, RegisterStep, CreateStep, CancelByToolStep, ReportCallStep, ReportPanelStep,
     ReportRestoredStep
<1>2. ASSUME NEW t \in Tasks, CreateCrashes(t) \/ CancelCrashes(t) \/ CallByOther(t)
      PROVE  MInv' /\ SInv'
  BY <1>2, FollowsStep DEF CreateCrashes, CancelCrashes, CallByOther, Call, BackgroundStep
<1>3. CASE ListForPanel \/ ListForRestore \/ SaveSession
  BY <1>3, ListForPanelStep, ListForRestoreStep, SaveSessionStep
<1>4. CASE (\E w \in Workers : Work(w)) \/ Process
  BY <1>4, FollowsStep DEF Work, Process, BackgroundStep
<1>5. CASE UNCHANGED allVars
  <2>1. UNCHANGED vars /\ UNCHANGED operationVars
    BY <1>5 DEF allVars
  <2> QED  BY <2>1, ManagerIdle, PartsStay DEF operationVars, SInv
<1> QED  BY <1>1, <1>2, <1>3, <1>4, <1>5 DEF OperationNext

(* so they always hold. *)
LEMMA Invariance == OperationSpec => [](MInv /\ SInv)
BY SessionInit, SessionStep, PTL DEF OperationSpec

(* The queue of the manager holds the Queued tasks, each exactly once,     *)
(* whatever adds, cancels, starts, failing writes, crashes and restarts    *)
(* came before.                                                            *)
THEOREM QueueStaysExact == OperationSpec => []QueueInv
<1>1. MInv /\ SInv => QueueInv
  <2> SUFFICES ASSUME MInv, SInv PROVE QueueInv
    OBVIOUS
  <2>1. TypeOK /\ OperationTypeOK
    BY DEF MInv, SInv, GraphFits, CallsFit, OperationTypeOK
  <2>2. ASSUME IsUp PROVE /\ ItemsOf(mgr.queue) = {t \in Tasks : IsRunnable(t)}
                          /\ Len(mgr.queue) = Cardinality(ItemsOf(mgr.queue))
    <3>1. /\ mgr.queue \in Seq(Tasks) /\ Distinct(mgr.queue)
          /\ ItemsOf(mgr.queue) = QueuedIn(mgr.tasks)
      BY <2>2 DEF MInv, MemoryFits, Memories
    <3> QED  BY <3>1, LengthOfDistinct DEF QueuedIn, IsRunnable
  <2> QED  BY <2>1, <2>2 DEF QueueInv, QueueIsExact
<1> QED  BY <1>1, Invariance, PTL

(* Without failing writes no crash, restart or second worker has the       *)
(* executor of a task started again.                                       *)
THEOREM TasksRunOnce == OperationSpec => []RunsOnce
<1>1. MInv => RunsOnce
  BY DEF MInv, RunsOnce, Exact
<1> QED  BY <1>1, Invariance, PTL

(* What a caller was told holds ever after: an added task is on disk, a    *)
(* refused one never runs, a forced cancellation stays and a requested one *)
(* does not end in a completion.                                           *)
THEOREM AnswersAreKept == OperationSpec => []AnswersHold
<1>1. MInv => AnswersHold
  <2> SUFFICES ASSUME MInv PROVE AnswersHold
    OBVIOUS
  <2>1. \A t \in Tasks :
          /\ RecordFits(disk.file[t], told[t], executions[t], Exact)
          /\ IsUp => RecordFits(mgr.tasks[t], told[t], executions[t], Exact)
    BY DEF MInv, MemoryFits
  <2> QED  BY <2>1 DEF AnswersHold, AddIsAtomic, CancelHolds, RecordFits
<1> QED  BY <1>1, Invariance, PTL

(* The graph, in memory or saved, is never ahead of a task nor contradicts *)
(* it, whatever listings and answers arrive late and whenever the process  *)
(* dies.                                                                   *)
THEOREM GraphIsNeverAhead == OperationSpec => []SequenceIsStable
<1>1. SInv => SequenceIsStable
  BY DEF SInv, GraphFits, NodeFits, SequenceIsStable, Exact
<1> QED  BY <1>1, Invariance, PTL

(* Unless a write failed, an operation that is shown as ended has a task   *)
(* that ended so, or was refused.                                          *)
THEOREM EndsAreTrue == OperationSpec => [](used.errors = 0 => NoFalseEnd)
<1>1. SInv => (used.errors = 0 => NoFalseEnd)
  BY DEF SInv, GraphFits, NodeFits, NoFalseEnd, Exact
<1> QED  BY <1>1, Invariance, PTL
=============================================================================
