------------------------ MODULE FleetCompactionProofs -----------------------
(***************************************************************************)
(* Proofs that compaction preserves what decisions are taken on, and that  *)
(* the properties of FleetLedger survive it.                               *)
(*                                                                         *)
(* The argument has three parts.  Replaying the records of a compacted     *)
(* ledger, group by group, is an induction over the members of a finite    *)
(* set, GroupRule: FlattenSeq and From are folds, and the naturals that    *)
(* satisfy a claim are shown to be all of them (SetInduction).  Rebuilds   *)
(* composes the groups.  It needs an invariant, KeptInv: which old events  *)
(* the ledger still has, what they say of each task, and that only a batch *)
(* under way may leave a restarted task with its old outcome.  That        *)
(* invariant is kept by every record, transaction, cut and compaction.     *)
(***************************************************************************)
EXTENDS FleetCompaction, FleetLedgerProofs, FiniteSetTheorems, WellFoundedInduction

(***************************************************************************)
(* Replaying a sequence of records.                                        *)
(***************************************************************************)
(* Every set of naturals has a least one. *)
LEMMA LeastNatural ==
  ASSUME NEW S, S \subseteq Nat, S # {} PROVE \E x \in S : \A y \in S : x <= y
<1> DEFINE Less == {p \in Nat \X Nat : p[1] < p[2]}
<1>1. IsWellFoundedOn(Less, Nat)
  BY NatLessThanWellFounded DEF OpToRel
<1> HIDE DEF Less
<1>2. \E x \in S : \A y \in S : <<y, x>> \notin Less
  BY <1>1, WFMin, Zenon
<1>3. ASSUME NEW x \in S, NEW y \in S, <<y, x>> \notin Less
      PROVE  x <= y
  BY <1>3 DEF Less
<1> QED
  BY <1>2, <1>3

(* Induction: a set of naturals with 0 and every successor has them all.    *)
LEMMA SetInduction ==
  ASSUME NEW S, 0 \in S, \A n \in Nat : n \in S => n + 1 \in S
  PROVE  Nat \subseteq S
<1> SUFFICES ASSUME Nat \ S # {} PROVE FALSE
  OBVIOUS
<1>1. PICK x \in Nat \ S : \A y \in Nat \ S : x <= y
  BY LeastNatural
<1>2. x # 0 /\ x - 1 \in Nat /\ x - 1 \in S
  BY <1>1
<1> QED
  BY <1>1, <1>2

(* The states that From goes through. *)
Replays(f, s, rs, n) ==
  f = [k \in 0..n |-> IF k = 0 THEN s ELSE apply_any_record(f[k - 1], rs[k])]

(* They exist for every sequence. *)
LEMMA ReplayExists ==
  ASSUME NEW s, NEW rs, NEW n \in Nat
  PROVE  \E f : Replays(f, s, rs, n)
<1> DEFINE S == {m \in Nat : \E f : Replays(f, s, rs, m)}
<1>1. 0 \in S
  <2> DEFINE g == [k \in 0..0 |-> s]
  <2>1. Replays(g, s, rs, 0)
    BY DEF Replays
  <2> HIDE DEF g
  <2> QED BY <2>1
<1>2. ASSUME NEW m \in Nat, m \in S PROVE m + 1 \in S
  <2>1. PICK f : Replays(f, s, rs, m)
    BY <1>2
  <2>f. \A k \in 0..m : f[k] = IF k = 0 THEN s ELSE apply_any_record(f[k - 1], rs[k])
    BY <2>1 DEF Replays
  <2> DEFINE last == apply_any_record(f[m], rs[m + 1])
             g == [k \in 0..(m + 1) |-> IF k = m + 1 THEN last ELSE f[k]]
  <2>2. ASSUME NEW k \in 0..(m + 1)
        PROVE  g[k] = IF k = 0 THEN s ELSE apply_any_record(g[k - 1], rs[k])
    <3>1. CASE k = m + 1
      <4>1. k # 0 /\ k - 1 = m /\ m \in 0..(m + 1) /\ m # m + 1
        BY <3>1
      <4> QED BY <3>1, <4>1
    <3>2. CASE k # m + 1
      <4>1. k \in 0..m /\ (k # 0 => k - 1 \in 0..(m + 1) /\ k - 1 # m + 1)
        BY <3>2
      <4> HIDE DEF last
      <4>2. g[k] = f[k] /\ (k # 0 => g[k - 1] = f[k - 1])
        BY <3>2, <4>1
      <4> QED BY <2>f, <4>1, <4>2
    <3> QED BY <3>1, <3>2
  <2>3. g \in [0..(m + 1) -> {g[k] : k \in 0..(m + 1)}]
    OBVIOUS
  <2> HIDE DEF g
  <2>4. Replays(g, s, rs, m + 1)
    BY <2>2, <2>3 DEF Replays
  <2> QED BY <2>4
<1> HIDE DEF S
<1>3. n \in S
  BY <1>1, <1>2, SetInduction
<1> QED BY <1>3 DEF S

(* They are the same for two sequences as far as these agree. *)
LEMMA ReplayUnique ==
  ASSUME NEW s, NEW p, NEW q, NEW n \in Nat, NEW m \in Nat, NEW f, NEW g,
         n <= m, \A k \in 1..n : p[k] = q[k],
         Replays(f, s, p, n), Replays(g, s, q, m)
  PROVE  f[n] = g[n]
<1> DEFINE S == {k \in Nat : k <= n => f[k] = g[k]}
<1>f. \A k \in 0..n : f[k] = IF k = 0 THEN s ELSE apply_any_record(f[k - 1], p[k])
  BY DEF Replays
<1>g. \A k \in 0..m : g[k] = IF k = 0 THEN s ELSE apply_any_record(g[k - 1], q[k])
  BY DEF Replays
<1>1. 0 \in S
  BY <1>f, <1>g
<1>2. ASSUME NEW k \in Nat, k \in S PROVE k + 1 \in S
  <2> SUFFICES ASSUME k + 1 <= n PROVE f[k + 1] = g[k + 1]
    OBVIOUS
  <2>1. f[k] = g[k] /\ p[k + 1] = q[k + 1]
    BY <1>2
  <2>2. k + 1 \in 0..n /\ k + 1 \in 0..m /\ k + 1 # 0 /\ (k + 1) - 1 = k
    OBVIOUS
  <2>3. f[k + 1] = apply_any_record(f[k], p[k + 1])
    BY <1>f, <2>2
  <2>4. g[k + 1] = apply_any_record(g[k], q[k + 1])
    BY <1>g, <2>2
  <2> QED BY <2>1, <2>3, <2>4
<1> HIDE DEF S
<1>3. n \in S
  BY <1>1, <1>2, SetInduction
<1> QED BY <1>3 DEF S

(* From is the last of them. *)
LEMMA FromIs ==
  ASSUME NEW s, NEW rs, Len(rs) \in Nat
  PROVE  \E f : Replays(f, s, rs, Len(rs)) /\ From(s, rs) = f[Len(rs)]
<1> DEFINE g == CHOOSE f : Replays(f, s, rs, Len(rs))
<1>1. Replays(g, s, rs, Len(rs))
  BY ReplayExists
<1>2. g = CHOOSE f : f = [k \in 0..Len(rs) |->
                            IF k = 0 THEN s ELSE apply_any_record(f[k - 1], rs[k])]
  BY DEF Replays
<1>3. From(s, rs) = g[Len(rs)]
  <2> HIDE DEF g
  <2> QED BY <1>2, Zenon DEF From
<1> HIDE DEF g
<1> QED BY <1>1, <1>3

(* Replaying nothing, one record more, and one sequence after another. *)
LEMMA FromEmpty ==
  ASSUME NEW s PROVE From(s, <<>>) = s
<1>1. Len(<<>>) \in Nat /\ Len(<<>>) = 0
  OBVIOUS
<1>2. PICK f : Replays(f, s, <<>>, 0) /\ From(s, <<>>) = f[0]
  BY <1>1, FromIs
<1> QED BY <1>2 DEF Replays

LEMMA FromAppend ==
  ASSUME NEW T, NEW s, NEW rs, NEW r, rs \in Seq(T), r \in T
  PROVE  From(s, Append(rs, r)) = apply_any_record(From(s, rs), r)
<1> DEFINE n == Len(rs)
           more == Append(rs, r)
<1>1. /\ n \in Nat /\ Len(more) = n + 1 /\ n + 1 \in Nat /\ n <= n + 1
      /\ more[n + 1] = r /\ \A k \in 1..n : rs[k] = more[k]
  OBVIOUS
<1> HIDE DEF more
<1>2. PICK f : Replays(f, s, rs, n) /\ From(s, rs) = f[n]
  BY <1>1, FromIs
<1>3. PICK g : Replays(g, s, more, n + 1) /\ From(s, more) = g[n + 1]
  BY <1>1, FromIs
<1> HIDE DEF n
<1>4. f[n] = g[n]
  BY <1>1, <1>2, <1>3, ReplayUnique
<1>5. g[n + 1] = apply_any_record(g[n], more[n + 1])
  <2>1. n + 1 \in 0..(n + 1) /\ n + 1 # 0 /\ (n + 1) - 1 = n
    BY <1>1
  <2> QED BY <1>3, <2>1 DEF Replays
<1> QED BY <1>1, <1>2, <1>3, <1>4, <1>5 DEF more

LEMMA FromOne ==
  ASSUME NEW s, NEW r
  PROVE  From(s, <<r>>) = apply_any_record(s, r)
<1> DEFINE rs == <<r>>
<1>1. Len(rs) = 1 /\ Len(rs) \in Nat /\ rs[1] = r
  OBVIOUS
<1> HIDE DEF rs
<1>2. PICK f : Replays(f, s, rs, 1) /\ From(s, rs) = f[1]
  BY <1>1, FromIs
<1>3. f[0] = s /\ f[1] = apply_any_record(f[0], rs[1])
  BY <1>2 DEF Replays
<1> QED BY <1>1, <1>2, <1>3 DEF rs

LEMMA FromTwo ==
  ASSUME NEW s, NEW q, NEW r
  PROVE  From(s, <<q, r>>) = apply_any_record(apply_any_record(s, q), r)
<1> DEFINE rs == <<q, r>>
<1>1. Len(rs) = 2 /\ Len(rs) \in Nat /\ rs[1] = q /\ rs[2] = r
  OBVIOUS
<1> HIDE DEF rs
<1>2. PICK f : Replays(f, s, rs, 2) /\ From(s, rs) = f[2]
  BY <1>1, FromIs
<1>3. /\ f[0] = s /\ f[1] = apply_any_record(f[0], rs[1])
      /\ f[2] = apply_any_record(f[1], rs[2])
  BY <1>2 DEF Replays
<1> QED BY <1>1, <1>2, <1>3 DEF rs

LEMMA FromConcat ==
  ASSUME NEW T, NEW s, NEW a, NEW b, a \in Seq(T), b \in Seq(T)
  PROVE  From(s, a \o b) = From(From(s, a), b)
<1> DEFINE S == {n \in Nat : \A c \in Seq(T) : Len(c) = n =>
                   From(s, a \o c) = From(From(s, a), c)}
<1>1. 0 \in S
  <2>1. ASSUME NEW c \in Seq(T), Len(c) = 0 PROVE From(s, a \o c) = From(From(s, a), c)
    <3>1. c = <<>> /\ a \o c = a
      BY <2>1
    <3> QED BY <3>1, FromEmpty
  <2> QED BY <2>1
<1>2. ASSUME NEW n \in Nat, n \in S PROVE n + 1 \in S
  <2>1. ASSUME NEW c \in Seq(T), Len(c) = n + 1
        PROVE  From(s, a \o c) = From(From(s, a), c)
    <3> DEFINE d == SubSeq(c, 1, n)
               r == c[n + 1]
    <3>1. d \in Seq(T) /\ Len(d) = n /\ r \in T /\ c = Append(d, r)
      BY <2>1
    <3> HIDE DEF d, r
    <3> DEFINE u == a \o d
    <3>2. a \o c = Append(u, r) /\ u \in Seq(T)
      BY <3>1
    <3>3. From(s, u) = From(From(s, a), d)
      BY <1>2, <3>1
    <3> HIDE DEF u
    <3>4. From(s, Append(u, r)) = apply_any_record(From(s, u), r)
      BY <3>1, <3>2, FromAppend
    <3>5. From(From(s, a), Append(d, r)) = apply_any_record(From(From(s, a), d), r)
      BY <3>1, FromAppend
    <3> QED BY <3>1, <3>2, <3>3, <3>4, <3>5
  <2> QED BY <2>1
<1> HIDE DEF S
<1>3. Len(b) \in S
  BY <1>1, <1>2, SetInduction
<1> QED BY <1>3 DEF S

(***************************************************************************)
(* Writing a group of records, one part for each member of a finite set.   *)
(***************************************************************************)
(* The partial results of FlattenSeq. *)
Flattens(f, seqs, n) ==
  f = [i \in 1..n |-> IF i = 1 THEN seqs[i] ELSE f[i - 1] \o seqs[i]]

LEMMA FlattenExists ==
  ASSUME NEW seqs, NEW n \in Nat, n > 0
  PROVE  \E f : Flattens(f, seqs, n)
<1> DEFINE S == {m \in Nat : \E f : Flattens(f, seqs, m + 1)}
<1>1. 0 \in S
  <2> DEFINE g == [i \in 1..1 |-> seqs[1]]
  <2>1. Flattens(g, seqs, 1)
    BY DEF Flattens
  <2> HIDE DEF g
  <2> QED BY <2>1
<1>2. ASSUME NEW m \in Nat, m \in S PROVE m + 1 \in S
  <2>1. PICK f : Flattens(f, seqs, m + 1)
    BY <1>2
  <2> DEFINE g == [i \in 1..(m + 2) |-> IF i = m + 2 THEN f[m + 1] \o seqs[m + 2] ELSE f[i]]
  <2>2. Flattens(g, seqs, m + 2)
    <3>1. g = [i \in 1..(m + 2) |-> IF i = 1 THEN seqs[i] ELSE g[i - 1] \o seqs[i]]
      <4>1. ASSUME NEW i \in 1..(m + 2)
            PROVE  g[i] = IF i = 1 THEN seqs[i] ELSE g[i - 1] \o seqs[i]
        <5>1. CASE i = m + 2
          <6>1. i # 1 /\ i - 1 = m + 1 /\ m + 1 \in 1..(m + 2) /\ m + 1 # m + 2
            BY <5>1
          <6> QED BY <5>1, <6>1
        <5>2. CASE i # m + 2
          <6>1. i \in 1..(m + 1) /\ i \in 1..(m + 2)
            BY <5>2
          <6>2. g[i] = f[i]
            BY <6>1, <5>2
          <6>3. f[i] = IF i = 1 THEN seqs[i] ELSE f[i - 1] \o seqs[i]
            BY <6>1, <2>1 DEF Flattens
          <6>4. i # 1 => i - 1 \in 1..(m + 2) /\ i - 1 # m + 2
            BY <6>1
          <6>5. i # 1 => g[i - 1] = f[i - 1]
            BY <6>4
          <6> QED BY <6>2, <6>3, <6>5
        <5> QED BY <5>1, <5>2
      <4> HIDE DEF g
      <4>2. g \in [1..(m + 2) -> {g[i] : i \in 1..(m + 2)}]
        BY DEF g
      <4> QED BY <4>1, <4>2
    <3> QED BY <3>1 DEF Flattens
  <2>3. m + 2 = (m + 1) + 1
    OBVIOUS
  <2> HIDE DEF g
  <2> QED BY <2>2, <2>3
<1>3. n - 1 \in S /\ (n - 1) + 1 = n
  <2> HIDE DEF S
  <2> QED BY <1>1, <1>2, SetInduction
<1> QED BY <1>3

(* FlattenSeq is the last of them. *)
LEMMA FlattenIs ==
  ASSUME NEW seqs, Len(seqs) \in Nat, Len(seqs) > 0
  PROVE  \E f : Flattens(f, seqs, Len(seqs)) /\ FlattenSeq(seqs) = f[Len(seqs)]
<1> DEFINE g == CHOOSE f : Flattens(f, seqs, Len(seqs))
<1>1. Flattens(g, seqs, Len(seqs))
  BY FlattenExists
<1>2. g = CHOOSE f : f = [i \in 1..Len(seqs) |-> IF i = 1 THEN seqs[i] ELSE f[i - 1] \o seqs[i]]
  BY DEF Flattens
<1>3. FlattenSeq(seqs) = g[Len(seqs)]
  <2>1. Len(seqs) # 0
    OBVIOUS
  <2> HIDE DEF g
  <2> QED BY <1>2, <2>1, Zenon DEF FlattenSeq
<1> HIDE DEF g
<1> QED BY <1>1, <1>3

(* They are the same for two families of parts that agree. *)
LEMMA FlattenUnique ==
  ASSUME NEW s, NEW t, NEW n, NEW m, NEW f, NEW g,
         n \in Nat, m \in Nat, n <= m, \A i \in 1..n : t[i] = s[i],
         Flattens(f, s, n), Flattens(g, t, m)
  PROVE  \A i \in 1..n : f[i] = g[i]
<1> DEFINE S == {k \in Nat : k + 1 \in 1..n => f[k + 1] = g[k + 1]}
<1>f. \A i \in 1..n : f[i] = IF i = 1 THEN s[i] ELSE f[i - 1] \o s[i]
  BY DEF Flattens
<1>g. \A i \in 1..m : g[i] = IF i = 1 THEN t[i] ELSE g[i - 1] \o t[i]
  BY DEF Flattens
<1>1. 0 \in S
  BY <1>f, <1>g
<1>2. ASSUME NEW k \in Nat, k \in S PROVE k + 1 \in S
  <2> SUFFICES ASSUME k + 2 \in 1..n PROVE f[k + 2] = g[k + 2]
    BY (k + 1) + 1 = k + 2
  <2>1. k + 1 \in 1..n /\ k + 2 # 1 /\ (k + 2) - 1 = k + 1 /\ k + 2 \in 1..m
    OBVIOUS
  <2>2. f[k + 1] = g[k + 1]
    BY <1>2, <2>1
  <2>3. f[k + 2] = f[k + 1] \o s[k + 2]
    BY <1>f, <2>1
  <2>4. g[k + 2] = g[k + 1] \o t[k + 2]
    BY <1>g, <2>1
  <2> QED BY <2>2, <2>3, <2>4
<1>3. Nat \subseteq S
  <2> HIDE DEF S
  <2> QED BY <1>1, <1>2, SetInduction
<1>4. ASSUME NEW i \in 1..n PROVE f[i] = g[i]
  <2>1. i - 1 \in Nat /\ (i - 1) + 1 = i
    OBVIOUS
  <2> QED BY <1>3, <2>1
<1> QED BY <1>4

(* Flattening one part more appends it. *)
LEMMA FlattenAppend ==
  ASSUME NEW s, NEW t, Len(s) \in Nat, Len(s) > 0, Len(t) = Len(s) + 1,
         \A i \in 1..Len(s) : t[i] = s[i]
  PROVE  FlattenSeq(t) = FlattenSeq(s) \o t[Len(t)]
<1>1. PICK f : Flattens(f, s, Len(s)) /\ FlattenSeq(s) = f[Len(s)]
  BY FlattenIs
<1>2. PICK g : Flattens(g, t, Len(t)) /\ FlattenSeq(t) = g[Len(t)]
  BY FlattenIs
<1>3. f[Len(s)] = g[Len(s)]
  <2>1. Flattens(f, s, Len(s)) /\ Flattens(g, t, Len(t)) /\ Len(s) <= Len(t) /\ Len(t) \in Nat
    BY <1>1, <1>2
  <2>2. \A i \in 1..Len(s) : f[i] = g[i]
    <3> DEFINE n == Len(s)
               m == Len(t)
    <3>1. n \in Nat /\ m \in Nat /\ n <= m /\ \A i \in 1..n : t[i] = s[i]
      BY <2>1
    <3>2. Flattens(f, s, n) /\ Flattens(g, t, m)
      BY <2>1
    <3> HIDE DEF n, m
    <3>3. \A i \in 1..n : f[i] = g[i]
      BY <3>1, <3>2, FlattenUnique
    <3> QED BY <3>3 DEF n
  <2> QED BY <2>2
<1>4. g[Len(t)] = g[Len(s)] \o t[Len(t)]
  <2>1. Len(t) \in 1..Len(t) /\ Len(t) # 1 /\ Len(t) - 1 = Len(s)
    OBVIOUS
  <2> QED BY <1>2, <2>1 DEF Flattens
<1> QED BY <1>1, <1>2, <1>3, <1>4

(* One part alone is its own flattening. *)
LEMMA FlattenSingle ==
  ASSUME NEW s, Len(s) = 1
  PROVE  FlattenSeq(s) = s[1]
<1>0. Len(s) \in Nat /\ Len(s) > 0
  OBVIOUS
<1>1. PICK f : Flattens(f, s, Len(s)) /\ FlattenSeq(s) = f[Len(s)]
  BY <1>0, FlattenIs, Zenon
<1>2. f[1] = s[1]
  BY <1>1 DEF Flattens
<1> QED BY <1>1, <1>2

(* The elements of a finite set in some order. *)
LEMMA InSomeOrder ==
  ASSUME NEW S, IsFiniteSet(S)
  PROVE  /\ Cardinality(S) \in Nat /\ SetToSeq(S) \in [1..Cardinality(S) -> S]
         /\ \A i, j \in 1..Cardinality(S) : SetToSeq(S)[i] = SetToSeq(S)[j] => i = j
         /\ \A x \in S : \E i \in 1..Cardinality(S) : SetToSeq(S)[i] = x
<1> DEFINE n == Cardinality(S)
           f == SetToSeq(S)
<1>1. n \in Nat /\ ExistsBijection(1..n, S)
  BY FS_CardinalityType
<1> HIDE DEF n
<1>2. \E g \in [1..n -> S] : IsInjective(g)
  BY <1>1 DEF ExistsBijection, Bijection, Injection, IsInjective
<1>3. f \in [1..n -> S] /\ IsInjective(f)
  BY <1>2 DEF SetToSeq, n
<1> HIDE DEF f
<1>4. f \in Injection(1..n, S)
  BY <1>3 DEF Injection, IsInjective
<1>5. Cardinality(1..n) = n
  BY <1>1, FS_Interval
<1>6. f \in Surjection(1..n, S)
  BY <1>4, <1>5, FS_Injection DEF n
<1> QED BY <1>1, <1>3, <1>6 DEF Surjection, IsInjective, f, n

(* Whatever holds of nothing processed and the first state, and goes on to   *)
(* hold when one more of S is processed, holds after all of S.              *)
LEMMA GroupRule ==
  ASSUME NEW S, NEW T, NEW of, NEW s, NEW G,
         IsFiniteSet(S), of \in [S -> Seq(T)], <<{}, s>> \in G,
         \A D, n : \A x \in S : <<D, n>> \in G /\ x \notin D =>
           <<D \cup {x}, From(n, of[x])>> \in G
  PROVE  /\ ForAll(S, of) \in Seq(T)
         /\ <<S, From(s, ForAll(S, of))>> \in G
<1> DEFINE n == Cardinality(S)
           order == SetToSeq(S)
           part(k) == [i \in 1..k |-> of[order[i]]]
           done(k) == {order[i] : i \in 1..k}
           all(k) == FlattenSeq(part(k))
           K == {k \in Nat : k <= n => all(k) \in Seq(T) /\ <<done(k), From(s, all(k))>> \in G}
<1>1. /\ n \in Nat /\ order \in [1..n -> S]
      /\ \A i, j \in 1..n : order[i] = order[j] => i = j
      /\ \A x \in S : \E i \in 1..n : order[i] = x
  BY InSomeOrder
<1> HIDE DEF n, order
<1>2. \A k \in Nat : /\ Len(part(k)) = k /\ \A i \in 1..k : part(k)[i] = of[order[i]]
  OBVIOUS
<1>3. part(0) = <<>>
  OBVIOUS
<1>4. 0 \in K
  <2>1. all(0) = <<>>
    BY <1>3 DEF FlattenSeq
  <2>2. done(0) = {}
    OBVIOUS
  <2>3. From(s, <<>>) = s /\ <<>> \in Seq(T)
    BY FromEmpty
  <2> HIDE DEF all, done
  <2> QED BY <2>1, <2>2, <2>3
<1>5. ASSUME NEW k \in Nat, k \in K PROVE k + 1 \in K
  <2> SUFFICES ASSUME k + 1 <= n
               PROVE  all(k + 1) \in Seq(T) /\ <<done(k + 1), From(s, all(k + 1))>> \in G
    OBVIOUS
  <2> DEFINE x == order[k + 1]
             a == all(k)
             b == of[x]
  <2>1. k <= n /\ k + 1 \in 1..n /\ x \in S
    BY <1>1
  <2>2. a \in Seq(T) /\ <<done(k), From(s, a)>> \in G
    BY <1>5, <2>1
  <2>3. b \in Seq(T)
    BY <2>1
  <2>4. all(k + 1) = a \o b
    <3>1. CASE k = 0
      <4>1. Len(part(1)) = 1 /\ part(1)[1] = b
        BY <3>1, <1>2
      <4> HIDE DEF part
      <4>2. all(1) = b
        BY <4>1, FlattenSingle
      <4>3. a = <<>>
        BY <3>1, <1>3 DEF FlattenSeq
      <4> HIDE DEF a, b, all
      <4> QED BY <3>1, <4>2, <4>3, <2>3
    <3>2. CASE k # 0
      <4> DEFINE p == part(k)
                 q == part(k + 1)
      <4>1. Len(p) = k /\ Len(q) = k + 1 /\ q[k + 1] = b
        BY <1>2
      <4>2. \A i \in 1..k : q[i] = p[i]
        BY <1>2
      <4> HIDE DEF p, q, b
      <4>3. Len(p) \in Nat /\ Len(p) > 0 /\ Len(q) = Len(p) + 1 /\ \A i \in 1..Len(p) : q[i] = p[i]
        BY <3>2, <4>1, <4>2
      <4>4. FlattenSeq(q) = FlattenSeq(p) \o q[Len(q)]
        BY <4>3, FlattenAppend
      <4> QED BY <4>1, <4>4 DEF p, q
    <3> QED BY <3>1, <3>2
  <2>5. done(k + 1) = done(k) \cup {x} /\ x \notin done(k)
    <3>1. \A i \in 1..(k + 1) : i \in 1..k \/ i = k + 1
      OBVIOUS
    <3>2. \A i \in 1..k : i \in 1..n /\ i # k + 1 /\ i \in 1..(k + 1)
      BY <1>1, <2>1
    <3>3. k + 1 \in 1..(k + 1)
      OBVIOUS
    <3>4. x \notin done(k)
      BY <1>1, <2>1, <3>2
    <3>5. done(k + 1) = done(k) \cup {x}
      BY <3>1, <3>2, <3>3
    <3> QED BY <3>4, <3>5
  <2> HIDE DEF all, done, a, b, x
  <2>6. From(s, a \o b) = From(From(s, a), b) /\ a \o b \in Seq(T)
    BY <2>2, <2>3, FromConcat
  <2>7. <<done(k) \cup {x}, From(From(s, a), b)>> \in G
    BY <2>1, <2>2, <2>5 DEF b
  <2> QED BY <2>4, <2>5, <2>6, <2>7
<1> HIDE DEF K
<1>6. n \in K
  BY <1>1, <1>4, <1>5, SetInduction
<1>7. all(n) \in Seq(T) /\ <<done(n), From(s, all(n))>> \in G
  BY <1>1, <1>6 DEF K
<1>8. done(n) = S
  BY <1>1
<1>9. all(n) = ForAll(S, of)
  BY DEF ForAll, n, order
<1> QED BY <1>7, <1>8, <1>9

(***************************************************************************)
(* What the records of a compacted ledger do to the state.                 *)
(***************************************************************************)
AnyRecords ==
  Records
  \cup [kind: {"EnqueuedAgain"}, task: Tasks, attempts: Nat]
  \cup [kind: {"TaskLifecycleCheckpoint"}, task: Tasks, seq: Nat]
  \cup [kind: {"EventSequenceCheckpoint"}, worker: Workers, task: Tasks, seq: Nat]
  \cup [kind: {"ReceiptRecorded"}, task: Tasks, receipt: Receipts]

SameRuns(s, n) == n.runs = s.runs /\ n.run_status = s.run_status
SameBeats(s, n) == n.heartbeats = s.heartbeats
OnlyTasks(s, n) == SameRuns(s, n) /\ SameBeats(s, n) /\ SameLog(s, n) /\ SameNotes(s, n)
OnlyTask(s, n, t) == SameTasksBut(s, n, t) /\ OnlyTasks(s, n)

(* A run is created with its status. *)
LEMMA RunRecords ==
  ASSUME NEW s, NEW r, NEW status,
         s \in States, r \in Runs, status \in RunStatuses
  PROVE  LET n == From(s, <<RunCreated(r), RunStatusChanged(r, status)>>) IN
         /\ n \in States /\ n.runs = s.runs \cup {r}
         /\ n.run_status = [s.run_status EXCEPT ![r] = status]
         /\ n.tasks = s.tasks /\ SameBeats(s, n) /\ SameLog(s, n) /\ SameNotes(s, n)
         /\ <<RunCreated(r), RunStatusChanged(r, status)>> \in Seq(AnyRecords)
<1> DEFINE a == RunCreated(r)
           b == RunStatusChanged(r, status)
           m == apply_any_record(s, a)
           n == apply_any_record(m, b)
<1>1. a \in Records /\ b \in Records
  BY DEF Records, RunCreated, RunStatusChanged
<1>2. m = [s EXCEPT !.runs = @ \cup {r}]
  BY DEF apply_any_record, apply_record, RunCreated
<1> HIDE DEF m
<1>3. n = [m EXCEPT !.run_status[r] = status]
  BY DEF apply_any_record, apply_record, RunStatusChanged
<1> HIDE DEF n
<1>4. /\ m \in States /\ m.runs = s.runs \cup {r} /\ m.run_status = s.run_status
      /\ m.tasks = s.tasks /\ SameBeats(s, m) /\ SameLog(s, m) /\ SameNotes(s, m)
  BY <1>2 DEF States, SameBeats, SameLog, SameNotes
<1>5. /\ n \in States /\ n.runs = m.runs
      /\ n.run_status = [m.run_status EXCEPT ![r] = status]
      /\ n.tasks = m.tasks /\ SameBeats(m, n) /\ SameLog(m, n) /\ SameNotes(m, n)
  BY <1>3, <1>4 DEF States, SameBeats, SameLog, SameNotes
<1>6. From(s, <<a, b>>) = n
  BY FromTwo DEF m, n
<1>7. <<a, b>> \in Seq(AnyRecords)
  <2> HIDE DEF a, b
  <2> QED BY <1>1 DEF AnyRecords
<1> HIDE DEF a, b
<1>8. SameBeats(s, n) /\ SameLog(s, n) /\ SameNotes(s, n)
  BY <1>4, <1>5 DEF SameBeats, SameLog, SameNotes
<1> QED BY <1>4, <1>5, <1>6, <1>7, <1>8 DEF a, b

(* A task of the compacted ledger is queued with the attempts it had. *)
LEMMA EnqueueRecord ==
  ASSUME NEW s, NEW t, NEW attempts,
         s \in States, t \in Tasks, attempts \in Nat, s.tasks[t].status = "Absent"
  PROVE  LET n == apply_any_record(s, EnqueuedAgain(t, attempts)) IN
         /\ n \in States /\ OnlyTask(s, n, t)
         /\ n.tasks[t].status = "Enqueued" /\ n.tasks[t].lifecycle_seq = 1
         /\ n.tasks[t].leased_to = NoWorker /\ n.tasks[t].attempts = attempts
         /\ n.tasks[t].leased_at = Never /\ n.tasks[t].lease_deadline = Never
         /\ EnqueuedAgain(t, attempts) \in AnyRecords
<1> DEFINE new == [NoTask EXCEPT !.status = "Enqueued", !.lifecycle_seq = 1]
           q == [s EXCEPT !.tasks[t] = new]
           again == [new EXCEPT !.attempts = attempts]
           n == apply_any_record(s, EnqueuedAgain(t, attempts))
<1>1. new \in TaskStates /\ again \in TaskStates
  BY NoWorkerAssumption DEF NoTask, TaskStates, TaskLedgerStatuses, Never
<1>2. /\ again.status = "Enqueued" /\ again.lifecycle_seq = 1
      /\ again.leased_to = NoWorker /\ again.attempts = attempts
      /\ again.leased_at = Never /\ again.lease_deadline = Never
  BY DEF NoTask, Never
<1>3. n = [q EXCEPT !.tasks[t].attempts = attempts]
  BY DEF apply_any_record, EnqueuedAgain, ApplyEnqueue
<1> HIDE DEF n
<1>4. n = [s EXCEPT !.tasks[t] = again]
  <2> HIDE DEF new
  <2> QED BY <1>1, <1>3 DEF States
<1> HIDE DEF new, again
<1>5. n \in States
  BY <1>1, <1>4, TaskUpdateType
<1>6. n.tasks[t] = again /\ OnlyTask(s, n, t)
  BY <1>4 DEF States, OnlyTask, OnlyTasks, SameTasksBut, SameRuns, SameBeats, SameLog, SameNotes
<1>7. EnqueuedAgain(t, attempts) \in AnyRecords
  BY DEF AnyRecords, EnqueuedAgain
<1> QED BY <1>2, <1>5, <1>6, <1>7 DEF n

(* Its lease counts one more attempt and one more change of status. *)
LEMMA LeaseRecord ==
  ASSUME NEW s, NEW t, NEW w, NEW at, NEW deadline,
         s \in States, t \in Tasks, w \in Workers, at \in Nat, deadline \in Nat,
         s.tasks[t].status = "Enqueued"
  PROVE  LET n == apply_any_record(s, TaskLeased(t, w, at, deadline)) IN
         /\ n \in States /\ OnlyTask(s, n, t)
         /\ n.tasks[t].status = "Leased"
         /\ n.tasks[t].lifecycle_seq = s.tasks[t].lifecycle_seq + 1
         /\ n.tasks[t].leased_to = w /\ n.tasks[t].attempts = s.tasks[t].attempts + 1
         /\ n.tasks[t].leased_at = at /\ n.tasks[t].lease_deadline = deadline
         /\ TaskLeased(t, w, at, deadline) \in AnyRecords
<1> DEFINE old == s.tasks[t]
           r == TaskLeased(t, w, at, deadline)
           seq == old.lifecycle_seq + 1
           count == old.attempts + 1
           new == [old EXCEPT !.lifecycle_seq = seq, !.status = "Leased", !.leased_to = w,
                              !.leased_at = at, !.lease_deadline = deadline, !.attempts = count]
           n == apply_any_record(s, r)
<1>1. old \in TaskStates /\ old.status = "Enqueued" /\ seq \in Nat /\ count \in Nat
  BY DEF States, TaskStates
<1>2. r \in Records /\ r.kind = "TaskLeased" /\ r.task = t /\ r.worker = w
      /\ r.leased_at = at /\ r.lease_expires_at = deadline
  BY DEF TaskLeased, Records
<1>3. n = ApplyLease(s, r)
  BY DEF apply_any_record, apply_record, TaskLeased
<1> HIDE DEF r, n
<1>4. n = [s EXCEPT !.tasks[t] = new]
  BY <1>1, <1>2, <1>3 DEF ApplyLease
<1>5. /\ new.status = "Leased" /\ new.lifecycle_seq = seq /\ new.leased_to = w
      /\ new.attempts = count /\ new.leased_at = at /\ new.lease_deadline = deadline
  <2> HIDE DEF old, seq, count
  <2> QED BY <1>1 DEF TaskStates
<1> HIDE DEF new
<1>6. n.tasks[t] = new /\ OnlyTask(s, n, t)
  BY <1>4 DEF States, OnlyTask, OnlyTasks, SameTasksBut, SameRuns, SameBeats, SameLog, SameNotes
<1>7. n \in States
  BY <1>2, <1>3, ApplyLeaseType
<1> QED BY <1>2, <1>5, <1>6, <1>7 DEF n, r, AnyRecords

(* The end of a task leaves its attempts and its lease alone. *)
LEMMA MarkDetails ==
  ASSUME NEW s, NEW t, NEW w, NEW at, NEW status,
         s \in States, t \in Tasks, w \in Workers \cup {NoWorker}, at \in Nat,
         status \in TerminalStatuses, s.tasks[t].status # "Absent"
  PROVE  LET n == MarkTaskTerminal(s, t, w, at, status)
             old == s.tasks[t] IN
         /\ n \in States /\ OnlyTask(s, n, t)
         /\ n.tasks[t].status = status
         /\ n.tasks[t].lifecycle_seq = IF old.status = status THEN old.lifecycle_seq
                                       ELSE old.lifecycle_seq + 1
         /\ n.tasks[t].leased_to = IF w = NoWorker THEN old.leased_to ELSE w
         /\ n.tasks[t].attempts = old.attempts
         /\ n.tasks[t].leased_at = old.leased_at
         /\ n.tasks[t].lease_deadline = old.lease_deadline
<1> DEFINE old == s.tasks[t]
           seq == IF old.status = status THEN old.lifecycle_seq
                  ELSE old.lifecycle_seq + 1
           owner == IF w = NoWorker THEN old.leased_to ELSE w
           new == [old EXCEPT !.status = status, !.lifecycle_seq = seq,
                              !.leased_to = owner, !.completed_at = at]
           n == MarkTaskTerminal(s, t, w, at, status)
<1>1. old \in TaskStates
  BY DEF States
<1>2. n = [s EXCEPT !.tasks[t] = new]
  BY DEF MarkTaskTerminal
<1>3. /\ new.status = status /\ new.lifecycle_seq = seq /\ new.leased_to = owner
      /\ new.attempts = old.attempts /\ new.leased_at = old.leased_at
      /\ new.lease_deadline = old.lease_deadline
  <2> HIDE DEF old, seq, owner
  <2> QED BY <1>1 DEF TaskStates
<1>4. n \in States
  BY MarkTaskTerminalType
<1> HIDE DEF new, n
<1>5. n.tasks[t] = new /\ OnlyTask(s, n, t)
  BY <1>2 DEF States, OnlyTask, OnlyTasks, SameTasksBut, SameRuns, SameBeats, SameLog, SameNotes
<1> QED BY <1>3, <1>4, <1>5 DEF n

(* Events may come with an old number here: then they only count as the     *)
(* outcome of their task.                                                   *)
OtherLogs(s, n, w, t) ==
  \A v \in Workers, u \in Tasks : v # w \/ u # t =>
    /\ n.latest_seq[v][u] = s.latest_seq[v][u]
    /\ n.latest_payload[v][u] = s.latest_payload[v][u]

Entered(s, n, e) ==
  LET w == e.worker
      t == e.task
      newer == e.seq > s.latest_seq[w][t]
  IN
  /\ OtherLogs(s, n, w, t)
  /\ n.latest_seq[w][t] = IF newer THEN e.seq ELSE s.latest_seq[w][t]
  /\ n.latest_payload[w][t] = IF newer /\ ~RegressesTerminalState(s, e) THEN e.payload
                              ELSE s.latest_payload[w][t]

(* An event is entered into the log first, then it may end its task. *)
LEMMA EventInTwo ==
  ASSUME NEW s, NEW e, s \in States, e \in Events
  PROVE  \E n \in States :
           /\ n.tasks = s.tasks /\ SameRuns(s, n) /\ SameBeats(s, n) /\ SameNotes(s, n)
           /\ Entered(s, n, e)
           /\ ApplyEvent(s, e) =
                IF e.payload \in TerminalPayloads
                THEN MarkTaskTerminal(n, e.task, e.worker, e.timestamp, e.payload) ELSE n
<1> DEFINE w == e.worker
           t == e.task
           late == RegressesTerminalState(s, e)
           newer == e.seq > s.latest_seq[w][t]
           seq == IF newer THEN e.seq ELSE s.latest_seq[w][t]
           payload == IF newer /\ ~late THEN e.payload ELSE s.latest_payload[w][t]
           status == IF late THEN s.workers[w]
                     ELSE WorkerStatusAfter(e.payload, s.workers[w])
           n == [s EXCEPT !.latest_seq[w][t] = seq,
                          !.latest_payload[w][t] = payload,
                          !.workers[w] = status]
<1>1. /\ w \in Workers /\ t \in Tasks /\ e.seq \in Nat
      /\ e.payload \in Payloads /\ e.timestamp \in Nat
  BY DEF Events
<1>2. /\ s.latest_seq[w][t] \in Nat
      /\ s.latest_payload[w][t] \in Payloads \cup {"None"}
      /\ s.workers[w] \in WorkerStatuses
  BY <1>1 DEF States
<1>3. status \in WorkerStatuses
  BY <1>2 DEF WorkerStatusAfter, WorkerStatuses
<1>4. seq \in Nat /\ payload \in Payloads \cup {"None"}
  BY <1>1, <1>2
<1>5. ApplyEvent(s, e) =
        IF e.payload \in TerminalPayloads
        THEN MarkTaskTerminal(n, t, w, e.timestamp, e.payload) ELSE n
  BY DEF ApplyEvent
<1>6. /\ n \in States /\ n.tasks = s.tasks
      /\ SameRuns(s, n) /\ SameBeats(s, n) /\ SameNotes(s, n)
      /\ n.latest_seq[w][t] = seq /\ n.latest_payload[w][t] = payload
      /\ OtherLogs(s, n, w, t)
  <2> HIDE DEF w, t, seq, payload, status
  <2>1. n \in States
    BY <1>1, <1>3, <1>4, EventLogType
  <2> QED
    BY <1>1, <2>1 DEF States, SameNotes, SameRuns, SameBeats, OtherLogs
<1> HIDE DEF n
<1>7. Entered(s, n, e)
  BY <1>6 DEF Entered
<1> QED BY <1>5, <1>6, <1>7

EventOfTask(w, t, seq, payload, at) ==
  [worker |-> w, task |-> t, seq |-> seq, payload |-> payload, timestamp |-> at]

(* What an event of a leased task leaves in the state. *)
EventShown(s, n, w, t, seq, payload) ==
  LET newer == seq > s.latest_seq[w][t] IN
  /\ SameTasksBut(s, n, t) /\ SameRuns(s, n) /\ SameBeats(s, n) /\ SameNotes(s, n)
  /\ OtherLogs(s, n, w, t)
  /\ n.latest_seq[w][t] = IF newer THEN seq ELSE s.latest_seq[w][t]
  /\ n.latest_payload[w][t] = IF newer THEN payload ELSE s.latest_payload[w][t]
  /\ n.tasks[t].leased_to = w /\ n.tasks[t].attempts = s.tasks[t].attempts
  /\ n.tasks[t].leased_at = s.tasks[t].leased_at
  /\ n.tasks[t].lease_deadline = s.tasks[t].lease_deadline
  /\ payload \in TerminalPayloads =>
       /\ n.tasks[t].status = payload
       /\ n.tasks[t].lifecycle_seq = s.tasks[t].lifecycle_seq + 1
  /\ payload \notin TerminalPayloads =>
       /\ n.tasks[t].status = "Leased"
       /\ n.tasks[t].lifecycle_seq = s.tasks[t].lifecycle_seq

(* A retained event of a leased task, numbered as it was. *)
LEMMA EventRecord ==
  ASSUME NEW s, NEW w, NEW t, NEW seq, NEW payload, NEW at,
         s \in States, w \in Workers, t \in Tasks, seq \in Nat, payload \in Payloads, at \in Nat,
         s.tasks[t].status = "Leased", s.tasks[t].leased_to = w
  PROVE  LET r == EventAppended(EventOfTask(w, t, seq, payload, at))
             n == apply_any_record(s, r) IN
         n \in States /\ r \in AnyRecords /\ EventShown(s, n, w, t, seq, payload)
<1> DEFINE e == EventOfTask(w, t, seq, payload, at)
           r == EventAppended(e)
           n == apply_any_record(s, r)
           newer == seq > s.latest_seq[w][t]
<1>1. /\ e \in Events /\ e.worker = w /\ e.task = t /\ e.seq = seq /\ e.payload = payload
      /\ e.timestamp = at
  BY DEF EventOfTask, Events
<1>2. n = ApplyEvent(s, e) /\ r \in AnyRecords
  <2> HIDE DEF e
  <2> QED BY <1>1 DEF apply_any_record, apply_record, EventAppended, AnyRecords, Records
<1>3. ~RegressesTerminalState(s, e)
  <2> HIDE DEF e
  <2> QED BY <1>1 DEF RegressesTerminalState, IsTerminal, TerminalStatuses
<1> HIDE DEF e, r, n
<1>4. PICK m \in States :
        /\ m.tasks = s.tasks /\ SameRuns(s, m) /\ SameBeats(s, m) /\ SameNotes(s, m)
        /\ Entered(s, m, e)
        /\ ApplyEvent(s, e) =
             IF e.payload \in TerminalPayloads
             THEN MarkTaskTerminal(m, e.task, e.worker, e.timestamp, e.payload) ELSE m
  BY <1>1, EventInTwo
<1>5. /\ OtherLogs(s, m, w, t)
      /\ m.latest_seq[w][t] = IF newer THEN seq ELSE s.latest_seq[w][t]
      /\ m.latest_payload[w][t] = IF newer THEN payload ELSE s.latest_payload[w][t]
  BY <1>1, <1>3, <1>4 DEF Entered
<1>6. CASE payload \in TerminalPayloads
  <2>1. n = MarkTaskTerminal(m, t, w, at, payload)
    BY <1>1, <1>2, <1>4, <1>6
  <2>2. m.tasks[t].status = "Leased" /\ w # NoWorker /\ payload # "Leased"
    BY <1>4, <1>6, NoWorkerAssumption DEF TerminalPayloads, TerminalStatuses
  <2>3. payload \in TerminalStatuses /\ w \in Workers \cup {NoWorker}
    BY <1>6 DEF TerminalPayloads
  <2>4. /\ n \in States /\ OnlyTask(m, n, t)
        /\ n.tasks[t].status = payload
        /\ n.tasks[t].lifecycle_seq = IF m.tasks[t].status = payload THEN m.tasks[t].lifecycle_seq
                                      ELSE m.tasks[t].lifecycle_seq + 1
        /\ n.tasks[t].leased_to = IF w = NoWorker THEN m.tasks[t].leased_to ELSE w
        /\ n.tasks[t].attempts = m.tasks[t].attempts
        /\ n.tasks[t].leased_at = m.tasks[t].leased_at
        /\ n.tasks[t].lease_deadline = m.tasks[t].lease_deadline
    BY <2>1, <2>2, <2>3, MarkDetails
  <2>5. /\ SameTasksBut(s, n, t) /\ SameRuns(s, n) /\ SameBeats(s, n) /\ SameNotes(s, n)
        /\ n.latest_seq = m.latest_seq /\ n.latest_payload = m.latest_payload
    BY <1>4, <2>4
    DEF OnlyTask, OnlyTasks, SameTasksBut, SameRuns, SameBeats, SameNotes, SameLog
  <2>6. OtherLogs(s, n, w, t)
    BY <1>5, <2>5 DEF OtherLogs
  <2> QED BY <1>2, <1>4, <1>5, <1>6, <2>2, <2>4, <2>5, <2>6 DEF n, r, e, EventShown
<1>7. CASE payload \notin TerminalPayloads
  <2>1. n = m
    BY <1>1, <1>2, <1>4, <1>7
  <2> QED BY <1>2, <1>4, <1>5, <1>7, <2>1 DEF n, r, e, SameTasksBut, EventShown
<1> QED BY <1>6, <1>7

(* An alert that is sent again is an escalation in the log. *)
LEMMA AlertRecord ==
  ASSUME NEW s, NEW t, NEW channel, NEW w, NEW attempt, NEW seq,
         s \in States, t \in Tasks, channel \in Channels, w \in Workers, attempt \in Nat,
         seq \in Nat, [task |-> t, attempt |-> attempt, channel |-> channel] \notin s.alerts
  PROVE  LET r == AlertSent(t, channel, w, attempt, seq, Never)
             n == apply_any_record(s, r)
             newer == seq > s.latest_seq[w][t] IN
         /\ n \in States /\ r \in AnyRecords
         /\ n.tasks = s.tasks /\ SameRuns(s, n) /\ SameBeats(s, n)
         /\ n.receipts = s.receipts
         /\ n.alerts = s.alerts \cup {[task |-> t, attempt |-> attempt, channel |-> channel]}
         /\ OtherLogs(s, n, w, t)
         /\ n.latest_seq[w][t] = IF newer THEN seq ELSE s.latest_seq[w][t]
         /\ n.latest_payload[w][t] = IF newer THEN "Escalated" ELSE s.latest_payload[w][t]
<1> DEFINE alert == [task |-> t, attempt |-> attempt, channel |-> channel]
           e == EventOfTask(w, t, seq, "Escalated", Never)
           r == AlertSent(t, channel, w, attempt, seq, Never)
           alerts == s.alerts \cup {alert}
           q == [s EXCEPT !.alerts = alerts]
           n == apply_any_record(s, r)
           newer == seq > s.latest_seq[w][t]
<1>1. /\ e \in Events /\ e.worker = w /\ e.task = t /\ e.seq = seq /\ e.payload = "Escalated"
      /\ e.payload \notin TerminalPayloads /\ e.payload \notin ProgressPayloads
  BY DEF EventOfTask, Events, Payloads, TerminalPayloads, TerminalStatuses, ProgressPayloads,
         BusyPayloads, Never
<1>2. r \in Records
  BY DEF AlertSent, Records, Never
<1>3. alert \in Alerts
  BY DEF Alerts
<1>4. n = ApplyEvent(q, e)
  <2>1. n = ApplyAlert(s, r)
    BY DEF apply_any_record, apply_record, AlertSent
  <2>2. /\ r.task = t /\ r.attempt = attempt /\ r.channel = channel /\ r.worker = w
        /\ r.seq = seq /\ r.timestamp = Never
    BY DEF AlertSent
  <2> HIDE DEF n, r
  <2> QED BY <2>1, <2>2 DEF ApplyAlert, EventOfTask
<1>5. /\ q \in States /\ q.tasks = s.tasks /\ q.alerts = alerts /\ q.receipts = s.receipts
      /\ SameRuns(s, q) /\ SameBeats(s, q) /\ SameLog(s, q)
  BY <1>3 DEF States, SameRuns, SameBeats, SameLog
<1> HIDE DEF e, r, n, q, alerts, alert
<1>6. PICK m \in States :
        /\ m.tasks = q.tasks /\ SameRuns(q, m) /\ SameBeats(q, m) /\ SameNotes(q, m)
        /\ Entered(q, m, e)
        /\ ApplyEvent(q, e) =
             IF e.payload \in TerminalPayloads
             THEN MarkTaskTerminal(m, e.task, e.worker, e.timestamp, e.payload) ELSE m
  BY <1>1, <1>5, EventInTwo
<1>7. n = m
  BY <1>1, <1>4, <1>6
<1>8. /\ OtherLogs(s, m, w, t)
      /\ m.latest_seq[w][t] = IF newer THEN seq ELSE s.latest_seq[w][t]
      /\ m.latest_payload[w][t] = IF newer THEN "Escalated" ELSE s.latest_payload[w][t]
  BY <1>1, <1>5, <1>6 DEF Entered, SameLog, OtherLogs, RegressesTerminalState
<1>9. /\ m.tasks = s.tasks /\ SameRuns(s, m) /\ SameBeats(s, m)
      /\ m.receipts = s.receipts /\ m.alerts = alerts
  BY <1>5, <1>6 DEF SameRuns, SameBeats, SameNotes
<1> QED BY <1>2, <1>6, <1>7, <1>8, <1>9 DEF n, r, alerts, alert, AnyRecords

(* A checkpoint of a number only raises it. *)
LEMMA SequenceRecord ==
  ASSUME NEW s, NEW w, NEW t, NEW seq,
         s \in States, w \in Workers, t \in Tasks, seq \in Nat
  PROVE  LET r == EventSequenceCheckpoint(w, t, seq)
             n == apply_any_record(s, r) IN
         /\ n \in States /\ r \in AnyRecords
         /\ n.tasks = s.tasks /\ SameRuns(s, n) /\ SameBeats(s, n) /\ SameNotes(s, n)
         /\ n.latest_payload = s.latest_payload /\ OtherLogs(s, n, w, t)
         /\ n.latest_seq[w][t] = IF s.latest_seq[w][t] < seq THEN seq ELSE s.latest_seq[w][t]
<1> DEFINE r == EventSequenceCheckpoint(w, t, seq)
           n == apply_any_record(s, r)
           q == IF s.latest_seq[w][t] < seq THEN seq ELSE s.latest_seq[w][t]
<1>1. r \in AnyRecords
  BY DEF EventSequenceCheckpoint, AnyRecords
<1>2. n = [s EXCEPT !.latest_seq[w][t] = q]
  BY DEF apply_any_record, EventSequenceCheckpoint, AtLeast
<1>3. q \in Nat
  BY DEF States
<1> HIDE DEF n, r
<1>4. /\ n \in States /\ n.tasks = s.tasks /\ SameRuns(s, n) /\ SameBeats(s, n)
      /\ SameNotes(s, n) /\ n.latest_payload = s.latest_payload /\ OtherLogs(s, n, w, t)
      /\ n.latest_seq[w][t] = q
  <2> HIDE DEF q
  <2> QED BY <1>2, <1>3 DEF States, SameRuns, SameBeats, SameNotes, OtherLogs
<1> QED BY <1>1, <1>4 DEF n, r

(* A heartbeat is the last one of its worker. *)
LEMMA BeatRecord ==
  ASSUME NEW s, NEW w, NEW at, s \in States, w \in Workers, at \in Nat
  PROVE  LET r == HeartbeatRecord(w, at)
             n == apply_any_record(s, r) IN
         /\ n \in States /\ r \in AnyRecords
         /\ n.tasks = s.tasks /\ SameRuns(s, n) /\ SameLog(s, n) /\ SameNotes(s, n)
         /\ n.heartbeats = [s.heartbeats EXCEPT ![w] = at]
<1> DEFINE r == HeartbeatRecord(w, at)
           n == apply_any_record(s, r)
<1>1. r \in Records /\ r.kind = "Heartbeat" /\ r.worker = w /\ r.timestamp = at
  BY DEF HeartbeatRecord, Records
<1>2. n = ApplyHeartbeat(s, r)
  BY DEF apply_any_record, apply_record, HeartbeatRecord
<1> HIDE DEF r, n
<1>3. n \in States
  BY <1>1, <1>2, ApplyHeartbeatType
<1>4. /\ n.tasks = s.tasks /\ SameRuns(s, n) /\ SameLog(s, n) /\ SameNotes(s, n)
      /\ n.heartbeats = [s.heartbeats EXCEPT ![w] = at]
  BY <1>1, <1>2 DEF ApplyHeartbeat, States, SameRuns, SameLog, SameNotes
<1> QED BY <1>1, <1>3, <1>4 DEF n, r, AnyRecords

(* The record of an outcome changes the status only if it differs. *)
LEMMA TerminalRecord ==
  ASSUME NEW s, NEW t, NEW w, NEW at, NEW status,
         s \in States, t \in Tasks, w \in Workers \cup {NoWorker}, at \in Nat,
         status \in TerminalStatuses, s.tasks[t].status # "Absent"
  PROVE  LET r == TaskCompletedOrFailed(t, w, at, status)
             n == apply_any_record(s, r)
             old == s.tasks[t] IN
         /\ n \in States /\ r \in AnyRecords /\ OnlyTask(s, n, t)
         /\ n.tasks[t].status = status
         /\ n.tasks[t].lifecycle_seq = IF old.status = status THEN old.lifecycle_seq
                                       ELSE old.lifecycle_seq + 1
         /\ n.tasks[t].leased_to = IF w = NoWorker THEN old.leased_to ELSE w
         /\ n.tasks[t].attempts = old.attempts
         /\ n.tasks[t].leased_at = old.leased_at
         /\ n.tasks[t].lease_deadline = old.lease_deadline
<1> DEFINE r == TaskCompletedOrFailed(t, w, at, status)
           n == apply_any_record(s, r)
<1>1. r \in AnyRecords
  BY DEF TaskCompletedOrFailed, Records, AnyRecords
<1>2. n = MarkTaskTerminal(s, t, w, at, status)
  BY DEF apply_any_record, apply_record, TaskCompletedOrFailed
<1> HIDE DEF n, r
<1> QED BY <1>1, <1>2, MarkDetails DEF n, r

(* A checkpoint of a lifecycle number only raises it. *)
LEMMA LifecycleRecord ==
  ASSUME NEW s, NEW t, NEW seq,
         s \in States, t \in Tasks, seq \in Nat, s.tasks[t].status # "Absent"
  PROVE  LET r == TaskLifecycleCheckpoint(t, seq)
             n == apply_any_record(s, r)
             old == s.tasks[t] IN
         /\ n \in States /\ r \in AnyRecords /\ OnlyTask(s, n, t)
         /\ n.tasks[t].status = old.status
         /\ n.tasks[t].lifecycle_seq = IF old.lifecycle_seq < seq THEN seq
                                       ELSE old.lifecycle_seq
         /\ n.tasks[t].leased_to = old.leased_to
         /\ n.tasks[t].attempts = old.attempts
         /\ n.tasks[t].leased_at = old.leased_at
         /\ n.tasks[t].lease_deadline = old.lease_deadline
<1> DEFINE r == TaskLifecycleCheckpoint(t, seq)
           n == apply_any_record(s, r)
           old == s.tasks[t]
           q == IF old.lifecycle_seq < seq THEN seq ELSE old.lifecycle_seq
           new == [old EXCEPT !.lifecycle_seq = q]
<1>1. r \in AnyRecords
  BY DEF TaskLifecycleCheckpoint, AnyRecords
<1>2. n = [s EXCEPT !.tasks[t].lifecycle_seq = q]
  BY DEF apply_any_record, TaskLifecycleCheckpoint, AtLeast
<1>3. old \in TaskStates /\ q \in Nat
  BY DEF States, TaskStates
<1> HIDE DEF n, r
<1>4. /\ new \in TaskStates /\ new.status = old.status /\ new.lifecycle_seq = q
      /\ new.leased_to = old.leased_to /\ new.attempts = old.attempts
      /\ new.leased_at = old.leased_at /\ new.lease_deadline = old.lease_deadline
  <2> HIDE DEF old, q
  <2> QED BY <1>3 DEF TaskStates
<1>5. n = [s EXCEPT !.tasks[t] = new]
  <2> HIDE DEF q
  <2> QED BY <1>2, <1>3 DEF States
<1> HIDE DEF new
<1>6. n \in States
  BY <1>4, <1>5, TaskUpdateType
<1>7. n.tasks[t] = new /\ OnlyTask(s, n, t)
  BY <1>5 DEF States, OnlyTask, OnlyTasks, SameTasksBut, SameRuns, SameBeats, SameLog, SameNotes
<1> QED BY <1>1, <1>4, <1>6, <1>7 DEF n, r

(* A receipt replaces the one of its task. *)
LEMMA ReceiptRecord ==
  ASSUME NEW s, NEW t, NEW receipt, s \in States, t \in Tasks, receipt \in Receipts
  PROVE  LET r == ReceiptRecorded(t, receipt)
             n == apply_any_record(s, r) IN
         /\ n \in States /\ r \in AnyRecords
         /\ n.tasks = s.tasks /\ SameRuns(s, n) /\ SameBeats(s, n) /\ SameLog(s, n)
         /\ n.alerts = s.alerts /\ n.receipts = [s.receipts EXCEPT ![t] = receipt]
<1> DEFINE r == ReceiptRecorded(t, receipt)
           n == apply_any_record(s, r)
<1>1. r \in AnyRecords
  BY DEF ReceiptRecorded, AnyRecords
<1>2. n = [s EXCEPT !.receipts[t] = receipt]
  BY DEF apply_any_record, ReceiptRecorded
<1> HIDE DEF n, r
<1>3. n \in States
  BY <1>2, ReceiptUpdateType
<1>4. /\ n.tasks = s.tasks /\ SameRuns(s, n) /\ SameBeats(s, n) /\ SameLog(s, n)
      /\ n.alerts = s.alerts /\ n.receipts = [s.receipts EXCEPT ![t] = receipt]
  BY <1>2 DEF States, SameRuns, SameBeats, SameLog
<1> QED BY <1>1, <1>3, <1>4 DEF n, r

(***************************************************************************)
(* The inductive invariant: what the kept events and the shape of a task   *)
(* say about each other, and why a batch that was written whole leaves no  *)
(* task that runs but shows an outcome.                                    *)
(***************************************************************************)
(* The shape of kept. *)
KeptShape ==
  [restarted: [Workers -> [Tasks -> Nat]], latest: [Workers -> [Tasks -> Nat]],
   alerts: SUBSET (Alerts \X Workers \X Nat), batches: {"whole", "begun", "cut"}]

KeptType == kept \in KeptShape

(* No record changes the status of a run. *)
RunsFit(s) == \A r \in Runs : s.run_status[r] = "Queued"

(* What a task has been through shows in its lifecycle number. *)
TaskShape(task) ==
  LET w == task.leased_to
      seq == task.lifecycle_seq
      terminal == task.status \in TerminalStatuses
  IN
  /\ task.status = "Absent" => seq = 0
  /\ task.status = "Enqueued" => seq >= 1
  /\ task.status = "Leased" => w # NoWorker /\ seq >= 2
  /\ terminal => seq >= 2
  /\ terminal /\ w # NoWorker => seq >= 3
  /\ w = NoWorker => task.leased_at = Never /\ task.lease_deadline = Never
  /\ w # NoWorker => task.attempts >= 1

(* Task t ended otherwise than its last event says: the verifier's word. *)
Overruled(s, t) ==
  /\ IsTerminal(s, t) /\ s.tasks[t].leased_to # NoWorker
  /\ s.latest_payload[s.tasks[t].leased_to][t] \in TerminalPayloads \ {s.tasks[t].status}

TaskFits(s, t) ==
  TaskShape(s.tasks[t]) /\ (Overruled(s, t) => s.tasks[t].lifecycle_seq >= 4)

(* The alerts kept are those of the state, one record for each. *)
AlertsFit(s, k) ==
  /\ IsFiniteSet(k.alerts)
  /\ \A a \in k.alerts : a[1] \in s.alerts
  /\ \A b \in s.alerts : \E a \in k.alerts : a[1] = b
  /\ \A a, b \in k.alerts : a[1] = b[1] => a = b

AlertsOf(k, w, t) == {a \in k.alerts : a[2] = w /\ a[1].task = t}

(* The events kept are the latest ones of their kind. *)
EventsFit(s, k, w, t) ==
  LET payload == s.latest_payload[w][t]
      latest == k.latest[w][t]
      restarted == k.restarted[w][t]
  IN
  /\ restarted <= latest /\ latest <= s.latest_seq[w][t]
  /\ \A a \in AlertsOf(k, w, t) :
       a[3] >= 1 /\ a[3] <= latest /\ (payload # "Escalated" => a[3] < latest)
  /\ payload = "None" <=> latest = 0
  /\ payload \notin {"Restarted", "None"} => restarted < latest
  /\ payload = "Escalated" => \E a \in AlertsOf(k, w, t) : a[3] = latest
  /\ s.tasks[t].leased_to # w => payload = "None"

KeptFits(s, k) ==
  /\ AlertsFit(s, k)
  /\ \A t \in Tasks : TaskFits(s, t)
  /\ \A w \in Workers, t \in Tasks : EventsFit(s, k, w, t)

(* Task t is running again but still shows its last outcome. *)
Outdated(s, t) ==
  /\ s.tasks[t].leased_to # NoWorker /\ ~IsTerminal(s, t)
  /\ s.latest_payload[s.tasks[t].leased_to][t] \in TerminalPayloads

(* Unless a batch was cut, this is so only between two records of one. *)
WholeFits(s, b, batches) ==
  /\ batches = "begun" => Len(b) > 0
  /\ batches # "cut" =>
       \A t \in Tasks : Outdated(s, t) =>
         /\ batches = "begun"
         /\ b[1].kind = "EventAppended"
         /\ b[1].event.worker = s.tasks[t].leased_to
         /\ b[1].event.task = t
         /\ b[1].event.payload \in ProgressPayloads

(* A restart says so: its lease is followed by an event.  And an event that *)
(* says so is one of a lease.                                               *)
BatchFits(s, b) ==
  /\ \A i \in 1..Len(b) : b[i].kind # "RunStatusChanged"
  /\ Len(b) > 0 /\ b[1].kind = "TaskLeased" /\ s.tasks[b[1].task].status # "Enqueued" =>
       /\ Len(b) > 1 /\ b[2].kind = "EventAppended"
       /\ b[2].event.task = b[1].task /\ b[2].event.worker = b[1].worker
       /\ b[2].event.payload \in ProgressPayloads
  /\ \A i \in 1..Len(b) :
       b[i].kind = "EventAppended" /\ b[i].event.payload = "Restarted" =>
         \/ /\ b[1].kind = "TaskLeased"
            /\ b[1].task = b[i].event.task /\ b[1].worker = b[i].event.worker
         \/ HoldsLease(s, b[i].event.task, b[i].event.worker)

KeptInv ==
  /\ RunsFit(state) /\ KeptFits(state, kept)
  /\ WholeFits(state, batch, kept.batches) /\ BatchFits(state, batch)

(* The state before the first record. *)
LEMMA EmptyStateType == EmptyState \in States
BY NoWorkerAssumption
DEF EmptyState, States, NoTask, TaskStates, RunStatuses, WorkerStatuses, Never, Receipts, NoReceipt

(***************************************************************************)
(* Group by group, a compacted ledger rebuilds the state.                  *)
(***************************************************************************)
RunRecordsOf(s) == [r \in s.runs |-> <<RunCreated(r), RunStatusChanged(r, s.run_status[r])>>]

(* All runs come back, with the only status they ever had. *)
LEMMA RebuildRuns ==
  ASSUME NEW s, s \in States, \A r \in Runs : s.run_status[r] = "Queued"
  PROVE  LET records == ForAll(s.runs, RunRecordsOf(s))
             n == From(EmptyState, records) IN
         /\ records \in Seq(AnyRecords)
         /\ n \in States /\ SameRuns(s, n) /\ n.tasks = EmptyState.tasks
         /\ SameBeats(EmptyState, n) /\ SameLog(EmptyState, n) /\ SameNotes(EmptyState, n)
<1> DEFINE S == s.runs
           of == RunRecordsOf(s)
           Q(D, n) == /\ n.runs = D /\ n.run_status = EmptyState.run_status
                      /\ n.tasks = EmptyState.tasks /\ SameBeats(EmptyState, n)
                      /\ SameLog(EmptyState, n) /\ SameNotes(EmptyState, n)
           G == {p \in (SUBSET S) \X States : Q(p[1], p[2])}
<1>1. S \subseteq Runs /\ IsFiniteSet(S)
  BY FiniteAssumption, FS_Subset DEF States
<1>2. /\ EmptyState \in States /\ EmptyState.runs = {}
      /\ EmptyState.run_status = [r \in Runs |-> "Queued"]
  BY EmptyStateType DEF EmptyState
<1>3. s.run_status = [r \in Runs |-> "Queued"]
  BY DEF States
<1>4. ASSUME NEW r \in S PROVE of[r] = <<RunCreated(r), RunStatusChanged(r, "Queued")>>
  BY <1>1, <1>3 DEF RunRecordsOf
<1>5. ASSUME NEW r \in S PROVE of[r] \in Seq(AnyRecords)
  <2>1. r \in Runs /\ "Queued" \in RunStatuses
    BY <1>1 DEF RunStatuses
  <2>2. <<RunCreated(r), RunStatusChanged(r, "Queued")>> \in Seq(AnyRecords)
    BY <1>2, <2>1, RunRecords
  <2> QED BY <1>4, <2>2
<1>6. of \in [S -> Seq(AnyRecords)]
  <2>1. DOMAIN of = S /\ of = [r \in S |-> of[r]]
    BY DEF RunRecordsOf
  <2> HIDE DEF of
  <2> QED BY <1>5, <2>1
<1>7. <<{}, EmptyState>> \in G
  BY <1>2 DEF SameBeats, SameLog, SameNotes
<1>8. ASSUME NEW D, NEW n, NEW r \in S, <<D, n>> \in G, r \notin D
      PROVE  <<D \cup {r}, From(n, of[r])>> \in G
  <2> DEFINE m == From(n, <<RunCreated(r), RunStatusChanged(r, "Queued")>>)
  <2>1. D \subseteq S /\ n \in States /\ Q(D, n) /\ r \in Runs /\ "Queued" \in RunStatuses
    BY <1>1, <1>8 DEF RunStatuses
  <2>2. /\ m \in States /\ m.runs = n.runs \cup {r}
        /\ m.run_status = [n.run_status EXCEPT ![r] = "Queued"]
        /\ m.tasks = n.tasks /\ SameBeats(n, m) /\ SameLog(n, m) /\ SameNotes(n, m)
    BY <2>1, RunRecords
  <2>3. From(n, of[r]) = m
    BY <1>4
  <2> HIDE DEF m
  <2>4. m.run_status = EmptyState.run_status
    BY <1>2, <2>1, <2>2
  <2>5. Q(D \cup {r}, m)
    BY <2>1, <2>2, <2>4 DEF SameBeats, SameLog, SameNotes
  <2> QED BY <2>1, <2>2, <2>3, <2>5
<1> HIDE DEF of, G
<1>9. /\ ForAll(S, of) \in Seq(AnyRecords)
      /\ <<S, From(EmptyState, ForAll(S, of))>> \in G
  BY <1>1, <1>6, <1>7, <1>8, GroupRule
<1>10. Q(S, From(EmptyState, ForAll(S, of))) /\ From(EmptyState, ForAll(S, of)) \in States
  BY <1>9 DEF G
<1> QED BY <1>2, <1>3, <1>9, <1>10 DEF SameRuns, of

(* A record that is only written under a condition. *)
LEMMA FromIf ==
  ASSUME NEW n, NEW condition, NEW r, condition => r \in AnyRecords
  PROVE  /\ If(condition, r) \in Seq(AnyRecords)
         /\ From(n, If(condition, r)) = IF condition THEN apply_any_record(n, r) ELSE n
<1>1. CASE condition
  <2>1. If(condition, r) = <<r>>
    BY <1>1 DEF If
  <2>2. <<r>> \in Seq(AnyRecords)
    BY <1>1
  <2> QED BY <1>1, <2>1, <2>2, FromOne
<1>2. CASE ~condition
  <2>1. If(condition, r) = <<>> /\ <<>> \in Seq(AnyRecords)
    BY <1>2 DEF If
  <2> QED BY <1>2, <2>1, FromEmpty
<1> QED BY <1>1, <1>2

LEMMA ConcatFits ==
  ASSUME NEW T, NEW a, NEW b, a \in Seq(T), b \in Seq(T)
  PROVE  a \o b \in Seq(T)
OBVIOUS

(* A task is back in its queue or on its worker, with its attempts.         *)
SameTenure(s, n, t) ==
  LET task == s.tasks[t] IN
  /\ n.tasks[t].leased_to = task.leased_to /\ n.tasks[t].attempts = task.attempts
  /\ n.tasks[t].leased_at = task.leased_at /\ n.tasks[t].lease_deadline = task.lease_deadline

Requeued(s, n, t) ==
  LET w == s.tasks[t].leased_to IN
  /\ SameTenure(s, n, t)
  /\ n.tasks[t].status = IF w = NoWorker THEN "Enqueued" ELSE "Leased"
  /\ n.tasks[t].lifecycle_seq = IF w = NoWorker THEN 1 ELSE 2

(* Its two records bring a task back so far. *)
LEMMA RebuildTask ==
  ASSUME NEW s, NEW n, NEW t, s \in States, n \in States, t \in Tasks,
         TaskFits(s, t), n.tasks[t] = NoTask
  PROVE  LET m == From(n, TaskRecords(s, t)) IN
         /\ TaskRecords(s, t) \in Seq(AnyRecords)
         /\ m \in States /\ OnlyTask(n, m, t) /\ Requeued(s, m, t)
<1> DEFINE task == s.tasks[t]
           w == task.leased_to
           leased == w # NoWorker
           count == IF leased THEN task.attempts - 1 ELSE task.attempts
           a == EnqueuedAgain(t, count)
           q == apply_any_record(n, a)
           m == From(n, TaskRecords(s, t))
<1>1. /\ task \in TaskStates /\ w \in Workers \cup {NoWorker} /\ task.attempts \in Nat
      /\ task.leased_at \in Nat /\ task.lease_deadline \in Nat
  BY DEF States, TaskStates
<1>2. /\ leased => task.attempts >= 1
      /\ ~leased => task.leased_at = Never /\ task.lease_deadline = Never
  BY DEF TaskFits, TaskShape
<1>3. count \in Nat
  <2> HIDE DEF task, w
  <2> QED BY <1>1, <1>2
<1>4. n.tasks[t].status = "Absent"
  BY DEF NoTask
<1>5. TaskRecords(s, t) = <<a>> \o If(leased, TaskLeased(t, w, task.leased_at, task.lease_deadline))
  BY DEF TaskRecords
<1> HIDE DEF task, w, count
<1>6. /\ q \in States /\ OnlyTask(n, q, t)
      /\ q.tasks[t].status = "Enqueued" /\ q.tasks[t].lifecycle_seq = 1
      /\ q.tasks[t].leased_to = NoWorker /\ q.tasks[t].attempts = count
      /\ q.tasks[t].leased_at = Never /\ q.tasks[t].lease_deadline = Never
      /\ a \in AnyRecords
  BY <1>3, <1>4, EnqueueRecord
<1> HIDE DEF a, q
<1> DEFINE b == TaskLeased(t, w, task.leased_at, task.lease_deadline)
           p == apply_any_record(q, b)
           tail == If(leased, b)
<1>7. ASSUME leased
      PROVE  /\ p \in States /\ OnlyTask(q, p, t)
             /\ p.tasks[t].status = "Leased"
             /\ p.tasks[t].lifecycle_seq = q.tasks[t].lifecycle_seq + 1
             /\ p.tasks[t].leased_to = w /\ p.tasks[t].attempts = q.tasks[t].attempts + 1
             /\ p.tasks[t].leased_at = task.leased_at
             /\ p.tasks[t].lease_deadline = task.lease_deadline
             /\ b \in AnyRecords
  <2>1. w \in Workers
    BY <1>1, <1>7
  <2> QED BY <1>1, <1>6, <2>1, LeaseRecord
<1>8. tail \in Seq(AnyRecords) /\ From(q, tail) = IF leased THEN p ELSE q
  <2> HIDE DEF b
  <2> QED BY <1>7, FromIf
<1>9. m = IF leased THEN p ELSE q
  <2> DEFINE head == <<a>>
  <2>1. head \in Seq(AnyRecords) /\ From(n, head) = q
    BY <1>6, FromOne DEF q
  <2>2. TaskRecords(s, t) = head \o tail
    BY <1>5
  <2> HIDE DEF head, tail
  <2> QED BY <1>8, <2>1, <2>2, FromConcat
<1>10. TaskRecords(s, t) \in Seq(AnyRecords)
  <2> DEFINE head == <<a>>
  <2>1. head \in Seq(AnyRecords)
    BY <1>6
  <2>2. TaskRecords(s, t) = head \o tail
    BY <1>5
  <2> HIDE DEF head, tail
  <2> QED BY <1>8, <2>1, <2>2
<1> HIDE DEF b, p, m, tail
<1>11. CASE leased
  <2>1. OnlyTask(n, p, t)
    BY <1>6, <1>7, <1>11
    DEF OnlyTask, OnlyTasks, SameTasksBut, SameRuns, SameBeats, SameLog, SameNotes
  <2>2. p.tasks[t].attempts = task.attempts
    BY <1>1, <1>2, <1>6, <1>7, <1>11 DEF count
  <2>3. Requeued(s, p, t)
    BY <1>6, <1>7, <1>11, <2>2 DEF Requeued, SameTenure, task, w
  <2> QED BY <1>7, <1>9, <1>10, <1>11, <2>1, <2>3 DEF m
<1>12. CASE ~leased
  <2>1. Requeued(s, q, t)
    BY <1>2, <1>6, <1>12 DEF Requeued, SameTenure, task, w, count
  <2> QED BY <1>6, <1>9, <1>10, <1>12, <2>1 DEF m
<1> QED BY <1>11, <1>12

TaskRecordsOf(s) == [t \in Known(s) |-> TaskRecords(s, t)]

(* And all tasks of the state, no other. *)
LEMMA RebuildTasks ==
  ASSUME NEW s, NEW n0, s \in States, n0 \in States, \A t \in Tasks : TaskFits(s, t),
         n0.tasks = EmptyState.tasks
  PROVE  LET records == ForAll(Known(s), TaskRecordsOf(s))
             n == From(n0, records) IN
         /\ records \in Seq(AnyRecords)
         /\ n \in States /\ OnlyTasks(n0, n)
         /\ \A t \in Known(s) : Requeued(s, n, t)
         /\ \A t \in Tasks \ Known(s) : n.tasks[t] = NoTask
<1> DEFINE S == Known(s)
           of == TaskRecordsOf(s)
           Q(D, n) == /\ OnlyTasks(n0, n) /\ \A t \in D : Requeued(s, n, t)
                      /\ \A t \in Tasks \ D : n.tasks[t] = NoTask
           G == {p \in (SUBSET S) \X States : Q(p[1], p[2])}
<1>1. S \subseteq Tasks /\ IsFiniteSet(S)
  BY FiniteAssumption, FS_Subset DEF Known
<1>2. \A t \in Tasks : n0.tasks[t] = NoTask
  BY DEF EmptyState
<1>3. of \in [S -> Seq(AnyRecords)]
  <2>1. \A t \in S : TaskRecords(s, t) \in Seq(AnyRecords)
    BY <1>1, <1>2, RebuildTask
  <2> QED BY <2>1 DEF TaskRecordsOf
<1>4. <<{}, n0>> \in G
  BY <1>2 DEF OnlyTasks, SameRuns, SameBeats, SameLog, SameNotes
<1>5. ASSUME NEW D, NEW n, NEW t \in S, <<D, n>> \in G, t \notin D
      PROVE  <<D \cup {t}, From(n, of[t])>> \in G
  <2> DEFINE m == From(n, TaskRecords(s, t))
  <2>1. D \subseteq S /\ n \in States /\ Q(D, n) /\ t \in Tasks
    BY <1>1, <1>5
  <2>2. m \in States /\ OnlyTask(n, m, t) /\ Requeued(s, m, t)
    BY <1>5, <2>1, RebuildTask
  <2>3. From(n, of[t]) = m
    BY DEF TaskRecordsOf
  <2> HIDE DEF m
  <2>4. OnlyTasks(n0, m)
    BY <2>1, <2>2 DEF OnlyTask, OnlyTasks, SameRuns, SameBeats, SameLog, SameNotes
  <2>5. \A u \in Tasks \ {t} : m.tasks[u] = n.tasks[u]
    BY <2>2 DEF OnlyTask, SameTasksBut
  <2>6. \A u \in D \cup {t} : Requeued(s, m, u)
    BY <1>1, <1>5, <2>1, <2>2, <2>5 DEF Requeued, SameTenure
  <2>7. \A u \in Tasks \ (D \cup {t}) : m.tasks[u] = NoTask
    BY <2>1, <2>5
  <2> QED BY <2>1, <2>2, <2>3, <2>4, <2>6, <2>7
<1> HIDE DEF of, G
<1>6. ForAll(S, of) \in Seq(AnyRecords) /\ <<S, From(n0, ForAll(S, of))>> \in G
  BY <1>1, <1>3, <1>4, <1>5, GroupRule
<1> QED BY <1>6 DEF G, of

(* Of the alerts A, each task shows the last escalation by its worker.      *)
EscalationShown(A, n, w, t) ==
  /\ \A a \in A : a[2] = w /\ a[1].task = t => a[3] <= n.latest_seq[w][t]
  /\ \/ n.latest_seq[w][t] = 0 /\ n.latest_payload[w][t] = "None"
     \/ /\ n.latest_payload[w][t] = "Escalated"
        /\ \E a \in A : a[2] = w /\ a[1].task = t /\ a[3] = n.latest_seq[w][t]

EscalationsShown(A, n) == \A w \in Workers, t \in Tasks : EscalationShown(A, n, w, t)

KeptAlert(a) == AlertSent(a[1].task, a[1].channel, a[2], a[1].attempt, a[3], Never)

(* One alert more shows the last of its worker and task so far. *)
LEMMA AlertShows ==
  ASSUME NEW A, NEW a, NEW n, NEW m,
         A \subseteq Alerts \X Workers \X Nat, a \in Alerts \X Workers \X Nat, a[3] >= 1,
         n \in States, m \in States, EscalationsShown(A, n),
         OtherLogs(n, m, a[2], a[1].task),
         m.latest_seq[a[2]][a[1].task] = IF a[3] > n.latest_seq[a[2]][a[1].task] THEN a[3]
                                         ELSE n.latest_seq[a[2]][a[1].task],
         m.latest_payload[a[2]][a[1].task] =
           IF a[3] > n.latest_seq[a[2]][a[1].task] THEN "Escalated"
           ELSE n.latest_payload[a[2]][a[1].task]
  PROVE  EscalationsShown(A \cup {a}, m)
<1> DEFINE v == a[2]
           u == a[1].task
           B == A \cup {a}
<1>1. v \in Workers /\ u \in Tasks /\ a[3] \in Nat
  BY DEF Alerts
<1>2. \A b \in A : b[3] \in Nat
  OBVIOUS
<1> SUFFICES ASSUME NEW w \in Workers, NEW t \in Tasks
             PROVE  /\ \A b \in B : b[2] = w /\ b[1].task = t => b[3] <= m.latest_seq[w][t]
                    /\ \/ m.latest_seq[w][t] = 0 /\ m.latest_payload[w][t] = "None"
                       \/ /\ m.latest_payload[w][t] = "Escalated"
                          /\ \E b \in B : b[2] = w /\ b[1].task = t /\ b[3] = m.latest_seq[w][t]
  BY DEF EscalationsShown, EscalationShown
<1>3. /\ \A b \in A : b[2] = w /\ b[1].task = t => b[3] <= n.latest_seq[w][t]
      /\ \/ n.latest_seq[w][t] = 0 /\ n.latest_payload[w][t] = "None"
         \/ /\ n.latest_payload[w][t] = "Escalated"
            /\ \E b \in A : b[2] = w /\ b[1].task = t /\ b[3] = n.latest_seq[w][t]
  BY DEF EscalationsShown, EscalationShown
<1>4. n.latest_seq[w][t] \in Nat
  BY DEF States
<1>5. CASE w = v /\ t = u
  <2>1. CASE a[3] > n.latest_seq[w][t]
    <3>1. m.latest_seq[w][t] = a[3] /\ m.latest_payload[w][t] = "Escalated"
      BY <1>5, <2>1
    <3>2. \A b \in A : b[2] = w /\ b[1].task = t => b[3] <= a[3]
      BY <1>1, <1>2, <1>3, <1>4, <2>1
    <3> QED BY <1>1, <1>5, <3>1, <3>2
  <2>2. CASE ~(a[3] > n.latest_seq[w][t])
    <3>1. /\ m.latest_seq[w][t] = n.latest_seq[w][t]
          /\ m.latest_payload[w][t] = n.latest_payload[w][t]
      BY <1>5, <2>2
    <3>2. a[3] <= n.latest_seq[w][t] /\ n.latest_seq[w][t] # 0
      BY <1>1, <1>4, <2>2
    <3> QED BY <1>3, <3>1, <3>2
  <2> QED BY <2>1, <2>2
<1>6. CASE ~(w = v /\ t = u)
  <2>1. /\ m.latest_seq[w][t] = n.latest_seq[w][t]
        /\ m.latest_payload[w][t] = n.latest_payload[w][t]
    BY <1>6 DEF OtherLogs
  <2> QED BY <1>3, <1>6, <2>1
<1> QED BY <1>5, <1>6

(* All alerts come back, and the escalations they are shown by. *)
LEMMA RebuildAlerts ==
  ASSUME NEW s, NEW n0, n0 \in States, KeptType, AlertsFit(s, kept),
         \A a \in kept.alerts : a[3] >= 1, s \in States,
         n0.alerts = {}, SameLog(EmptyState, n0)
  PROVE  LET n == From(n0, AlertRecordsOf(s)) IN
         /\ AlertRecordsOf(s) \in Seq(AnyRecords)
         /\ n \in States /\ n.tasks = n0.tasks /\ SameRuns(n0, n) /\ SameBeats(n0, n)
         /\ n.receipts = n0.receipts /\ n.alerts = s.alerts
         /\ EscalationsShown(kept.alerts, n)
<1> DEFINE S == kept.alerts
           of == [a \in S |-> <<KeptAlert(a)>>]
           Q(D, n) == /\ n.tasks = n0.tasks /\ SameRuns(n0, n) /\ SameBeats(n0, n)
                      /\ n.receipts = n0.receipts /\ n.alerts = {a[1] : a \in D}
                      /\ EscalationsShown(D, n)
           G == {p \in (SUBSET S) \X States : Q(p[1], p[2])}
<1>1. S \subseteq Alerts \X Workers \X Nat /\ IsFiniteSet(S)
  BY DEF KeptType, KeptShape, AlertsFit
<1>2. ASSUME NEW a \in S
      PROVE  /\ a[1].task \in Tasks /\ a[1].channel \in Channels /\ a[1].attempt \in Nat
             /\ a[2] \in Workers /\ a[3] \in Nat /\ a[3] >= 1
             /\ a[1] = [task |-> a[1].task, attempt |-> a[1].attempt, channel |-> a[1].channel]
  BY <1>1 DEF Alerts
<1>3. \A a \in S : KeptAlert(a) \in AnyRecords
  BY <1>2 DEF KeptAlert, AlertSent, AnyRecords, Records, Never
<1>4. of \in [S -> Seq(AnyRecords)]
  <2>1. \A a \in S : <<KeptAlert(a)>> \in Seq(AnyRecords)
    BY <1>3
  <2> QED BY <2>1
<1>5. <<{}, n0>> \in G
  <2>1. EscalationsShown({}, n0)
    BY DEF SameLog, EmptyState, EscalationsShown, EscalationShown
  <2> QED BY <2>1 DEF SameRuns, SameBeats
<1>6. ASSUME NEW D, NEW n, NEW a \in S, <<D, n>> \in G, a \notin D
      PROVE  <<D \cup {a}, From(n, of[a])>> \in G
  <2> DEFINE m == apply_any_record(n, KeptAlert(a))
             w == a[2]
             t == a[1].task
  <2>1. D \subseteq S /\ n \in States /\ Q(D, n)
    BY <1>6
  <2>2. a[1] \notin n.alerts
    BY <1>6, <2>1 DEF AlertsFit
  <2>3. [task |-> a[1].task, attempt |-> a[1].attempt, channel |-> a[1].channel] \notin n.alerts
    BY <1>2, <2>2
  <2>4. /\ m \in States /\ m.tasks = n.tasks /\ SameRuns(n, m) /\ SameBeats(n, m)
        /\ m.receipts = n.receipts
        /\ m.alerts = n.alerts \cup
             {[task |-> a[1].task, attempt |-> a[1].attempt, channel |-> a[1].channel]}
        /\ OtherLogs(n, m, w, t)
        /\ m.latest_seq[w][t] = IF a[3] > n.latest_seq[w][t] THEN a[3] ELSE n.latest_seq[w][t]
        /\ m.latest_payload[w][t] = IF a[3] > n.latest_seq[w][t] THEN "Escalated"
                                    ELSE n.latest_payload[w][t]
    BY <1>2, <2>1, <2>3, AlertRecord, SMTT(30) DEF KeptAlert
  <2>5. m.alerts = {b[1] : b \in D \cup {a}}
    BY <1>2, <2>1, <2>4
  <2>6. From(n, of[a]) = m
    BY FromOne
  <2> HIDE DEF m
  <2>7. EscalationsShown(D \cup {a}, m)
    BY <1>1, <1>2, <2>1, <2>4, AlertShows
  <2>8. Q(D \cup {a}, m)
    BY <2>1, <2>4, <2>5, <2>7 DEF SameRuns, SameBeats
  <2> QED BY <2>1, <2>4, <2>6, <2>8
<1>7. AlertRecordsOf(s) = ForAll(S, of)
  BY DEF AlertRecordsOf, KeptAlert
<1> HIDE DEF of, G
<1>8. ForAll(S, of) \in Seq(AnyRecords) /\ <<S, From(n0, ForAll(S, of))>> \in G
  BY <1>1, <1>4, <1>5, <1>6, GroupRule
<1>9. s.alerts = {a[1] : a \in S}
  BY DEF AlertsFit
<1> HIDE DEF S
<1> QED BY <1>7, <1>8, <1>9 DEF G, S

(* Once its events are back, a task that showed an outcome ended with it.   *)
ShowsOutcome(s, t) ==
  /\ s.tasks[t].leased_to # NoWorker
  /\ s.latest_payload[s.tasks[t].leased_to][t] \in TerminalPayloads

Resumed(s, n, t) ==
  IF ShowsOutcome(s, t)
  THEN /\ SameTenure(s, n, t)
       /\ n.tasks[t].status = s.latest_payload[s.tasks[t].leased_to][t]
       /\ n.tasks[t].lifecycle_seq = 3
  ELSE Requeued(s, n, t)

Shown(s, n, w, t) ==
  /\ n.latest_payload[w][t] = s.latest_payload[w][t]
  /\ n.latest_seq[w][t] <= s.latest_seq[w][t]

(* The retained events of a worker and a task show its latest payload and, *)
(* if that is an outcome, end the task.                                    *)
LEMMA RebuildEvents ==
  ASSUME NEW s, NEW n, NEW w, NEW t,
         s \in States, n \in States, w \in Workers, t \in Tasks, KeptType,
         EventsFit(s, kept, w, t), EscalationShown(kept.alerts, n, w, t),
         s.tasks[t].leased_to = w => Requeued(s, n, t)
  PROVE  LET m == From(n, RetainedEvents(s, w, t)) IN
         /\ RetainedEvents(s, w, t) \in Seq(AnyRecords)
         /\ m \in States /\ SameTasksBut(n, m, t) /\ SameRuns(n, m) /\ SameBeats(n, m)
         /\ SameNotes(n, m) /\ OtherLogs(n, m, w, t) /\ Shown(s, m, w, t)
         /\ IF s.tasks[t].leased_to = w THEN Resumed(s, m, t) ELSE m.tasks[t] = n.tasks[t]
<1> DEFINE payload == s.latest_payload[w][t]
           latest == kept.latest[w][t]
           restarted == kept.restarted[w][t]
           at == s.tasks[t].completed_at
           first == EventAppended(EventOfTask(w, t, restarted, "Restarted", at))
           second == EventAppended(EventOfTask(w, t, latest, payload, at))
           c1 == restarted # 0 /\ payload # "Restarted"
           c2 == payload \notin {"None", "Escalated"}
           a == If(c1, first)
           b == If(c2, second)
           q1 == apply_any_record(n, first)
           q == IF c1 THEN q1 ELSE n
           m1 == apply_any_record(q, second)
           m == IF c2 THEN m1 ELSE q
<1>1. RetainedEvents(s, w, t) = a \o b
  BY DEF RetainedEvents, EventOfTask
<1>2. /\ payload \in Payloads \cup {"None"} /\ latest \in Nat /\ restarted \in Nat /\ at \in Nat
      /\ s.latest_seq[w][t] \in Nat /\ n.latest_seq[w][t] \in Nat
  BY DEF States, TaskStates, KeptType, KeptShape
<1>3. /\ restarted <= latest /\ latest <= s.latest_seq[w][t]
      /\ \A x \in AlertsOf(kept, w, t) :
           x[3] >= 1 /\ x[3] <= latest /\ (payload # "Escalated" => x[3] < latest)
      /\ payload = "None" <=> latest = 0
      /\ payload \notin {"Restarted", "None"} => restarted < latest
      /\ payload = "Escalated" => \E x \in AlertsOf(kept, w, t) : x[3] = latest
      /\ s.tasks[t].leased_to # w => payload = "None"
  BY DEF EventsFit
<1>4. /\ \A x \in AlertsOf(kept, w, t) : x[3] <= n.latest_seq[w][t]
      /\ \/ n.latest_seq[w][t] = 0 /\ n.latest_payload[w][t] = "None"
         \/ /\ n.latest_payload[w][t] = "Escalated"
            /\ \E x \in AlertsOf(kept, w, t) : x[3] = n.latest_seq[w][t]
  BY DEF EscalationShown, AlertsOf
<1>5. \A x \in AlertsOf(kept, w, t) : x[3] \in Nat
  BY DEF AlertsOf, KeptType, KeptShape
<1>6. /\ n.latest_seq[w][t] <= latest
      /\ c2 => n.latest_seq[w][t] < latest
      /\ payload = "None" => /\ n.latest_seq[w][t] = 0 /\ n.latest_payload[w][t] = "None"
                             /\ restarted = 0
      /\ payload = "Escalated" => /\ n.latest_seq[w][t] = latest
                                  /\ n.latest_payload[w][t] = "Escalated"
  <2> HIDE DEF payload, latest, restarted
  <2> QED BY <1>2, <1>3, <1>4, <1>5
<1>7. c1 => s.tasks[t].leased_to = w /\ payload # "None"
  BY <1>3, <1>6
<1>8. c2 => s.tasks[t].leased_to = w /\ payload \in Payloads
  BY <1>2, <1>3
<1>9. s.tasks[t].leased_to = w =>
        /\ n.tasks[t].status = "Leased" /\ n.tasks[t].leased_to = w
        /\ n.tasks[t].lifecycle_seq = 2
        /\ n.tasks[t].attempts = s.tasks[t].attempts
        /\ n.tasks[t].leased_at = s.tasks[t].leased_at
        /\ n.tasks[t].lease_deadline = s.tasks[t].lease_deadline
  BY NoWorkerAssumption DEF Requeued, SameTenure
<1> HIDE DEF payload, latest, restarted, at
<1>10. ASSUME c1
       PROVE  /\ q1 \in States /\ first \in AnyRecords
              /\ EventShown(n, q1, w, t, restarted, "Restarted")
  <2>1. "Restarted" \in Payloads /\ "Restarted" \notin TerminalPayloads
    BY DEF Payloads, ProgressPayloads, BusyPayloads, TerminalPayloads, TerminalStatuses
  <2>2. s.tasks[t].leased_to = w
    BY <1>7, <1>10
  <2> QED BY <1>2, <1>9, <2>1, <2>2, EventRecord
<1> HIDE DEF first, second, q1
<1>a. "Restarted" \notin TerminalPayloads
  BY DEF TerminalPayloads, TerminalStatuses
<1>11. /\ q \in States
       /\ SameTasksBut(n, q, t) /\ SameRuns(n, q) /\ SameBeats(n, q)
       /\ SameNotes(n, q) /\ OtherLogs(n, q, w, t)
       /\ ~c1 => q = n
       /\ s.tasks[t].leased_to = w =>
            /\ q.tasks[t].status = "Leased" /\ q.tasks[t].leased_to = w
            /\ q.tasks[t].lifecycle_seq = 2
            /\ q.tasks[t].attempts = s.tasks[t].attempts
            /\ q.tasks[t].leased_at = s.tasks[t].leased_at
            /\ q.tasks[t].lease_deadline = s.tasks[t].lease_deadline
       /\ c2 => q.latest_seq[w][t] < latest
       /\ ~c2 => /\ q.latest_seq[w][t] = n.latest_seq[w][t]
                 /\ q.latest_payload[w][t] = n.latest_payload[w][t]
  <2>1. CASE c1
    <3>1. restarted < latest
      BY <1>3, <1>7, <2>1 DEF payload, latest, restarted
    <3>2. ~c2 => payload = "Escalated"
      BY <1>7, <2>1
    <3>3. c2 => q1.latest_seq[w][t] < latest
      BY <1>2, <1>6, <1>10, <2>1, <3>1 DEF EventShown
    <3>4. ~c2 => ~(restarted > n.latest_seq[w][t])
      BY <1>2, <1>6, <3>1, <3>2
    <3>5. q = q1
      BY <2>1
    <3> HIDE DEF q, c1, c2
    <3> QED BY <1>9, <1>10, <1>a, <2>1, <3>3, <3>4, <3>5 DEF EventShown
  <2>2. CASE ~c1
    <3>1. q = n
      BY <2>2
    <3>2. OtherLogs(n, n, w, t) /\ SameTasksBut(n, n, t) /\ SameRuns(n, n) /\ SameBeats(n, n)
          /\ SameNotes(n, n)
      BY DEF OtherLogs, SameTasksBut, SameRuns, SameBeats, SameNotes
    <3> HIDE DEF q, c1, c2
    <3> QED BY <1>6, <1>9, <2>2, <3>1, <3>2
  <2> QED BY <2>1, <2>2
<1> HIDE DEF q
<1>12. ASSUME c2
       PROVE  /\ m1 \in States /\ second \in AnyRecords
              /\ EventShown(q, m1, w, t, latest, payload)
              /\ m1.latest_seq[w][t] = latest /\ m1.latest_payload[w][t] = payload
              /\ payload \in TerminalPayloads =>
                   m1.tasks[t].status = payload /\ m1.tasks[t].lifecycle_seq = 3
              /\ payload \notin TerminalPayloads =>
                   m1.tasks[t].status = "Leased" /\ m1.tasks[t].lifecycle_seq = 2
  <2>1. /\ s.tasks[t].leased_to = w /\ payload \in Payloads
        /\ q.tasks[t].status = "Leased" /\ q.tasks[t].leased_to = w
        /\ q.tasks[t].lifecycle_seq = 2 /\ q.latest_seq[w][t] < latest
    BY <1>8, <1>11, <1>12
  <2>2. q.latest_seq[w][t] \in Nat
    BY <1>11 DEF States
  <2>3. latest > q.latest_seq[w][t]
    BY <1>2, <2>1, <2>2
  <2> HIDE DEF c2
  <2>4. m1 \in States /\ second \in AnyRecords /\ EventShown(q, m1, w, t, latest, payload)
    BY <1>2, <1>11, <2>1, EventRecord DEF second
  <2> HIDE DEF m1
  <2> QED BY <2>1, <2>3, <2>4 DEF EventShown
<1> HIDE DEF m1
<1>13. /\ m \in States
       /\ SameTasksBut(n, m, t) /\ SameRuns(n, m) /\ SameBeats(n, m)
       /\ SameNotes(n, m) /\ OtherLogs(n, m, w, t)
       /\ m.latest_payload[w][t] = payload /\ m.latest_seq[w][t] <= latest
       /\ IF s.tasks[t].leased_to = w THEN Resumed(s, m, t) ELSE m.tasks[t] = n.tasks[t]
  <2>1. CASE c2
    <3>1. m = m1 /\ s.tasks[t].leased_to = w /\ w # NoWorker
      BY <1>8, <2>1, NoWorkerAssumption
    <3> HIDE DEF m, c2
    <3>2. /\ SameTasksBut(n, m, t) /\ SameRuns(n, m) /\ SameBeats(n, m)
          /\ SameNotes(n, m) /\ OtherLogs(n, m, w, t)
      BY <1>11, <1>12, <2>1, <3>1
      DEF EventShown, OtherLogs, SameTasksBut, SameRuns, SameBeats, SameNotes
    <3>3. SameTenure(s, m, t)
      BY <1>11, <1>12, <2>1, <3>1 DEF SameTenure, EventShown
    <3>4. Resumed(s, m, t)
      BY <1>12, <2>1, <3>1, <3>3 DEF Resumed, ShowsOutcome, Requeued, payload
    <3> QED BY <1>2, <1>12, <2>1, <3>1, <3>2, <3>4
  <2>2. CASE ~c2
    <3>1. m = q /\ payload \in {"None", "Escalated"}
      BY <2>2
    <3>2. payload \notin TerminalPayloads
      BY <3>1 DEF TerminalPayloads, TerminalStatuses
    <3>3. m.latest_payload[w][t] = payload /\ m.latest_seq[w][t] <= latest
      BY <1>2, <1>6, <1>11, <2>2, <3>1
    <3>4. s.tasks[t].leased_to = w => Resumed(s, m, t)
      BY <1>11, <3>1, <3>2, NoWorkerAssumption
      DEF Resumed, ShowsOutcome, Requeued, SameTenure, payload
    <3>5. s.tasks[t].leased_to # w => m = n
      BY <1>7, <1>11, <3>1
    <3> HIDE DEF m, c2
    <3> QED BY <1>11, <3>1, <3>3, <3>4, <3>5
  <2> QED BY <2>1, <2>2
<1>14. From(n, a) = q /\ a \in Seq(AnyRecords)
  BY <1>10, FromIf DEF q, q1
<1>15. From(q, b) = m /\ b \in Seq(AnyRecords)
  BY <1>12, FromIf DEF m1
<1> HIDE DEF a, b, m
<1>16. From(n, a \o b) = m /\ a \o b \in Seq(AnyRecords)
  BY <1>14, <1>15, FromConcat, ConcatFits
<1>17. Shown(s, m, w, t)
  <2>1. m.latest_seq[w][t] \in Nat
    BY <1>13 DEF States
  <2> QED BY <1>2, <1>3, <1>13, <2>1 DEF Shown, payload, latest
<1> QED BY <1>1, <1>13, <1>16, <1>17

(* How far the events of the pairs in D are back. *)
EventsShown(s, n0, D, n) ==
  /\ SameRuns(n0, n) /\ SameBeats(n0, n) /\ SameNotes(n0, n)
  /\ \A w \in Workers, t \in Tasks :
       IF <<w, t>> \in D THEN Shown(s, n, w, t) ELSE EscalationShown(kept.alerts, n, w, t)
  /\ \A t \in Known(s) :
       IF <<s.tasks[t].leased_to, t>> \in D THEN Resumed(s, n, t) ELSE Requeued(s, n, t)
  /\ \A t \in Tasks \ Known(s) : n.tasks[t] = NoTask

(* Those of one more pair leave the others alone. *)
LEMMA EventsOfPair ==
  ASSUME NEW s, NEW n0, NEW n, NEW D, NEW w, NEW t,
         s \in States, n \in States, KeptType, KeptFits(s, kept),
         w \in Workers, t \in Known(s), <<w, t>> \notin D, EventsShown(s, n0, D, n)
  PROVE  LET m == From(n, RetainedEvents(s, w, t)) IN
         /\ RetainedEvents(s, w, t) \in Seq(AnyRecords)
         /\ m \in States /\ EventsShown(s, n0, D \cup {<<w, t>>}, m)
<1> DEFINE m == From(n, RetainedEvents(s, w, t))
           E == D \cup {<<w, t>>}
<1>1. t \in Tasks
  BY DEF Known
<1>2. EventsFit(s, kept, w, t) /\ EscalationShown(kept.alerts, n, w, t)
  BY <1>1 DEF KeptFits, EventsShown
<1>3. s.tasks[t].leased_to = w => Requeued(s, n, t)
  BY DEF EventsShown
<1>4. /\ RetainedEvents(s, w, t) \in Seq(AnyRecords)
      /\ m \in States /\ SameTasksBut(n, m, t) /\ SameRuns(n, m) /\ SameBeats(n, m)
      /\ SameNotes(n, m) /\ OtherLogs(n, m, w, t) /\ Shown(s, m, w, t)
      /\ IF s.tasks[t].leased_to = w THEN Resumed(s, m, t) ELSE m.tasks[t] = n.tasks[t]
  BY <1>1, <1>2, <1>3, RebuildEvents
<1> HIDE DEF m
<1>5. SameRuns(n0, m) /\ SameBeats(n0, m) /\ SameNotes(n0, m)
  BY <1>4 DEF EventsShown, SameRuns, SameBeats, SameNotes
<1>6. ASSUME NEW v \in Workers, NEW u \in Tasks
      PROVE  IF <<v, u>> \in E THEN Shown(s, m, v, u) ELSE EscalationShown(kept.alerts, m, v, u)
  <2>1. CASE v = w /\ u = t
    BY <1>4, <2>1
  <2>2. CASE ~(v = w /\ u = t)
    <3>1. <<v, u>> \in E <=> <<v, u>> \in D
      BY <2>2
    <3>2. /\ m.latest_seq[v][u] = n.latest_seq[v][u]
          /\ m.latest_payload[v][u] = n.latest_payload[v][u]
      BY <1>4, <2>2 DEF OtherLogs
    <3>3. Shown(s, n, v, u) => Shown(s, m, v, u)
      BY <3>2 DEF Shown
    <3>4. EscalationShown(kept.alerts, n, v, u) => EscalationShown(kept.alerts, m, v, u)
      BY <3>2 DEF EscalationShown
    <3> HIDE DEF E
    <3> QED BY <3>1, <3>3, <3>4 DEF EventsShown
  <2> QED BY <2>1, <2>2
<1>7. ASSUME NEW u \in Known(s)
      PROVE  IF <<s.tasks[u].leased_to, u>> \in E THEN Resumed(s, m, u) ELSE Requeued(s, m, u)
  <2>1. CASE u = t /\ s.tasks[u].leased_to = w
    BY <1>4, <2>1
  <2>2. CASE ~(u = t /\ s.tasks[u].leased_to = w)
    <3>1. <<s.tasks[u].leased_to, u>> \in E <=> <<s.tasks[u].leased_to, u>> \in D
      BY <2>2
    <3>2. m.tasks[u] = n.tasks[u]
      BY <1>4, <2>2 DEF SameTasksBut, Known
    <3>3. (Resumed(s, n, u) => Resumed(s, m, u)) /\ (Requeued(s, n, u) => Requeued(s, m, u))
      BY <3>2 DEF Resumed, Requeued, SameTenure
    <3> HIDE DEF E
    <3> QED BY <3>1, <3>3 DEF EventsShown
  <2> QED BY <2>1, <2>2
<1>8. \A u \in Tasks \ Known(s) : m.tasks[u] = NoTask
  BY <1>4 DEF SameTasksBut, EventsShown
<1>9. EventsShown(s, n0, E, m)
  <2> HIDE DEF E
  <2> QED BY <1>5, <1>6, <1>7, <1>8 DEF EventsShown
<1> QED BY <1>4, <1>9 DEF m

EventsOfWorker(s, w) == [t \in Known(s) |-> RetainedEvents(s, w, t)]

(* The events of one worker, for all tasks. *)
LEMMA RebuildWorker ==
  ASSUME NEW s, NEW n0, NEW n1, NEW W, NEW w,
         s \in States, n1 \in States, KeptType, KeptFits(s, kept),
         w \in Workers, w \notin W, EventsShown(s, n0, W \X Known(s), n1)
  PROVE  LET records == ForAll(Known(s), EventsOfWorker(s, w))
             n == From(n1, records) IN
         /\ records \in Seq(AnyRecords)
         /\ n \in States /\ EventsShown(s, n0, (W \cup {w}) \X Known(s), n)
<1> DEFINE S == Known(s)
           of == EventsOfWorker(s, w)
           Done(D) == (W \X S) \cup ({w} \X D)
           G == {p \in (SUBSET S) \X States : EventsShown(s, n0, Done(p[1]), p[2])}
<1>1. S \subseteq Tasks /\ IsFiniteSet(S)
  BY FiniteAssumption, FS_Subset DEF Known
<1>2. of \in [S -> Seq(AnyRecords)]
  <2>1. ASSUME NEW t \in S PROVE RetainedEvents(s, w, t) \in Seq(AnyRecords)
    <3>1. <<w, t>> \notin W \X S
      OBVIOUS
    <3> QED BY <3>1, EventsOfPair
  <2> QED BY <2>1 DEF EventsOfWorker
<1>3. <<{}, n1>> \in G
  <2>1. Done({}) = W \X S
    OBVIOUS
  <2> HIDE DEF Done
  <2> QED BY <2>1
<1>4. ASSUME NEW D, NEW n, NEW t \in S, <<D, n>> \in G, t \notin D
      PROVE  <<D \cup {t}, From(n, of[t])>> \in G
  <2> DEFINE m == From(n, RetainedEvents(s, w, t))
  <2>1. D \subseteq S /\ n \in States /\ EventsShown(s, n0, Done(D), n)
    BY <1>4
  <2>2. <<w, t>> \notin Done(D)
    BY <1>4
  <2>3. Done(D \cup {t}) = Done(D) \cup {<<w, t>>}
    OBVIOUS
  <2>4. From(n, of[t]) = m
    BY DEF EventsOfWorker
  <2> HIDE DEF Done, m
  <2>5. m \in States /\ EventsShown(s, n0, Done(D) \cup {<<w, t>>}, m)
    BY <2>1, <2>2, EventsOfPair DEF m
  <2> QED BY <2>1, <2>3, <2>4, <2>5
<1>5. Done(S) = (W \cup {w}) \X S
  OBVIOUS
<1> HIDE DEF of, G
<1>6. ForAll(S, of) \in Seq(AnyRecords) /\ <<S, From(n1, ForAll(S, of))>> \in G
  BY <1>1, <1>2, <1>3, <1>4, GroupRule
<1> HIDE DEF Done, S
<1> QED BY <1>5, <1>6 DEF G, S, of

AllEvents(s) == [w \in Workers |-> ForAll(Known(s), EventsOfWorker(s, w))]

(* The events of all workers. *)
LEMMA RebuildLogs ==
  ASSUME NEW s, NEW n0, s \in States, n0 \in States, KeptType, KeptFits(s, kept),
         EscalationsShown(kept.alerts, n0),
         \A t \in Known(s) : Requeued(s, n0, t),
         \A t \in Tasks \ Known(s) : n0.tasks[t] = NoTask /\ s.tasks[t].leased_to = NoWorker
  PROVE  LET records == ForAll(Workers, AllEvents(s))
             n == From(n0, records) IN
         /\ records \in Seq(AnyRecords)
         /\ n \in States /\ SameRuns(n0, n) /\ SameBeats(n0, n) /\ SameNotes(n0, n)
         /\ \A w \in Workers, t \in Tasks : Shown(s, n, w, t)
         /\ \A t \in Known(s) : Resumed(s, n, t)
         /\ \A t \in Tasks \ Known(s) : n.tasks[t] = NoTask
<1> DEFINE S == Workers
           of == AllEvents(s)
           G == {p \in (SUBSET S) \X States : EventsShown(s, n0, p[1] \X Known(s), p[2])}
           none == {} \X Known(s)
<1>1. EventsShown(s, n0, none, n0)
  <2>1. \A p : p \notin none
    OBVIOUS
  <2> HIDE DEF none
  <2>2. SameRuns(n0, n0) /\ SameBeats(n0, n0) /\ SameNotes(n0, n0)
    BY DEF SameRuns, SameBeats, SameNotes
  <2> QED BY <2>1, <2>2 DEF EventsShown, EscalationsShown
<1>2. <<{}, n0>> \in G
  BY <1>1
<1>3. of \in [S -> Seq(AnyRecords)]
  <2>1. ASSUME NEW w \in S PROVE ForAll(Known(s), EventsOfWorker(s, w)) \in Seq(AnyRecords)
    <3> DEFINE W == {}
    <3>1. w \notin W /\ EventsShown(s, n0, W \X Known(s), n0)
      BY <1>1
    <3> HIDE DEF W
    <3> QED BY <3>1, RebuildWorker
  <2> QED BY <2>1 DEF AllEvents
<1>4. ASSUME NEW D, NEW n, NEW w \in S, <<D, n>> \in G, w \notin D
      PROVE  <<D \cup {w}, From(n, of[w])>> \in G
  <2> DEFINE m == From(n, ForAll(Known(s), EventsOfWorker(s, w)))
  <2>1. D \subseteq S /\ n \in States /\ EventsShown(s, n0, D \X Known(s), n)
    BY <1>4
  <2>2. From(n, of[w]) = m
    BY DEF AllEvents
  <2>3. m \in States /\ EventsShown(s, n0, (D \cup {w}) \X Known(s), m)
    BY <1>4, <2>1, RebuildWorker
  <2> HIDE DEF m
  <2> QED BY <2>1, <2>2, <2>3
<1> HIDE DEF of, G
<1>5. ForAll(S, of) \in Seq(AnyRecords) /\ <<S, From(n0, ForAll(S, of))>> \in G
  BY <1>2, <1>3, <1>4, FiniteAssumption, GroupRule
<1> DEFINE n == From(n0, ForAll(S, of))
<1> HIDE DEF n
<1>6. n \in States /\ EventsShown(s, n0, Workers \X Known(s), n)
  BY <1>5 DEF G, n
<1>7. ASSUME NEW w \in Workers, NEW t \in Tasks PROVE Shown(s, n, w, t)
  <2>1. CASE t \in Known(s)
    BY <1>6, <2>1 DEF EventsShown
  <2>2. CASE t \notin Known(s)
    <3>1. EscalationShown(kept.alerts, n, w, t)
      BY <1>6, <2>2 DEF EventsShown
    <3>2. s.tasks[t].leased_to # w
      BY <2>2, NoWorkerAssumption
    <3>3. EventsFit(s, kept, w, t)
      BY DEF KeptFits
    <3>4. /\ s.latest_payload[w][t] = "None" /\ kept.latest[w][t] = 0
          /\ s.latest_seq[w][t] >= 0
          /\ \A a \in AlertsOf(kept, w, t) : a[3] >= 1 /\ a[3] <= 0
      BY <3>2, <3>3 DEF EventsFit, States
    <3>5. AlertsOf(kept, w, t) = {}
      <4>1. \A a \in AlertsOf(kept, w, t) : a[3] \in Nat
        BY DEF KeptType, KeptShape, AlertsOf
      <4> QED BY <3>4, <4>1
    <3>6. n.latest_seq[w][t] = 0 /\ n.latest_payload[w][t] = "None"
      BY <3>1, <3>5 DEF EscalationShown, AlertsOf
    <3> QED BY <3>4, <3>6 DEF Shown
  <2> QED BY <2>1, <2>2
<1>8. ASSUME NEW t \in Known(s) PROVE Resumed(s, n, t)
  <2>1. CASE s.tasks[t].leased_to = NoWorker
    <3>1. <<s.tasks[t].leased_to, t>> \notin Workers \X Known(s)
      BY <2>1, NoWorkerAssumption
    <3>2. Requeued(s, n, t)
      BY <1>6, <3>1 DEF EventsShown
    <3> QED BY <2>1, <3>2 DEF Resumed, ShowsOutcome
  <2>2. CASE s.tasks[t].leased_to # NoWorker
    <3>1. s.tasks[t].leased_to \in Workers
      BY <2>2 DEF Known, States, TaskStates
    <3> QED BY <1>6, <3>1 DEF EventsShown
  <2> QED BY <2>1, <2>2
<1> QED BY <1>5, <1>6, <1>7, <1>8 DEF n, of, EventsShown

NumberOf(s) ==
  [p \in Numbered(s) |-> <<EventSequenceCheckpoint(p[1], p[2], s.latest_seq[p[1]][p[2]])>>]

(* The numbers of events go on where they were, those of late events       *)
(* included.                                                               *)
LEMMA RebuildNumbers ==
  ASSUME NEW s, NEW n0, s \in States, n0 \in States,
         \A w \in Workers, t \in Tasks : Shown(s, n0, w, t)
  PROVE  LET records == ForAll(Numbered(s), NumberOf(s))
             n == From(n0, records) IN
         /\ records \in Seq(AnyRecords)
         /\ n \in States /\ n.tasks = n0.tasks /\ SameRuns(n0, n) /\ SameBeats(n0, n)
         /\ SameNotes(n0, n) /\ SameLog(s, n)
<1> DEFINE S == Numbered(s)
           of == NumberOf(s)
           Q(D, n) == /\ n.tasks = n0.tasks /\ SameRuns(n0, n) /\ SameBeats(n0, n)
                      /\ SameNotes(n0, n) /\ n.latest_payload = n0.latest_payload
                      /\ \A w \in Workers, t \in Tasks :
                           n.latest_seq[w][t] = IF <<w, t>> \in D THEN s.latest_seq[w][t]
                                                ELSE n0.latest_seq[w][t]
           G == {p \in (SUBSET S) \X States : Q(p[1], p[2])}
<1>1. S \subseteq Workers \X Tasks /\ IsFiniteSet(S)
  <2>1. IsFiniteSet(Workers \X Tasks)
    BY FiniteAssumption, FS_Product
  <2>2. S \subseteq Workers \X Tasks
    BY DEF Numbered
  <2> QED BY <2>1, <2>2, FS_Subset
<1>2. ASSUME NEW p \in S
      PROVE  p[1] \in Workers /\ p[2] \in Tasks /\ s.latest_seq[p[1]][p[2]] \in Nat
  BY <1>1 DEF States
<1>3. of \in [S -> Seq(AnyRecords)]
  <2>1. ASSUME NEW p \in S
        PROVE  EventSequenceCheckpoint(p[1], p[2], s.latest_seq[p[1]][p[2]]) \in AnyRecords
    BY <1>2, SequenceRecord
  <2>2. \A p \in S : <<EventSequenceCheckpoint(p[1], p[2], s.latest_seq[p[1]][p[2]])>>
                       \in Seq(AnyRecords)
    BY <2>1
  <2> QED BY <2>2 DEF NumberOf
<1>4. <<{}, n0>> \in G
  BY DEF SameRuns, SameBeats, SameNotes
<1>5. ASSUME NEW D, NEW n, NEW p \in S, <<D, n>> \in G, p \notin D
      PROVE  <<D \cup {p}, From(n, of[p])>> \in G
  <2> DEFINE w == p[1]
             t == p[2]
             seq == s.latest_seq[w][t]
             m == apply_any_record(n, EventSequenceCheckpoint(w, t, seq))
  <2>1. D \subseteq S /\ n \in States /\ Q(D, n)
    BY <1>5
  <2>2. w \in Workers /\ t \in Tasks /\ seq \in Nat /\ p = <<w, t>>
    BY <1>1, <1>2
  <2>3. From(n, of[p]) = m
    BY FromOne DEF NumberOf
  <2> HIDE DEF w, t, seq
  <2>4. /\ m \in States /\ m.tasks = n.tasks /\ SameRuns(n, m) /\ SameBeats(n, m)
        /\ SameNotes(n, m) /\ m.latest_payload = n.latest_payload /\ OtherLogs(n, m, w, t)
        /\ m.latest_seq[w][t] = IF n.latest_seq[w][t] < seq THEN seq ELSE n.latest_seq[w][t]
    BY <2>1, <2>2, SequenceRecord
  <2> HIDE DEF m
  <2>5. m.latest_seq[w][t] = seq
    <3>1. n.latest_seq[w][t] = n0.latest_seq[w][t]
      BY <1>5, <2>1, <2>2
    <3>2. n0.latest_seq[w][t] <= seq
      BY <2>2 DEF Shown, w, t, seq
    <3>3. n0.latest_seq[w][t] \in Nat
      BY <2>2 DEF States
    <3> QED BY <2>2, <2>4, <3>1, <3>2, <3>3
  <2>6. ASSUME NEW v \in Workers, NEW u \in Tasks
        PROVE  m.latest_seq[v][u] = IF <<v, u>> \in D \cup {p} THEN s.latest_seq[v][u]
                                    ELSE n0.latest_seq[v][u]
    <3>1. CASE v = w /\ u = t
      BY <2>2, <2>5, <3>1 DEF seq, w, t
    <3>2. CASE ~(v = w /\ u = t)
      <4>1. m.latest_seq[v][u] = n.latest_seq[v][u]
        BY <2>4, <3>2 DEF OtherLogs
      <4>2. <<v, u>> # p
        BY <2>2, <3>2
      <4> QED BY <2>1, <4>1, <4>2
    <3> QED BY <3>1, <3>2
  <2>7. Q(D \cup {p}, m)
    BY <2>1, <2>4, <2>6 DEF SameRuns, SameBeats, SameNotes
  <2> QED BY <2>1, <2>3, <2>4, <2>7
<1> HIDE DEF of, G
<1>6. ForAll(S, of) \in Seq(AnyRecords) /\ <<S, From(n0, ForAll(S, of))>> \in G
  BY <1>1, <1>3, <1>4, <1>5, GroupRule
<1> DEFINE n == From(n0, ForAll(S, of))
<1>7. n \in States /\ Q(S, n)
  BY <1>6 DEF G
<1> HIDE DEF n
<1>8. ASSUME NEW w \in Workers, NEW t \in Tasks
      PROVE  /\ n.latest_seq[w][t] = s.latest_seq[w][t]
             /\ n.latest_payload[w][t] = s.latest_payload[w][t]
  <2>1. CASE <<w, t>> \in S
    BY <1>7, <2>1 DEF Shown
  <2>2. CASE <<w, t>> \notin S
    <3>1. s.latest_seq[w][t] = 0
      BY <2>2 DEF Numbered
    <3>2. n0.latest_seq[w][t] \in Nat /\ n0.latest_seq[w][t] <= 0
      BY <3>1 DEF Shown, States
    <3>3. n0.latest_seq[w][t] = 0
      BY <3>2
    <3> QED BY <1>7, <2>2, <3>1, <3>3 DEF Shown
  <2> QED BY <2>1, <2>2
<1>9. SameLog(s, n)
  BY <1>7, <1>8 DEF SameLog, States
<1> QED BY <1>6, <1>7, <1>9 DEF n, of

BeatOf(s) == [w \in Beating(s) |-> <<HeartbeatRecord(w, s.heartbeats[w])>>]

(* Every worker has its last heartbeat. *)
LEMMA RebuildBeats ==
  ASSUME NEW s, NEW n0, s \in States, n0 \in States, SameBeats(EmptyState, n0)
  PROVE  LET records == ForAll(Beating(s), BeatOf(s))
             n == From(n0, records) IN
         /\ records \in Seq(AnyRecords)
         /\ n \in States /\ n.tasks = n0.tasks /\ SameRuns(n0, n) /\ SameBeats(s, n)
         /\ SameNotes(n0, n) /\ SameLog(n0, n)
<1> DEFINE S == Beating(s)
           of == BeatOf(s)
           Q(D, n) == /\ n.tasks = n0.tasks /\ SameRuns(n0, n) /\ SameLog(n0, n)
                      /\ SameNotes(n0, n)
                      /\ \A w \in Workers :
                           n.heartbeats[w] = IF w \in D THEN s.heartbeats[w] ELSE Never
           G == {p \in (SUBSET S) \X States : Q(p[1], p[2])}
<1>1. S \subseteq Workers /\ IsFiniteSet(S)
  BY FiniteAssumption, FS_Subset DEF Beating
<1>2. \A w \in S : w \in Workers /\ s.heartbeats[w] \in Nat
  BY <1>1 DEF States
<1>3. of \in [S -> Seq(AnyRecords)]
  <2>1. ASSUME NEW w \in S PROVE HeartbeatRecord(w, s.heartbeats[w]) \in AnyRecords
    BY <1>2, BeatRecord
  <2>2. \A w \in S : <<HeartbeatRecord(w, s.heartbeats[w])>> \in Seq(AnyRecords)
    BY <2>1
  <2> QED BY <2>2 DEF BeatOf
<1>4. <<{}, n0>> \in G
  BY DEF SameRuns, SameBeats, SameNotes, SameLog, EmptyState
<1>5. ASSUME NEW D, NEW n, NEW w \in S, <<D, n>> \in G, w \notin D
      PROVE  <<D \cup {w}, From(n, of[w])>> \in G
  <2> DEFINE at == s.heartbeats[w]
             m == apply_any_record(n, HeartbeatRecord(w, at))
  <2>1. D \subseteq S /\ n \in States /\ Q(D, n) /\ w \in Workers /\ at \in Nat
    BY <1>2, <1>5
  <2>2. From(n, of[w]) = m
    BY FromOne DEF BeatOf
  <2>3. /\ m \in States /\ m.tasks = n.tasks /\ SameRuns(n, m) /\ SameLog(n, m)
        /\ SameNotes(n, m) /\ m.heartbeats = [n.heartbeats EXCEPT ![w] = at]
    <3> HIDE DEF at
    <3> QED BY <2>1, BeatRecord
  <2> HIDE DEF m
  <2>4. \A v \in Workers :
          m.heartbeats[v] = IF v \in D \cup {w} THEN s.heartbeats[v] ELSE Never
    BY <2>1, <2>3 DEF States
  <2>5. Q(D \cup {w}, m)
    BY <2>1, <2>3, <2>4 DEF SameRuns, SameNotes, SameLog
  <2> QED BY <2>1, <2>2, <2>3, <2>5
<1> HIDE DEF of, G
<1>6. ForAll(S, of) \in Seq(AnyRecords) /\ <<S, From(n0, ForAll(S, of))>> \in G
  BY <1>1, <1>3, <1>4, <1>5, GroupRule
<1> DEFINE n == From(n0, ForAll(S, of))
<1>7. n \in States /\ Q(S, n)
  BY <1>6 DEF G
<1> HIDE DEF n
<1>8. \A w \in Workers : n.heartbeats[w] = s.heartbeats[w]
  BY <1>7 DEF Beating
<1>9. SameBeats(s, n)
  BY <1>7, <1>8 DEF SameBeats, States
<1> QED BY <1>6, <1>7, <1>9 DEF n, of

(* Task t is back but for its lifecycle number. *)
Settling(s, n, t) ==
  /\ SameTenure(s, n, t) /\ n.tasks[t].status = s.tasks[t].status
  /\ n.tasks[t].lifecycle_seq <= s.tasks[t].lifecycle_seq

OutcomeOf(s) ==
  [t \in Terminal(s) |->
    <<TaskCompletedOrFailed(t, s.tasks[t].leased_to, s.tasks[t].completed_at,
                            s.tasks[t].status)>>]

(* The record of an outcome settles the status of its task. *)
LEMMA OutcomeSettles ==
  ASSUME NEW s, NEW n, NEW t, s \in States, n \in States, t \in Terminal(s),
         TaskFits(s, t), Resumed(s, n, t)
  PROVE  LET r == TaskCompletedOrFailed(t, s.tasks[t].leased_to, s.tasks[t].completed_at,
                                        s.tasks[t].status)
             m == apply_any_record(n, r) IN
         r \in AnyRecords /\ m \in States /\ OnlyTask(n, m, t) /\ Settling(s, m, t)
<1> DEFINE task == s.tasks[t]
           w == task.leased_to
           status == task.status
           r == TaskCompletedOrFailed(t, w, task.completed_at, status)
           m == apply_any_record(n, r)
           old == n.tasks[t]
           seq == task.lifecycle_seq
<1>1. /\ t \in Tasks /\ w \in Workers \cup {NoWorker} /\ task.completed_at \in Nat
      /\ status \in TerminalStatuses /\ seq \in Nat
  BY DEF Terminal, IsTerminal, States, TaskStates
<1>2. /\ seq >= 2
      /\ w # NoWorker => seq >= 3
      /\ w # NoWorker /\ s.latest_payload[w][t] \in TerminalPayloads \ {status} => seq >= 4
  BY <1>1 DEF TaskFits, TaskShape, Overruled, IsTerminal
<1>3. SameTenure(s, n, t)
  BY DEF Resumed, Requeued
<1>4. /\ ShowsOutcome(s, t) => old.status = s.latest_payload[w][t] /\ old.lifecycle_seq = 3
      /\ ~ShowsOutcome(s, t) =>
           /\ old.status = IF w = NoWorker THEN "Enqueued" ELSE "Leased"
           /\ old.lifecycle_seq = IF w = NoWorker THEN 1 ELSE 2
  BY DEF Resumed, Requeued
<1>5. ShowsOutcome(s, t) <=> w # NoWorker /\ s.latest_payload[w][t] \in TerminalPayloads
  BY DEF ShowsOutcome
<1> HIDE DEF task, w, status, seq
<1>6. old.status # "Absent"
  BY <1>4, <1>5 DEF TerminalPayloads, TerminalStatuses
<1> HIDE DEF old
<1>7. /\ m \in States /\ r \in AnyRecords /\ OnlyTask(n, m, t)
      /\ m.tasks[t].status = status
      /\ m.tasks[t].lifecycle_seq = IF old.status = status THEN old.lifecycle_seq
                                    ELSE old.lifecycle_seq + 1
      /\ m.tasks[t].leased_to = IF w = NoWorker THEN old.leased_to ELSE w
      /\ m.tasks[t].attempts = old.attempts
      /\ m.tasks[t].leased_at = old.leased_at
      /\ m.tasks[t].lease_deadline = old.lease_deadline
  BY <1>1, <1>6, TerminalRecord DEF old
<1> HIDE DEF m, r
<1>8. SameTenure(s, m, t)
  BY <1>3, <1>7 DEF SameTenure, old, w, task
<1>9. m.tasks[t].lifecycle_seq <= seq
  <2>1. CASE ShowsOutcome(s, t)
    BY <1>1, <1>2, <1>4, <1>5, <1>7, <2>1
  <2>2. CASE ~ShowsOutcome(s, t)
    <3>1. status # "Enqueued" /\ status # "Leased"
      BY <1>1 DEF TerminalStatuses
    <3> QED BY <1>1, <1>2, <1>4, <1>7, <2>2, <3>1
  <2> QED BY <2>1, <2>2
<1> QED BY <1>7, <1>8, <1>9 DEF Settling, m, r, seq, status, task, w

(* And so of all tasks that ended. *)
LEMMA RebuildOutcomes ==
  ASSUME NEW s, NEW n0, s \in States, n0 \in States, \A t \in Tasks : TaskFits(s, t),
         Fresh(s), \A t \in Tasks : ~Outdated(s, t),
         \A t \in Known(s) : Resumed(s, n0, t)
  PROVE  LET records == ForAll(Terminal(s), OutcomeOf(s))
             n == From(n0, records) IN
         /\ records \in Seq(AnyRecords)
         /\ n \in States /\ OnlyTasks(n0, n)
         /\ \A t \in Known(s) : Settling(s, n, t)
         /\ \A t \in Tasks \ Known(s) : n.tasks[t] = n0.tasks[t]
<1> DEFINE S == Terminal(s)
           of == OutcomeOf(s)
           Q(D, n) == /\ OnlyTasks(n0, n) /\ \A t \in D : Settling(s, n, t)
                      /\ \A t \in Tasks \ D : n.tasks[t] = n0.tasks[t]
           G == {p \in (SUBSET S) \X States : Q(p[1], p[2])}
<1>1. S \subseteq Tasks /\ IsFiniteSet(S) /\ S \subseteq Known(s)
  <2>1. S \subseteq Tasks /\ S \subseteq Known(s)
    BY DEF Terminal, Known, IsTerminal, TerminalStatuses
  <2> QED BY <2>1, FiniteAssumption, FS_Subset
<1>2. of \in [S -> Seq(AnyRecords)]
  <2>1. ASSUME NEW t \in S
        PROVE  TaskCompletedOrFailed(t, s.tasks[t].leased_to, s.tasks[t].completed_at,
                                     s.tasks[t].status) \in AnyRecords
    BY <1>1, OutcomeSettles
  <2>2. \A t \in S :
          <<TaskCompletedOrFailed(t, s.tasks[t].leased_to, s.tasks[t].completed_at,
                                  s.tasks[t].status)>> \in Seq(AnyRecords)
    BY <2>1
  <2> QED BY <2>2 DEF OutcomeOf
<1>3. <<{}, n0>> \in G
  BY DEF OnlyTasks, SameRuns, SameBeats, SameLog, SameNotes
<1>4. ASSUME NEW D, NEW n, NEW t \in S, <<D, n>> \in G, t \notin D
      PROVE  <<D \cup {t}, From(n, of[t])>> \in G
  <2> DEFINE m == apply_any_record(n,
                    TaskCompletedOrFailed(t, s.tasks[t].leased_to, s.tasks[t].completed_at,
                                          s.tasks[t].status))
  <2>1. D \subseteq S /\ n \in States /\ Q(D, n) /\ t \in Tasks /\ t \in Known(s)
    BY <1>1, <1>4
  <2>2. Resumed(s, n, t)
    <3>1. n.tasks[t] = n0.tasks[t]
      BY <1>4, <2>1
    <3> QED BY <2>1, <3>1 DEF Resumed, Requeued, SameTenure
  <2>3. m \in States /\ OnlyTask(n, m, t) /\ Settling(s, m, t)
    BY <2>1, <2>2, OutcomeSettles
  <2>4. From(n, of[t]) = m
    BY FromOne DEF OutcomeOf
  <2> HIDE DEF m
  <2>5. OnlyTasks(n0, m)
    BY <2>1, <2>3 DEF OnlyTask, OnlyTasks, SameRuns, SameBeats, SameLog, SameNotes
  <2>6. \A u \in Tasks \ {t} : m.tasks[u] = n.tasks[u]
    BY <2>3 DEF OnlyTask, SameTasksBut
  <2>7. \A u \in D \cup {t} : Settling(s, m, u)
    BY <1>1, <2>1, <2>3, <2>6 DEF Settling, SameTenure
  <2>8. \A u \in Tasks \ (D \cup {t}) : m.tasks[u] = n0.tasks[u]
    BY <2>1, <2>6
  <2> QED BY <2>1, <2>3, <2>4, <2>5, <2>7, <2>8
<1> HIDE DEF of, G
<1>5. ForAll(S, of) \in Seq(AnyRecords) /\ <<S, From(n0, ForAll(S, of))>> \in G
  BY <1>1, <1>2, <1>3, <1>4, GroupRule
<1> DEFINE n == From(n0, ForAll(S, of))
<1>6. n \in States /\ Q(S, n)
  BY <1>5 DEF G
<1> HIDE DEF n
<1>7. ASSUME NEW t \in Known(s) \ S PROVE Settling(s, n, t)
  <2>1. t \in Tasks /\ ~IsTerminal(s, t) /\ s.tasks[t].status # "Absent"
    BY DEF Known, Terminal
  <2>2. ~ShowsOutcome(s, t)
    BY <2>1 DEF Outdated, ShowsOutcome
  <2>3. Requeued(s, n, t)
    <3>1. n.tasks[t] = n0.tasks[t]
      BY <1>6, <2>1
    <3> QED BY <2>2, <3>1 DEF Resumed, Requeued, SameTenure
  <2>4. /\ s.tasks[t].status \in {"Enqueued", "Leased"}
        /\ s.tasks[t].status = "Enqueued" => s.tasks[t].leased_to = NoWorker
        /\ s.tasks[t].status = "Enqueued" => s.tasks[t].lifecycle_seq >= 1
        /\ s.tasks[t].status = "Leased" => s.tasks[t].leased_to # NoWorker
        /\ s.tasks[t].status = "Leased" => s.tasks[t].lifecycle_seq >= 2
        /\ s.tasks[t].lifecycle_seq \in Nat
    BY <2>1 DEF TaskFits, TaskShape, Overruled, Fresh, States, TaskStates, TaskLedgerStatuses, IsTerminal,
                TerminalStatuses
  <2> QED BY <2>3, <2>4 DEF Settling, Requeued
<1>8. \A t \in Known(s) : Settling(s, n, t)
  BY <1>6, <1>7
<1>9. \A t \in Tasks \ Known(s) : n.tasks[t] = n0.tasks[t]
  BY <1>1, <1>6
<1> QED BY <1>5, <1>6, <1>8, <1>9 DEF n, of

(* Task t is back as it was, but for the time of its end. *)
Restored(s, n, t) ==
  /\ SameTenure(s, n, t) /\ n.tasks[t].status = s.tasks[t].status
  /\ n.tasks[t].lifecycle_seq = s.tasks[t].lifecycle_seq

LifecycleOf(s) ==
  [t \in Known(s) |-> <<TaskLifecycleCheckpoint(t, s.tasks[t].lifecycle_seq)>>]

(* The lifecycle numbers go on where they were. *)
LEMMA RebuildLifecycles ==
  ASSUME NEW s, NEW n0, s \in States, n0 \in States, \A t \in Known(s) : Settling(s, n0, t)
  PROVE  LET records == ForAll(Known(s), LifecycleOf(s))
             n == From(n0, records) IN
         /\ records \in Seq(AnyRecords)
         /\ n \in States /\ OnlyTasks(n0, n)
         /\ \A t \in Known(s) : Restored(s, n, t)
         /\ \A t \in Tasks \ Known(s) : n.tasks[t] = n0.tasks[t]
<1> DEFINE S == Known(s)
           of == LifecycleOf(s)
           Q(D, n) == /\ OnlyTasks(n0, n) /\ \A t \in D : Restored(s, n, t)
                      /\ \A t \in Tasks \ D : n.tasks[t] = n0.tasks[t]
           G == {p \in (SUBSET S) \X States : Q(p[1], p[2])}
<1>1. S \subseteq Tasks /\ IsFiniteSet(S)
  BY FiniteAssumption, FS_Subset DEF Known
<1>2. \A t \in S : s.tasks[t].lifecycle_seq \in Nat /\ s.tasks[t].status # "Absent"
  BY <1>1 DEF Known, States, TaskStates
<1>3. of \in [S -> Seq(AnyRecords)]
  <2>1. \A t \in S : n0.tasks[t].status # "Absent"
    BY <1>2 DEF Settling
  <2>2. ASSUME NEW t \in S
        PROVE  TaskLifecycleCheckpoint(t, s.tasks[t].lifecycle_seq) \in AnyRecords
    BY <1>1, <1>2, <2>1, LifecycleRecord
  <2>3. \A t \in S : <<TaskLifecycleCheckpoint(t, s.tasks[t].lifecycle_seq)>> \in Seq(AnyRecords)
    BY <2>2
  <2> QED BY <2>3 DEF LifecycleOf
<1>4. <<{}, n0>> \in G
  BY DEF OnlyTasks, SameRuns, SameBeats, SameLog, SameNotes
<1>5. ASSUME NEW D, NEW n, NEW t \in S, <<D, n>> \in G, t \notin D
      PROVE  <<D \cup {t}, From(n, of[t])>> \in G
  <2> DEFINE seq == s.tasks[t].lifecycle_seq
             m == apply_any_record(n, TaskLifecycleCheckpoint(t, seq))
             old == n.tasks[t]
  <2>1. D \subseteq S /\ n \in States /\ Q(D, n) /\ t \in Tasks /\ seq \in Nat
    BY <1>1, <1>2, <1>5
  <2>2. Settling(s, n, t)
    <3>1. n.tasks[t] = n0.tasks[t]
      BY <1>5, <2>1
    <3> QED BY <3>1 DEF Settling, SameTenure
  <2>3. old.status # "Absent" /\ old.lifecycle_seq \in Nat /\ old.lifecycle_seq <= seq
    BY <1>2, <2>1, <2>2 DEF Settling, States, TaskStates
  <2>4. /\ m \in States /\ OnlyTask(n, m, t)
        /\ m.tasks[t].status = old.status
        /\ m.tasks[t].lifecycle_seq = IF old.lifecycle_seq < seq THEN seq
                                      ELSE old.lifecycle_seq
        /\ m.tasks[t].leased_to = old.leased_to
        /\ m.tasks[t].attempts = old.attempts
        /\ m.tasks[t].leased_at = old.leased_at
        /\ m.tasks[t].lease_deadline = old.lease_deadline
    BY <2>1, <2>3, LifecycleRecord
  <2>5. From(n, of[t]) = m
    BY FromOne DEF LifecycleOf
  <2> HIDE DEF m
  <2>6. m.tasks[t].lifecycle_seq = seq
    BY <2>1, <2>3, <2>4
  <2>7. Restored(s, m, t)
    BY <2>2, <2>4, <2>6 DEF Restored, Settling, SameTenure
  <2>8. OnlyTasks(n0, m)
    BY <2>1, <2>4 DEF OnlyTask, OnlyTasks, SameRuns, SameBeats, SameLog, SameNotes
  <2>9. \A u \in Tasks \ {t} : m.tasks[u] = n.tasks[u]
    BY <2>4 DEF OnlyTask, SameTasksBut
  <2>10. \A u \in D \cup {t} : Restored(s, m, u)
    BY <1>1, <2>1, <2>7, <2>9 DEF Restored, SameTenure
  <2>11. \A u \in Tasks \ (D \cup {t}) : m.tasks[u] = n0.tasks[u]
    BY <2>1, <2>9
  <2> QED BY <2>1, <2>4, <2>5, <2>8, <2>10, <2>11
<1> HIDE DEF of, G
<1>6. ForAll(S, of) \in Seq(AnyRecords) /\ <<S, From(n0, ForAll(S, of))>> \in G
  BY <1>1, <1>3, <1>4, <1>5, GroupRule
<1> QED BY <1>6 DEF G, of

ReceiptOf(s) == [t \in Settled(s) |-> <<ReceiptRecorded(t, s.receipts[t])>>]

(* All receipts come back. *)
LEMMA RebuildReceipts ==
  ASSUME NEW s, NEW n0, s \in States, n0 \in States, n0.receipts = EmptyState.receipts
  PROVE  LET records == ForAll(Settled(s), ReceiptOf(s))
             n == From(n0, records) IN
         /\ records \in Seq(AnyRecords)
         /\ n \in States /\ n.tasks = n0.tasks /\ SameRuns(n0, n) /\ SameBeats(n0, n)
         /\ SameLog(n0, n) /\ n.alerts = n0.alerts /\ n.receipts = s.receipts
<1> DEFINE S == Settled(s)
           of == ReceiptOf(s)
           Q(D, n) == /\ n.tasks = n0.tasks /\ SameRuns(n0, n) /\ SameBeats(n0, n)
                      /\ SameLog(n0, n) /\ n.alerts = n0.alerts
                      /\ \A t \in Tasks :
                           n.receipts[t] = IF t \in D THEN s.receipts[t] ELSE NoReceipt
           G == {p \in (SUBSET S) \X States : Q(p[1], p[2])}
<1>1. S \subseteq Tasks /\ IsFiniteSet(S)
  BY FiniteAssumption, FS_Subset DEF Settled
<1>2. \A t \in S : t \in Tasks /\ s.receipts[t] \in Receipts
  BY <1>1 DEF States
<1>3. of \in [S -> Seq(AnyRecords)]
  <2>1. ASSUME NEW t \in S PROVE ReceiptRecorded(t, s.receipts[t]) \in AnyRecords
    BY <1>2, ReceiptRecord
  <2>2. \A t \in S : <<ReceiptRecorded(t, s.receipts[t])>> \in Seq(AnyRecords)
    BY <2>1
  <2> QED BY <2>2 DEF ReceiptOf
<1>4. <<{}, n0>> \in G
  BY DEF SameRuns, SameBeats, SameLog, EmptyState
<1>5. ASSUME NEW D, NEW n, NEW t \in S, <<D, n>> \in G, t \notin D
      PROVE  <<D \cup {t}, From(n, of[t])>> \in G
  <2> DEFINE m == apply_any_record(n, ReceiptRecorded(t, s.receipts[t]))
  <2>1. D \subseteq S /\ n \in States /\ Q(D, n)
    BY <1>5
  <2>2. From(n, of[t]) = m
    BY FromOne DEF ReceiptOf
  <2>3. /\ m \in States /\ m.tasks = n.tasks /\ SameRuns(n, m) /\ SameBeats(n, m)
        /\ SameLog(n, m) /\ m.alerts = n.alerts
        /\ m.receipts = [n.receipts EXCEPT ![t] = s.receipts[t]]
    BY <1>2, <2>1, ReceiptRecord
  <2> HIDE DEF m
  <2>4. \A u \in Tasks : m.receipts[u] = IF u \in D \cup {t} THEN s.receipts[u] ELSE NoReceipt
    BY <2>1, <2>3 DEF States
  <2>5. Q(D \cup {t}, m)
    BY <2>1, <2>3, <2>4 DEF SameRuns, SameBeats, SameLog
  <2> QED BY <2>1, <2>2, <2>3, <2>5
<1> HIDE DEF of, G
<1>6. ForAll(S, of) \in Seq(AnyRecords) /\ <<S, From(n0, ForAll(S, of))>> \in G
  BY <1>1, <1>3, <1>4, <1>5, GroupRule
<1> DEFINE n == From(n0, ForAll(S, of))
<1>7. n \in States /\ Q(S, n)
  BY <1>6 DEF G
<1> HIDE DEF n
<1>8. \A t \in Tasks : n.receipts[t] = s.receipts[t]
  BY <1>7 DEF Settled
<1>9. n.receipts = s.receipts
  BY <1>7, <1>8 DEF States
<1> QED BY <1>6, <1>7, <1>9 DEF n, of

(* Nothing a decision looks at differs. *)
SameButTimes(s, n) ==
  /\ SameRuns(s, n) /\ SameBeats(s, n) /\ SameLog(s, n) /\ SameNotes(s, n)
  /\ \A t \in Tasks : Restored(s, n, t)

LEMMA SameIsPreserved ==
  ASSUME NEW s, NEW n, s \in States, n \in States, SameButTimes(s, n)
  PROVE  Preserved(n) = Preserved(s)
<1>1. ASSUME NEW t \in Tasks
      PROVE  [n.tasks[t] EXCEPT !.completed_at = Never] = [s.tasks[t] EXCEPT !.completed_at = Never]
  <2> DEFINE a == s.tasks[t]
             b == n.tasks[t]
  <2>1. a \in TaskStates /\ b \in TaskStates
    BY DEF States
  <2>2. /\ b.status = a.status /\ b.lifecycle_seq = a.lifecycle_seq
        /\ b.leased_to = a.leased_to /\ b.leased_at = a.leased_at
        /\ b.lease_deadline = a.lease_deadline /\ b.attempts = a.attempts
    BY DEF SameButTimes, Restored, SameTenure
  <2> HIDE DEF a, b
  <2>3. [b EXCEPT !.completed_at = Never] = [a EXCEPT !.completed_at = Never]
    BY <2>1, <2>2 DEF TaskStates
  <2> QED BY <2>3 DEF a, b
<1>2. [t \in Tasks |-> [n.tasks[t] EXCEPT !.completed_at = Never]] =
      [t \in Tasks |-> [s.tasks[t] EXCEPT !.completed_at = Never]]
  BY <1>1
<1>3. /\ n.runs = s.runs /\ n.run_status = s.run_status /\ n.receipts = s.receipts
      /\ n.alerts = s.alerts /\ n.heartbeats = s.heartbeats
      /\ n.latest_seq = s.latest_seq /\ n.latest_payload = s.latest_payload
  BY DEF SameButTimes, SameRuns, SameBeats, SameLog, SameNotes
<1> QED BY <1>2, <1>3 DEF Preserved

(* What compaction relies on. *)
Compactable(s) ==
  /\ s \in States /\ Fresh(s) /\ KeptFits(s, kept)
  /\ \A r \in Runs : s.run_status[r] = "Queued"
  /\ \A t \in Tasks : ~Outdated(s, t)

(* Group after group, the records of a compacted ledger rebuild all of its *)
(* state but the times at which tasks ended.                               *)
LEMMA Rebuilds ==
  ASSUME NEW s, KeptType, Compactable(s)
  PROVE  Replay(Compacted(s)) \in States /\ SameButTimes(s, Replay(Compacted(s)))
<1> DEFINE g1 == ForAll(s.runs, RunRecordsOf(s))
           g2 == ForAll(Known(s), TaskRecordsOf(s))
           g3 == AlertRecordsOf(s)
           g4 == ForAll(Workers, AllEvents(s))
           g5 == ForAll(Numbered(s), NumberOf(s))
           g6 == ForAll(Beating(s), BeatOf(s))
           g7 == ForAll(Terminal(s), OutcomeOf(s))
           g8 == ForAll(Known(s), LifecycleOf(s))
           g9 == ForAll(Settled(s), ReceiptOf(s))
           p2 == g1 \o g2
           p3 == p2 \o g3
           p4 == p3 \o g4
           p5 == p4 \o g5
           p6 == p5 \o g6
           p7 == p6 \o g7
           p8 == p7 \o g8
           p9 == p8 \o g9
           n1 == From(EmptyState, g1)
           n2 == From(n1, g2)
           n3 == From(n2, g3)
           n4 == From(n3, g4)
           n5 == From(n4, g5)
           n6 == From(n5, g6)
           n7 == From(n6, g7)
           n8 == From(n7, g8)
           n9 == From(n8, g9)
<1>1. /\ s \in States /\ Fresh(s) /\ KeptFits(s, kept) /\ AlertsFit(s, kept)
      /\ \A t \in Tasks : TaskFits(s, t)
      /\ \A w \in Workers, t \in Tasks : EventsFit(s, kept, w, t)
      /\ \A r \in Runs : s.run_status[r] = "Queued"
      /\ \A t \in Tasks : ~Outdated(s, t)
  BY DEF Compactable, KeptFits
<1>2. Compacted(s) = p9
  BY DEF Compacted, RunRecordsOf, TaskRecordsOf, AllEvents, EventsOfWorker, NumberOf, BeatOf,
         Heartbeats, FinalRecords, TerminalRecords, OutcomeOf, LifecycleOf, ReceiptOf
<1> HIDE DEF g1, g2, g3, g4, g5, g6, g7, g8, g9
<1>3. /\ g1 \in Seq(AnyRecords) /\ n1 \in States /\ SameRuns(s, n1)
      /\ n1.tasks = EmptyState.tasks /\ SameBeats(EmptyState, n1)
      /\ SameLog(EmptyState, n1) /\ SameNotes(EmptyState, n1)
  BY <1>1, RebuildRuns DEF g1
<1> HIDE DEF n1
<1>4. /\ g2 \in Seq(AnyRecords) /\ n2 \in States /\ OnlyTasks(n1, n2)
      /\ \A t \in Known(s) : Requeued(s, n2, t)
      /\ \A t \in Tasks \ Known(s) : n2.tasks[t] = NoTask
  BY <1>1, <1>3, RebuildTasks DEF g2
<1> HIDE DEF n2
<1>5. /\ SameRuns(s, n2) /\ SameBeats(EmptyState, n2) /\ SameLog(EmptyState, n2)
      /\ SameNotes(EmptyState, n2) /\ n2.alerts = {}
  BY <1>3, <1>4 DEF OnlyTasks, SameRuns, SameBeats, SameLog, SameNotes, EmptyState
<1>6. \A a \in kept.alerts : a[3] >= 1
  <2> SUFFICES ASSUME NEW a \in kept.alerts PROVE a[3] >= 1
    OBVIOUS
  <2>1. a[2] \in Workers /\ a[1].task \in Tasks
    BY DEF KeptType, KeptShape, Alerts
  <2>2. a \in AlertsOf(kept, a[2], a[1].task)
    BY DEF AlertsOf
  <2> QED BY <1>1, <2>1, <2>2 DEF EventsFit
<1>7. /\ g3 \in Seq(AnyRecords) /\ n3 \in States /\ n3.tasks = n2.tasks /\ SameRuns(n2, n3)
      /\ SameBeats(n2, n3) /\ n3.receipts = n2.receipts /\ n3.alerts = s.alerts
      /\ EscalationsShown(kept.alerts, n3)
  BY <1>1, <1>4, <1>5, <1>6, RebuildAlerts DEF g3
<1> HIDE DEF n3
<1>8. /\ \A t \in Known(s) : Requeued(s, n3, t)
      /\ \A t \in Tasks \ Known(s) : n3.tasks[t] = NoTask /\ s.tasks[t].leased_to = NoWorker
  BY <1>1, <1>4, <1>7 DEF Requeued, SameTenure, Fresh, Known
<1>9. /\ g4 \in Seq(AnyRecords) /\ n4 \in States /\ SameRuns(n3, n4) /\ SameBeats(n3, n4)
      /\ SameNotes(n3, n4)
      /\ \A w \in Workers, t \in Tasks : Shown(s, n4, w, t)
      /\ \A t \in Known(s) : Resumed(s, n4, t)
      /\ \A t \in Tasks \ Known(s) : n4.tasks[t] = NoTask
  BY <1>1, <1>7, <1>8, RebuildLogs DEF g4
<1> HIDE DEF n4
<1>10. /\ g5 \in Seq(AnyRecords) /\ n5 \in States /\ n5.tasks = n4.tasks /\ SameRuns(n4, n5)
       /\ SameBeats(n4, n5) /\ SameNotes(n4, n5) /\ SameLog(s, n5)
  BY <1>1, <1>9, RebuildNumbers DEF g5
<1> HIDE DEF n5
<1>11. SameBeats(EmptyState, n5)
  BY <1>5, <1>7, <1>9, <1>10 DEF SameBeats
<1>12. /\ g6 \in Seq(AnyRecords) /\ n6 \in States /\ n6.tasks = n5.tasks /\ SameRuns(n5, n6)
       /\ SameBeats(s, n6) /\ SameNotes(n5, n6) /\ SameLog(n5, n6)
  BY <1>1, <1>10, <1>11, RebuildBeats DEF g6
<1> HIDE DEF n6
<1>13. \A t \in Known(s) : Resumed(s, n6, t)
  BY <1>9, <1>10, <1>12 DEF Resumed, Requeued, SameTenure
<1>14. /\ g7 \in Seq(AnyRecords) /\ n7 \in States /\ OnlyTasks(n6, n7)
       /\ \A t \in Known(s) : Settling(s, n7, t)
       /\ \A t \in Tasks \ Known(s) : n7.tasks[t] = n6.tasks[t]
  BY <1>1, <1>12, <1>13, RebuildOutcomes DEF g7
<1> HIDE DEF n7
<1>15. /\ g8 \in Seq(AnyRecords) /\ n8 \in States /\ OnlyTasks(n7, n8)
       /\ \A t \in Known(s) : Restored(s, n8, t)
       /\ \A t \in Tasks \ Known(s) : n8.tasks[t] = n7.tasks[t]
  BY <1>1, <1>14, RebuildLifecycles DEF g8
<1> HIDE DEF n8
<1>16. n8.receipts = EmptyState.receipts
  BY <1>5, <1>7, <1>9, <1>10, <1>12, <1>14, <1>15 DEF OnlyTasks, SameNotes
<1>17. /\ g9 \in Seq(AnyRecords) /\ n9 \in States /\ n9.tasks = n8.tasks /\ SameRuns(n8, n9)
       /\ SameBeats(n8, n9) /\ SameLog(n8, n9) /\ n9.alerts = n8.alerts
       /\ n9.receipts = s.receipts
  BY <1>1, <1>15, <1>16, RebuildReceipts DEF g9
<1> HIDE DEF n9
<1>18. From(EmptyState, p9) = n9
  <2>2. p2 \in Seq(AnyRecords) /\ From(EmptyState, p2) = n2
    BY <1>3, <1>4, FromConcat, ConcatFits DEF n1, n2
  <2> HIDE DEF p2
  <2>3. p3 \in Seq(AnyRecords) /\ From(EmptyState, p3) = n3
    BY <1>7, <2>2, FromConcat, ConcatFits DEF n3
  <2> HIDE DEF p3
  <2>4. p4 \in Seq(AnyRecords) /\ From(EmptyState, p4) = n4
    BY <1>9, <2>3, FromConcat, ConcatFits DEF n4
  <2> HIDE DEF p4
  <2>5. p5 \in Seq(AnyRecords) /\ From(EmptyState, p5) = n5
    BY <1>10, <2>4, FromConcat, ConcatFits DEF n5
  <2> HIDE DEF p5
  <2>6. p6 \in Seq(AnyRecords) /\ From(EmptyState, p6) = n6
    BY <1>12, <2>5, FromConcat, ConcatFits DEF n6
  <2> HIDE DEF p6
  <2>7. p7 \in Seq(AnyRecords) /\ From(EmptyState, p7) = n7
    BY <1>14, <2>6, FromConcat, ConcatFits DEF n7
  <2> HIDE DEF p7
  <2>8. p8 \in Seq(AnyRecords) /\ From(EmptyState, p8) = n8
    BY <1>15, <2>7, FromConcat, ConcatFits DEF n8
  <2> HIDE DEF p8
  <2> QED BY <1>17, <2>8, FromConcat DEF n9
<1>19. SameRuns(s, n9) /\ SameBeats(s, n9) /\ SameLog(s, n9) /\ SameNotes(s, n9)
  BY <1>5, <1>7, <1>9, <1>10, <1>12, <1>14, <1>15, <1>17
  DEF OnlyTasks, SameRuns, SameBeats, SameLog, SameNotes
<1>20. ASSUME NEW t \in Tasks PROVE Restored(s, n9, t)
  <2>1. CASE t \in Known(s)
    BY <1>15, <1>17, <2>1 DEF Restored, SameTenure
  <2>2. CASE t \notin Known(s)
    <3>1. n9.tasks[t] = NoTask
      BY <1>9, <1>10, <1>12, <1>14, <1>15, <1>17, <2>2
    <3>2. s.tasks[t].status = "Absent"
      BY <2>2 DEF Known
    <3>3. /\ s.tasks[t].lifecycle_seq = 0 /\ s.tasks[t].leased_to = NoWorker
          /\ s.tasks[t].attempts = 0 /\ s.tasks[t].leased_at = Never
          /\ s.tasks[t].lease_deadline = Never
      BY <1>1, <3>2 DEF TaskFits, TaskShape, Overruled, Fresh
    <3> QED BY <3>1, <3>2, <3>3 DEF Restored, SameTenure, NoTask
  <2> QED BY <2>1, <2>2
<1> QED BY <1>2, <1>17, <1>18, <1>19, <1>20 DEF Replay, SameButTimes

(***************************************************************************)
(* What is kept fits the log.                                              *)
(***************************************************************************)
(* What is kept of a new event. *)
Noted(s, k, l, e) ==
  /\ \A w \in Workers, t \in Tasks :
       l.latest[w][t] = IF w = e.worker /\ t = e.task /\ ~RegressesTerminalState(s, e)
                        THEN e.seq ELSE k.latest[w][t]
  /\ \A w \in Workers, t \in Tasks :
       l.restarted[w][t] = IF w = e.worker /\ t = e.task /\ e.payload = "Restarted"
                           THEN e.seq ELSE k.restarted[w][t]

(* And of the alert it may be for. *)
Escalates(k, l, e) ==
  IF e.payload = "Escalated"
  THEN \E alert \in Alerts : /\ alert.task = e.task
                             /\ l.alerts = k.alerts \cup {<<alert, e.worker, e.seq>>}
  ELSE l.alerts = k.alerts

(* A record without an event keeps what is kept fitting. *)
LEMMA SameLogKept ==
  ASSUME NEW s, NEW n, NEW k, NEW l,
         \A w \in Workers, t \in Tasks : EventsFit(s, k, w, t),
         SameLog(s, n), l.latest = k.latest, l.restarted = k.restarted, l.alerts = k.alerts,
         \A t \in Tasks : \/ n.tasks[t].leased_to = s.tasks[t].leased_to
                          \/ s.tasks[t].leased_to = NoWorker
  PROVE  \A w \in Workers, t \in Tasks : EventsFit(n, l, w, t)
<1> SUFFICES ASSUME NEW w \in Workers, NEW t \in Tasks PROVE EventsFit(n, l, w, t)
  OBVIOUS
<1>1. EventsFit(s, k, w, t) /\ AlertsOf(l, w, t) = AlertsOf(k, w, t)
  BY DEF AlertsOf
<1>2. /\ n.latest_payload[w][t] = s.latest_payload[w][t]
      /\ n.latest_seq[w][t] = s.latest_seq[w][t]
      /\ l.latest[w][t] = k.latest[w][t] /\ l.restarted[w][t] = k.restarted[w][t]
  BY DEF SameLog
<1>3. n.tasks[t].leased_to # w => s.tasks[t].leased_to # w
  BY NoWorkerAssumption
<1> QED BY <1>1, <1>2, <1>3 DEF EventsFit

(* So does one with the next event of a task, numbered after those kept. *)
LEMMA LoggedKept ==
  ASSUME NEW s, NEW n, NEW k, NEW l, NEW e,
         s \in States, e \in Events, k \in KeptShape,
         \A w \in Workers, t \in Tasks : EventsFit(s, k, w, t),
         Logged(s, n, e), Follows(s, e), Noted(s, k, l, e), Escalates(k, l, e),
         s.tasks[e.task].leased_to = e.worker,
         e.payload = "Restarted" => ~RegressesTerminalState(s, e),
         \A t \in Tasks : n.tasks[t].leased_to = s.tasks[t].leased_to
  PROVE  \A w \in Workers, t \in Tasks : EventsFit(n, l, w, t)
<1> SUFFICES ASSUME NEW w \in Workers, NEW t \in Tasks PROVE EventsFit(n, l, w, t)
  OBVIOUS
<1> DEFINE payload == s.latest_payload[w][t]
           latest == k.latest[w][t]
           restarted == k.restarted[w][t]
           seq == s.latest_seq[w][t]
           A == AlertsOf(k, w, t)
<1>1. /\ restarted <= latest /\ latest <= seq
      /\ \A a \in A : a[3] >= 1 /\ a[3] <= latest /\ (payload # "Escalated" => a[3] < latest)
      /\ payload = "None" <=> latest = 0
      /\ payload \notin {"Restarted", "None"} => restarted < latest
      /\ payload = "Escalated" => \E a \in A : a[3] = latest
      /\ s.tasks[t].leased_to # w => payload = "None"
  BY DEF EventsFit
<1>2. restarted \in Nat /\ latest \in Nat /\ seq \in Nat /\ e.seq \in Nat /\ e.payload \in Payloads
  BY DEF KeptShape, States, Events
<1>3. \A a \in A : a[3] \in Nat
  BY DEF KeptShape, AlertsOf
<1>4. CASE ~(w = e.worker /\ t = e.task)
  <2>1. /\ n.latest_payload[w][t] = payload /\ n.latest_seq[w][t] = seq
        /\ l.latest[w][t] = latest /\ l.restarted[w][t] = restarted
    BY <1>4 DEF Logged, Noted
  <2>2. AlertsOf(l, w, t) = A
    BY <1>4 DEF Escalates, AlertsOf
  <2>3. n.tasks[t].leased_to = s.tasks[t].leased_to
    OBVIOUS
  <2> QED BY <1>1, <2>1, <2>2, <2>3 DEF EventsFit
<1>5. CASE w = e.worker /\ t = e.task
  <2>1. n.tasks[t].leased_to = w /\ e.seq = seq + 1 /\ n.latest_seq[w][t] = e.seq
    BY <1>5 DEF Follows, Logged
  <2>2. CASE RegressesTerminalState(s, e)
    <3>1. e.payload # "Restarted" /\ e.payload # "Escalated"
      BY <2>2 DEF RegressesTerminalState, ProgressPayloads, BusyPayloads
    <3>2. /\ n.latest_payload[w][t] = payload
          /\ l.latest[w][t] = latest /\ l.restarted[w][t] = restarted
      BY <1>5, <2>2, <3>1 DEF Logged, Noted
    <3>3. AlertsOf(l, w, t) = A
      BY <3>1 DEF Escalates, AlertsOf
    <3>4. latest <= e.seq
      BY <1>1, <1>2, <2>1
    <3> QED BY <1>1, <2>1, <3>2, <3>3, <3>4 DEF EventsFit
  <2>3. CASE ~RegressesTerminalState(s, e)
    <3>1. /\ n.latest_payload[w][t] = e.payload /\ l.latest[w][t] = e.seq
          /\ l.restarted[w][t] = IF e.payload = "Restarted" THEN e.seq ELSE restarted
      BY <1>5, <2>3 DEF Logged, Noted
    <3>2. e.seq >= 1 /\ e.seq # 0 /\ restarted < e.seq /\ e.seq <= e.seq
      BY <1>1, <1>2, <2>1
    <3>3. e.payload # "None"
      BY <1>2 DEF Payloads, ProgressPayloads, BusyPayloads, TerminalPayloads, TerminalStatuses
    <3>4. \A a \in A : a[3] >= 1 /\ a[3] < e.seq /\ a[3] <= e.seq
      BY <1>1, <1>2, <1>3, <2>1
    <3>5. \A a \in AlertsOf(l, w, t) : a \in A \/ (a[3] = e.seq /\ e.payload = "Escalated")
      BY <1>5 DEF Escalates, AlertsOf
    <3>6. e.payload = "Escalated" => \E a \in AlertsOf(l, w, t) : a[3] = e.seq
      <4> SUFFICES ASSUME e.payload = "Escalated"
                   PROVE  \E a \in AlertsOf(l, w, t) : a[3] = e.seq
        OBVIOUS
      <4>1. PICK alert \in Alerts : /\ alert.task = e.task
                                    /\ l.alerts = k.alerts \cup {<<alert, e.worker, e.seq>>}
        BY DEF Escalates
      <4>2. <<alert, e.worker, e.seq>> \in AlertsOf(l, w, t)
        BY <1>5, <4>1 DEF AlertsOf
      <4> QED BY <4>2
    <3>7. \A a \in AlertsOf(l, w, t) :
            a[3] >= 1 /\ a[3] <= e.seq /\ (e.payload # "Escalated" => a[3] < e.seq)
      BY <3>2, <3>4, <3>5
    <3>8. l.restarted[w][t] <= e.seq /\ (e.payload # "Restarted" => l.restarted[w][t] < e.seq)
      <4>1. CASE e.payload = "Restarted"
        BY <1>2, <3>1, <4>1
      <4>2. CASE e.payload # "Restarted"
        BY <1>2, <3>1, <3>2, <4>2
      <4> QED BY <4>1, <4>2
    <3> HIDE DEF payload, latest, restarted, seq, A
    <3> QED BY <1>2, <2>1, <3>1, <3>2, <3>3, <3>6, <3>7, <3>8 DEF EventsFit
  <2> QED BY <2>2, <2>3
<1> QED BY <1>4, <1>5

(* A task that is left alone still fits, whatever progress it shows. *)
LEMMA TaskKept ==
  ASSUME NEW s, NEW n, NEW t, NEW w, TaskFits(s, t), n.tasks[t] = s.tasks[t],
         w = s.tasks[t].leased_to,
         \/ w = NoWorker
         \/ n.latest_payload[w][t] = s.latest_payload[w][t]
         \/ n.latest_payload[w][t] \notin TerminalPayloads \ {s.tasks[t].status}
  PROVE  TaskFits(n, t)
<1>1. Overruled(n, t) => Overruled(s, t)
  BY DEF Overruled, IsTerminal
<1> QED BY <1>1 DEF TaskFits

(* What a terminal event of a lease leaves behind. *)
OutcomeShown(s, n, e) ==
  /\ n \in States /\ SameTasksBut(s, n, e.task) /\ SameRuns(s, n) /\ SameNotes(s, n)
  /\ Logged(s, n, e)
  /\ n.tasks[e.task].leased_to = e.worker
  /\ n.tasks[e.task].attempts = s.tasks[e.task].attempts
  /\ n.tasks[e.task].leased_at = s.tasks[e.task].leased_at
  /\ n.tasks[e.task].lease_deadline = s.tasks[e.task].lease_deadline
  /\ n.tasks[e.task].status = e.payload
  /\ n.tasks[e.task].lifecycle_seq = s.tasks[e.task].lifecycle_seq + 1

(* A terminal event ends the attempt of its lease. *)
LEMMA OutcomeEvent ==
  ASSUME NEW s, NEW e, s \in States, e \in Events, Follows(s, e),
         e.payload \in TerminalPayloads, HoldsLease(s, e.task, e.worker)
  PROVE  OutcomeShown(s, ApplyEvent(s, e), e)
<1> DEFINE w == e.worker
           t == e.task
           seq == e.seq
           payload == e.payload
           at == e.timestamp
           n == ApplyEvent(s, e)
<1>1. /\ w \in Workers /\ t \in Tasks /\ seq \in Nat /\ payload \in Payloads /\ at \in Nat
      /\ e = EventOfTask(w, t, seq, payload, at)
  BY DEF Events, EventOfTask
<1>2. s.tasks[t].status = "Leased" /\ s.tasks[t].leased_to = w
  BY DEF HoldsLease
<1>3. apply_any_record(s, EventAppended(e)) = n
  BY DEF apply_any_record, apply_record, EventAppended
<1>4. s.latest_seq[w][t] \in Nat /\ seq = s.latest_seq[w][t] + 1
  BY <1>1 DEF States, Follows
<1>5. seq > s.latest_seq[w][t]
  BY <1>4
<1>6. ~RegressesTerminalState(s, e)
  BY <1>2 DEF RegressesTerminalState, IsTerminal, TerminalStatuses
<1> HIDE DEF w, t, seq, payload, at, n
<1>7. n \in States /\ EventShown(s, n, w, t, seq, payload)
  BY <1>1, <1>2, <1>3, EventRecord
<1>8. Logged(s, n, e)
  BY <1>5, <1>6, <1>7 DEF Logged, EventShown, OtherLogs, w, t, seq, payload
<1>9. payload \in TerminalPayloads
  BY DEF payload
<1> QED BY <1>7, <1>8, <1>9 DEF OutcomeShown, EventShown, w, t, payload, n

(* Any other event changes the log only. *)
LEMMA ProgressEvent ==
  ASSUME NEW s, NEW e, s \in States, e \in Events, Follows(s, e),
         e.payload \notin TerminalPayloads
  PROVE  LET n == ApplyEvent(s, e) IN
         /\ n \in States /\ n.tasks = s.tasks /\ SameRuns(s, n) /\ SameNotes(s, n)
         /\ Logged(s, n, e)
<1>1. PICK n \in States :
        /\ n.tasks = s.tasks /\ SameRuns(s, n) /\ SameBeats(s, n) /\ SameNotes(s, n)
        /\ Entered(s, n, e)
        /\ ApplyEvent(s, e) =
             IF e.payload \in TerminalPayloads
             THEN MarkTaskTerminal(n, e.task, e.worker, e.timestamp, e.payload) ELSE n
  BY EventInTwo
<1>2. s.latest_seq[e.worker][e.task] \in Nat /\ e.seq = s.latest_seq[e.worker][e.task] + 1
  BY DEF States, Follows, Events
<1>3. e.seq > s.latest_seq[e.worker][e.task]
  BY <1>2
<1>4. Logged(s, n, e)
  BY <1>1, <1>3 DEF Logged, Entered, OtherLogs
<1> QED BY <1>1, <1>4

(***************************************************************************)
(* A durable record keeps the invariant.                                   *)
(***************************************************************************)
LEMMA QuietKept ==
  ASSUME NEW s, NEW n, NEW k, NEW l, KeptFits(s, k),
         n.tasks = s.tasks, SameLog(s, n), SameNotes(s, n),
         l.latest = k.latest, l.restarted = k.restarted, l.alerts = k.alerts
  PROVE  KeptFits(n, l) /\ \A u \in Tasks : Outdated(n, u) => Outdated(s, u)
<1>1. AlertsFit(n, l)
  BY DEF KeptFits, AlertsFit, SameNotes
<1>2. ASSUME NEW t \in Tasks PROVE TaskFits(n, t)
  <2>1. n.latest_payload = s.latest_payload /\ TaskFits(s, t)
    BY DEF SameLog, KeptFits
  <2> QED BY <2>1, TaskKept
<1>3. \A w \in Workers, t \in Tasks : EventsFit(n, l, w, t)
  BY SameLogKept DEF KeptFits
<1>4. \A u \in Tasks : Outdated(n, u) => Outdated(s, u)
  BY DEF Outdated, IsTerminal, SameLog
<1> QED BY <1>1, <1>2, <1>3, <1>4 DEF KeptFits

(* A record that changes one task, without an event. *)
LEMMA OneTaskKept ==
  ASSUME NEW s, NEW n, NEW k, NEW l, NEW t, KeptFits(s, k), t \in Tasks,
         SameTasksBut(s, n, t), SameLog(s, n), SameNotes(s, n), TaskFits(n, t),
         \/ n.tasks[t].leased_to = s.tasks[t].leased_to
         \/ s.tasks[t].leased_to = NoWorker,
         l.latest = k.latest, l.restarted = k.restarted, l.alerts = k.alerts
  PROVE  KeptFits(n, l) /\ \A u \in Tasks \ {t} : Outdated(n, u) => Outdated(s, u)
<1>1. AlertsFit(n, l)
  BY DEF KeptFits, AlertsFit, SameNotes
<1>2. ASSUME NEW u \in Tasks PROVE TaskFits(n, u)
  <2>1. n.latest_payload = s.latest_payload /\ TaskFits(s, u)
    BY DEF SameLog, KeptFits
  <2>2. u # t => n.tasks[u] = s.tasks[u]
    BY DEF SameTasksBut
  <2> QED BY <2>1, <2>2, TaskKept
<1>3. \A u \in Tasks : \/ n.tasks[u].leased_to = s.tasks[u].leased_to
                       \/ s.tasks[u].leased_to = NoWorker
  BY DEF SameTasksBut
<1>4. \A w \in Workers, u \in Tasks : EventsFit(n, l, w, u)
  BY <1>3, SameLogKept DEF KeptFits
<1>5. \A u \in Tasks \ {t} : Outdated(n, u) => Outdated(s, u)
  BY DEF Outdated, IsTerminal, SameLog, SameTasksBut
<1> QED BY <1>1, <1>2, <1>4, <1>5 DEF KeptFits

(* A record with the next event of the worker that has the task. *)
LEMMA EventKept ==
  ASSUME NEW s, NEW n, NEW k, NEW l, NEW e,
         s \in States, e \in Events, k \in KeptShape, KeptFits(s, k),
         SameTasksBut(s, n, e.task), Logged(s, n, e), Follows(s, e),
         Noted(s, k, l, e), Escalates(k, l, e),
         s.tasks[e.task].leased_to = e.worker, n.tasks[e.task].leased_to = e.worker,
         e.payload = "Restarted" => ~RegressesTerminalState(s, e),
         AlertsFit(n, l), TaskFits(n, e.task)
  PROVE  KeptFits(n, l) /\ \A u \in Tasks \ {e.task} : Outdated(n, u) => Outdated(s, u)
<1>1. ASSUME NEW u \in Tasks, u # e.task
      PROVE  /\ TaskFits(n, u) /\ (Outdated(n, u) => Outdated(s, u))
             /\ n.tasks[u].leased_to = s.tasks[u].leased_to
  <2> DEFINE w == s.tasks[u].leased_to
  <2>1. n.tasks[u] = s.tasks[u] /\ TaskFits(s, u)
    BY <1>1 DEF SameTasksBut, KeptFits
  <2>2. w \in Workers \cup {NoWorker}
    BY DEF States, TaskStates
  <2>3. w # NoWorker => n.latest_payload[w][u] = s.latest_payload[w][u]
    BY <1>1, <2>2 DEF Logged
  <2>4. TaskFits(n, u)
    <3> HIDE DEF w
    <3>1. w = s.tasks[u].leased_to
      BY DEF w
    <3> QED BY <2>1, <2>3, <3>1, TaskKept
  <2>5. Outdated(n, u) => Outdated(s, u)
    BY <2>1, <2>3 DEF Outdated, IsTerminal
  <2> QED BY <2>1, <2>4, <2>5
<1>2. \A t \in Tasks : n.tasks[t].leased_to = s.tasks[t].leased_to
  BY <1>1
<1>3. \A w \in Workers, t \in Tasks : EventsFit(n, l, w, t)
  BY <1>2, LoggedKept DEF KeptFits
<1>4. \A t \in Tasks : TaskFits(n, t)
  BY <1>1
<1> QED BY <1>1, <1>3, <1>4 DEF KeptFits

(* What Keep takes from a record: nothing without an event. *)
LEMMA KeepsNothing ==
  ASSUME TypeOK, KeptType, Persist, Keep, EventOf(batch[1]) = {},
         batch[1].kind # "AlertSent"
  PROVE  /\ kept' \in KeptShape
         /\ kept'.latest = kept.latest /\ kept'.restarted = kept.restarted
         /\ kept'.alerts = kept.alerts /\ kept'.batches = BatchesAfter
<1>1. Head(batch) = batch[1]
  BY PersistParts
<1>2. BatchesAfter \in {"whole", "begun", "cut"}
  BY DEF BatchesAfter, KeptType, KeptShape
<1>3. kept \in KeptShape
  BY DEF KeptType
<1> DEFINE r == batch[1]
           E == EventOf(r)
<1> HIDE DEF r
<1>e. kept' = [restarted |-> [w \in Workers |-> [t \in Tasks |->
                 IF \E x \in E : x.worker = w /\ x.task = t /\ x.payload = "Restarted"
                 THEN r.event.seq ELSE kept.restarted[w][t]]],
               latest |-> [w \in Workers |-> [t \in Tasks |->
                 IF \E x \in E : /\ x.worker = w /\ x.task = t
                                 /\ x.seq > state.latest_seq[w][t]
                                 /\ ~RegressesTerminalState(state, x)
                 THEN (CHOOSE x \in E : TRUE).seq ELSE kept.latest[w][t]]],
               alerts |-> kept.alerts \cup
                 IF r.kind = "AlertSent"
                 THEN {<<[task |-> r.task, attempt |-> r.attempt, channel |-> r.channel],
                         r.worker, r.seq>>}
                 ELSE {},
               batches |-> BatchesAfter]
  BY <1>1 DEF Keep, r
<1>f. E = {} /\ r.kind # "AlertSent"
  BY DEF r
<1> HIDE DEF E
<1>4. /\ kept'.latest = [w \in Workers |-> [t \in Tasks |-> kept.latest[w][t]]]
      /\ kept'.restarted = [w \in Workers |-> [t \in Tasks |-> kept.restarted[w][t]]]
      /\ kept'.alerts = kept.alerts /\ kept'.batches = BatchesAfter
      /\ kept' = [restarted |-> kept'.restarted, latest |-> kept'.latest,
                  alerts |-> kept'.alerts, batches |-> kept'.batches]
  BY <1>e, <1>f
<1>5. kept'.latest = kept.latest /\ kept'.restarted = kept.restarted
  BY <1>3, <1>4 DEF KeptShape
<1>6. kept' \in KeptShape
  BY <1>2, <1>3, <1>4, <1>5 DEF KeptShape
<1> QED BY <1>4, <1>5, <1>6

(* And the number of its event otherwise. *)
LEMMA KeepsEvent ==
  ASSUME NEW e, TypeOK, KeptType, Persist, Keep, EventOf(batch[1]) = {e}, e \in Events,
         Follows(state, e),
         batch[1].kind # "AlertSent" => batch[1].event = e,
         batch[1].kind = "AlertSent" => e.payload # "Restarted"
  PROVE  /\ Noted(state, kept, kept', e) /\ kept'.batches = BatchesAfter
         /\ batch[1].kind # "AlertSent" => kept' \in KeptShape /\ kept'.alerts = kept.alerts
         /\ batch[1].kind = "AlertSent" =>
              kept'.alerts = kept.alerts \cup
                {<<[task |-> batch[1].task, attempt |-> batch[1].attempt,
                    channel |-> batch[1].channel], batch[1].worker, batch[1].seq>>}
         /\ kept'.alerts \subseteq Alerts \X Workers \X Nat => kept' \in KeptShape
<1> DEFINE r == batch[1]
<1>1. Head(batch) = r
  BY PersistParts
<1>2. BatchesAfter \in {"whole", "begun", "cut"}
  BY DEF BatchesAfter, KeptType, KeptShape
<1>3. kept \in KeptShape
  BY DEF KeptType
<1>4. state.latest_seq[e.worker][e.task] \in Nat /\ e.seq \in Nat
  BY DEF Events, TypeOK, States
<1>5. e.seq > state.latest_seq[e.worker][e.task]
  BY <1>4 DEF Follows
<1>6. (CHOOSE x \in EventOf(r) : TRUE) = e
  OBVIOUS
<1> HIDE DEF r
<1>7. kept' = [restarted |-> [w \in Workers |-> [t \in Tasks |->
                 IF \E x \in EventOf(r) : x.worker = w /\ x.task = t /\ x.payload = "Restarted"
                 THEN r.event.seq ELSE kept.restarted[w][t]]],
               latest |-> [w \in Workers |-> [t \in Tasks |->
                 IF \E x \in EventOf(r) : /\ x.worker = w /\ x.task = t
                                          /\ x.seq > state.latest_seq[w][t]
                                          /\ ~RegressesTerminalState(state, x)
                 THEN (CHOOSE x \in EventOf(r) : TRUE).seq ELSE kept.latest[w][t]]],
               alerts |-> kept.alerts \cup
                 IF r.kind = "AlertSent"
                 THEN {<<[task |-> r.task, attempt |-> r.attempt, channel |-> r.channel],
                         r.worker, r.seq>>}
                 ELSE {},
               batches |-> BatchesAfter]
  BY <1>1 DEF Keep
<1>8. EventOf(r) = {e} /\ (e.payload = "Restarted" => r.event = e)
  BY DEF r
<1>9. ASSUME NEW w \in Workers, NEW t \in Tasks
      PROVE  /\ kept'.latest[w][t] =
                  IF w = e.worker /\ t = e.task /\ ~RegressesTerminalState(state, e)
                  THEN e.seq ELSE kept.latest[w][t]
             /\ kept'.restarted[w][t] =
                  IF w = e.worker /\ t = e.task /\ e.payload = "Restarted"
                  THEN e.seq ELSE kept.restarted[w][t]
  <2>1. kept'.restarted[w][t] =
          IF \E x \in EventOf(r) : x.worker = w /\ x.task = t /\ x.payload = "Restarted"
          THEN r.event.seq ELSE kept.restarted[w][t]
    BY <1>7
  <2>2. kept'.latest[w][t] =
          IF \E x \in EventOf(r) : /\ x.worker = w /\ x.task = t
                                   /\ x.seq > state.latest_seq[w][t]
                                   /\ ~RegressesTerminalState(state, x)
          THEN e.seq ELSE kept.latest[w][t]
    BY <1>6, <1>7 DEF r
  <2>3. (\E x \in EventOf(r) : x.worker = w /\ x.task = t /\ x.payload = "Restarted")
          <=> w = e.worker /\ t = e.task /\ e.payload = "Restarted"
    BY <1>8
  <2>4. (\E x \in EventOf(r) : /\ x.worker = w /\ x.task = t
                               /\ x.seq > state.latest_seq[w][t]
                               /\ ~RegressesTerminalState(state, x))
          <=> w = e.worker /\ t = e.task /\ ~RegressesTerminalState(state, e)
    BY <1>5, <1>8
  <2> QED BY <1>8, <2>1, <2>2, <2>3, <2>4
<1>10. Noted(state, kept, kept', e)
  BY <1>9 DEF Noted
<1>11. /\ kept'.latest \in [Workers -> [Tasks -> Nat]]
       /\ kept'.restarted \in [Workers -> [Tasks -> Nat]]
  <2> DEFINE latest == kept'.latest
             restarted == kept'.restarted
  <2>1. /\ latest = [w \in Workers |-> [t \in Tasks |-> latest[w][t]]]
        /\ restarted = [w \in Workers |-> [t \in Tasks |-> restarted[w][t]]]
    BY <1>7
  <2>2. \A w \in Workers, t \in Tasks : latest[w][t] \in Nat /\ restarted[w][t] \in Nat
    BY <1>3, <1>4, <1>9 DEF KeptShape
  <2> HIDE DEF latest, restarted
  <2>3. latest \in [Workers -> [Tasks -> Nat]] /\ restarted \in [Workers -> [Tasks -> Nat]]
    BY <2>1, <2>2
  <2> QED BY <2>3 DEF latest, restarted
<1>12. /\ kept' = [restarted |-> kept'.restarted, latest |-> kept'.latest,
                   alerts |-> kept'.alerts, batches |-> kept'.batches]
       /\ kept'.batches = BatchesAfter
       /\ kept'.alerts = kept.alerts \cup
            IF r.kind = "AlertSent"
            THEN {<<[task |-> r.task, attempt |-> r.attempt, channel |-> r.channel],
                    r.worker, r.seq>>}
            ELSE {}
  BY <1>7
<1>13. kept'.alerts \subseteq Alerts \X Workers \X Nat => kept' \in KeptShape
  BY <1>2, <1>11, <1>12 DEF KeptShape
<1>14. r.kind # "AlertSent" => kept'.alerts = kept.alerts
  BY <1>12
<1> QED BY <1>3, <1>10, <1>12, <1>13, <1>14 DEF r, KeptShape

(* The status of runs is changed by its own record only. *)
LEMMA MarkKeepsRuns ==
  ASSUME NEW s, NEW t, NEW w, NEW at, NEW status, s \in States
  PROVE  MarkTaskTerminal(s, t, w, at, status).run_status = s.run_status
<1>1. ASSUME NEW x PROVE [s EXCEPT !.tasks[t] = x].run_status = s.run_status
  BY DEF States
<1>2. CASE s.tasks[t].status = "Absent"
  BY <1>2 DEF MarkTaskTerminal
<1>3. CASE s.tasks[t].status # "Absent"
  <2> DEFINE x == [s.tasks[t] EXCEPT
                     !.status = status,
                     !.lifecycle_seq = IF s.tasks[t].status = status THEN @ ELSE @ + 1,
                     !.leased_to = IF w = NoWorker THEN @ ELSE w,
                     !.completed_at = at]
  <2>1. MarkTaskTerminal(s, t, w, at, status) = [s EXCEPT !.tasks[t] = x]
    BY <1>3 DEF MarkTaskTerminal
  <2> HIDE DEF x
  <2> QED BY <1>1, <2>1
<1> QED BY <1>2, <1>3

LEMMA EventKeepsRuns ==
  ASSUME NEW s, NEW e, s \in States, e \in Events
  PROVE  ApplyEvent(s, e) \in States /\ ApplyEvent(s, e).run_status = s.run_status
<1>1. PICK n \in States :
        /\ SameRuns(s, n)
        /\ ApplyEvent(s, e) =
             IF e.payload \in TerminalPayloads
             THEN MarkTaskTerminal(n, e.task, e.worker, e.timestamp, e.payload) ELSE n
  BY EventInTwo
<1>2. ApplyEvent(s, e) \in States
  BY ApplyEventType
<1>3. MarkTaskTerminal(n, e.task, e.worker, e.timestamp, e.payload).run_status = n.run_status
  BY MarkKeepsRuns
<1> QED BY <1>1, <1>2, <1>3 DEF SameRuns

LEMMA RunsKept ==
  ASSUME NEW s, NEW r, s \in States, r \in Records, r.kind # "RunStatusChanged"
  PROVE  apply_record(s, r).run_status = s.run_status
<1>1. CASE r.kind = "RunCreated"
  BY <1>1 DEF apply_record, States
<1>2. CASE r.kind = "TaskEnqueued"
  <2>1. ASSUME NEW x PROVE [s EXCEPT !.tasks[r.task] = x].run_status = s.run_status
    BY DEF States
  <2>2. apply_record(s, r) = ApplyEnqueue(s, r.task)
    BY <1>2 DEF apply_record
  <2> QED BY <2>1, <2>2 DEF ApplyEnqueue
<1>3. CASE r.kind = "TaskLeased"
  <2>1. ASSUME NEW x PROVE [s EXCEPT !.tasks[r.task] = x].run_status = s.run_status
    BY DEF States
  <2>2. apply_record(s, r) = ApplyLease(s, r)
    BY <1>3 DEF apply_record
  <2>3. CASE s.tasks[r.task].status = "Absent"
    BY <2>2, <2>3 DEF ApplyLease
  <2>4. CASE s.tasks[r.task].status # "Absent"
    <3>1. PICK x : ApplyLease(s, r) = [s EXCEPT !.tasks[r.task] = x]
      BY <2>4 DEF ApplyLease
    <3> QED BY <2>1, <2>2, <3>1
  <2> QED BY <2>3, <2>4
<1>4. CASE r.kind = "TaskCompletedOrFailed"
  <2>1. apply_record(s, r) = MarkTaskTerminal(s, r.task, r.worker, r.timestamp, r.status)
    BY <1>4 DEF apply_record
  <2> QED BY <2>1, MarkKeepsRuns
<1>5. CASE r.kind = "EventAppended"
  <2>1. apply_record(s, r) = ApplyEvent(s, r.event) /\ r.event \in Events
    BY <1>5 DEF apply_record, Records
  <2> QED BY <2>1, EventKeepsRuns
<1>6. CASE r.kind = "TaskAttemptFinalized"
  <2> DEFINE e == r.event
             n == ApplyEvent(s, e)
             m == IF r.final_status = "None" THEN n
                  ELSE MarkTaskTerminal(n, e.task, e.worker, e.timestamp, r.final_status)
  <2>1. e \in Events /\ r.final_status \in TerminalStatuses \cup {"None"}
    BY <1>6 DEF Records
  <2>2. apply_record(s, r) = [m EXCEPT !.receipts[e.task] = r.receipt]
    BY <1>6 DEF apply_record, ApplyFinalized
  <2>3. n \in States /\ n.run_status = s.run_status
    BY <2>1, EventKeepsRuns
  <2>4. m.run_status = n.run_status
    BY <2>3, MarkKeepsRuns
  <2>5. m \in States
    <3>1. e.task \in Tasks /\ e.worker \in Workers /\ e.timestamp \in Nat
      BY <2>1 DEF Events
    <3> HIDE DEF e, n
    <3> QED BY <2>1, <2>3, <3>1, MarkTaskTerminalType
  <2> HIDE DEF m, n, e
  <2>6. [m EXCEPT !.receipts[e.task] = r.receipt].run_status = m.run_status
    BY <2>5 DEF States
  <2> QED BY <2>2, <2>3, <2>4, <2>6
<1>7. CASE r.kind = "Heartbeat"
  <2>1. apply_record(s, r) = ApplyHeartbeat(s, r)
    BY <1>7 DEF apply_record
  <2> QED BY <2>1 DEF ApplyHeartbeat, States
<1>8. CASE r.kind = "AlertSent"
  <2> DEFINE alert == [task |-> r.task, attempt |-> r.attempt, channel |-> r.channel]
             e == [worker |-> r.worker, task |-> r.task, seq |-> r.seq,
                   payload |-> "Escalated", timestamp |-> r.timestamp]
             m == [s EXCEPT !.alerts = @ \cup {alert}]
  <2>1. apply_record(s, r) = IF alert \in s.alerts THEN s ELSE ApplyEvent(m, e)
    BY <1>8 DEF apply_record, ApplyAlert
  <2>2. e \in Events
    BY <1>8 DEF Records, Events, Payloads
  <2>3. alert \in Alerts
    BY <1>8 DEF Records, Alerts
  <2>4. m \in States /\ m.run_status = s.run_status
    <3> HIDE DEF alert
    <3> QED BY <2>3 DEF States
  <2> HIDE DEF m, e, alert
  <2> QED BY <2>1, <2>2, <2>4, EventKeepsRuns
<1> QED BY <1>1, <1>2, <1>3, <1>4, <1>5, <1>6, <1>7, <1>8 DEF Records

(* What is kept fits the state a record leads to, and no task is outdated   *)
(* that was not, except those of D.                                         *)
FitsAfter(D) ==
  /\ kept' \in KeptShape /\ kept'.batches = BatchesAfter
  /\ RunsFit(state') /\ KeptFits(state', kept')
  /\ \A u \in Tasks \ D : Outdated(state', u) => Outdated(state, u)

(* What the step of a record is about. *)
LEMMA KeptParts ==
  ASSUME TypeOK, LedgerInv, KeptType, KeptInv, Persist
  PROVE  /\ state \in States /\ state' \in States /\ batch[1] \in Records
         /\ state' = apply_record(state, batch[1]) /\ FitsAt(state, batch, 1)
         /\ Fresh(state) /\ KeptFits(state, kept) /\ kept \in KeptShape
         /\ batch[1].kind # "RunStatusChanged" /\ RunsFit(state')
<1>1. /\ state \in States /\ state' \in States /\ batch[1] \in Records
      /\ state' = apply_record(state, batch[1]) /\ 1 \in 1..Len(batch)
  BY PersistParts
<1>2. batch[1].kind # "RunStatusChanged"
  BY <1>1 DEF KeptInv, BatchFits
<1>3. state'.run_status = state.run_status
  BY <1>1, <1>2, RunsKept
<1>4. RunsFit(state')
  BY <1>3 DEF KeptInv, RunsFit
<1> QED BY <1>1, <1>2, <1>4 DEF LedgerInv, Fits, KeptInv, KeptType

(* Runs and heartbeats. *)
LEMMA QuietPersists ==
  ASSUME TypeOK, LedgerInv, KeptType, KeptInv, Persist, Keep,
         batch[1].kind \in {"RunCreated", "Heartbeat"}
  PROVE  FitsAfter({})
<1>1. /\ state'.tasks = state.tasks /\ SameLog(state, state') /\ SameNotes(state, state')
  BY KeptParts, QuietEffect
<1>2. EventOf(batch[1]) = {} /\ batch[1].kind # "AlertSent"
  BY DEF EventOf
<1>3. /\ kept' \in KeptShape /\ kept'.batches = BatchesAfter
      /\ kept'.latest = kept.latest /\ kept'.restarted = kept.restarted
      /\ kept'.alerts = kept.alerts
  BY <1>2, KeepsNothing
<1>4. KeptFits(state', kept') /\ \A u \in Tasks : Outdated(state', u) => Outdated(state, u)
  BY <1>1, <1>3, KeptParts, QuietKept
<1> QED BY <1>3, <1>4, KeptParts DEF FitsAfter

(* Records of a task without an event. *)
LEMMA TaskPersists ==
  ASSUME NEW t, TypeOK, LedgerInv, KeptType, KeptInv, Persist, Keep,
         batch[1].kind \in {"TaskEnqueued", "TaskLeased", "TaskCompletedOrFailed"},
         t \in Tasks, SameTasksBut(state, state', t),
         SameLog(state, state'), SameNotes(state, state'),
         TaskFits(state', t),
         \/ state'.tasks[t].leased_to = state.tasks[t].leased_to
         \/ state.tasks[t].leased_to = NoWorker
  PROVE  FitsAfter({t})
<1>2. EventOf(batch[1]) = {} /\ batch[1].kind # "AlertSent"
  BY DEF EventOf
<1>3. /\ kept' \in KeptShape /\ kept'.batches = BatchesAfter
      /\ kept'.latest = kept.latest /\ kept'.restarted = kept.restarted
      /\ kept'.alerts = kept.alerts
  BY <1>2, KeepsNothing
<1>4. KeptFits(state', kept') /\ \A u \in Tasks \ {t} : Outdated(state', u) => Outdated(state, u)
  BY <1>3, KeptParts, OneTaskKept
<1> QED BY <1>3, <1>4, KeptParts DEF FitsAfter

(* A task is queued, once. *)
LEMMA EnqueuePersists ==
  ASSUME TypeOK, LedgerInv, KeptType, KeptInv, Persist, Keep,
         batch[1].kind = "TaskEnqueued"
  PROVE  FitsAfter({})
<1> DEFINE t == batch[1].task
           old == state.tasks[t]
           new == state'.tasks[t]
<1>1. t \in Tasks /\ state \in States /\ state' = ApplyEnqueue(state, t)
  BY KeptParts DEF Records, apply_record
<1>2. SameTasksBut(state, state', t) /\ SameLog(state, state') /\ SameNotes(state, state')
  BY <1>1, ApplyEnqueueEffect
<1>3. CASE old.status # "Absent"
  <2>1. new = old /\ TaskFits(state, t)
    BY <1>1, <1>3, KeptParts DEF ApplyEnqueue, KeptFits
  <2>2. state'.latest_payload = state.latest_payload
    BY <1>2 DEF SameLog
  <2>3. TaskFits(state', t)
    BY <2>1, <2>2, TaskKept
  <2>4. FitsAfter({t})
    BY <1>1, <1>2, <2>1, <2>3, TaskPersists
  <2>5. Outdated(state', t) => Outdated(state, t)
    BY <2>1, <2>2 DEF Outdated, IsTerminal
  <2> QED BY <2>4, <2>5 DEF FitsAfter
<1>4. CASE old.status = "Absent"
  <2>1. new = [NoTask EXCEPT !.status = "Enqueued", !.lifecycle_seq = 1]
    BY <1>1, <1>4 DEF ApplyEnqueue, States
  <2>2. /\ new.status = "Enqueued" /\ new.lifecycle_seq = 1 /\ new.leased_to = NoWorker
        /\ new.leased_at = Never /\ new.lease_deadline = Never
    BY <2>1 DEF NoTask
  <2>3. old.leased_to = NoWorker
    BY <1>1, <1>4, KeptParts DEF Fresh
  <2>4. TaskFits(state', t)
    BY <2>2 DEF TaskFits, TaskShape, Overruled, TerminalStatuses
  <2>5. FitsAfter({t})
    BY <1>1, <1>2, <2>3, <2>4, TaskPersists
  <2>6. ~Outdated(state', t)
    BY <2>2 DEF Outdated
  <2> QED BY <2>5, <2>6 DEF FitsAfter
<1> QED BY <1>3, <1>4

(* A task is leased: it is the only one that may show an old outcome now,  *)
(* and only if it was restarted.                                           *)
LEMMA LeasePersists ==
  ASSUME TypeOK, LedgerInv, KeptType, KeptInv, Persist, Keep,
         batch[1].kind = "TaskLeased"
  PROVE  LET t == batch[1].task IN
         /\ FitsAfter({t}) /\ t \in Tasks /\ state'.tasks[t].leased_to = batch[1].worker
         /\ Outdated(state', t) => state.tasks[t].status # "Enqueued"
<1> DEFINE r == batch[1]
           t == r.task
           w == r.worker
           old == state.tasks[t]
           new == state'.tasks[t]
           seq == IF old.status = "Leased" /\ old.leased_to = w /\ old.leased_at = r.leased_at
                  THEN old.lifecycle_seq ELSE old.lifecycle_seq + 1
<1>1. /\ r \in Records /\ t \in Tasks /\ w \in Workers /\ state \in States
      /\ state' = ApplyLease(state, r) /\ old \in TaskStates
      /\ old.status # "Absent"
      /\ old.status = "Enqueued" \/ old.leased_to = w
  <2>1. state \in States /\ r \in Records /\ state' = apply_record(state, r)
    BY KeptParts
  <2>2. /\ t \in Tasks /\ w \in Workers /\ old.status # "Absent"
        /\ old.status = "Enqueued" \/ old.leased_to = w
    BY LeaseOfKnownTask, PersistParts DEF LedgerInv
  <2> QED BY <2>1, <2>2 DEF apply_record, States
<1>2. SameTasksBut(state, state', t) /\ SameLog(state, state') /\ SameNotes(state, state')
  BY <1>1, ApplyLeaseEffect
<1>3. new = [old EXCEPT !.lifecycle_seq = seq, !.status = "Leased", !.leased_to = w,
                        !.leased_at = r.leased_at, !.lease_deadline = r.lease_expires_at,
                        !.attempts = @ + 1]
  BY <1>1 DEF ApplyLease, States
<1>4. /\ new.status = "Leased" /\ new.leased_to = w /\ new.lifecycle_seq = seq
      /\ new.attempts = old.attempts + 1
  BY <1>1, <1>3 DEF TaskStates
<1>5. old.lifecycle_seq \in Nat /\ old.attempts \in Nat
      /\ old.status \in TaskLedgerStatuses
  BY <1>1 DEF TaskStates
<1>6. TaskShape(old)
  BY <1>1, KeptParts DEF KeptFits, TaskFits
<1>7. old.status = "Enqueued" => old.leased_to = NoWorker
  BY <1>1, KeptParts DEF Fresh
<1> HIDE DEF old, new, w
<1>8. seq >= 2
  <2>1. old.status = "Enqueued" => old.lifecycle_seq >= 1
    BY <1>6 DEF TaskShape
  <2>2. old.status # "Enqueued" => old.lifecycle_seq >= 2
    BY <1>5, <1>6 DEF TaskShape, TaskLedgerStatuses, TerminalStatuses
  <2> QED BY <1>5, <2>1, <2>2
<1>9. new.attempts >= 1 /\ w # NoWorker
  BY <1>1, <1>4, <1>5, NoWorkerAssumption
<1>10. TaskShape(new)
  BY <1>4, <1>8, <1>9 DEF TaskShape, TerminalStatuses
<1>11. TaskFits(state', t)
  BY <1>4, <1>10 DEF TaskFits, Overruled, IsTerminal, TerminalStatuses, new
<1>12. new.leased_to = old.leased_to \/ old.leased_to = NoWorker
  BY <1>1, <1>4, <1>7
<1>13. FitsAfter({t})
  BY <1>1, <1>2, <1>11, <1>12, TaskPersists DEF old, new
<1>14. Outdated(state', t) => old.status # "Enqueued"
  <2> SUFFICES ASSUME old.status = "Enqueued" PROVE ~Outdated(state', t)
    OBVIOUS
  <2>1. old.leased_to # w
    BY <1>7, <1>9
  <2>2. state.latest_payload[w][t] = "None"
    BY <1>1, <2>1, KeptParts DEF KeptFits, EventsFit, old
  <2>3. state'.latest_payload[w][t] = "None"
    BY <1>2, <2>2 DEF SameLog
  <2> QED BY <1>4, <2>3 DEF Outdated, new, TerminalPayloads, TerminalStatuses
<1> QED BY <1>1, <1>4, <1>13, <1>14 DEF w, old, new

(* A queued task is cancelled. *)
LEMMA CancellationPersists ==
  ASSUME TypeOK, LedgerInv, KeptType, KeptInv, Persist, Keep,
         batch[1].kind = "TaskCompletedOrFailed"
  PROVE  FitsAfter({})
<1> DEFINE r == batch[1]
           t == r.task
           old == state.tasks[t]
           new == state'.tasks[t]
<1>1. /\ r \in Records /\ t \in Tasks /\ r.timestamp \in Nat /\ state \in States
      /\ state' = MarkTaskTerminal(state, t, NoWorker, r.timestamp, "Cancelled")
      /\ IsOpen(state, t) /\ old.leased_to = NoWorker /\ old \in TaskStates
  BY KeptParts DEF Records, apply_record, FitsAt, CancellationFits, States
<1>2. TaskShape(old) /\ old.status \in {"Enqueued", "Leased"}
  BY <1>1, KeptParts DEF KeptFits, TaskFits, IsOpen
<1>3. old.status = "Enqueued" /\ old.lifecycle_seq >= 1
  BY <1>1, <1>2 DEF TaskShape
<1>4. /\ OnlyTask(state, state', t) /\ new.status = "Cancelled"
      /\ new.lifecycle_seq = old.lifecycle_seq + 1
      /\ new.leased_to = NoWorker
      /\ new.leased_at = old.leased_at /\ new.lease_deadline = old.lease_deadline
  BY <1>1, <1>3, MarkDetails DEF TerminalStatuses
<1>5. old.lifecycle_seq \in Nat
  BY <1>1 DEF TaskStates
<1>6. TaskShape(new)
  <2>1. old.leased_at = Never /\ old.lease_deadline = Never
    BY <1>1, <1>2 DEF TaskShape
  <2> HIDE DEF new, old
  <2> QED BY <1>3, <1>4, <1>5, <2>1 DEF TaskShape, TerminalStatuses
<1>7. TaskFits(state', t) /\ ~Outdated(state', t)
  BY <1>4, <1>6 DEF TaskFits, Overruled, Outdated
<1>8. FitsAfter({t})
  BY <1>1, <1>4, <1>7, TaskPersists DEF OnlyTask, OnlyTasks
<1> QED BY <1>7, <1>8 DEF FitsAfter

(* Records of an event of the worker that has the task. *)
LEMMA EventPersists ==
  ASSUME NEW e, TypeOK, LedgerInv, KeptType, KeptInv, Persist, Keep,
         batch[1].kind \in {"EventAppended", "TaskAttemptFinalized"}, batch[1].event = e,
         e \in Events, Follows(state, e), e.payload # "Escalated",
         SameTasksBut(state, state', e.task), Logged(state, state', e),
         state'.alerts = state.alerts,
         state.tasks[e.task].leased_to = e.worker, state'.tasks[e.task].leased_to = e.worker,
         e.payload = "Restarted" => ~RegressesTerminalState(state, e),
         TaskFits(state', e.task), ~Outdated(state', e.task)
  PROVE  FitsAfter({})
<1>1. EventOf(batch[1]) = {e} /\ batch[1].kind # "AlertSent"
  BY DEF EventOf
<1>2. /\ Noted(state, kept, kept', e) /\ kept'.batches = BatchesAfter
      /\ kept' \in KeptShape /\ kept'.alerts = kept.alerts
  BY <1>1, KeepsEvent
<1>3. Escalates(kept, kept', e)
  BY <1>2 DEF Escalates
<1>4. AlertsFit(state', kept')
  BY <1>2, KeptParts DEF KeptFits, AlertsFit
<1>5. /\ KeptFits(state', kept')
      /\ \A u \in Tasks \ {e.task} : Outdated(state', u) => Outdated(state, u)
  BY <1>2, <1>3, <1>4, KeptParts, EventKept
<1> QED BY <1>2, <1>5, KeptParts DEF FitsAfter

(* Progress, late or not. *)
LEMMA ProgressPersists ==
  ASSUME TypeOK, LedgerInv, KeptType, KeptInv, Persist, Keep,
         batch[1].kind = "EventAppended", batch[1].event.payload \in ProgressPayloads
  PROVE  FitsAfter({}) /\ ~Outdated(state', batch[1].event.task)
<1> DEFINE e == batch[1].event
           w == e.worker
           t == e.task
<1>1. /\ e \in Events /\ w \in Workers /\ t \in Tasks /\ state \in States
      /\ state' = ApplyEvent(state, e)
      /\ EventFits(state, batch, 1)
  BY KeptParts DEF Records, Events, apply_record, FitsAt
<1>2. state.tasks[t].leased_to = w
  BY <1>1 DEF EventFits
<1>3. Follows(state, e)
  BY FirstEventIsNext, PersistParts DEF LedgerInv, Follows
<1>4. e.payload \notin TerminalPayloads /\ e.payload # "Escalated"
  BY DEF ProgressPayloads, BusyPayloads, TerminalPayloads, TerminalStatuses
<1>5. /\ state'.tasks = state.tasks /\ SameNotes(state, state') /\ Logged(state, state', e)
  BY <1>1, <1>3, <1>4, ProgressEvent
<1>6. e.payload = "Restarted" => ~RegressesTerminalState(state, e)
  <2>1. e.payload = "Restarted" => HoldsLease(state, t, w)
    BY PersistParts DEF KeptInv, BatchFits
  <2> QED BY <2>1 DEF HoldsLease, RegressesTerminalState, IsTerminal, TerminalStatuses
<1>7. state'.latest_payload[w][t] = IF RegressesTerminalState(state, e)
                                    THEN state.latest_payload[w][t] ELSE e.payload
  BY <1>5 DEF Logged
<1>8. TaskFits(state, t)
  BY <1>1, KeptParts DEF KeptFits
<1>9. TaskFits(state', t)
  <2> HIDE DEF e, w, t
  <2>1. \/ state'.latest_payload[w][t] = state.latest_payload[w][t]
        \/ state'.latest_payload[w][t] \notin TerminalPayloads \ {state.tasks[t].status}
    BY <1>4, <1>7
  <2> QED BY <1>2, <1>5, <1>8, <2>1, TaskKept
<1>10. ~Outdated(state', t)
  <2>1. RegressesTerminalState(state, e) => IsTerminal(state', t)
    BY <1>5 DEF RegressesTerminalState, IsTerminal
  <2> QED BY <1>2, <1>4, <1>5, <1>7, <2>1 DEF Outdated
<1>11. SameTasksBut(state, state', t) /\ state'.alerts = state.alerts
  BY <1>5 DEF SameTasksBut, SameNotes
<1>12. state'.tasks[t].leased_to = w
  BY <1>2, <1>5
<1>13. FitsAfter({})
  BY <1>1, <1>2, <1>3, <1>4, <1>5, <1>6, <1>9, <1>10, <1>11, <1>12, EventPersists
<1> QED BY <1>10, <1>13

(* A task that ends on its worker. *)
LEMMA EndFits ==
  ASSUME NEW s, NEW n, NEW t, NEW w, NEW more, NEW payload,
         s \in States, t \in Tasks, w \in Workers, more \in {1, 2},
         TaskFits(s, t), HoldsLease(s, t, w),
         n.tasks[t].status \in TerminalStatuses, n.tasks[t].leased_to = w,
         n.tasks[t].attempts = s.tasks[t].attempts,
         n.tasks[t].lifecycle_seq = s.tasks[t].lifecycle_seq + more,
         n.latest_payload[w][t] = payload,
         payload # n.tasks[t].status => more = 2
  PROVE  TaskFits(n, t) /\ ~Outdated(n, t)
<1> DEFINE old == s.tasks[t]
           new == n.tasks[t]
<1>1. old \in TaskStates /\ old.status = "Leased" /\ old.leased_to = w
  BY DEF States, HoldsLease
<1>2. TaskShape(old)
  BY DEF TaskFits
<1>3. old.lifecycle_seq \in Nat /\ old.lifecycle_seq >= 2 /\ old.attempts >= 1
  BY <1>1, <1>2, NoWorkerAssumption DEF TaskShape, TaskStates
<1>4. new.lifecycle_seq >= 3 /\ (more = 2 => new.lifecycle_seq >= 4)
      /\ new.lifecycle_seq >= 2
  <2> HIDE DEF old, new
  <2>1. new.lifecycle_seq = old.lifecycle_seq + more
    BY DEF old, new
  <2> QED BY <1>3, <2>1
<1>5. /\ new.status \in TerminalStatuses /\ new.leased_to = w /\ w # NoWorker
      /\ new.attempts >= 1
  BY <1>3, NoWorkerAssumption
<1>6. TaskShape(new)
  <2> HIDE DEF new
  <2> QED BY <1>4, <1>5 DEF TaskShape, TerminalStatuses
<1>7. Overruled(n, t) => new.lifecycle_seq >= 4
  BY <1>4, <1>5 DEF Overruled
<1>8. ~Outdated(n, t)
  BY <1>5 DEF Outdated, IsTerminal
<1> QED BY <1>6, <1>7, <1>8 DEF TaskFits

(* An outcome that ends a lease. *)
LEMMA OutcomePersists ==
  ASSUME TypeOK, LedgerInv, KeptType, KeptInv, Persist, Keep,
         batch[1].kind = "EventAppended", batch[1].event.payload \notin ProgressPayloads
  PROVE  FitsAfter({}) /\ ~Outdated(state', batch[1].event.task)
<1> DEFINE e == batch[1].event
           w == e.worker
           t == e.task
<1>1. /\ e \in Events /\ w \in Workers /\ t \in Tasks /\ state \in States
      /\ state' = ApplyEvent(state, e)
      /\ EventFits(state, batch, 1)
  BY KeptParts DEF Records, Events, apply_record, FitsAt
<1>2. e.payload \in {"Failed", "Cancelled"} /\ HoldsLease(state, t, w)
  BY <1>1 DEF EventFits
<1>3. Follows(state, e)
  BY FirstEventIsNext, PersistParts DEF LedgerInv, Follows
<1>4. e.payload \in TerminalPayloads /\ e.payload \in TerminalStatuses
      /\ e.payload # "Escalated" /\ e.payload # "Restarted"
  BY <1>2 DEF TerminalPayloads, TerminalStatuses
<1>5. OutcomeShown(state, state', e)
  BY <1>1, <1>2, <1>3, <1>4, OutcomeEvent
<1>6. state.tasks[t].leased_to = w
  BY <1>2 DEF HoldsLease
<1>7. state'.latest_payload[w][t] = e.payload
  BY <1>2, <1>5 DEF OutcomeShown, Logged, RegressesTerminalState, ProgressPayloads, BusyPayloads
<1>8. TaskFits(state, t)
  BY <1>1, KeptParts DEF KeptFits
<1>9. TaskFits(state', t) /\ ~Outdated(state', t)
  BY <1>1, <1>2, <1>4, <1>5, <1>7, <1>8, EndFits DEF OutcomeShown
<1>10. FitsAfter({})
  BY <1>1, <1>3, <1>4, <1>5, <1>6, <1>9, EventPersists DEF OutcomeShown, SameNotes
<1> QED BY <1>9, <1>10

(* An outcome with the verifier's word and the receipt. *)
LEMMA FinalizationPersists ==
  ASSUME TypeOK, LedgerInv, KeptType, KeptInv, Persist, Keep,
         batch[1].kind = "TaskAttemptFinalized"
  PROVE  FitsAfter({}) /\ ~Outdated(state', batch[1].event.task)
<1> DEFINE r == batch[1]
           e == r.event
           w == e.worker
           t == e.task
           n == ApplyEvent(state, e)
           m == IF r.final_status = "None" THEN n
                ELSE MarkTaskTerminal(n, t, w, e.timestamp, r.final_status)
           status == IF r.final_status = "None" THEN e.payload ELSE r.final_status
           more == IF status = e.payload THEN 1 ELSE 2
<1>1. /\ e \in Events /\ w \in Workers /\ t \in Tasks /\ state \in States
      /\ e.timestamp \in Nat /\ e.seq \in Nat
      /\ state' = ApplyFinalized(state, r) /\ r \in Records
      /\ FinalizationFits(state, r)
  BY KeptParts DEF Records, Events, apply_record, FitsAt
<1>2. /\ HoldsLease(state, t, w) /\ Follows(state, e)
      /\ e.payload \in TerminalPayloads /\ e.payload \in TerminalStatuses
      /\ r.final_status \in {"None", "Failed"}
  BY <1>1 DEF FinalizationFits, AttemptIsLeased, Follows, TerminalPayloads
<1>3. e.payload # "Escalated" /\ e.payload # "Restarted" /\ e.payload \notin ProgressPayloads
  BY <1>2 DEF TerminalStatuses, ProgressPayloads, BusyPayloads
<1>4. OutcomeShown(state, n, e)
  BY <1>1, <1>2, OutcomeEvent
<1>5. e.seq > state.latest_seq[w][t]
  <2>1. state.latest_seq[w][t] \in Nat /\ e.seq = state.latest_seq[w][t] + 1
    BY <1>1, <1>2 DEF States, Follows
  <2> QED BY <2>1
<1>6. /\ SameTasksBut(state, state', t) /\ Logged(state, state', e)
      /\ state'.alerts = state.alerts
  BY <1>1, <1>2, <1>5, ApplyFinalizedEffect DEF Ended
<1>7. state'.tasks = m.tasks
  <2>1. state' = [m EXCEPT !.receipts[t] = r.receipt]
    BY <1>1 DEF ApplyFinalized
  <2>2. m \in States
    <3>1. n \in States
      BY <1>4 DEF OutcomeShown
    <3> HIDE DEF n, w, t, e
    <3> QED BY <1>1, <1>2, <3>1, MarkTaskTerminalType DEF TerminalStatuses
  <2> HIDE DEF m, t, r
  <2> QED BY <2>1, <2>2 DEF States
<1>8. /\ m.tasks[t].status = status /\ m.tasks[t].leased_to = w
      /\ m.tasks[t].attempts = state.tasks[t].attempts
      /\ m.tasks[t].lifecycle_seq = state.tasks[t].lifecycle_seq + more
  <2>1. /\ n \in States /\ n.tasks[t].status = e.payload /\ n.tasks[t].leased_to = w
        /\ n.tasks[t].attempts = state.tasks[t].attempts
        /\ n.tasks[t].lifecycle_seq = state.tasks[t].lifecycle_seq + 1
    BY <1>4 DEF OutcomeShown
  <2>2. state.tasks[t].lifecycle_seq \in Nat
    BY <1>1 DEF States, TaskStates
  <2> HIDE DEF n, w, t, e, r
  <2>3. CASE r.final_status = "None"
    BY <2>1, <2>3
  <2>4. CASE r.final_status # "None"
    <3>1. r.final_status \in TerminalStatuses /\ e.payload # "Absent"
      BY <1>2, <2>4 DEF TerminalStatuses
    <3>2. m = MarkTaskTerminal(n, t, w, e.timestamp, r.final_status)
      BY <2>4
    <3> HIDE DEF m
    <3>3. w # NoWorker
      BY <1>1, NoWorkerAssumption
    <3>4. /\ m.tasks[t].status = r.final_status /\ m.tasks[t].leased_to = w
          /\ m.tasks[t].attempts = n.tasks[t].attempts
          /\ m.tasks[t].lifecycle_seq = IF n.tasks[t].status = r.final_status
                                        THEN n.tasks[t].lifecycle_seq
                                        ELSE n.tasks[t].lifecycle_seq + 1
      BY <1>1, <2>1, <3>1, <3>2, <3>3, MarkDetails
    <3>5. status = r.final_status
      BY <2>4
    <3>6. state.tasks[t].lifecycle_seq + 1 + 1 = state.tasks[t].lifecycle_seq + 2
      BY <2>2
    <3>7. m.tasks[t].lifecycle_seq = state.tasks[t].lifecycle_seq + more
      BY <2>1, <3>4, <3>5, <3>6
    <3> QED BY <2>1, <3>4, <3>5, <3>7
  <2> QED BY <2>3, <2>4
<1>9. state'.latest_payload[w][t] = e.payload
  BY <1>3, <1>6 DEF Logged, RegressesTerminalState
<1>10. TaskFits(state, t)
  BY <1>1, KeptParts DEF KeptFits
<1>11. status \in TerminalStatuses /\ more \in {1, 2}
  BY <1>2 DEF TerminalStatuses
<1>12. TaskFits(state', t) /\ ~Outdated(state', t)
  <2>1. /\ state'.tasks[t].status = status /\ state'.tasks[t].leased_to = w
        /\ state'.tasks[t].attempts = state.tasks[t].attempts
        /\ state'.tasks[t].lifecycle_seq = state.tasks[t].lifecycle_seq + more
    BY <1>7, <1>8
  <2>2. e.payload # status => more = 2
    OBVIOUS
  <2> HIDE DEF w, t, e, more, status
  <2> QED BY <1>1, <1>2, <1>9, <1>10, <1>11, <2>1, <2>2, EndFits
<1>13. state.tasks[t].leased_to = w /\ state'.tasks[t].leased_to = w
  BY <1>2, <1>7, <1>8 DEF HoldsLease
<1>14. FitsAfter({})
  BY <1>1, <1>2, <1>3, <1>6, <1>12, <1>13, EventPersists
<1> QED BY <1>12, <1>14

(* A new alert, and the escalation it is shown by. *)
LEMMA AlertPersists ==
  ASSUME TypeOK, LedgerInv, KeptType, KeptInv, Persist, Keep,
         batch[1].kind = "AlertSent"
  PROVE  FitsAfter({})
<1> DEFINE r == batch[1]
           alert == [task |-> r.task, attempt |-> r.attempt, channel |-> r.channel]
           e == [worker |-> r.worker, task |-> r.task, seq |-> r.seq,
                 payload |-> "Escalated", timestamp |-> r.timestamp]
           w == r.worker
           t == r.task
           k == <<alert, w, r.seq>>
<1>1. /\ r \in Records /\ w \in Workers /\ t \in Tasks /\ state \in States
      /\ e \in Events /\ alert \in Alerts /\ r.seq \in Nat
      /\ state' = ApplyAlert(state, r) /\ AlertFits(state, r)
  BY KeptParts DEF Records, Events, Alerts, Payloads, apply_record, FitsAt
<1>2. /\ state.tasks[t].status = "Failed" /\ state.tasks[t].leased_to = w
      /\ alert \notin state.alerts /\ r.seq = state.latest_seq[w][t] + 1
  BY <1>1 DEF AlertFits, CanAlert
<1>3. r.seq > state.latest_seq[w][t] /\ Follows(state, e)
  <2>1. state.latest_seq[w][t] \in Nat
    BY <1>1 DEF States
  <2> QED BY <1>1, <1>2, <2>1 DEF Follows
<1>4. /\ state'.tasks = state.tasks /\ Logged(state, state', e)
      /\ state'.alerts = state.alerts \cup {alert}
  BY <1>1, <1>2, <1>3, ApplyAlertEffect
<1>5. EventOf(r) = {e}
  BY <1>2 DEF EventOf
<1>6. kept.alerts \subseteq Alerts \X Workers \X Nat /\ k \in Alerts \X Workers \X Nat
  BY <1>1, KeptParts DEF KeptShape
<1>7. /\ Noted(state, kept, kept', e) /\ kept'.batches = BatchesAfter
      /\ kept'.alerts = kept.alerts \cup {k}
      /\ kept'.alerts \subseteq Alerts \X Workers \X Nat => kept' \in KeptShape
  <2>1. e.payload # "Restarted" /\ r.kind = "AlertSent"
    OBVIOUS
  <2> HIDE DEF e
  <2> QED BY <1>1, <1>3, <1>5, <2>1, KeepsEvent
<1>8. kept' \in KeptShape
  BY <1>6, <1>7
<1>9. Escalates(kept, kept', e)
  BY <1>1, <1>7 DEF Escalates
<1>10. AlertsFit(state', kept')
  <2>1. AlertsFit(state, kept)
    BY KeptParts DEF KeptFits
  <2>2. k[1] = alert
    OBVIOUS
  <2> HIDE DEF k, alert
  <2>3. IsFiniteSet(kept'.alerts)
    <3>1. IsFiniteSet(kept.alerts)
      BY <2>1 DEF AlertsFit
    <3> QED BY <1>7, <3>1, FS_AddElement
  <2> QED BY <1>2, <1>4, <1>7, <2>1, <2>2, <2>3 DEF AlertsFit
<1>11. state'.latest_payload[w][t] = "Escalated"
  BY <1>4 DEF Logged, RegressesTerminalState, ProgressPayloads, BusyPayloads
<1>12. TaskFits(state', t)
  <2>1. TaskFits(state, t)
    BY <1>1, KeptParts DEF KeptFits
  <2>2. state'.latest_payload[w][t] \notin TerminalPayloads \ {state.tasks[t].status}
    BY <1>11 DEF TerminalPayloads, TerminalStatuses
  <2> HIDE DEF w, t
  <2> QED BY <1>2, <1>4, <2>1, <2>2, TaskKept
<1>13. ~Outdated(state', t)
  BY <1>2, <1>4 DEF Outdated, IsTerminal, TerminalStatuses
<1>14. SameTasksBut(state, state', t) /\ state'.tasks[t].leased_to = w
  BY <1>2, <1>4 DEF SameTasksBut
<1>15. /\ KeptFits(state', kept')
       /\ \A u \in Tasks \ {t} : Outdated(state', u) => Outdated(state, u)
  <2>1. e.worker = w /\ e.task = t /\ e.payload # "Restarted"
    OBVIOUS
  <2> HIDE DEF e, w, t
  <2> QED BY <1>1, <1>2, <1>3, <1>4, <1>7, <1>9, <1>10, <1>12, <1>14, <2>1,
             KeptParts, EventKept
<1> QED BY <1>7, <1>8, <1>13, <1>15, KeptParts DEF FitsAfter

(* A batch that a record opens is under way while it has more of them. *)
LEMMA PersistBatches ==
  ASSUME Persist, kept'.batches = BatchesAfter, kept'.batches # "cut"
  PROVE  /\ kept.batches # "cut"
         /\ kept'.batches = IF Len(batch) > 1 THEN "begun" ELSE "whole"
BY DEF BatchesAfter

(* While no batch was cut, a task shows an old outcome only behind the     *)
(* lease that restarts it.                                                 *)
LEMMA PersistWhole ==
  ASSUME TypeOK, LedgerInv, KeptType, KeptInv, Persist, Keep,
         \/ batch[1].kind # "TaskLeased" /\ FitsAfter({})
            /\ (batch[1].kind = "EventAppended" => ~Outdated(state', batch[1].event.task))
         \/ LET t == batch[1].task IN
            /\ batch[1].kind = "TaskLeased" /\ FitsAfter({t}) /\ t \in Tasks
            /\ state'.tasks[t].leased_to = batch[1].worker
            /\ Outdated(state', t) => state.tasks[t].status # "Enqueued"
  PROVE  WholeFits(state', batch', kept'.batches)
<1>1. /\ 1 \in 1..Len(batch) /\ Len(batch) \in Nat /\ Len(batch') = Len(batch) - 1
      /\ \A i \in 1..Len(batch') : batch'[i] = batch[i + 1]
  BY PersistParts
<1>2. kept'.batches = BatchesAfter
  BY DEF FitsAfter
<1>3. kept'.batches = "begun" => Len(batch') > 0
  <2>1. kept'.batches = "begun" => Len(batch) > 1
    BY <1>2, PersistBatches
  <2> QED BY <1>1, <2>1
<1>4. ASSUME kept'.batches # "cut", NEW u \in Tasks, Outdated(state', u)
      PROVE  /\ kept'.batches = "begun"
             /\ batch'[1].kind = "EventAppended"
             /\ batch'[1].event.worker = state'.tasks[u].leased_to
             /\ batch'[1].event.task = u
             /\ batch'[1].event.payload \in ProgressPayloads
  <2>1. /\ kept.batches # "cut"
        /\ kept'.batches = IF Len(batch) > 1 THEN "begun" ELSE "whole"
    BY <1>2, <1>4, PersistBatches
  <2>2. ASSUME Outdated(state, u)
        PROVE  batch[1].kind = "EventAppended" /\ batch[1].event.task = u
    BY <2>1, <2>2 DEF KeptInv, WholeFits
  <2>3. CASE batch[1].kind # "TaskLeased"
    <3>1. Outdated(state, u)
      BY <1>4, <2>3 DEF FitsAfter
    <3> QED BY <1>4, <2>2, <2>3, <3>1
  <2>4. CASE batch[1].kind = "TaskLeased"
    <3> DEFINE t == batch[1].task
    <3>1. /\ FitsAfter({t}) /\ t \in Tasks
          /\ state'.tasks[t].leased_to = batch[1].worker
          /\ Outdated(state', t) => state.tasks[t].status # "Enqueued"
      BY <2>4
    <3>2. u = t
      <4>1. u # t => Outdated(state, u)
        BY <1>4, <3>1 DEF FitsAfter
      <4> QED BY <2>2, <2>4, <4>1
    <3>3. /\ Len(batch) > 1 /\ batch[2].kind = "EventAppended"
          /\ batch[2].event.task = t /\ batch[2].event.worker = batch[1].worker
          /\ batch[2].event.payload \in ProgressPayloads
      <4>1. state.tasks[t].status # "Enqueued" /\ Len(batch) > 0
        BY <1>1, <1>4, <3>1, <3>2
      <4> QED BY <2>4, <4>1 DEF KeptInv, BatchFits
    <3>4. batch'[1] = batch[2]
      BY <1>1, <3>3
    <3> QED BY <2>1, <3>1, <3>2, <3>3, <3>4
  <2> QED BY <2>3, <2>4
<1> QED BY <1>3, <1>4 DEF WholeFits

(* The tasks of a worker stay its own while a batch is under way. *)
LEMMA LeaseStays ==
  ASSUME TypeOK, LedgerInv, Persist, Len(batch) > 1
  PROVE  /\ \A t \in Tasks, w \in Workers : HoldsLease(state, t, w) => HoldsLease(state', t, w)
         /\ batch[1].kind = "TaskLeased" => HoldsLease(state', batch[1].task, batch[1].worker)
<1>1. /\ state \in States /\ batch[1] \in Records /\ Fresh(state)
      /\ state' = apply_record(state, batch[1]) /\ FitsAt(state, batch, 1)
      /\ 1 \in 1..Len(batch) /\ Len(batch) \in Nat /\ 1 # Len(batch)
  BY PersistParts DEF LedgerInv, Fits
<1>2. CASE batch[1].kind = "TaskLeased"
  <2> DEFINE t == batch[1].task
             w == batch[1].worker
  <2>1. /\ t \in Tasks /\ state.tasks[t].status # "Absent"
        /\ state.tasks[t].status = "Enqueued" \/ state.tasks[t].leased_to = w
        /\ state' = ApplyLease(state, batch[1])
    <3>1. state' = ApplyLease(state, batch[1])
      BY <1>1, <1>2 DEF apply_record
    <3> QED BY <1>2, <3>1, LeaseOfKnownTask, PersistParts DEF LedgerInv
  <2>2. /\ SameTasksBut(state, state', t)
        /\ state'.tasks[t].status = "Leased" /\ state'.tasks[t].leased_to = w
    BY <1>1, <1>2, <2>1, ApplyLeaseEffect
  <2> HIDE DEF t, w
  <2>3. ASSUME NEW u \in Tasks, NEW v \in Workers, HoldsLease(state, u, v)
        PROVE  HoldsLease(state', u, v)
    BY <2>1, <2>2, <2>3 DEF HoldsLease, SameTasksBut
  <2> QED BY <2>2, <2>3 DEF HoldsLease, t, w
<1>3. CASE batch[1].kind # "TaskLeased"
  <2> DEFINE e == batch[1].event
  <2>1. batch[1].kind = "EventAppended" /\ EventFits(state, batch, 1)
    BY <1>1, <1>3 DEF FitsAt
  <2>2. e \in Events /\ state' = ApplyEvent(state, e) /\ Follows(state, e)
    <3>1. e \in Events /\ state' = ApplyEvent(state, e)
      BY <1>1, <2>1 DEF Records, apply_record
    <3> QED BY <2>1, <3>1, FirstEventIsNext, PersistParts DEF LedgerInv, Follows
  <2>3. e.payload \notin TerminalPayloads
    BY <1>1, <2>1
    DEF EventFits, ProgressPayloads, BusyPayloads, TerminalPayloads, TerminalStatuses
  <2>4. state'.tasks = state.tasks
    BY <1>1, <2>2, <2>3, ProgressEvent
  <2> QED BY <1>3, <2>4 DEF HoldsLease
<1> QED BY <1>2, <1>3

(* The rest of a batch is still one that a transaction wrote. *)
LEMMA PersistBatchFits ==
  ASSUME TypeOK, LedgerInv, KeptInv, Persist
  PROVE  BatchFits(state', batch')
<1>1. /\ 1 \in 1..Len(batch) /\ Len(batch) \in Nat /\ Len(batch') = Len(batch) - 1
      /\ \A i \in 1..Len(batch') : batch'[i] = batch[i + 1] /\ i + 1 \in 1..Len(batch)
      /\ batch \in Seq(Records)
  BY PersistParts
<1>2. BatchFits(state, batch) /\ Fits(state, batch)
  BY DEF KeptInv, LedgerInv
<1>3. ASSUME NEW i \in 1..Len(batch')
      PROVE  batch'[i].kind # "RunStatusChanged" /\ batch'[i].kind # "TaskLeased"
  <2>1. i + 1 # 1 /\ i + 1 \in 1..Len(batch) /\ batch'[i] = batch[i + 1]
    BY <1>1
  <2>2. FitsAt(state, batch, i + 1) /\ batch[i + 1].kind # "RunStatusChanged"
    BY <1>2, <2>1 DEF Fits, BatchFits
  <2> QED BY <2>1, <2>2 DEF FitsAt, LeaseFits
<1>4. ASSUME Len(batch') > 0 PROVE batch'[1].kind # "TaskLeased"
  <2>1. 1 \in 1..Len(batch')
    BY <1>1, <1>4
  <2> QED BY <1>3, <2>1
<1>5. ASSUME NEW i \in 1..Len(batch'), batch'[i].kind = "EventAppended",
             batch'[i].event.payload = "Restarted"
      PROVE  HoldsLease(state', batch'[i].event.task, batch'[i].event.worker)
  <2> DEFINE e == batch[i + 1].event
  <2>1. i + 1 \in 1..Len(batch) /\ batch'[i] = batch[i + 1] /\ Len(batch) > 1
    BY <1>1
  <2>2. e.task \in Tasks /\ e.worker \in Workers
    <3>1. batch[i + 1] \in Records
      BY <1>1, <2>1
    <3> QED BY <1>5, <2>1, <3>1 DEF Records, Events
  <2>3. \/ batch[1].kind = "TaskLeased" /\ batch[1].task = e.task /\ batch[1].worker = e.worker
        \/ HoldsLease(state, e.task, e.worker)
    BY <1>2, <1>5, <2>1 DEF BatchFits
  <2> QED BY <2>1, <2>2, <2>3, LeaseStays
<1> QED BY <1>3, <1>4, <1>5 DEF BatchFits

(* Every durable record keeps the invariant. *)
LEMMA PersistKept ==
  ASSUME TypeOK, LedgerInv, KeptType, KeptInv, Persist, Keep
  PROVE  KeptType' /\ KeptInv'
<1> DEFINE t == batch[1].task
<1>1. \/ batch[1].kind # "TaskLeased" /\ FitsAfter({})
         /\ (batch[1].kind = "EventAppended" => ~Outdated(state', batch[1].event.task))
      \/ /\ batch[1].kind = "TaskLeased" /\ FitsAfter({t}) /\ t \in Tasks
         /\ state'.tasks[t].leased_to = batch[1].worker
         /\ Outdated(state', t) => state.tasks[t].status # "Enqueued"
  <2>1. batch[1] \in Records /\ batch[1].kind # "RunStatusChanged"
    BY KeptParts
  <2>2. batch[1].kind \in {"RunCreated", "TaskEnqueued", "TaskLeased", "TaskCompletedOrFailed",
                           "EventAppended", "TaskAttemptFinalized", "Heartbeat", "AlertSent"}
    BY <2>1 DEF Records
  <2>3. CASE batch[1].kind \in {"RunCreated", "Heartbeat"}
    BY <2>3, QuietPersists
  <2>4. CASE batch[1].kind = "TaskEnqueued"
    BY <2>4, EnqueuePersists
  <2>5. CASE batch[1].kind = "TaskLeased"
    BY <2>5, LeasePersists
  <2>6. CASE batch[1].kind = "TaskCompletedOrFailed"
    BY <2>6, CancellationPersists
  <2>7. CASE batch[1].kind = "EventAppended"
    BY <2>7, ProgressPersists, OutcomePersists
  <2>8. CASE batch[1].kind = "TaskAttemptFinalized"
    BY <2>8, FinalizationPersists
  <2>9. CASE batch[1].kind = "AlertSent"
    BY <2>9, AlertPersists
  <2> QED BY <2>2, <2>3, <2>4, <2>5, <2>6, <2>7, <2>8, <2>9
<1>2. kept' \in KeptShape /\ RunsFit(state') /\ KeptFits(state', kept')
  BY <1>1 DEF FitsAfter
<1>3. WholeFits(state', batch', kept'.batches)
  BY <1>1, PersistWhole
<1>4. BatchFits(state', batch')
  BY PersistBatchFits
<1> QED BY <1>2, <1>3, <1>4 DEF KeptInv, KeptType

(***************************************************************************)
(* What transactions write fits.                                           *)
(***************************************************************************)
LEMMA OneRecordFits ==
  ASSUME NEW s, NEW r, r.kind \notin {"RunStatusChanged", "TaskLeased"},
         r.kind = "EventAppended" => r.event.payload # "Restarted"
  PROVE  BatchFits(s, <<r>>)
<1> DEFINE b == <<r>>
<1>1. Len(b) = 1 /\ b[1] = r
  OBVIOUS
<1> HIDE DEF b
<1>2. \A i \in 1..Len(b) : b[i] = r
  BY <1>1
<1>3. BatchFits(s, b)
  BY <1>1, <1>2 DEF BatchFits
<1> QED BY <1>3 DEF b

(* A claim takes a queued task. *)
LEMMA ClaimBatchFits ==
  ASSUME NEW s, NEW t, NEW w, NEW at, s.tasks[t].status = "Enqueued"
  PROVE  BatchFits(s, <<TaskLeased(t, w, at, Never)>>)
<1> DEFINE r == TaskLeased(t, w, at, Never)
           b == <<r>>
<1>1. r.kind = "TaskLeased" /\ r.task = t
  BY DEF TaskLeased
<1>2. Len(b) = 1 /\ b[1] = r
  OBVIOUS
<1> HIDE DEF b, r
<1>3. \A i \in 1..Len(b) : b[i] = r
  BY <1>2
<1>4. BatchFits(s, b)
  BY <1>1, <1>2, <1>3 DEF BatchFits
<1> QED BY <1>4 DEF b, r

(* A start takes a queued task; its events are those of its lease. *)
LEMMA StartBatchFits ==
  ASSUME NEW s, NEW t, NEW w, NEW at, s.tasks[t].status = "Enqueued"
  PROVE  BatchFits(s, StartRecords(s, t, w, at, InitialEvents))
<1> DEFINE n == Len(InitialEvents)
           event(i) == [NextEvent(s, w, t, at, InitialEvents[i])
                          EXCEPT !.seq = s.latest_seq[w][t] + i]
           appended(i) == EventAppended(event(i))
           events == [i \in 1..n |-> appended(i)]
           lease == TaskLeased(t, w, at, Never)
           beat == HeartbeatRecord(w, at)
           b == StartRecords(s, t, w, at, InitialEvents)
<1>1. n \in Nat
  BY InitialEventsAssumption
<1>2. b = <<lease>> \o events \o <<beat>>
  BY DEF StartRecords
<1>3. \A i \in 1..n : event(i).worker = w /\ event(i).task = t
  BY DEF NextEvent
<1>4. \A i \in 1..n : appended(i).kind = "EventAppended" /\ appended(i).event = event(i)
  BY DEF EventAppended
<1>5. /\ lease.kind = "TaskLeased" /\ lease.task = t /\ lease.worker = w
      /\ beat.kind = "Heartbeat"
  BY DEF TaskLeased, HeartbeatRecord
<1> HIDE DEF lease, beat, appended, n, b, event
<1>6. /\ Len(b) = n + 2 /\ b[1] = lease /\ b[n + 2] = beat
      /\ \A i \in 2..(n + 1) : b[i] = appended(i - 1)
  BY <1>1, <1>2
<1>7. ASSUME NEW i \in 1..Len(b)
      PROVE  /\ b[i].kind # "RunStatusChanged"
             /\ b[i].kind = "EventAppended" => b[i].event.task = t /\ b[i].event.worker = w
  <2>1. CASE i = 1
    BY <1>5, <1>6, <2>1
  <2>2. CASE i = n + 2
    BY <1>5, <1>6, <2>2
  <2>3. CASE i \in 2..(n + 1)
    <3>1. i - 1 \in 1..n
      BY <1>1, <2>3
    <3> QED BY <1>3, <1>4, <1>6, <2>3, <3>1
  <2> QED BY <1>1, <1>6, <2>1, <2>2, <2>3
<1>8. BatchFits(s, b)
  BY <1>5, <1>6, <1>7 DEF BatchFits
<1> QED BY <1>8 DEF b

(* Only a restart says that it is one. *)
LEMMA EventBatchFits ==
  ASSUME NEW s, NEW t, NEW w, NEW at, NEW payload, payload # "Restarted"
  PROVE  BatchFits(s, EventRecords(s, t, w, at, payload))
<1> DEFINE e == NextEvent(s, w, t, at, payload)
           r == EventAppended(e)
<1>1. e.payload = payload
  BY DEF NextEvent
<1>2. r.kind = "EventAppended" /\ r.event = e
  BY DEF EventAppended
<1> HIDE DEF r, e
<1>3. BatchFits(s, <<r>>)
  BY <1>1, <1>2, OneRecordFits
<1> QED BY <1>3 DEF EventRecords, r, e

LEMMA FinalBatchFits ==
  ASSUME NEW s, NEW t, NEW w, NEW attempts, NEW at, NEW payload, NEW final_status
  PROVE  BatchFits(s, FinalizeRecords(s, t, w, attempts, at, payload, final_status))
<1> DEFINE e == NextEvent(s, w, t, at, payload)
           r == TaskAttemptFinalized(e, final_status,
                  [attempt |-> attempts, terminal_seq |-> e.seq])
<1>1. r.kind = "TaskAttemptFinalized"
  BY DEF TaskAttemptFinalized
<1>2. FinalizeRecords(s, t, w, attempts, at, payload, final_status) = <<r>>
  BY DEF FinalizeRecords
<1> HIDE DEF r
<1> QED BY <1>1, <1>2, OneRecordFits

LEMMA AlertBatchFits ==
  ASSUME NEW s, NEW t, NEW w, NEW attempts, NEW channel, NEW at
  PROVE  BatchFits(s, AlertRecords(s, t, w, attempts, channel, at))
<1> DEFINE r == AlertSent(t, channel, w, attempts, s.latest_seq[w][t] + 1, at)
<1>1. r.kind = "AlertSent"
  BY DEF AlertSent
<1>2. AlertRecords(s, t, w, attempts, channel, at) = <<r>>
  BY DEF AlertRecords
<1> HIDE DEF r
<1> QED BY <1>1, <1>2, OneRecordFits

LEMMA CancelBatchFits ==
  ASSUME NEW s, NEW t, NEW at
  PROVE  BatchFits(s, CancelRecords(s, t, at))
<1> DEFINE w == s.tasks[t].leased_to
           interrupted == NextEvent(s, w, t, at, "Interrupted")
           cancelled == [interrupted EXCEPT !.seq = @ + 1, !.payload = "Cancelled"]
           b == CancelRecords(s, t, at)
<1>1. CASE w = NoWorker
  <2> DEFINE r == TaskCompletedOrFailed(t, NoWorker, at, "Cancelled")
  <2>1. b = <<r>>
    BY <1>1 DEF CancelRecords
  <2>2. r.kind = "TaskCompletedOrFailed"
    BY DEF TaskCompletedOrFailed
  <2> HIDE DEF r
  <2> QED BY <2>1, <2>2, OneRecordFits
<1>2. CASE w # NoWorker
  <2>1. b = <<EventAppended(interrupted), EventAppended(cancelled)>>
    BY <1>2 DEF CancelRecords
  <2>2. interrupted.payload = "Interrupted" /\ cancelled.payload = "Cancelled"
    BY DEF NextEvent
  <2> HIDE DEF interrupted, cancelled, b
  <2>3. /\ Len(b) = 2
        /\ b[1].kind = "EventAppended" /\ b[1].event = interrupted
        /\ b[2].kind = "EventAppended" /\ b[2].event = cancelled
    BY <2>1 DEF EventAppended
  <2>4. ASSUME NEW i \in 1..Len(b)
        PROVE  b[i].kind = "EventAppended" /\ b[i].event.payload # "Restarted"
    BY <2>2, <2>3
  <2>5. BatchFits(s, b)
    BY <2>3, <2>4 DEF BatchFits
  <2> QED BY <2>5 DEF b
<1> QED BY <1>1, <1>2

(* A restart says so behind its lease. *)
LEMMA RestartBatchFits ==
  ASSUME NEW s, NEW v, NEW at
  PROVE  BatchFits(s, RestartRecords(s, v, at, Never))
<1> DEFINE restarted == NextEvent(s, v.worker, v.task, at, "Restarted")
           running == [restarted EXCEPT !.seq = @ + 1, !.payload = "Running"]
           lease == TaskLeased(v.task, v.worker, at, Never)
           beat == HeartbeatRecord(v.worker, at)
           b == RestartRecords(s, v, at, Never)
<1>1. /\ restarted.worker = v.worker /\ restarted.task = v.task
      /\ restarted.payload = "Restarted"
      /\ running.worker = v.worker /\ running.task = v.task
      /\ running.payload = "Running"
  BY DEF NextEvent
<1>2. /\ lease.kind = "TaskLeased" /\ lease.task = v.task /\ lease.worker = v.worker
      /\ beat.kind = "Heartbeat"
  BY DEF TaskLeased, HeartbeatRecord
<1>3. b = <<lease, EventAppended(restarted), EventAppended(running), beat>>
  BY DEF RestartRecords
<1> HIDE DEF restarted, running, lease, beat, b
<1>4. /\ Len(b) = 4 /\ b[1] = lease /\ b[4] = beat
      /\ b[2].kind = "EventAppended" /\ b[2].event = restarted
      /\ b[3].kind = "EventAppended" /\ b[3].event = running
  BY <1>3 DEF EventAppended
<1>5. "Restarted" \in ProgressPayloads
  BY DEF ProgressPayloads, BusyPayloads
<1>6. ASSUME NEW i \in 1..Len(b)
      PROVE  /\ b[i].kind # "RunStatusChanged"
             /\ b[i].kind = "EventAppended" =>
                  b[i].event.task = v.task /\ b[i].event.worker = v.worker
  BY <1>1, <1>2, <1>4
<1>7. BatchFits(s, b)
  BY <1>1, <1>2, <1>4, <1>5, <1>6 DEF BatchFits
<1> QED BY <1>7 DEF b

(***************************************************************************)
(* The steps between durable records.                                      *)
(***************************************************************************)
(* Between durable records only the bookkeeping of batches moves. *)
LEMMA BetweenRecords ==
  ASSUME KeptType, ~Persist, Keep
  PROVE  /\ kept' \in KeptShape /\ kept'.batches = BatchesAfter
         /\ kept'.latest = kept.latest /\ kept'.restarted = kept.restarted
         /\ kept'.alerts = kept.alerts
         /\ ~Cut => kept' = kept
<1>1. kept' = [kept EXCEPT !.batches = BatchesAfter]
  BY DEF Keep
<1>2. BatchesAfter \in {"whole", "begun", "cut"}
  BY DEF BatchesAfter, KeptType, KeptShape
<1>3. ~Cut => BatchesAfter = kept.batches
  BY DEF BatchesAfter
<1> DEFINE x == BatchesAfter
<1> HIDE DEF x
<1>4. /\ [kept EXCEPT !.batches = x].batches = x
      /\ x \in {"whole", "begun", "cut"} => [kept EXCEPT !.batches = x] \in KeptShape
      /\ [kept EXCEPT !.batches = x].latest = kept.latest
      /\ [kept EXCEPT !.batches = x].restarted = kept.restarted
      /\ [kept EXCEPT !.batches = x].alerts = kept.alerts
      /\ x = kept.batches => [kept EXCEPT !.batches = x] = kept
  BY DEF KeptType, KeptShape
<1> QED BY <1>1, <1>2, <1>3, <1>4 DEF x

LEMMA SameKeptFits ==
  ASSUME NEW s, NEW k, NEW l, KeptFits(s, k),
         l.latest = k.latest, l.restarted = k.restarted, l.alerts = k.alerts
  PROVE  KeptFits(s, l)
BY DEF KeptFits, AlertsFit, EventsFit, AlertsOf

(* Taking the lock with a batch that fits. *)
LEMMA WriteKept ==
  ASSUME KeptType, KeptInv, Keep, NEW c, NEW records, Write(c, records),
         BatchFits(state, records)
  PROVE  KeptType' /\ KeptInv'
<1>1. batch = <<>> /\ batch' = records /\ state' = state
  BY DEF Write, LockFree
<1>2. ~Persist /\ ~Cut
  BY <1>1 DEF Persist, Cut
<1>3. kept' = kept
  BY <1>2, BetweenRecords
<1>4. ~(Len(batch) > 0)
  BY <1>1
<1>5. kept.batches # "begun" /\ WholeFits(state, batch, kept.batches)
  BY <1>4 DEF KeptInv, WholeFits
<1>6. WholeFits(state, records, kept.batches)
  BY <1>5 DEF WholeFits
<1> QED BY <1>1, <1>3, <1>6 DEF KeptInv, KeptType

(* A step that touches neither the ledger nor the batch. *)
LEMMA IdleKept ==
  ASSUME TypeOK, KeptType, KeptInv, Keep, UNCHANGED state, batch' = batch
  PROVE  KeptType' /\ KeptInv'
<1>1. ~Persist
  <2> SUFFICES ASSUME Persist PROVE FALSE
    OBVIOUS
  <2>1. Len(batch') = Len(batch) - 1 /\ 1 \in 1..Len(batch) /\ batch \in Seq(Records)
    BY PersistParts
  <2>2. Len(batch) \in Nat
    BY <2>1
  <2> QED BY <2>1, <2>2
<1>2. ~Cut
  BY DEF Cut
<1>3. kept' = kept
  BY <1>1, <1>2, BetweenRecords
<1> QED BY <1>3 DEF KeptInv, KeptType

(* A batch cut behind its first record is cut for good. *)
LEMMA CutKept ==
  ASSUME KeptType, KeptInv, Keep, Cut, ~Persist
  PROVE  KeptType' /\ KeptInv'
<1>1. batch # <<>> /\ batch' = <<>> /\ state' = state
  BY DEF Cut
<1>2. /\ kept' \in KeptShape /\ kept'.batches = BatchesAfter
      /\ kept'.latest = kept.latest /\ kept'.restarted = kept.restarted
      /\ kept'.alerts = kept.alerts
  BY BetweenRecords
<1>3. /\ kept.batches \in {"whole", "begun", "cut"}
      /\ BatchesAfter = IF kept.batches = "begun" THEN "cut" ELSE kept.batches
  BY DEF BatchesAfter, KeptType, KeptShape
<1>4. WholeFits(state, <<>>, kept'.batches)
  <2>1. kept'.batches # "begun"
    BY <1>2, <1>3
  <2>2. kept'.batches # "cut" => kept.batches # "begun" /\ kept.batches # "cut"
    BY <1>2, <1>3
  <2>3. kept'.batches # "cut" => \A t \in Tasks : ~Outdated(state, t)
    BY <2>2 DEF KeptInv, WholeFits
  <2> QED BY <2>1, <2>3 DEF WholeFits
<1>5. BatchFits(state, <<>>)
  BY DEF BatchFits
<1>6. KeptFits(state, kept')
  BY <1>2, SameKeptFits DEF KeptInv
<1> QED BY <1>1, <1>2, <1>4, <1>5, <1>6 DEF KeptInv, KeptType

(* Every step of every process keeps the invariant. *)
LEMMA NextKept ==
  ASSUME TypeOK, LedgerInv, KeptType, KeptInv, Next, Keep
  PROVE  KeptType' /\ KeptInv'
<1> USE DEF WriteUnseen
<1>1. CASE Produce
  <2>1. ASSUME NEW r \in Runs, CreateRun(r) PROVE KeptType' /\ KeptInv'
    <3>1. BatchFits(state, <<RunCreated(r)>>)
      BY OneRecordFits DEF RunCreated
    <3> QED BY <2>1, <3>1, WriteKept DEF CreateRun
  <2>2. ASSUME NEW t \in Tasks, Enqueue(t) PROVE KeptType' /\ KeptInv'
    <3>1. BatchFits(state, <<TaskEnqueued(t)>>)
      BY OneRecordFits DEF TaskEnqueued
    <3> QED BY <2>2, <3>1, WriteKept DEF Enqueue
  <2> QED BY <1>1, <2>1, <2>2 DEF Produce
<1>2. CASE Execute
  <2> SUFFICES ASSUME NEW t \in Tasks, NEW w \in Workers, NEW at \in Timestamps,
                      \/ StartTask(t, w, at)
                      \/ ClaimNext(t, w, at)
                      \/ LateProgress(t, w, at)
                      \/ \E k \in 1..MaxAttempts :
                           \/ Progress(t, w, k, at)
                           \/ \E outcome \in TerminalStatuses,
                                 verdict \in {"None", "Failed"} :
                                outcome # verdict
                                  /\ Finalize(t, w, k, at, outcome, verdict)
                           \/ \E channel \in Channels : Alert(t, w, k, channel, at)
               PROVE  KeptType' /\ KeptInv'
    BY <1>2 DEF Execute
  <2>1. CASE StartTask(t, w, at)
    <3>1. BatchFits(state, StartRecords(state, t, w, at, InitialEvents))
      BY <2>1, StartBatchFits DEF StartTask, CanStart
    <3> QED BY <2>1, <3>1, WriteKept DEF StartTask
  <2>2. CASE ClaimNext(t, w, at)
    <3>1. BatchFits(state, <<TaskLeased(t, w, at, Never)>>)
      BY <2>2, ClaimBatchFits DEF ClaimNext
    <3> QED BY <2>2, <3>1, WriteKept DEF ClaimNext
  <2>3. BatchFits(state, EventRecords(state, t, w, at, "Running"))
    BY EventBatchFits
  <2>4. CASE LateProgress(t, w, at)
    BY <2>3, <2>4, WriteKept DEF LateProgress
  <2>5. ASSUME NEW k \in 1..MaxAttempts, Progress(t, w, k, at)
        PROVE  KeptType' /\ KeptInv'
    BY <2>3, <2>5, WriteKept DEF Progress
  <2>6. ASSUME NEW k \in 1..MaxAttempts, NEW outcome \in TerminalStatuses,
               NEW verdict \in {"None", "Failed"},
               Finalize(t, w, k, at, outcome, verdict)
        PROVE  KeptType' /\ KeptInv'
    BY <2>6, FinalBatchFits, WriteKept DEF Finalize
  <2>7. ASSUME NEW k \in 1..MaxAttempts, NEW channel \in Channels,
               Alert(t, w, k, channel, at)
        PROVE  KeptType' /\ KeptInv'
    BY <2>7, AlertBatchFits, WriteKept DEF Alert
  <2> QED BY <2>1, <2>2, <2>4, <2>5, <2>6, <2>7
<1>3. CASE Operate
  <2>1. ASSUME NEW at \in Timestamps, NEW w \in Workers, Heartbeat(w, at)
        PROVE  KeptType' /\ KeptInv'
    <3>1. BatchFits(state, <<HeartbeatRecord(w, at)>>)
      BY OneRecordFits DEF HeartbeatRecord
    <3> QED BY <2>1, <3>1, WriteKept DEF Heartbeat
  <2>2. ASSUME NEW at \in Timestamps, NEW t \in Tasks,
               NEW expected \in Workers \cup {NoWorker}, Cancel(t, expected, at)
        PROVE  KeptType' /\ KeptInv'
    BY <2>2, CancelBatchFits, WriteKept DEF Cancel
  <2> QED BY <1>3, <2>1, <2>2 DEF Operate
<1>4. CASE Decide
  <2>1. ASSUME NEW c \in Clients, NEW t \in Tasks, Observe(c, t)
        PROVE  KeptType' /\ KeptInv'
    BY <2>1, IdleKept DEF Observe
  <2>2. ASSUME NEW c \in Clients, NEW at \in Timestamps, Restart(c, at)
        PROVE  KeptType' /\ KeptInv'
    BY <2>2, RestartBatchFits, WriteKept DEF Restart, WriteSeen
  <2>3. ASSUME NEW c \in Clients, NEW at \in Timestamps, MarkStale(c, at)
        PROVE  KeptType' /\ KeptInv'
    BY <2>3, EventBatchFits, WriteKept DEF MarkStale
  <2>4. ASSUME NEW c \in Clients, NEW at \in Timestamps, FailExhausted(c, at)
        PROVE  KeptType' /\ KeptInv'
    BY <2>4, EventBatchFits, WriteKept DEF FailExhausted, WriteSeen
  <2> QED BY <1>4, <2>1, <2>2, <2>3, <2>4 DEF Decide
<1>5. CASE Persist
  BY <1>5, PersistKept
<1>6. CASE Cut
  BY <1>6, PersistKept, CutKept
<1>7. CASE Tick
  BY <1>7, IdleKept DEF Tick
<1> QED BY <1>1, <1>2, <1>3, <1>4, <1>5, <1>6, <1>7 DEF Next

(***************************************************************************)
(* Compaction keeps every invariant.                                       *)
(***************************************************************************)
(* With the lock free and every batch whole, a compaction rebuilds the     *)
(* state.                                                                  *)
LEMMA CompactedIsSame ==
  ASSUME TypeOK, LedgerInv, KeptType, KeptInv, LockFree, kept.batches = "whole"
  PROVE  /\ Replay(Compacted(state)) \in States
         /\ SameButTimes(state, Replay(Compacted(state)))
<1>1. \A t \in Tasks : ~Outdated(state, t)
  BY DEF KeptInv, WholeFits
<1>2. Compactable(state)
  BY <1>1 DEF Compactable, TypeOK, LedgerInv, KeptInv, RunsFit
<1> QED BY <1>2, Rebuilds

(* What the invariants look at is the same after a compaction. *)
SameTasks(s, n) ==
  \A t \in Tasks :
    /\ n.tasks[t].status = s.tasks[t].status
    /\ n.tasks[t].lifecycle_seq = s.tasks[t].lifecycle_seq
    /\ n.tasks[t].leased_to = s.tasks[t].leased_to
    /\ n.tasks[t].leased_at = s.tasks[t].leased_at
    /\ n.tasks[t].lease_deadline = s.tasks[t].lease_deadline
    /\ n.tasks[t].attempts = s.tasks[t].attempts

LEMMA CompactParts ==
  ASSUME TypeOK, LedgerInv, KeptType, KeptInv, Compact
  PROVE  /\ batch = <<>> /\ batch' = <<>> /\ kept.batches = "whole"
         /\ state' \in States /\ SameTasks(state, state')
         /\ state'.runs = state.runs /\ state'.run_status = state.run_status
         /\ state'.heartbeats = state.heartbeats
         /\ state'.latest_seq = state.latest_seq
         /\ state'.latest_payload = state.latest_payload
         /\ state'.receipts = state.receipts /\ state'.alerts = state.alerts
         /\ UNCHANGED <<batch, writer, seen, missed, now, kept>>
<1>1. /\ LockFree /\ kept.batches = "whole" /\ state' = Replay(Compacted(state))
      /\ UNCHANGED <<batch, writer, seen, missed, now, kept>>
  BY DEF Compact
<1>2. state' \in States /\ SameButTimes(state, state')
  BY <1>1, CompactedIsSame
<1> QED BY <1>1, <1>2
  DEF LockFree, SameButTimes, SameRuns, SameBeats, SameLog, SameNotes, Restored, SameTenure,
      SameTasks

LEMMA CompactKeepsType ==
  ASSUME TypeOK, LedgerInv, KeptType, KeptInv, Compact
  PROVE  TypeOK' /\ KeptType'
BY CompactParts DEF TypeOK, KeptType

LEMMA CompactKeepsLedger ==
  ASSUME TypeOK, LedgerInv, ExclusionInv, KeptType, KeptInv, Compact
  PROVE  LedgerInv' /\ ExclusionInv'
<1>1. Fresh(state')
  BY CompactParts DEF LedgerInv, Fresh, SameTasks
<1>2. Fits(state', batch')
  BY CompactParts DEF Fits
<1>3. WorkerExclusive'
  BY CompactParts DEF ExclusionInv, WorkerExclusive, HoldsLease, SameTasks
<1>4. LeaseInFlight'
  BY CompactParts DEF LeaseInFlight
<1> QED BY <1>1, <1>2, <1>3, <1>4 DEF LedgerInv, ExclusionInv

(* Snapshots outlast a compaction: it changes no attempts and no numbers. *)
LEMMA CompactKeepsDecisions ==
  ASSUME TypeOK, LedgerInv, DecisionInv, KeptType, KeptInv, Compact
  PROVE  DecisionInv'
<1>1. /\ SameTasks(state, state') /\ state'.latest_seq = state.latest_seq
      /\ UNCHANGED <<batch, writer, seen, missed>>
  BY CompactParts
<1>2. ASSUME NEW c \in Clients, seen[c] # NoVersion PROVE DecisionFits(c)'
  <2>1. seen[c].task \in Tasks /\ DecisionFits(c)
    BY <1>2, SeenType DEF DecisionInv
  <2>2. /\ state'.tasks[seen[c].task].leased_to = state.tasks[seen[c].task].leased_to
        /\ state'.tasks[seen[c].task].attempts = state.tasks[seen[c].task].attempts
    BY <1>1, <2>1 DEF SameTasks
  <2> QED BY <1>1, <2>1, <2>2 DEF DecisionFits
<1> QED BY <1>1, <1>2 DEF DecisionInv

LEMMA CompactKeepsOutcomes ==
  ASSUME TypeOK, LedgerInv, OutcomeIInv, KeptType, KeptInv, Compact
  PROVE  OutcomeIInv'
<1>1. /\ SameTasks(state, state') /\ state'.latest_seq = state.latest_seq
      /\ state'.latest_payload = state.latest_payload
      /\ state'.receipts = state.receipts /\ state'.alerts = state.alerts
      /\ \A a \in state.alerts : a.task \in Tasks
  BY CompactParts DEF TypeOK, States, Alerts
<1>2. CompletedHasReceipt' /\ CompletedByWorker'
  BY <1>1 DEF OutcomeIInv, OutcomeInv, CompletedHasReceipt, CompletedByWorker, SameTasks
<1>3. ReceiptMeansSettled'
  BY <1>1 DEF OutcomeIInv, OutcomeInv, ReceiptMeansSettled, SameTasks, IsTerminal
<1>4. AlertMeansFailed'
  BY <1>1 DEF OutcomeIInv, OutcomeInv, AlertMeansFailed, SameTasks
<1>5. TerminalShown'
  BY <1>1 DEF OutcomeIInv, TerminalShown, SameTasks, IsTerminal
<1> QED BY <1>2, <1>3, <1>4, <1>5 DEF OutcomeIInv, OutcomeInv

(* And another compaction would do the same. *)
LEMMA CompactKeepsKept ==
  ASSUME TypeOK, LedgerInv, KeptType, KeptInv, Compact
  PROVE  KeptInv'
<1>1. /\ SameTasks(state, state') /\ state'.run_status = state.run_status
      /\ state'.latest_seq = state.latest_seq
      /\ state'.latest_payload = state.latest_payload
      /\ state'.alerts = state.alerts /\ kept' = kept /\ batch' = <<>>
      /\ kept.batches = "whole"
  BY CompactParts
<1>2. RunsFit(state') /\ AlertsFit(state', kept)
  BY <1>1 DEF KeptInv, RunsFit, KeptFits, AlertsFit
<1>3. ASSUME NEW t \in Tasks
      PROVE  TaskFits(state', t) /\ ~Outdated(state', t)
  <2>1. TaskFits(state, t) /\ ~Outdated(state, t)
    BY <1>1 DEF KeptInv, KeptFits, WholeFits
  <2>2. TaskShape(state'.tasks[t])
    BY <1>1, <2>1 DEF TaskFits, TaskShape, SameTasks
  <2>3. Overruled(state', t) => Overruled(state, t)
    BY <1>1 DEF Overruled, IsTerminal, SameTasks
  <2>4. ~Outdated(state', t)
    BY <1>1, <2>1 DEF Outdated, IsTerminal, SameTasks
  <2>5. state'.tasks[t].lifecycle_seq = state.tasks[t].lifecycle_seq
    BY <1>1 DEF SameTasks
  <2> QED BY <2>1, <2>2, <2>3, <2>4, <2>5 DEF TaskFits
<1>4. ASSUME NEW w \in Workers, NEW t \in Tasks PROVE EventsFit(state', kept, w, t)
  <2>1. EventsFit(state, kept, w, t) /\ state'.tasks[t].leased_to = state.tasks[t].leased_to
    BY <1>1 DEF KeptInv, KeptFits, SameTasks
  <2> QED BY <1>1, <2>1 DEF EventsFit
<1>5. WholeFits(state', <<>>, kept.batches)
  BY <1>1, <1>3 DEF WholeFits
<1>6. BatchFits(state', <<>>)
  BY DEF BatchFits
<1> QED BY <1>1, <1>2, <1>3, <1>4, <1>5, <1>6 DEF KeptInv, KeptFits

(* An empty ledger keeps nothing. *)
LEMMA InitKept == Init /\ KeptInit => KeptType /\ KeptInv
<1> SUFFICES ASSUME Init, KeptInit PROVE KeptType /\ KeptInv
  OBVIOUS
<1>1. state = EmptyState /\ batch = <<>>
  BY DEF Init
<1>2. /\ kept.alerts = {} /\ kept.batches = "whole"
      /\ \A w \in Workers, t \in Tasks : kept.latest[w][t] = 0 /\ kept.restarted[w][t] = 0
      /\ kept \in KeptShape
  BY DEF KeptInit, KeptShape
<1>3. /\ \A r \in Runs : state.run_status[r] = "Queued"
      /\ state.alerts = {} /\ \A t \in Tasks : state.tasks[t] = NoTask
      /\ \A w \in Workers, t \in Tasks :
           state.latest_seq[w][t] = 0 /\ state.latest_payload[w][t] = "None"
  BY <1>1 DEF EmptyState
<1>4. AlertsFit(state, kept)
  BY <1>2, <1>3, FS_EmptySet DEF AlertsFit
<1>5. \A t \in Tasks : TaskFits(state, t) /\ ~Outdated(state, t)
  BY <1>3 DEF TaskFits, TaskShape, Overruled, Outdated, NoTask, TerminalStatuses, Never
<1>6. \A w \in Workers, t \in Tasks : EventsFit(state, kept, w, t)
  BY <1>2, <1>3 DEF EventsFit, AlertsOf
<1>7. WholeFits(state, <<>>, "whole") /\ BatchFits(state, <<>>)
  BY <1>5 DEF WholeFits, BatchFits
<1> QED BY <1>1, <1>2, <1>3, <1>4, <1>5, <1>6, <1>7 DEF KeptInv, KeptType, KeptFits, RunsFit

(***************************************************************************)
(* The invariants hold together, compaction included.                      *)
(***************************************************************************)
CompactionInv ==
  /\ TypeOK /\ ExclusionInv /\ LedgerInv /\ DecisionInv /\ OutcomeIInv
  /\ KeptType /\ KeptInv

LEMMA InitDecision == Init => DecisionInv
BY DEF Init, DecisionInv

LEMMA InitCompaction == Init /\ KeptInit => CompactionInv
BY InitType, InitLedger, InitDecision, InitOutcome, InitKept DEF CompactionInv

LEMMA NextCompaction == CompactionInv /\ [CompactingNext]_allVars => CompactionInv'
<1> SUFFICES ASSUME CompactionInv, [CompactingNext]_allVars PROVE CompactionInv'
  OBVIOUS
<1> USE DEF CompactionInv
<1>1. CASE Next /\ Keep
  BY <1>1, NextType, NextExclusion, NextLedger, NextDecision, NextOutcome, NextKept
<1>2. CASE Compact
  BY <1>2, CompactKeepsType, CompactKeepsLedger, CompactKeepsDecisions, CompactKeepsOutcomes,
     CompactKeepsKept
<1>3. CASE UNCHANGED allVars
  <2>1. UNCHANGED vars /\ UNCHANGED kept
    BY <1>3 DEF allVars
  <2>2. TypeOK' /\ ExclusionInv' /\ LedgerInv' /\ DecisionInv' /\ OutcomeIInv'
    BY <2>1, NextType, NextExclusion, NextLedger, NextDecision, NextOutcome
  <2>3. KeptType' /\ KeptInv'
    BY <2>1 DEF vars, KeptType, KeptInv
  <2> QED BY <2>2, <2>3
<1> QED BY <1>1, <1>2, <1>3 DEF CompactingNext

LEMMA CompactingInvariants == CompactingSpec => []CompactionInv
BY InitCompaction, NextCompaction, PTL DEF CompactingSpec

(* For every number of runs, tasks and workers: whenever the write lock is *)
(* free and every batch was written whole, replaying what compact() would  *)
(* write gives the runs, tasks, attempts, lifecycle and event numbers,     *)
(* heartbeats, receipts and alerts that the ledger had, whatever it went   *)
(* through before, earlier compactions included.                           *)
THEOREM CompactionIsSafe == CompactingSpec => []CompactionPreserves
<1>1. CompactionInv => CompactionPreserves
  BY CompactedIsSame, SameIsPreserved DEF CompactionInv, CompactionPreserves, TypeOK
<1> QED BY <1>1, CompactingInvariants, PTL

(***************************************************************************)
(* What the ledger promises, it promises with compaction too.              *)
(***************************************************************************)
(* A client that writes on its snapshot has missed nothing but heartbeats. *)
LEMMA CompactingInforms ==
  ASSUME CompactionInv, [CompactingNext]_allVars, NEW c \in Clients, LockFree, writer' = c
  PROVE  missed[c] \subseteq {"Heartbeat"}
<1>1. missed[c] \subseteq {"Heartbeat", "Task"}
  BY DEF CompactionInv, TypeOK
<1>2. writer = Nobody /\ c # Nobody
  BY NobodyAssumption DEF CompactionInv, DecisionInv, LockFree
<1>3. Next
  BY <1>2 DEF CompactingNext, Compact, allVars, vars
<1>4. seen[c] # NoVersion /\ VersionIs(state, seen[c])
  BY <1>2, <1>3
  DEF Next, Produce, CreateRun, Enqueue, Execute, StartTask, ClaimNext, LateProgress,
      Progress, Finalize, Alert, Operate, Heartbeat, Cancel, Decide, Observe, Restart,
      MarkStale, FailExhausted, Persist, Cut, Tick, WriteUnseen, WriteSeen, Write,
      CanRestart, CanAppendVersioned, LockFree
<1> QED BY <1>1, <1>4, HoldingSnapshotMissesNothing DEF CompactionInv

(* A restart, a stale mark or an exhaustion that was decided on a snapshot *)
(* still loses if something happened to the task since, also when the      *)
(* ledger was compacted in between: a compaction does not make an old      *)
(* version current again.                                                  *)
THEOREM DecisionsOutlastCompaction == CompactingSpec => LateDecisionLoses
<1> DEFINE Informed ==
      \A c \in Clients : LockFree /\ writer' = c => missed[c] \subseteq {"Heartbeat"}
<1>1. CompactionInv /\ [CompactingNext]_allVars => Informed
  BY CompactingInforms
<1>2. CompactionInv /\ [CompactingNext]_allVars => [Informed]_vars
  BY <1>1
<1> QED BY <1>2, CompactingInvariants, PTL DEF CompactingSpec, LateDecisionLoses

(* What the ledger promises in every state, it promises when it is         *)
(* compacted at any time: workers are leased to one task, outcomes agree   *)
(* with receipts and alerts, and late output does not hide them.           *)
THEOREM OutcomesOutlastCompaction ==
  CompactingSpec => [](WorkerExclusive /\ OutcomeInv /\ TerminalShown)
<1>1. CompactionInv => WorkerExclusive /\ OutcomeInv /\ TerminalShown
  BY DEF CompactionInv, ExclusionInv, OutcomeIInv
<1> QED BY <1>1, CompactingInvariants, PTL

(* A compaction is no step of the abstract tasks: no attempt begins, ends  *)
(* or is forgotten by it, and the ledger still implements TaskAttempts.    *)
THEOREM CompactingImplementsTaskAttempts == CompactingSpec => ImplementsTaskAttempts
<1>1. Init => Attempts!Init
  BY DEF Init, EmptyState, NoTask, Attempts!Init
<1>2. CompactionInv /\ [CompactingNext]_allVars => [Attempts!Next]_Attempts!vars
  <2> SUFFICES ASSUME CompactionInv, [CompactingNext]_allVars
               PROVE  [Attempts!Next]_Attempts!vars
    OBVIOUS
  <2> USE DEF CompactionInv
  <2>1. CASE Persist
    BY <2>1, PersistRefines
  <2>2. CASE Next /\ ~Persist
    BY <2>2, OnlyPersistWrites, SameTasksRefines
  <2>3. CASE Compact
    <3>1. SameTasks(state, state')
      BY <2>3, CompactParts
    <3>2. UNCHANGED Attempts!vars
      BY <3>1 DEF SameTasks, Attempts!vars
    <3> QED BY <3>2
  <2>4. CASE UNCHANGED allVars
    BY <2>4, SameTasksRefines DEF allVars, vars
  <2> QED BY <2>1, <2>2, <2>3, <2>4 DEF CompactingNext
<1> QED
  BY <1>1, <1>2, CompactingInvariants, PTL DEF CompactingSpec, ImplementsTaskAttempts, Attempts!Spec

(* Numbering goes on behind a compaction: the next event of a worker on a  *)
(* task has the next number, also when the events before it were dropped.  *)
THEOREM NumbersOutlastCompaction == CompactingSpec => SequenceIsGapless
<1> DEFINE Gapless ==
      \A t \in Tasks, w \in Workers :
        Persist /\ Head(batch).kind \in {"EventAppended", "TaskAttemptFinalized"}
          /\ Head(batch).event.task = t /\ Head(batch).event.worker = w
        => /\ Head(batch).event.seq = state.latest_seq[w][t] + 1
           /\ state'.latest_seq[w][t] = Head(batch).event.seq
<1>1. CompactionInv => Gapless
  BY EventIsLogged DEF CompactionInv
<1>2. Gapless => [Gapless]_vars
  OBVIOUS
<1> QED
  BY <1>1, <1>2, CompactingInvariants, PTL DEF SequenceIsGapless
=============================================================================
