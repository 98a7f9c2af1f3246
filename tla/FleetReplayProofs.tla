------------------------- MODULE FleetReplayProofs --------------------------
(***************************************************************************)
(* FleetReplay, for every bound on lines and events, every page limit and  *)
(* every budget of faults: no silent gap (ReplayInv), nothing sent twice.  *)
(*                                                                         *)
(* IInv has four parts.  FileInv: the events of the file are numbered and  *)
(* have cursors of their own.  StreamInv: what the stream or the client    *)
(* holds is not of the future.  PageInv and Fresh: a page is in the order  *)
(* of the file and nothing of it was sent yet.  ClientInv: who owes no     *)
(* reload knows the first k events, the page goes on from there, and a     *)
(* cursor of the file says that what was compacted is known.               *)
(*                                                                         *)
(* AllEvents is flattened from lines of any number.  That a line more adds *)
(* its events at the end needs an induction: SetInduction states it for a  *)
(* set of numbers, so that no operator is a parameter, and rests on the    *)
(* well-foundedness of < in the library.                                   *)
(***************************************************************************)
EXTENDS FleetReplay, WellFoundedInduction, SequenceTheorems, TLAPS

(* Every nonempty set of naturals has a least element.                      *)
LEMMA LeastNatural ==
  ASSUME NEW S, S \subseteq Nat, S # {} PROVE \E x \in S : \A y \in S : x <= y
<1> DEFINE Less == {p \in Nat \X Nat : p[1] < p[2]}
<1>1. IsWellFoundedOn(Less, Nat)
  BY NatLessThanWellFounded DEF OpToRel
<1> HIDE DEF Less
<1>2. \E x \in S : \A y \in S : <<y, x>> \notin Less
  BY <1>1, WFMin, Zenon
<1>3. ASSUME NEW x \in S, NEW y \in S, <<y, x>> \notin Less
      PROVE  x <= y
  BY <1>3 DEF Less
<1> QED
  BY <1>2, <1>3

(* Induction: a set of naturals with 0 and every successor has them all.    *)
LEMMA SetInduction ==
  ASSUME NEW S, 0 \in S, \A n \in Nat : n \in S => n + 1 \in S
  PROVE  Nat \subseteq S
<1> SUFFICES ASSUME Nat \ S # {} PROVE FALSE
  OBVIOUS
<1>1. PICK x \in Nat \ S : \A y \in Nat \ S : x <= y
  BY LeastNatural
<1>2. x # 0 /\ x - 1 \in Nat /\ x - 1 \in S
  BY <1>1
<1> QED
  BY <1>1, <1>2

(* The partial results of FlattenSeq exist. *)
Flattens(f, seqs, n) ==
  f = [i \in 1..n |-> IF i = 1 THEN seqs[i] ELSE f[i - 1] \o seqs[i]]

(* By induction on the number of parts.                                     *)
LEMMA FlattenExists ==
  ASSUME NEW seqs, NEW n \in Nat, n > 0
  PROVE  \E f : Flattens(f, seqs, n)
<1> DEFINE S == {m \in Nat : \E f : Flattens(f, seqs, m + 1)}
<1>1. 0 \in S
  <2> DEFINE g == [i \in 1..1 |-> seqs[1]]
  <2>1. Flattens(g, seqs, 1)
    BY DEF Flattens
  <2> HIDE DEF g
  <2> QED BY <2>1
<1>2. ASSUME NEW m \in Nat, m \in S PROVE m + 1 \in S
  <2>1. PICK f : Flattens(f, seqs, m + 1)
    BY <1>2
  <2> DEFINE g == [i \in 1..(m + 2) |-> IF i = m + 2 THEN f[m + 1] \o seqs[m + 2] ELSE f[i]]
  <2>2. Flattens(g, seqs, m + 2)
    <3>1. g = [i \in 1..(m + 2) |-> IF i = 1 THEN seqs[i] ELSE g[i - 1] \o seqs[i]]
      <4>1. ASSUME NEW i \in 1..(m + 2)
            PROVE  g[i] = IF i = 1 THEN seqs[i] ELSE g[i - 1] \o seqs[i]
        <5>1. CASE i = m + 2
          <6>1. i # 1 /\ i - 1 = m + 1 /\ m + 1 \in 1..(m + 2) /\ m + 1 # m + 2
            BY <5>1
          <6> QED BY <5>1, <6>1
        <5>2. CASE i # m + 2
          <6>1. i \in 1..(m + 1) /\ i \in 1..(m + 2)
            BY <5>2
          <6>2. g[i] = f[i]
            BY <6>1, <5>2
          <6>3. f[i] = IF i = 1 THEN seqs[i] ELSE f[i - 1] \o seqs[i]
            BY <6>1, <2>1 DEF Flattens
          <6>4. i # 1 => i - 1 \in 1..(m + 2) /\ i - 1 # m + 2
            BY <6>1
          <6>5. i # 1 => g[i - 1] = f[i - 1]
            BY <6>4
          <6> QED BY <6>2, <6>3, <6>5
        <5> QED BY <5>1, <5>2
      <4> HIDE DEF g
      <4>2. g \in [1..(m + 2) -> {g[i] : i \in 1..(m + 2)}]
        BY DEF g
      <4> QED BY <4>1, <4>2
    <3> QED BY <3>1 DEF Flattens
  <2>3. m + 2 = (m + 1) + 1
    OBVIOUS
  <2> HIDE DEF g
  <2> QED BY <2>2, <2>3
<1>3. n - 1 \in S /\ (n - 1) + 1 = n
  <2> HIDE DEF S
  <2> QED BY <1>1, <1>2, SetInduction
<1> QED BY <1>3

(* FlattenSeq is the last of them.                                          *)
LEMMA FlattenIs ==
  ASSUME NEW seqs, Len(seqs) \in Nat, Len(seqs) > 0
  PROVE  \E f : Flattens(f, seqs, Len(seqs)) /\ FlattenSeq(seqs) = f[Len(seqs)]
<1> DEFINE g == CHOOSE f : Flattens(f, seqs, Len(seqs))
<1>1. Flattens(g, seqs, Len(seqs))
  BY FlattenExists
<1>2. g = CHOOSE f : f = [i \in 1..Len(seqs) |-> IF i = 1 THEN seqs[i] ELSE f[i - 1] \o seqs[i]]
  BY DEF Flattens
<1>3. FlattenSeq(seqs) = g[Len(seqs)]
  <2>1. Len(seqs) # 0
    OBVIOUS
  <2> HIDE DEF g
  <2> QED BY <1>2, <2>1, Zenon DEF FlattenSeq
<1> HIDE DEF g
<1> QED BY <1>1, <1>3

(* They are the same for two families of parts that agree. *)
LEMMA FlattenUnique ==
  ASSUME NEW s, NEW t, NEW n, NEW m, NEW f, NEW g,
         n \in Nat, m \in Nat, n <= m, \A i \in 1..n : t[i] = s[i],
         Flattens(f, s, n), Flattens(g, t, m)
  PROVE  \A i \in 1..n : f[i] = g[i]
<1> DEFINE S == {k \in Nat : k + 1 \in 1..n => f[k + 1] = g[k + 1]}
<1>f. \A i \in 1..n : f[i] = IF i = 1 THEN s[i] ELSE f[i - 1] \o s[i]
  BY DEF Flattens
<1>g. \A i \in 1..m : g[i] = IF i = 1 THEN t[i] ELSE g[i - 1] \o t[i]
  BY DEF Flattens
<1>1. 0 \in S
  BY <1>f, <1>g
<1>2. ASSUME NEW k \in Nat, k \in S PROVE k + 1 \in S
  <2> SUFFICES ASSUME k + 2 \in 1..n PROVE f[k + 2] = g[k + 2]
    BY (k + 1) + 1 = k + 2
  <2>1. k + 1 \in 1..n /\ k + 2 # 1 /\ (k + 2) - 1 = k + 1 /\ k + 2 \in 1..m
    OBVIOUS
  <2>2. f[k + 1] = g[k + 1]
    BY <1>2, <2>1
  <2>3. f[k + 2] = f[k + 1] \o s[k + 2]
    BY <1>f, <2>1
  <2>4. g[k + 2] = g[k + 1] \o t[k + 2]
    BY <1>g, <2>1
  <2> QED BY <2>2, <2>3, <2>4
<1>3. Nat \subseteq S
  <2> HIDE DEF S
  <2> QED BY <1>1, <1>2, SetInduction
<1>4. ASSUME NEW i \in 1..n PROVE f[i] = g[i]
  <2>1. i - 1 \in Nat /\ (i - 1) + 1 = i
    OBVIOUS
  <2> QED BY <1>3, <2>1
<1> QED BY <1>4

(* Flattening one part more appends it. *)
LEMMA FlattenAppend ==
  ASSUME NEW s, NEW t, Len(s) \in Nat, Len(s) > 0, Len(t) = Len(s) + 1,
         \A i \in 1..Len(s) : t[i] = s[i]
  PROVE  FlattenSeq(t) = FlattenSeq(s) \o t[Len(t)]
<1>1. PICK f : Flattens(f, s, Len(s)) /\ FlattenSeq(s) = f[Len(s)]
  BY FlattenIs
<1>2. PICK g : Flattens(g, t, Len(t)) /\ FlattenSeq(t) = g[Len(t)]
  BY FlattenIs
<1>3. f[Len(s)] = g[Len(s)]
  <2>1. Flattens(f, s, Len(s)) /\ Flattens(g, t, Len(t)) /\ Len(s) <= Len(t) /\ Len(t) \in Nat
    BY <1>1, <1>2
  <2>2. \A i \in 1..Len(s) : f[i] = g[i]
    <3> DEFINE n == Len(s)
               m == Len(t)
    <3>1. n \in Nat /\ m \in Nat /\ n <= m /\ \A i \in 1..n : t[i] = s[i]
      BY <2>1
    <3>2. Flattens(f, s, n) /\ Flattens(g, t, m)
      BY <2>1
    <3> HIDE DEF n, m
    <3>3. \A i \in 1..n : f[i] = g[i]
      BY <3>1, <3>2, FlattenUnique
    <3> QED BY <3>3 DEF n
  <2> QED BY <2>2
<1>4. g[Len(t)] = g[Len(s)] \o t[Len(t)]
  <2>1. Len(t) \in 1..Len(t) /\ Len(t) # 1 /\ Len(t) - 1 = Len(s)
    OBVIOUS
  <2> QED BY <1>2, <2>1 DEF Flattens
<1> QED BY <1>1, <1>2, <1>3, <1>4

(* One part alone is the result.                                            *)
LEMMA FlattenSingle ==
  ASSUME NEW s, Len(s) = 1
  PROVE  FlattenSeq(s) = s[1]
<1>0. Len(s) \in Nat /\ Len(s) > 0
  OBVIOUS
<1>1. PICK f : Flattens(f, s, Len(s)) /\ FlattenSeq(s) = f[Len(s)]
  BY <1>0, FlattenIs, Zenon
<1>2. f[1] = s[1]
  BY <1>1 DEF Flattens
<1> QED BY <1>1, <1>2

(***************************************************************************)
(* The events of a file, from its lines.                                   *)
(***************************************************************************)
PartOf(line, i, e) ==
  [k \in 1..Len(line.ids) |->
     [id |-> line.ids[k], cursor |-> <<e, i, IF k = 1 THEN "worker" ELSE "receipt">>]]

Parts(ls, e) == [i \in 1..Len(ls) |-> PartOf(ls[i], i, e)]

(* AllEvents is flattened from the parts of the lines, before and after a step. *)
LEMMA EventsAreParts ==
  /\ AllEvents = FlattenSeq(Parts(lines, epoch))
  /\ AllEvents' = FlattenSeq(Parts(lines', epoch'))
BY DEF AllEvents, EventsOf, fleet_runtime_cursor, Parts, PartOf

(* One more line adds its events at the end. *)
LEMMA AppendParts ==
  ASSUME NEW T, NEW ls \in Seq(T), Len(ls) > 0, NEW line \in T, NEW e
  PROVE  FlattenSeq(Parts(Append(ls, line), e))
           = FlattenSeq(Parts(ls, e)) \o PartOf(line, Len(ls) + 1, e)
<1> DEFINE s == Parts(ls, e)
           t == Parts(Append(ls, line), e)
<1>1. Len(Append(ls, line)) = Len(ls) + 1 /\ Len(ls) \in Nat
  OBVIOUS
<1>2. Len(s) = Len(ls) /\ Len(t) = Len(ls) + 1
  BY <1>1 DEF Parts
<1>3. ASSUME NEW i \in 1..Len(ls) PROVE t[i] = s[i]
  BY <1>1 DEF Parts
<1>4. t[Len(ls) + 1] = PartOf(line, Len(ls) + 1, e)
  BY <1>1 DEF Parts
<1> HIDE DEF s, t
<1>5. Len(s) \in Nat /\ Len(s) > 0 /\ Len(t) = Len(s) + 1 /\ \A i \in 1..Len(s) : t[i] = s[i]
  BY <1>1, <1>2, <1>3
<1>6. FlattenSeq(t) = FlattenSeq(s) \o t[Len(t)]
  BY <1>5, FlattenAppend
<1> QED BY <1>6, <1>4, <1>2 DEF s, t

(* What a compaction writes. *)
LineKinds == {"Record", "Finalized", "Torn", "Epoch"}
CompactLines(n) == <<Line("Epoch", <<>>)>> \o [i \in 1..n |-> Line("Record", <<0>>)]
CompactEvents(n, e) == [p \in 1..n |-> [id |-> 0, cursor |-> <<e, p + 1, "worker">>]]

(* The epoch line, then one record for each event that is kept.             *)
LEMMA CompactLinesAre ==
  ASSUME NEW n \in Nat
  PROVE  /\ CompactLines(n) \in Seq([kind : LineKinds, ids : Seq({0})])
         /\ Len(CompactLines(n)) = n + 1
         /\ CompactLines(n + 1) = Append(CompactLines(n), Line("Record", <<0>>))
         /\ CompactLines(n)[1] = Line("Epoch", <<>>)
         /\ \A i \in 2..(n + 1) : CompactLines(n)[i] = Line("Record", <<0>>)
<1> DEFINE R == [kind : LineKinds, ids : Seq({0})]
           r == Line("Record", <<0>>)
           h == Line("Epoch", <<>>)
           q(m) == [i \in 1..m |-> r]
<1>1. r \in R /\ h \in R
  <2>1. <<0>> \in Seq({0}) /\ <<>> \in Seq({0})
    OBVIOUS
  <2> QED BY <2>1 DEF Line, LineKinds
<1> HIDE DEF R, r, h
<1>2. \A m \in Nat : q(m) \in Seq(R) /\ Len(q(m)) = m
  BY <1>1
<1>3. \A m \in Nat : /\ <<h>> \o q(m) \in Seq(R)
                     /\ Len(<<h>> \o q(m)) = m + 1
                     /\ (<<h>> \o q(m))[1] = h
                     /\ \A i \in 2..(m + 1) : (<<h>> \o q(m))[i] = r
  BY <1>1, <1>2
<1>4. <<h>> \o q(n + 1) = Append(<<h>> \o q(n), r)
  <2> DEFINE a == <<h>> \o q(n + 1)
             b == Append(<<h>> \o q(n), r)
  <2>1. a \in Seq(R) /\ Len(a) = n + 2 /\ a[1] = h /\ \A i \in 2..(n + 2) : a[i] = r
    BY <1>3
  <2>2. b \in Seq(R) /\ Len(b) = n + 2 /\ b[1] = h /\ \A i \in 2..(n + 2) : b[i] = r
    BY <1>3, <1>1
  <2> HIDE DEF a, b
  <2>3. \A i \in 1..(n + 2) : a[i] = b[i]
    BY <2>1, <2>2
  <2>4. a = b
    BY <2>1, <2>2, <2>3
  <2> QED BY <2>4 DEF a, b
<1>5. \A m : CompactLines(m) = <<h>> \o q(m)
  BY DEF CompactLines, r, h
<1> HIDE DEF q
<1>6. n + 1 \in Nat
  OBVIOUS
<1> QED BY <1>3, <1>4, <1>5 DEF R, r, h

(* The events of these lines, by induction on their number.                 *)
LEMMA CompactParts ==
  ASSUME NEW n \in Nat, NEW e
  PROVE  FlattenSeq(Parts(CompactLines(n), e)) = CompactEvents(n, e)
<1> DEFINE S == {m \in Nat : FlattenSeq(Parts(CompactLines(m), e)) = CompactEvents(m, e)}
<1>1. 0 \in S
  <2>1. Len(CompactLines(0)) = 1 /\ CompactLines(0)[1].ids = <<>>
    <3>1. 0 \in Nat /\ 0 + 1 = 1
      OBVIOUS
    <3>2. Len(CompactLines(0)) = 1 /\ CompactLines(0)[1] = Line("Epoch", <<>>)
      BY <3>1, CompactLinesAre
    <3>3. Line("Epoch", <<>>).ids = <<>>
      BY DEF Line
    <3> QED BY <3>2, <3>3
  <2>2. Len(Parts(CompactLines(0), e)) = 1
    BY <2>1 DEF Parts
  <2>3. Parts(CompactLines(0), e)[1] = <<>>
    BY <2>1 DEF Parts, PartOf
  <2>4. CompactEvents(0, e) = <<>>
    BY DEF CompactEvents
  <2> QED BY <2>2, <2>3, <2>4, FlattenSingle
<1>2. ASSUME NEW m \in Nat, m \in S PROVE m + 1 \in S
  <2> DEFINE r == Line("Record", <<0>>)
             T == [kind : LineKinds, ids : Seq({0})]
  <2>1. FlattenSeq(Parts(CompactLines(m), e)) = CompactEvents(m, e)
    BY <1>2
  <2>2. r \in T /\ r.ids = <<0>>
    <3>1. <<0>> \in Seq({0})
      OBVIOUS
    <3> QED BY <3>1 DEF Line, LineKinds
  <2>3. /\ CompactLines(m) \in Seq(T) /\ Len(CompactLines(m)) = m + 1
        /\ CompactLines(m + 1) = Append(CompactLines(m), r)
    BY CompactLinesAre
  <2> HIDE DEF r, T
  <2>4. FlattenSeq(Parts(CompactLines(m + 1), e)) = CompactEvents(m, e) \o PartOf(r, m + 2, e)
    <3>1. Len(CompactLines(m)) > 0 /\ Len(CompactLines(m)) + 1 = m + 2
      BY <2>3
    <3>2. FlattenSeq(Parts(Append(CompactLines(m), r), e))
            = FlattenSeq(Parts(CompactLines(m), e)) \o PartOf(r, Len(CompactLines(m)) + 1, e)
      BY <2>2, <2>3, <3>1, AppendParts
    <3> QED BY <2>1, <2>3, <3>1, <3>2
  <2> DEFINE w == [id |-> 0, cursor |-> <<e, m + 2, "worker">>]
  <2>5. PartOf(r, m + 2, e) = <<w>>
    BY <2>2 DEF PartOf
  <2> DEFINE V(x) == [id |-> 0, cursor |-> <<e, x + 1, "worker">>]
             f == [p \in 1..m |-> V(p)]
             g == [p \in 1..(m + 1) |-> V(p)]
  <2>6. CompactEvents(m, e) = f /\ CompactEvents(m + 1, e) = g
    BY DEF CompactEvents
  <2>7. w = V(m + 1)
    OBVIOUS
  <2> HIDE DEF V, w
  <2>8. f \o <<w>> = g
    <3> DEFINE U == {V(p) : p \in 1..(m + 1)}
    <3>1. f \in Seq(U) /\ Len(f) = m /\ g \in Seq(U) /\ Len(g) = m + 1 /\ w \in U
      BY <2>7
    <3>2. /\ f \o <<w>> \in Seq(U) /\ Len(f \o <<w>>) = m + 1
          /\ \A i \in 1..m : (f \o <<w>>)[i] = f[i]
          /\ (f \o <<w>>)[m + 1] = w
      <4> HIDE DEF f, U
      <4> QED BY <3>1
    <3>3. \A i \in 1..(m + 1) : (f \o <<w>>)[i] = g[i]
      BY <3>2, <2>7
    <3> DEFINE a == f \o <<w>>
    <3>4. a \in Seq(U) /\ Len(a) = m + 1 /\ \A i \in 1..(m + 1) : a[i] = g[i]
      BY <3>2, <3>3
    <3> HIDE DEF f, g, U, a
    <3>5. a = g
      BY <3>1, <3>4
    <3> QED BY <3>5 DEF a
  <2> HIDE DEF f, g
  <2>9. FlattenSeq(Parts(CompactLines(m + 1), e)) = CompactEvents(m + 1, e)
    BY <2>4, <2>5, <2>6, <2>8
  <2> QED BY <2>9
<1>3. n \in S
  <2> HIDE DEF S
  <2> QED BY <1>1, <1>2, SetInduction
<1> QED BY <1>3

(* Concatenation and its elements. *)
LEMMA ConcatIs ==
  ASSUME NEW T, NEW a, NEW b, NEW c, a \in Seq(T), b \in Seq(T), c = a \o b
  PROVE  /\ c \in Seq(T) /\ Len(c) = Len(a) + Len(b)
         /\ \A p \in 1..Len(a) : c[p] = a[p]
         /\ \A p \in (Len(a) + 1)..Len(c) : c[p] = b[p - Len(a)] /\ p - Len(a) \in 1..Len(b)
OBVIOUS

(* The elements of a sequence.                                              *)
LEMMA ElementIs ==
  ASSUME NEW T, NEW s, s \in Seq(T)
  PROVE  /\ Len(s) \in Nat
         /\ \A i \in 1..Len(s) : s[i] \in T
OBVIOUS

(* A function on an interval from 1 is a sequence.                          *)
LEMMA FunctionIsSeq ==
  ASSUME NEW U, NEW m, NEW b, m \in Nat, b \in [1..m -> U]
  PROVE  b \in Seq(U) /\ Len(b) = m
OBVIOUS

(* A sequence over a set is one over a larger set.                          *)
LEMMA SeqGrows ==
  ASSUME NEW S, NEW T, S \subseteq T PROVE Seq(S) \subseteq Seq(T)
<1> SUFFICES ASSUME NEW s \in Seq(S) PROVE s \in Seq(T)
  OBVIOUS
<1>1. s \in [1..Len(s) -> S] /\ Len(s) \in Nat
  OBVIOUS
<1>2. \A i \in 1..Len(s) : s[i] \in T
  BY <1>1
<1>3. s \in [1..Len(s) -> T]
  BY <1>1, <1>2
<1> QED BY <1>1, <1>3

(***************************************************************************)
(* The inductive invariant.  What the file holds: its events in order, the *)
(* compacted ones first, the others numbered up to `total`, and a cursor   *)
(* for each that no other event has.                                       *)
(***************************************************************************)
Kinds == {"worker", "receipt"}
Cursor == Nat \X Nat \X Kinds
Event == [id : Nat, cursor : Cursor]

(* The number the event at p has unless a compaction wrote it. *)
Numeral(E, p) == total - Len(E) + p

LinesOK ==
  /\ lines \in Seq([kind : LineKinds, ids : Seq(0..total)])
  /\ \A i \in 1..Len(lines) : Len(lines[i].ids) <= 2
  /\ epoch \in Nat /\ total \in Nat

Numbered(E) ==
  /\ \A p \in 1..Len(E) : E[p].id = 0 \/ E[p].id = Numeral(E, p)
  /\ \A p, q \in 1..Len(E) : p < q /\ E[p].id # 0 => E[q].id # 0
  /\ HistoryCompacted \/ (E[1].id # 0 /\ total = Len(E))

Marked(E) ==
  /\ \A p \in 1..Len(E) : E[p].cursor[1] = epoch /\ E[p].cursor[2] <= Len(lines)
  /\ \A p, q \in 1..Len(E) : E[p].cursor = E[q].cursor => p = q

FileInv ==
  /\ LinesOK
  /\ AllEvents \in Seq(Event) /\ AllEvents # <<>>
  /\ Numbered(AllEvents)
  /\ Marked(AllEvents)

(* A cursor the stream or the client holds is none that is still to come.  *)
Given(cursor) ==
  /\ cursor \in Cursor
  /\ cursor[1] < epoch \/ (cursor[1] = epoch /\ cursor[2] <= Len(lines))

HeldCursors == {page[i].cursor : i \in 1..Len(page)} \cup ({after} \ {NoCursor})

(* What is still to be read after a cursor of the file was not sent yet.   *)
Fresh(E) ==
  \A p \in 1..Len(E) : E[p].cursor \in HeldCursors =>
    \A q \in (p + 1)..Len(E) : E[q].id = 0 \/ \A n \in sent : n < E[q].id

(* One event before another: both compacted, or numbered in this order.    *)
Precedes(v, w) == (v.id = 0 /\ w.id = 0) \/ v.id < w.id

PageInv(E) ==
  /\ page \in Seq(Event) /\ Len(page) <= Limit
  /\ \A i \in 1..Len(page) : page[i].id <= total
  /\ \A i, j \in 1..Len(page) : i < j => Precedes(page[i], page[j])
  /\ \A i \in 1..Len(page) : page[i].id = 0 \/ \A n \in sent : n < page[i].id
  /\ \A i \in 1..Len(page), p \in 1..Len(E) :
       page[i].cursor = E[p].cursor => page[i].id = E[p].id

StreamInv ==
  /\ {live, notice, owed} \subseteq BOOLEAN
  /\ ~live => page = <<>>
  /\ notice => live /\ after = NoCursor
  /\ live /\ page = <<>> => after # NoCursor
  /\ \A cursor \in HeldCursors : Given(cursor)
  /\ sent \subseteq 1..total

(* A client that owes no reload knows the first k events.  What the page    *)
(* holds comes next, and a cursor of the file it holds says that it knows   *)
(* what the compaction kept.                                               *)
KnowsFirst(E, k) ==
  /\ known = 1..k
  /\ ~notice =>
       /\ \A i \in 1..Len(page) :
            page[i].id <= k + 1 \/ (i > 1 /\ page[i].id = page[i - 1].id + 1)
       /\ \A p \in 1..Len(E) : E[p].cursor \in HeldCursors =>
            \A q \in 1..Len(E) : E[q].id = 0 => Numeral(E, q) <= k
       /\ \A p \in 1..Len(E) : E[p].cursor = after => E[p].id <= k

ClientInv(E) ==
  /\ known \subseteq 1..total
  /\ ~owed => \E k \in 0..total : KnowsFirst(E, k)

IInv ==
  /\ FileInv
  /\ StreamInv
  /\ PageInv(AllEvents)
  /\ Fresh(AllEvents)
  /\ ClientInv(AllEvents)

(***************************************************************************)
(* The file.                                                               *)
(***************************************************************************)
LEMMA PartIs ==
  ASSUME NEW line, NEW i, NEW e, i \in Nat, e \in Nat,
         line.ids \in Seq(Nat), Len(line.ids) <= 2
  PROVE  /\ PartOf(line, i, e) \in Seq(Event)
         /\ Len(PartOf(line, i, e)) = Len(line.ids)
         /\ \A k \in 1..Len(line.ids) :
              /\ PartOf(line, i, e)[k].id = line.ids[k]
              /\ PartOf(line, i, e)[k].cursor[1] = e
              /\ PartOf(line, i, e)[k].cursor[2] = i
              /\ PartOf(line, i, e)[k].cursor[3] = IF k = 1 THEN "worker" ELSE "receipt"
<1> DEFINE V(k) == [id |-> line.ids[k], cursor |-> <<e, i, IF k = 1 THEN "worker" ELSE "receipt">>]
<1>1. ASSUME NEW k \in 1..Len(line.ids) PROVE V(k) \in Event
  BY <1>1 DEF Event, Cursor, Kinds
<1>2. PartOf(line, i, e) = [k \in 1..Len(line.ids) |-> V(k)]
  BY DEF PartOf
<1>3. \A k \in 1..Len(line.ids) : /\ V(k).id = line.ids[k]
                                 /\ V(k).cursor[1] = e
                                 /\ V(k).cursor[2] = i
                                 /\ V(k).cursor[3] = IF k = 1 THEN "worker" ELSE "receipt"
  OBVIOUS
<1> HIDE DEF V
<1> QED BY <1>1, <1>2, <1>3

(* The events of a file to which P is appended: P's are numbered after all  *)
(* there were, and marked with the next line.                              *)
Appendable(E, P, F, T, m, a, e) ==
  /\ E \in Seq(Event) /\ P \in Seq(Event) /\ F = E \o P /\ Len(E) > 0
  /\ T \in Nat /\ m = Len(P) /\ m <= 2 /\ a \in Nat /\ e \in Nat
  /\ \A p \in 1..Len(E) : E[p].id = 0 \/ E[p].id = T - Len(E) + p
  /\ \A p, q \in 1..Len(E) : p < q /\ E[p].id # 0 => E[q].id # 0
  /\ \A p \in 1..Len(E) : E[p].cursor[1] = e /\ E[p].cursor[2] <= a
  /\ \A p, q \in 1..Len(E) : E[p].cursor = E[q].cursor => p = q
  /\ \A k \in 1..m : /\ P[k].id = T + k
                     /\ P[k].cursor[1] = e
                     /\ P[k].cursor[2] = a + 1
                     /\ P[k].cursor[3] = IF k = 1 THEN "worker" ELSE "receipt"

Appended(E, F, T, m, a, e) ==
  /\ F \in Seq(Event) /\ Len(F) = Len(E) + m /\ Len(F) > 0
  /\ \A p \in 1..Len(E) : F[p] = E[p]
  /\ \A p \in (Len(E) + 1)..Len(F) :
       F[p].id = T + (p - Len(E)) /\ F[p].cursor[2] = a + 1
  /\ \A p \in 1..Len(F) : F[p].id = 0 \/ F[p].id = T + m - Len(F) + p
  /\ \A p, q \in 1..Len(F) : p < q /\ F[p].id # 0 => F[q].id # 0
  /\ \A p \in 1..Len(F) : F[p].cursor[1] = e /\ F[p].cursor[2] <= a + 1
  /\ \A p, q \in 1..Len(F) : F[p].cursor = F[q].cursor => p = q

(* What was so of E is so of E with P behind it.                            *)
LEMMA AppendNumbered ==
  ASSUME NEW E, NEW P, NEW F, NEW T, NEW m, NEW a, NEW e, Appendable(E, P, F, T, m, a, e)
  PROVE  Appended(E, F, T, m, a, e)
<1> DEFINE n == Len(E)
<1>1. /\ F \in Seq(Event) /\ Len(F) = n + m
      /\ \A p \in 1..n : F[p] = E[p]
      /\ \A p \in (n + 1)..Len(F) : F[p] = P[p - n] /\ p - n \in 1..m
  BY ConcatIs DEF Appendable
<1>0. T \in Nat /\ m \in Nat /\ m <= 2 /\ a \in Nat /\ e \in Nat
  BY ElementIs DEF Appendable
<1>2. \A p \in 1..n : E[p].id \in Nat /\ E[p].cursor[2] \in Nat
  <2>1. \A p \in 1..n : E[p] \in Event
    BY ElementIs DEF Appendable
  <2> QED BY <2>1 DEF Event, Cursor
<1>3. n \in Nat /\ m \in Nat /\ n > 0
  BY ElementIs DEF Appendable
<1>4. \A p \in (n + 1)..(n + m) : /\ F[p].id = T + (p - n)
                                  /\ F[p].cursor[1] = e
                                  /\ F[p].cursor[2] = a + 1
                                  /\ F[p].cursor[3] = IF p - n = 1 THEN "worker" ELSE "receipt"
  BY <1>0, <1>1, <1>3 DEF Appendable
<1>5. /\ \A p \in 1..n : E[p].id = 0 \/ E[p].id = T - n + p
      /\ \A p, q \in 1..n : p < q /\ E[p].id # 0 => E[q].id # 0
  BY DEF Appendable
<1>6. /\ \A p \in 1..n : E[p].cursor[1] = e /\ E[p].cursor[2] <= a
      /\ \A p, q \in 1..n : E[p].cursor = E[q].cursor => p = q
  BY DEF Appendable
<1>7. \A p \in 1..(n + m) : p \in 1..n \/ p \in (n + 1)..(n + m)
  BY <1>3
<1> HIDE DEF n
<1>8. \A p \in 1..(n + m) : F[p].id = 0 \/ F[p].id = T + m - (n + m) + p
  <2> TAKE p \in 1..(n + m)
  <2>1. CASE p \in 1..n
    <3>1. F[p].id = 0 \/ F[p].id = T - n + p
      BY <2>1, <1>1, <1>5
    <3> QED BY <3>1, <2>1, <1>0, <1>3
  <2>2. CASE p \in (n + 1)..(n + m)
    BY <2>2, <1>0, <1>3, <1>4
  <2> QED BY <2>1, <2>2, <1>7
<1>9. ASSUME NEW p \in 1..(n + m), NEW q \in 1..(n + m), p < q, F[p].id # 0 PROVE F[q].id # 0
  <2>1. CASE q \in (n + 1)..(n + m)
    <3>1. F[q].id = T + (q - n)
      BY <2>1, <1>4
    <3> QED BY <3>1, <2>1, <1>0, <1>3
  <2>2. CASE q \in 1..n
    <3>1. p \in 1..n
      BY <2>2, <1>9, <1>3
    <3>2. F[p] = E[p] /\ F[q] = E[q]
      BY <3>1, <2>2, <1>1
    <3>3. E[p].id # 0
      BY <3>2, <1>9
    <3>4. E[q].id # 0
      BY <3>1, <2>2, <3>3, <1>5, <1>9
    <3> QED BY <3>2, <3>4
  <2> QED BY <2>1, <2>2, <1>7
<1>10. \A p \in 1..(n + m) : F[p].cursor[1] = e /\ F[p].cursor[2] <= a + 1
  <2> TAKE p \in 1..(n + m)
  <2>1. CASE p \in 1..n
    <3>1. F[p] = E[p] /\ E[p].cursor[1] = e /\ E[p].cursor[2] <= a /\ E[p].cursor[2] \in Nat
      BY <2>1, <1>1, <1>2, <1>6
    <3> QED BY <3>1, <1>0
  <2>2. CASE p \in (n + 1)..(n + m)
    <3>1. F[p].cursor[1] = e /\ F[p].cursor[2] = a + 1
      BY <2>2, <1>4
    <3> QED BY <3>1, <1>0
  <2> QED BY <2>1, <2>2, <1>7
<1>11. ASSUME NEW p \in 1..(n + m), NEW q \in 1..(n + m), F[p].cursor = F[q].cursor PROVE p = q
  <2>1. CASE p \in 1..n /\ q \in 1..n
    BY <2>1, <1>11, <1>1, <1>6
  <2>2. CASE p \in 1..n /\ q \in (n + 1)..(n + m)
    <3>1. F[p].cursor[2] <= a /\ F[p].cursor[2] \in Nat
      BY <2>2, <1>0, <1>1, <1>2, <1>3, <1>6
    <3>2. F[q].cursor[2] = a + 1
      BY <2>2, <1>4
    <3>3. F[p].cursor[2] = F[q].cursor[2]
      BY <1>11
    <3>4. a + 1 <= a
      BY <3>1, <3>2, <3>3
    <3> QED BY <3>4, <1>0
  <2>3. CASE q \in 1..n /\ p \in (n + 1)..(n + m)
    <3>1. F[q].cursor[2] <= a /\ F[q].cursor[2] \in Nat
      BY <2>3, <1>0, <1>1, <1>2, <1>3, <1>6
    <3>2. F[p].cursor[2] = a + 1
      BY <2>3, <1>4
    <3>3. F[p].cursor[2] = F[q].cursor[2]
      BY <1>11
    <3>4. a + 1 <= a
      BY <3>1, <3>2, <3>3
    <3> QED BY <3>4, <1>0
  <2>4. CASE p \in (n + 1)..(n + m) /\ q \in (n + 1)..(n + m)
    <3>1. p - n = 1 <=> q - n = 1
      BY <2>4, <1>11, <1>4
    <3> QED BY <3>1, <2>4, <1>0, <1>3
  <2> QED BY <2>1, <2>2, <2>3, <2>4, <1>7
<1> QED BY <1>0, <1>1, <1>3, <1>4, <1>8, <1>9, <1>10, <1>11 DEF n, Appended

(* An appended line: the new events follow, with the next numbers and cursors. *)
LEMMA FileAppend ==
  ASSUME FileInv, NEW line, line \in [kind : LineKinds \ {"Epoch"}, ids : Seq(Nat)],
         Len(line.ids) <= 2, \A j \in 1..Len(line.ids) : line.ids[j] = total + j,
         AppendLine(line)
  PROVE  /\ FileInv'
         /\ Len(AllEvents') = Len(AllEvents) + Len(line.ids)
         /\ \A p \in 1..Len(AllEvents) : AllEvents'[p] = AllEvents[p]
         /\ \A p \in (Len(AllEvents) + 1)..Len(AllEvents') :
              /\ AllEvents'[p].id = total + (p - Len(AllEvents))
              /\ AllEvents'[p].cursor[2] = Len(lines) + 1
<1> DEFINE E == AllEvents
           F == AllEvents'
           P == PartOf(line, Len(lines) + 1, epoch)
           m == Len(line.ids)
           R == [kind : LineKinds, ids : Seq(0..total)]
           Q == [kind : LineKinds, ids : Seq(0..(total + m))]
<1>0. lines' = Append(lines, line) /\ total' = total + m /\ epoch' = epoch
  BY DEF AppendLine
<1>1. /\ lines \in Seq(R) /\ Len(lines) \in Nat /\ m \in Nat
      /\ total \in Nat /\ epoch \in Nat /\ E \in Seq(Event) /\ E # <<>>
      /\ Len(E) \in Nat /\ Len(E) > 0
      /\ \A i \in 1..Len(lines) : Len(lines[i].ids) <= 2
  BY DEF FileInv, LinesOK
<1>2. Len(lines) > 0
  <2> SUFFICES ASSUME Len(lines) = 0 PROVE FALSE
    BY <1>1
  <2>1. E = <<>>
    <3> DEFINE s == Parts(lines, epoch)
    <3>1. Len(s) = 0 /\ s = <<>>
      BY DEF Parts
    <3>2. FlattenSeq(s) = s
      <4> HIDE DEF s
      <4> QED BY <3>1, Zenon DEF FlattenSeq
    <3> QED BY <3>1, <3>2, EventsAreParts
  <2> QED BY <2>1, <1>1
<1>3. line.ids \in Seq(0..(total + m))
  <2> DEFINE b == line.ids
  <2>1. b \in Seq(Nat) /\ Len(b) = m /\ \A j \in 1..m : b[j] = total + j
    OBVIOUS
  <2> HIDE DEF b, m
  <2> DEFINE U == 0..(total + m)
  <2>2. b \in [1..m -> U]
    <3>1. \A j \in 1..m : b[j] \in 0..(total + m)
      BY <1>1, <2>1
    <3>2. b \in [1..m -> Nat]
      BY <2>1, <1>1
    <3> QED BY <3>1, <3>2
  <2>3. b \in Seq(U)
    <3> HIDE DEF U, m
    <3>1. m \in Nat
      BY <1>1
    <3> QED BY <3>1, <2>2, FunctionIsSeq
  <2> QED BY <2>3 DEF b, U
<1>4. line \in Q /\ lines \in Seq(Q)
  <2>1. line \in Q
    <3> DEFINE a == line.kind
               b == line.ids
    <3>1. line = [kind |-> a, ids |-> b] /\ a \in LineKinds
      OBVIOUS
    <3>2. b \in Seq(0..(total + m))
      BY <1>3
    <3> HIDE DEF a, b, m
    <3> QED BY <3>1, <3>2
  <2>2. Seq(0..total) \subseteq Seq(0..(total + m))
    <3>1. 0..total \subseteq 0..(total + m)
      BY <1>1
    <3> QED BY <3>1, SeqGrows
  <2>3. R \subseteq Q
    BY <2>2
  <2>4. lines \in Seq(Q)
    <3> HIDE DEF R, Q
    <3> QED BY <2>3, <1>1, SeqGrows
  <2> QED BY <2>1, <2>4
<1>5. F = E \o P
  <2> HIDE DEF Q
  <2>1. F = FlattenSeq(Parts(Append(lines, line), epoch)) /\ E = FlattenSeq(Parts(lines, epoch))
    BY <1>0, EventsAreParts
  <2> QED BY <2>1, <1>4, <1>2, AppendParts
<1>6. /\ P \in Seq(Event) /\ Len(P) = m
      /\ \A k \in 1..m : /\ P[k].id = total + k
                         /\ P[k].cursor[1] = epoch
                         /\ P[k].cursor[2] = Len(lines) + 1
                         /\ P[k].cursor[3] = IF k = 1 THEN "worker" ELSE "receipt"
  <2> DEFINE n == Len(lines) + 1
  <2>1. n \in Nat
    BY <1>1
  <2> HIDE DEF n
  <2>2. /\ PartOf(line, n, epoch) \in Seq(Event)
        /\ Len(PartOf(line, n, epoch)) = Len(line.ids)
        /\ \A k \in 1..Len(line.ids) :
              /\ PartOf(line, n, epoch)[k].id = line.ids[k]
              /\ PartOf(line, n, epoch)[k].cursor[1] = epoch
              /\ PartOf(line, n, epoch)[k].cursor[2] = n
              /\ PartOf(line, n, epoch)[k].cursor[3] = IF k = 1 THEN "worker" ELSE "receipt"
    <3> HIDE DEF R, Q, m, E, F, P
    <3>1. epoch \in Nat /\ line.ids \in Seq(Nat) /\ Len(line.ids) <= 2
      BY <1>1
    <3> QED BY <2>1, <3>1, PartIs
  <2> QED BY <2>2 DEF n
<1>7. /\ \A p \in 1..Len(E) : E[p].id = 0 \/ E[p].id = total - Len(E) + p
      /\ \A p, q \in 1..Len(E) : p < q /\ E[p].id # 0 => E[q].id # 0
      /\ \A p \in 1..Len(E) : E[p].cursor[1] = epoch /\ E[p].cursor[2] <= Len(lines)
      /\ \A p, q \in 1..Len(E) : E[p].cursor = E[q].cursor => p = q
      /\ HistoryCompacted \/ (E[1].id # 0 /\ total = Len(E))
  BY DEF FileInv, Numbered, Numeral, Marked
<1>7a. Appendable(E, P, F, total, m, Len(lines), epoch)
  <2> DEFINE a == Len(lines)
  <2>1. a \in Nat /\ m <= 2 /\ m = Len(P)
    BY <1>1, <1>6
  <2>2. \A k \in 1..m : /\ P[k].id = total + k
                        /\ P[k].cursor[1] = epoch
                        /\ P[k].cursor[2] = a + 1
                        /\ P[k].cursor[3] = IF k = 1 THEN "worker" ELSE "receipt"
    BY <1>6
  <2> HIDE DEF m, E, F, P
  <2> QED BY <2>1, <2>2, <1>1, <1>5, <1>6, <1>7 DEF Appendable
<1>8a. Appended(E, F, total, m, Len(lines), epoch)
  <2> HIDE DEF m, E, F, P
  <2> QED BY <1>7a, AppendNumbered
<1>8. /\ F \in Seq(Event) /\ Len(F) = Len(E) + m /\ Len(F) > 0
      /\ \A p \in 1..Len(E) : F[p] = E[p]
      /\ \A p \in (Len(E) + 1)..Len(F) :
           F[p].id = total + (p - Len(E)) /\ F[p].cursor[2] = Len(lines) + 1
      /\ \A p \in 1..Len(F) : F[p].id = 0 \/ F[p].id = total + m - Len(F) + p
      /\ \A p, q \in 1..Len(F) : p < q /\ F[p].id # 0 => F[q].id # 0
      /\ \A p \in 1..Len(F) : F[p].cursor[1] = epoch /\ F[p].cursor[2] <= Len(lines) + 1
      /\ \A p, q \in 1..Len(F) : F[p].cursor = F[q].cursor => p = q
  <2> HIDE DEF m, E, F, P
  <2> QED BY <1>8a DEF Appended
<1>9. LinesOK'
  <2>1. lines' \in Seq(Q)
    <3> HIDE DEF Q
    <3> QED BY <1>0, <1>4
  <2>2. \A i \in 1..Len(lines') : Len(lines'[i].ids) <= 2
    <3>1. \A i \in 1..Len(lines') : \/ i \in 1..Len(lines) /\ lines'[i] = lines[i]
                                    \/ lines'[i] = line
      <4> HIDE DEF Q
      <4> QED BY <1>0, <1>4
    <3> QED BY <3>1, <1>1
  <2> QED BY <2>1, <2>2, <1>0, <1>1 DEF LinesOK
<1>10. HistoryCompacted' <=> HistoryCompacted
  <2> HIDE DEF Q
  <2>1. /\ Len(lines') = Len(lines) + 1 /\ lines'[Len(lines) + 1] = line
        /\ \A i \in 1..Len(lines) : lines'[i] = lines[i]
    BY <1>0, <1>4
  <2>2. \A i \in 1..(Len(lines) + 1) : i \in 1..Len(lines) \/ i = Len(lines) + 1
    BY <1>1
  <2>3. 1..Len(lines) \subseteq 1..(Len(lines) + 1)
    BY <1>1
  <2> QED BY <2>1, <2>2, <2>3 DEF HistoryCompacted
<1>11. Len(lines') = Len(lines) + 1
  <2> HIDE DEF Q
  <2> QED BY <1>0, <1>4
<1>12. Numbered(AllEvents)'
  <2>1. /\ \A p \in 1..Len(F) : F[p].id = 0 \/ F[p].id = total' - Len(F) + p
        /\ HistoryCompacted' \/ (F[1].id # 0 /\ total' = Len(F))
    <3> HIDE DEF E, F, P, m
    <3>1. \A p \in 1..Len(F) : F[p].id = 0 \/ F[p].id = total' - Len(F) + p
      <4>1. Len(F) \in Nat /\ total \in Nat /\ m \in Nat
        BY <1>1, <1>8
      <4> QED BY <4>1, <1>0, <1>8
    <3>2. HistoryCompacted' \/ (F[1].id # 0 /\ total' = Len(F))
      BY <1>0, <1>1, <1>7, <1>8, <1>10, 1 \in 1..Len(E)
    <3> QED BY <3>1, <3>2
  <2> QED BY <2>1, <1>8 DEF Numbered, Numeral
<1>13. Marked(AllEvents)'
  <2>1. \A p \in 1..Len(F) : F[p].cursor[1] = epoch' /\ F[p].cursor[2] <= Len(lines')
    <3> HIDE DEF E, F, P, m
    <3> QED BY <1>0, <1>8, <1>11
  <2> QED BY <2>1, <1>8 DEF Marked
<1>14. F # <<>>
  <2> HIDE DEF E, F, P, m
  <2> QED BY <1>8
<1> QED BY <1>8, <1>9, <1>12, <1>13, <1>14 DEF FileInv

(* The file is not touched.                                                 *)
LEMMA FileSame ==
  ASSUME FileInv, UNCHANGED <<lines, epoch, total>>
  PROVE  FileInv' /\ AllEvents' = AllEvents
<1>1. AllEvents' = AllEvents
  BY EventsAreParts
<1>2. HistoryCompacted' <=> HistoryCompacted
  BY DEF HistoryCompacted
<1>3. LinesOK'
  BY DEF FileInv, LinesOK
<1>4. Numbered(AllEvents)'
  BY <1>1, <1>2 DEF FileInv, Numbered, Numeral
<1>5. Marked(AllEvents)'
  BY <1>1 DEF FileInv, Marked
<1> QED BY <1>1, <1>3, <1>4, <1>5 DEF FileInv

(* A compacted file: every event is of the new epoch and without a number.  *)
LEMMA FileCompact ==
  ASSUME FileInv, Compact
  PROVE  /\ FileInv'
         /\ \A p \in 1..Len(AllEvents') :
              AllEvents'[p].id = 0 /\ AllEvents'[p].cursor[1] = epoch + 1
<1> DEFINE F == AllEvents'
           e == epoch + 1
<1>1. PICK n \in 1..Len(lines) : lines' = CompactLines(n)
  BY DEF Compact, CompactLines
<1>2. epoch' = e /\ total' = total /\ n \in Nat /\ n > 0 /\ e \in Nat /\ total \in Nat
  BY <1>1 DEF Compact, FileInv, LinesOK
<1>3. F = CompactEvents(n, e)
  <2> HIDE DEF F, e
  <2>1. F = FlattenSeq(Parts(CompactLines(n), e))
    BY <1>1, <1>2, EventsAreParts DEF F
  <2> QED BY <2>1, <1>2, CompactParts
<1>4. /\ F \in Seq(Event) /\ Len(F) = n
      /\ \A p \in 1..n : F[p].id = 0 /\ F[p].cursor = <<e, p + 1, "worker">>
  <2> DEFINE V(p) == [id |-> 0, cursor |-> <<e, p + 1, "worker">>]
  <2> HIDE DEF F, e
  <2>1. \A p \in 1..n : V(p) \in Event /\ V(p).id = 0 /\ V(p).cursor = <<e, p + 1, "worker">>
    BY <1>2 DEF Event, Cursor, Kinds
  <2>2. F = [p \in 1..n |-> V(p)]
    BY <1>3 DEF CompactEvents
  <2> HIDE DEF V
  <2>3. F \in [1..n -> Event]
    BY <2>1, <2>2
  <2> QED BY <2>1, <2>2, <2>3, <1>2, FunctionIsSeq
<1>5. /\ lines' \in Seq([kind : LineKinds, ids : Seq({0})]) /\ Len(lines') = n + 1
      /\ lines'[1] = Line("Epoch", <<>>)
      /\ \A i \in 2..(n + 1) : lines'[i] = Line("Record", <<0>>)
  BY <1>1, <1>2, CompactLinesAre
<1>6. LinesOK'
  <2>1. Seq({0}) \subseteq Seq(0..total)
    <3>1. {0} \subseteq 0..total
      BY <1>2
    <3> QED BY <3>1, SeqGrows
  <2>2. [kind : LineKinds, ids : Seq({0})] \subseteq [kind : LineKinds, ids : Seq(0..total)]
    BY <2>1
  <2>3. lines' \in Seq([kind : LineKinds, ids : Seq(0..total)])
    <3> DEFINE R == [kind : LineKinds, ids : Seq({0})]
               Q == [kind : LineKinds, ids : Seq(0..total)]
    <3>1. R \subseteq Q /\ lines' \in Seq(R)
      BY <2>2, <1>5
    <3> HIDE DEF R, Q
    <3>2. lines' \in Seq(Q)
      BY <3>1, SeqGrows
    <3> QED BY <3>2 DEF Q
  <2>4. ASSUME NEW i \in 1..(n + 1) PROVE Len(lines'[i].ids) <= 2
    <3>1. lines'[i].ids = <<>> \/ lines'[i].ids = <<0>>
      <4>1. i = 1 \/ i \in 2..(n + 1)
        BY <1>2
      <4> QED BY <4>1, <1>5 DEF Line
    <3>2. Len(<<>>) <= 2 /\ Len(<<0>>) <= 2
      OBVIOUS
    <3> HIDE DEF e
    <3> QED BY <3>1, <3>2, Zenon
  <2> HIDE DEF e
  <2> QED BY <2>3, <2>4, <1>2, <1>5 DEF LinesOK
<1>7. HistoryCompacted'
  <2>1. lines'[1].kind = "Epoch" /\ 1 \in 1..Len(lines')
    BY <1>5, <1>2 DEF Line
  <2> QED BY <2>1 DEF HistoryCompacted
<1>8. Numbered(AllEvents)'
  <2> HIDE DEF e
  <2> QED BY <1>4, <1>7 DEF Numbered
<1>9. Marked(AllEvents)'
  <2>1. \A p \in 1..Len(F) : F[p].cursor[1] = epoch' /\ F[p].cursor[2] <= Len(lines')
    <3> HIDE DEF F, e
    <3>1. ASSUME NEW p \in 1..n PROVE F[p].cursor[1] = e /\ F[p].cursor[2] = p + 1
      BY <1>4
    <3> QED BY <3>1, <1>2, <1>4, <1>5
  <2>2. \A p, q \in 1..Len(F) : F[p].cursor = F[q].cursor => p = q
    <3> HIDE DEF F, e
    <3>1. ASSUME NEW p \in 1..n PROVE F[p].cursor[2] = p + 1
      BY <1>4
    <3> QED BY <3>1, <1>2, <1>4
  <2> QED BY <2>1, <2>2 DEF Marked
<1>10. F # <<>>
  <2> HIDE DEF F, e
  <2> QED BY <1>2, <1>4
<1>11. \A p \in 1..Len(F) : F[p].id = 0 /\ F[p].cursor[1] = epoch + 1
  <2> HIDE DEF F
  <2> QED BY <1>4
<1> QED BY <1>4, <1>6, <1>8, <1>9, <1>10, <1>11 DEF FileInv

(* No cursor is the value that stands for none.                             *)
LEMMA CursorsAreNot ==
  \A c \in Cursor : c # <<>>
<1> SUFFICES ASSUME NEW a \in Nat, NEW b \in Nat, NEW k \in Kinds PROVE <<a, b, k>> # <<>>
  BY DEF Cursor
<1>1. Len(<<a, b, k>>) = 3 /\ Len(<<>>) = 0
  OBVIOUS
<1> QED BY <1>1

(* What the file gives for each of its events. *)
LEMMA FileFacts ==
  ASSUME FileInv
  PROVE  /\ Len(AllEvents) \in Nat /\ Len(AllEvents) > 0
         /\ epoch \in Nat /\ total \in Nat /\ Len(lines) \in Nat
         /\ \A p \in 1..Len(AllEvents) :
              /\ AllEvents[p] \in Event
              /\ AllEvents[p].id \in 0..total
              /\ AllEvents[p].cursor \in Cursor
              /\ AllEvents[p].cursor # NoCursor
              /\ Given(AllEvents[p].cursor)
              /\ AllEvents[p].id = 0 \/ AllEvents[p].id = Numeral(AllEvents, p)
              /\ Numeral(AllEvents, p) \in Int /\ Numeral(AllEvents, p) <= total
         /\ \A p, q \in 1..Len(AllEvents) :
              /\ AllEvents[p].cursor = AllEvents[q].cursor => p = q
              /\ p < q => Precedes(AllEvents[p], AllEvents[q])
<1> DEFINE E == AllEvents
<1>1. /\ E \in Seq(Event) /\ Len(E) \in Nat /\ Len(E) > 0
      /\ epoch \in Nat /\ total \in Nat /\ Len(lines) \in Nat
  BY DEF FileInv, LinesOK
<1>2. /\ \A p \in 1..Len(E) : E[p].id = 0 \/ E[p].id = Numeral(E, p)
      /\ \A p, q \in 1..Len(E) : p < q /\ E[p].id # 0 => E[q].id # 0
      /\ \A p \in 1..Len(E) : E[p].cursor[1] = epoch /\ E[p].cursor[2] <= Len(lines)
      /\ \A p, q \in 1..Len(E) : E[p].cursor = E[q].cursor => p = q
  BY DEF FileInv, Numbered, Marked
<1> HIDE DEF E
<1>3. ASSUME NEW p \in 1..Len(E)
      PROVE  /\ E[p] \in Event /\ E[p].id \in Nat /\ E[p].cursor \in Cursor
             /\ Numeral(E, p) \in Int /\ Numeral(E, p) <= total
             /\ Numeral(E, p) = total - Len(E) + p
  <2>1. E[p] \in Event
    BY <1>1
  <2> QED BY <2>1, <1>1 DEF Event, Numeral
<1>4. ASSUME NEW p \in 1..Len(E) PROVE E[p].id \in 0..total
  <2>1. E[p].id \in Nat /\ E[p].id <= total
    BY <1>1, <1>2, <1>3
  <2> QED BY <2>1, <1>1
<1>5. ASSUME NEW p \in 1..Len(E) PROVE E[p].cursor # NoCursor
  BY <1>3, CursorsAreNot DEF NoCursor
<1>6. ASSUME NEW p \in 1..Len(E) PROVE Given(E[p].cursor)
  BY <1>2, <1>3 DEF Given
<1>7. ASSUME NEW p \in 1..Len(E), NEW q \in 1..Len(E), p < q
      PROVE  Precedes(E[p], E[q])
  <2>1. E[q].id \in Nat /\ E[p].id \in Nat
    BY <1>3
  <2>2. CASE E[q].id = 0
    BY <2>2, <1>2, <1>7 DEF Precedes
  <2>3. CASE E[q].id # 0 /\ E[p].id = 0
    BY <2>1, <2>3 DEF Precedes
  <2>4. CASE E[q].id # 0 /\ E[p].id # 0
    <3>1. E[p].id = total - Len(E) + p /\ E[q].id = total - Len(E) + q
      BY <2>4, <1>2, <1>3
    <3> QED BY <3>1, <2>1, <1>1, <1>7 DEF Precedes
  <2> QED BY <2>2, <2>3, <2>4
<1> QED BY <1>1, <1>2, <1>3, <1>4, <1>5, <1>6, <1>7 DEF E

(***************************************************************************)
(* The writers keep the invariant: what the stream and the client hold is  *)
(* of the events there were.                                               *)
(***************************************************************************)
LEMMA AppendKeeps ==
  ASSUME IInv, NEW line, line \in [kind : LineKinds \ {"Epoch"}, ids : Seq(Nat)],
         Len(line.ids) <= 2, \A j \in 1..Len(line.ids) : line.ids[j] = total + j,
         AppendLine(line)
  PROVE  IInv'
<1> DEFINE E == AllEvents
           F == AllEvents'
           m == Len(line.ids)
<1>1. /\ FileInv' /\ Len(F) = Len(E) + m
      /\ \A p \in 1..Len(E) : F[p] = E[p]
      /\ \A p \in (Len(E) + 1)..Len(F) :
           F[p].id = total + (p - Len(E)) /\ F[p].cursor[2] = Len(lines) + 1
  BY FileAppend DEF IInv
<1>2. /\ lines' = Append(lines, line) /\ total' = total + m /\ epoch' = epoch
      /\ page' = page /\ live' = live /\ notice' = notice
      /\ after' = after /\ known' = known /\ owed' = owed /\ sent' = sent
  BY DEF AppendLine, stream, client
<1>3. /\ Len(E) \in Nat /\ Len(E) > 0 /\ total \in Nat /\ m \in Nat /\ Len(lines) \in Nat
      /\ \A p \in 1..Len(E) : E[p].id \in 0..total /\ E[p].cursor \in Cursor
  BY FileFacts DEF IInv
<1>4. Len(lines') = Len(lines) + 1
  BY <1>2 DEF IInv, FileInv, LinesOK
<1>5. HeldCursors' = HeldCursors
  BY <1>2 DEF HeldCursors
<1>6. \A c \in HeldCursors : Given(c)
  BY DEF IInv, StreamInv
<1>7. \A c \in HeldCursors : Given(c)'
  BY <1>2, <1>3, <1>4, <1>6 DEF Given, Cursor
<1>8. ASSUME NEW p \in 1..Len(F), F[p].cursor \in HeldCursors
      PROVE  p \in 1..Len(E) /\ F[p] = E[p]
  <2>1. F[p].cursor[1] = epoch
    BY <1>1, <1>2 DEF FileInv, Marked
  <2>2. Given(F[p].cursor)
    BY <1>6, <1>8
  <2>3. F[p].cursor[2] <= Len(lines) /\ F[p].cursor[2] \in Nat
    BY <2>1, <2>2 DEF Given, Cursor
  <2> HIDE DEF E, F, m
  <2>4. p \notin (Len(E) + 1)..Len(F)
    BY <2>3, <1>1, <1>3
  <2> QED BY <2>4, <1>1, <1>3
<1>9. StreamInv'
  <2>1. sent' \subseteq 1..total'
    BY <1>2, <1>3 DEF IInv, StreamInv
  <2> QED BY <2>1, <1>2, <1>5, <1>7 DEF IInv, StreamInv
<1>10. PageInv(AllEvents)'
  <2>1. PageInv(E)
    BY DEF IInv
  <2>2. \A i \in 1..Len(page) : page[i].id <= total + m
    <3> SUFFICES ASSUME NEW i \in 1..Len(page) PROVE page[i].id <= total + m
      OBVIOUS
    <3>1. page[i].id \in Nat /\ page[i].id <= total
      <4>1. page[i] \in Event
        BY <2>1, ElementIs DEF PageInv
      <4> QED BY <4>1, <2>1 DEF PageInv, Event
    <3> HIDE DEF m
    <3> QED BY <3>1, <1>3
  <2>3. ASSUME NEW i \in 1..Len(page), NEW p \in 1..Len(F), page[i].cursor = F[p].cursor
        PROVE  page[i].id = F[p].id
    <3>1. page[i].cursor \in HeldCursors
      BY DEF HeldCursors
    <3>2. p \in 1..Len(E) /\ F[p] = E[p]
      BY <3>1, <2>3, <1>8
    <3> QED BY <3>2, <2>1, <2>3 DEF PageInv
  <2> HIDE DEF m
  <2> QED BY <2>1, <2>2, <2>3, <1>2 DEF PageInv
<1>11. Fresh(AllEvents)'
  <2> SUFFICES ASSUME NEW p \in 1..Len(F), F[p].cursor \in HeldCursors,
                      NEW q \in (p + 1)..Len(F), F[q].id # 0, NEW n \in sent
               PROVE  n < F[q].id
    BY <1>2, <1>5 DEF Fresh
  <2>1. p \in 1..Len(E) /\ F[p] = E[p]
    BY <1>8
  <2>2. n \in 1..total
    BY DEF IInv, StreamInv
  <2>3. CASE q \in 1..Len(E)
    <3>1. q \in (p + 1)..Len(E) /\ F[q] = E[q]
      BY <2>3, <1>1
    <3> QED BY <3>1, <2>1 DEF IInv, Fresh
  <2>4. CASE q \in (Len(E) + 1)..Len(F)
    <3> HIDE DEF E, F
    <3>1. F[q].id = total + (q - Len(E))
      BY <2>4, <1>1
    <3>2. q - Len(E) \in Nat /\ q - Len(E) >= 1
      BY <2>4, <1>3
    <3> QED BY <3>1, <3>2, <2>2, <1>3
  <2>5. q \in 1..Len(E) \/ q \in (Len(E) + 1)..Len(F)
    <3> HIDE DEF E, F
    <3> QED BY <2>1, <1>1, <1>3
  <2> QED BY <2>3, <2>4, <2>5
<1>12. ClientInv(AllEvents)'
  <2>1. known' \subseteq 1..total'
    BY <1>2, <1>3 DEF IInv, ClientInv
  <2>2. ASSUME ~owed PROVE (\E k \in 0..total : KnowsFirst(AllEvents, k))'
    <3>1. PICK k \in 0..total : KnowsFirst(E, k)
      BY <2>2 DEF IInv, ClientInv
    <3>2. k \in 0..(total + m)
      BY <1>3
    <3>3. ASSUME ~notice, NEW p \in 1..Len(F), F[p].cursor \in HeldCursors,
                 NEW q \in 1..Len(F), F[q].id = 0
          PROVE  total + m - Len(F) + q <= k
      <4>1. p \in 1..Len(E) /\ F[p] = E[p]
        BY <3>3, <1>8
      <4>2. q \in 1..Len(E)
        <5> HIDE DEF E, F
        <5> QED BY <3>3, <1>1, <1>3
      <4>3. E[q].id = 0
        BY <3>3, <4>2, <1>1
      <4>4. Numeral(E, q) <= k
        BY <3>1, <3>3, <4>1, <4>2, <4>3 DEF KnowsFirst
      <4> HIDE DEF E, F, m
      <4> QED BY <4>4, <4>2, <1>1, <1>3 DEF Numeral
    <3>4. ASSUME ~notice, NEW p \in 1..Len(F), F[p].cursor = after
          PROVE  F[p].id <= k
      <4>1. F[p].cursor # NoCursor
        <5>1. F[p] \in Event
          BY <1>1, ElementIs DEF FileInv
        <5> QED BY <5>1, CursorsAreNot DEF Event, NoCursor
      <4>2. F[p].cursor \in HeldCursors
        BY <4>1, <3>4 DEF HeldCursors
      <4>3. p \in 1..Len(E) /\ F[p] = E[p]
        BY <4>2, <1>8
      <4> QED BY <3>1, <3>4, <4>3 DEF KnowsFirst
    <3>5. KnowsFirst(AllEvents, k)'
      <4>1. /\ known' = 1..k
            /\ ~notice' =>
                 \A i \in 1..Len(page') :
                   page'[i].id <= k + 1 \/ (i > 1 /\ page'[i].id = page'[i - 1].id + 1)
        BY <3>1, <1>2 DEF KnowsFirst
      <4>2. ~notice' => \A p \in 1..Len(F) : F[p].cursor \in HeldCursors' =>
                          \A q \in 1..Len(F) : F[q].id = 0 => total' - Len(F) + q <= k
        <5> SUFFICES ASSUME ~notice, NEW p \in 1..Len(F), F[p].cursor \in HeldCursors,
                            NEW q \in 1..Len(F), F[q].id = 0
                     PROVE  total' - Len(F) + q <= k
          BY <1>2, <1>5
        <5>1. total + m - Len(F) + q <= k
          BY <3>3
        <5> HIDE DEF E, F, m
        <5>2. Len(F) \in Nat /\ total \in Nat /\ m \in Nat /\ total' = total + m
          BY <1>1, <1>2, <1>3
        <5> QED BY <5>1, <5>2
      <4>3. ~notice' => \A p \in 1..Len(F) : F[p].cursor = after' => F[p].id <= k
        <5> HIDE DEF E, F, m
        <5> QED BY <3>4, <1>2
      <4> QED BY <4>1, <4>2, <4>3 DEF KnowsFirst, Numeral
    <3>6. k \in 0..total'
      BY <3>2, <1>2
    <3> QED BY <3>5, <3>6
  <2> QED BY <2>1, <2>2, <1>2 DEF ClientInv
<1> QED BY <1>1, <1>9, <1>10, <1>11, <1>12 DEF IInv

(* After a compaction no cursor that is held is of the file.                *)
LEMMA CompactKeeps ==
  ASSUME IInv, Compact
  PROVE  IInv'
<1> DEFINE F == AllEvents'
<1>1. /\ FileInv'
      /\ \A p \in 1..Len(F) : F[p].id = 0 /\ F[p].cursor[1] = epoch + 1
  BY FileCompact DEF IInv
<1>2. /\ total' = total /\ epoch' = epoch + 1 /\ epoch \in Nat
      /\ page' = page /\ live' = live /\ notice' = notice
      /\ after' = after /\ known' = known /\ owed' = owed /\ sent' = sent
  BY DEF Compact, stream, client, IInv, FileInv, LinesOK
<1>3. HeldCursors' = HeldCursors
  BY <1>2 DEF HeldCursors
<1>4. \A c \in HeldCursors : c \in Cursor /\ c[1] \in Nat /\ c[1] <= epoch
  BY <1>2 DEF IInv, StreamInv, Given, Cursor
<1>5. \A c \in HeldCursors : Given(c)'
  BY <1>2, <1>4 DEF Given
<1>6. ASSUME NEW p \in 1..Len(F) PROVE F[p].cursor \notin HeldCursors
  <2>1. F[p].cursor[1] = epoch + 1
    BY <1>1
  <2> HIDE DEF F
  <2> QED BY <2>1, <1>2, <1>4
<1>7. ASSUME NEW p \in 1..Len(F) PROVE F[p].cursor # after
  <2>1. F[p] \in Event
    BY <1>1, ElementIs DEF FileInv
  <2>2. F[p].cursor # NoCursor
    BY <2>1, CursorsAreNot DEF Event, NoCursor
  <2> HIDE DEF F
  <2> QED BY <2>2, <1>6 DEF HeldCursors
<1>8. StreamInv'
  BY <1>2, <1>3, <1>5 DEF IInv, StreamInv
<1>9. PageInv(AllEvents)'
  <2>1. ASSUME NEW i \in 1..Len(page) PROVE page[i].cursor \in HeldCursors
    BY DEF HeldCursors
  <2>2. \A i \in 1..Len(page), p \in 1..Len(F) : page[i].cursor # F[p].cursor
    BY <2>1, <1>6
  <2> QED BY <2>2, <1>2 DEF IInv, PageInv
<1>10. Fresh(AllEvents)'
  BY <1>3, <1>6 DEF Fresh
<1>11. ClientInv(AllEvents)'
  <2>1. ASSUME NEW k \in 0..total, KnowsFirst(AllEvents, k) PROVE KnowsFirst(AllEvents, k)'
    BY <2>1, <1>2, <1>3, <1>6, <1>7 DEF KnowsFirst
  <2> QED BY <2>1, <1>2 DEF IInv, ClientInv
<1> QED BY <1>1, <1>8, <1>9, <1>10, <1>11 DEF IInv

(* The file starts with one event, and nobody is connected.                 *)
LEMMA InitHolds == Init => IInv
<1> SUFFICES ASSUME Init PROVE IInv
  OBVIOUS
<1> DEFINE line == Line("Record", <<1>>)
           v == [id |-> 1, cursor |-> <<0, 1, "worker">>]
           E == AllEvents
<1>1. /\ lines = <<line>> /\ epoch = 0 /\ total = 1
      /\ page = <<>> /\ live = FALSE /\ notice = FALSE /\ after = NoCursor
      /\ known = {} /\ owed = FALSE /\ sent = {}
  BY DEF Init
<1>2. E = <<v>>
  <2>1. Len(Parts(lines, epoch)) = 1 /\ Parts(lines, epoch)[1] = PartOf(line, 1, 0)
    BY <1>1 DEF Parts
  <2>2. E = PartOf(line, 1, 0)
    BY <2>1, FlattenSingle, EventsAreParts
  <2>3. line.ids = <<1>> /\ Len(<<1>>) = 1 /\ <<1>>[1] = 1
    BY DEF Line
  <2> HIDE DEF line
  <2>4. PartOf(line, 1, 0) = <<v>>
    BY <2>3 DEF PartOf
  <2> QED BY <2>2, <2>4
<1>3. v \in Event /\ v.id = 1 /\ v.cursor = <<0, 1, "worker">>
  BY DEF Event, Cursor, Kinds
<1>4. LinesOK
  <2>1. <<1>> \in Seq(0..1) /\ Len(<<1>>) <= 2
    <3>1. 1 \in 0..1
      OBVIOUS
    <3> QED BY <3>1
  <2>2. line \in [kind : LineKinds, ids : Seq(0..1)] /\ line.ids = <<1>>
    BY <2>1 DEF Line, LineKinds
  <2> HIDE DEF line
  <2>3. <<line>> \in Seq([kind : LineKinds, ids : Seq(0..1)])
    BY <2>2
  <2>4. \A i \in 1..Len(<<line>>) : <<line>>[i] = line
    OBVIOUS
  <2>5. \A i \in 1..Len(<<line>>) : Len(<<line>>[i].ids) <= 2
    BY <2>1, <2>2, <2>4
  <2> QED BY <1>1, <2>3, <2>5 DEF LinesOK
<1>5. Len(lines) = 1
  BY <1>1
<1> HIDE DEF v
<1>6. Len(E) = 1 /\ E[1] = v /\ E \in Seq(Event) /\ E # <<>> /\ \A p \in 1..Len(E) : p = 1
  BY <1>2, <1>3
<1> HIDE DEF E
<1>7. Numbered(E)
  BY <1>1, <1>3, <1>6 DEF Numbered, Numeral
<1>8. Marked(E)
  BY <1>1, <1>3, <1>5, <1>6 DEF Marked
<1>9. FileInv
  BY <1>4, <1>6, <1>7, <1>8 DEF FileInv, E
<1>10. HeldCursors = {}
  BY <1>1 DEF HeldCursors
<1>11. StreamInv
  BY <1>1, <1>10 DEF StreamInv
<1>12. PageInv(E)
  BY <1>1, LimitAssumption DEF PageInv
<1>13. Fresh(E)
  BY <1>10 DEF Fresh
<1>14. ClientInv(E)
  <2>1. KnowsFirst(E, 0)
    <3>1. 1..0 = {}
      OBVIOUS
    <3>2. E[1].cursor # after
      BY <1>1, <1>3, <1>6, CursorsAreNot DEF NoCursor, Event
    <3> QED BY <3>1, <3>2, <1>1, <1>6, <1>10 DEF KnowsFirst
  <2>2. 0 \in 0..total
    BY <1>1
  <2> QED BY <2>1, <2>2, <1>1 DEF ClientInv
<1> QED BY <1>9, <1>11, <1>12, <1>13, <1>14 DEF IInv, E

(***************************************************************************)
(* What the stream and the client lose leaves less to keep.                *)
(***************************************************************************)
LEMMA LosesKeeps ==
  ASSUME IInv, UNCHANGED <<lines, epoch, total, sent>>, page' \in {page, <<>>},
         HeldCursors' \subseteq HeldCursors
  PROVE  /\ FileInv' /\ AllEvents' = AllEvents
         /\ PageInv(AllEvents)' /\ Fresh(AllEvents)'
         /\ \A c \in HeldCursors' : Given(c)'
         /\ sent' \subseteq 1..total'
<1>1. FileInv' /\ AllEvents' = AllEvents
  BY FileSame DEF IInv
<1>2. \A c \in HeldCursors' : Given(c)'
  BY DEF Given, IInv, StreamInv
<1>3. Fresh(AllEvents)'
  BY <1>1 DEF IInv, Fresh
<1>4. PageInv(AllEvents)'
  <2>1. CASE page' = page
    BY <2>1, <1>1 DEF IInv, PageInv
  <2>2. CASE page' = <<>>
    BY <2>2, LimitAssumption DEF PageInv
  <2> QED BY <2>1, <2>2
<1> QED BY <1>1, <1>2, <1>3, <1>4 DEF IInv, StreamInv

(* A cursor that is not in the file any more: the client is told to reload. *)
LEMMA CursorUnavailableKeeps ==
  ASSUME IInv, CursorUnavailable
  PROVE  IInv'
<1>1. /\ lines' = lines /\ epoch' = epoch /\ total' = total /\ sent' = sent
      /\ page = <<>> /\ page' = page /\ live' = FALSE /\ notice' = notice
      /\ after # NoCursor /\ after' = NoCursor /\ owed' = TRUE /\ known' = known
  BY DEF CursorUnavailable, Available, ledger
<1>2. HeldCursors' = {}
  BY <1>1 DEF HeldCursors
<1>3. notice = FALSE
  BY <1>1 DEF IInv, StreamInv
<1>4. /\ FileInv' /\ PageInv(AllEvents)' /\ Fresh(AllEvents)' /\ sent' \subseteq 1..total'
  BY <1>1, <1>2, LosesKeeps
<1>5. StreamInv'
  BY <1>1, <1>2, <1>3, <1>4 DEF StreamInv
<1>6. ClientInv(AllEvents)'
  BY <1>1 DEF IInv, ClientInv
<1> QED BY <1>4, <1>5, <1>6 DEF IInv

(* The notice to reload is sent.                                            *)
LEMMA SendNoticeKeeps ==
  ASSUME IInv, SendNotice
  PROVE  IInv'
<1>1. /\ lines' = lines /\ epoch' = epoch /\ total' = total /\ sent' = sent
      /\ page' = page /\ live' = live /\ notice' = FALSE
      /\ after' = after /\ owed' = TRUE /\ known' = known
  BY DEF SendNotice, ledger
<1>2. HeldCursors' = HeldCursors
  BY <1>1 DEF HeldCursors
<1>4. /\ FileInv' /\ PageInv(AllEvents)' /\ Fresh(AllEvents)' /\ sent' \subseteq 1..total'
      /\ \A c \in HeldCursors' : Given(c)'
  BY <1>1, <1>2, LosesKeeps
<1>5. StreamInv'
  BY <1>1, <1>2, <1>4 DEF IInv, StreamInv
<1>6. ClientInv(AllEvents)'
  BY <1>1 DEF IInv, ClientInv
<1> QED BY <1>4, <1>5, <1>6 DEF IInv

(* The connection is lost, with what was not sent yet.                      *)
LEMMA DropKeeps ==
  ASSUME IInv, Drop
  PROVE  IInv'
<1>1. /\ lines' = lines /\ epoch' = epoch /\ total' = total /\ sent' = sent
      /\ page' = <<>> /\ live' = FALSE /\ notice' = FALSE
      /\ after' = after /\ owed' = owed /\ known' = known
  BY DEF Drop, ledger, client
<1>2. HeldCursors' = {after} \ {NoCursor} /\ HeldCursors' \subseteq HeldCursors
  BY <1>1 DEF HeldCursors
<1>4. /\ FileInv' /\ PageInv(AllEvents)' /\ Fresh(AllEvents)' /\ sent' \subseteq 1..total'
      /\ AllEvents' = AllEvents /\ \A c \in HeldCursors' : Given(c)'
  BY <1>1, <1>2, LosesKeeps
<1>5. StreamInv'
  BY <1>1, <1>4 DEF IInv, StreamInv
<1>6. ClientInv(AllEvents)'
  <2>1. ASSUME NEW k \in 0..total, KnowsFirst(AllEvents, k) PROVE KnowsFirst(AllEvents, k)'
    <3>1. CASE notice
      <4>1. after = NoCursor
        BY <3>1 DEF IInv, StreamInv
      <4>2. \A p \in 1..Len(AllEvents) : AllEvents[p].cursor # after
        BY <4>1, FileFacts DEF IInv
      <4> QED BY <4>1, <4>2, <2>1, <1>1, <1>2, <1>4 DEF KnowsFirst
    <3>2. CASE ~notice
      BY <3>2, <2>1, <1>1, <1>2, <1>4 DEF KnowsFirst, Numeral
    <3> QED BY <3>1, <3>2
  <2> QED BY <2>1, <1>1 DEF IInv, ClientInv
<1> QED BY <1>4, <1>5, <1>6 DEF IInv

(* The client loses its cursor.                                             *)
LEMMA ForgetKeeps ==
  ASSUME IInv, Forget
  PROVE  IInv'
<1>1. /\ lines' = lines /\ epoch' = epoch /\ total' = total /\ sent' = sent
      /\ page' = page /\ live' = live /\ notice' = notice /\ live = FALSE
      /\ after' = NoCursor /\ owed' = owed /\ known' = known
  BY DEF Forget, ledger, stream, IInv, StreamInv
<1>2. page = <<>> /\ notice = FALSE
  BY <1>1 DEF IInv, StreamInv
<1>3. HeldCursors' = {}
  BY <1>1, <1>2 DEF HeldCursors
<1>4. /\ FileInv' /\ PageInv(AllEvents)' /\ Fresh(AllEvents)' /\ sent' \subseteq 1..total'
      /\ AllEvents' = AllEvents
  BY <1>1, <1>3, LosesKeeps
<1>5. StreamInv'
  BY <1>1, <1>2, <1>3, <1>4 DEF IInv, StreamInv
<1>6. ClientInv(AllEvents)'
  <2>1. \A p \in 1..Len(AllEvents) : AllEvents[p].cursor # NoCursor
    BY FileFacts DEF IInv
  <2>2. ASSUME NEW k \in 0..total, KnowsFirst(AllEvents, k) PROVE KnowsFirst(AllEvents, k)'
    BY <2>1, <2>2, <1>1, <1>2, <1>3, <1>4 DEF KnowsFirst
  <2> QED BY <2>2, <1>1 DEF IInv, ClientInv
<1> QED BY <1>4, <1>5, <1>6 DEF IInv

(* The client loads the run and knows all there is.                         *)
LEMMA ReloadKeeps ==
  ASSUME IInv, Reload
  PROVE  IInv'
<1>1. /\ lines' = lines /\ epoch' = epoch /\ total' = total /\ sent' = sent
      /\ page' = page /\ live' = live /\ notice' = notice
      /\ after' = after /\ owed' = FALSE /\ known' = 1..total
  BY DEF Reload, ledger, stream
<1>2. HeldCursors' = HeldCursors
  BY <1>1 DEF HeldCursors
<1>4. /\ FileInv' /\ PageInv(AllEvents)' /\ Fresh(AllEvents)' /\ sent' \subseteq 1..total'
      /\ AllEvents' = AllEvents /\ \A c \in HeldCursors' : Given(c)'
  BY <1>1, <1>2, LosesKeeps
<1>5. StreamInv'
  BY <1>1, <1>2, <1>4 DEF IInv, StreamInv
<1>6. ClientInv(AllEvents)'
  <2>1. total \in Nat /\ \A p \in 1..Len(AllEvents) :
                           AllEvents[p].id \in 0..total /\ Numeral(AllEvents, p) <= total
    BY FileFacts DEF IInv
  <2>2. \A i \in 1..Len(page) : page[i].id \in Nat /\ page[i].id <= total
    <3>1. \A i \in 1..Len(page) : page[i] \in Event
      BY ElementIs DEF IInv, PageInv
    <3> QED BY <3>1 DEF Event, IInv, PageInv
  <2>3. KnowsFirst(AllEvents, total)'
    <3>1. \A i \in 1..Len(page) : page[i].id <= total + 1
      BY <2>1, <2>2
    <3>2. \A p \in 1..Len(AllEvents) : AllEvents[p].id <= total
      BY <2>1
    <3> QED BY <3>1, <3>2, <2>1, <1>1, <1>4 DEF KnowsFirst, Numeral
  <2>4. total' \in 0..total'
    BY <2>1, <1>1
  <2> QED BY <2>3, <2>4, <1>1 DEF ClientInv
<1> QED BY <1>4, <1>5, <1>6 DEF IInv

(***************************************************************************)
(* An event is sent: the client learns the next one, or one it knew.       *)
(***************************************************************************)
LEMMA TailIs ==
  ASSUME NEW T, NEW s, s \in Seq(T), s # <<>>
  PROVE  /\ Len(s) \in Nat /\ Len(s) > 0 /\ Head(s) = s[1]
         /\ Tail(s) \in Seq(T) /\ Len(Tail(s)) = Len(s) - 1
         /\ \A i \in 1..(Len(s) - 1) : Tail(s)[i] = s[i + 1] /\ i + 1 \in 1..Len(s)
OBVIOUS

(* What is sent is the next event, or one the client knows.                 *)
LEMMA SendEventKeeps ==
  ASSUME IInv, SendEvent
  PROVE  IInv'
<1> DEFINE E == AllEvents
           h == page[1]
<1>1. /\ page \in Seq(Event) /\ page # <<>> /\ page' = Tail(page) /\ Head(page) = h
      /\ live /\ ~notice /\ live' = live /\ notice' = notice /\ owed' = owed
      /\ after' = h.cursor /\ known' = known \cup ({h.id} \ {0})
      /\ sent' = sent \cup ({h.id} \ {0})
      /\ lines' = lines /\ epoch' = epoch /\ total' = total
  BY TailIs DEF SendEvent, ledger, IInv, PageInv
<1>2. /\ Len(page) \in Nat /\ Len(page) > 0 /\ 1 \in 1..Len(page)
      /\ page' \in Seq(Event) /\ Len(page') = Len(page) - 1
      /\ \A i \in 1..Len(page') : page'[i] = page[i + 1] /\ i + 1 \in 1..Len(page)
  BY <1>1, TailIs
<1>3. \A i \in 1..Len(page) : /\ page[i].id \in Nat /\ page[i].id <= total
                              /\ page[i].cursor \in Cursor /\ page[i].cursor # NoCursor
  <2>1. \A i \in 1..Len(page) : page[i] \in Event
    BY <1>1, ElementIs
  <2> QED BY <2>1, CursorsAreNot DEF Event, NoCursor, IInv, PageInv
<1>4. /\ total \in Nat /\ Len(E) \in Nat
      /\ \A p \in 1..Len(E) : E[p].id \in Nat
      /\ \A p, q \in 1..Len(E) : p < q => Precedes(E[p], E[q])
  BY FileFacts DEF IInv
<1>5. HeldCursors' \subseteq HeldCursors
  <2>1. \A i \in 1..Len(page) : page[i].cursor \in HeldCursors
    BY DEF HeldCursors
  <2>2. HeldCursors' = {page'[i].cursor : i \in 1..Len(page')} \cup ({after'} \ {NoCursor})
    BY DEF HeldCursors
  <2> QED BY <2>1, <2>2, <1>1, <1>2
<1>6. FileInv' /\ AllEvents' = E
  BY <1>1, FileSame DEF IInv
<1>7. sent \subseteq 1..total /\ sent' \subseteq 1..total /\ known' \subseteq 1..total
  <2>1. h.id \in Nat /\ h.id <= total
    BY <1>2, <1>3
  <2> HIDE DEF h
  <2>2. {h.id} \ {0} \subseteq 1..total
    BY <2>1, <1>4
  <2> QED BY <2>2, <1>1 DEF IInv, StreamInv, ClientInv
<1>8. StreamInv'
  <2>1. \A c \in HeldCursors' : Given(c)'
    BY <1>1, <1>5 DEF Given, IInv, StreamInv
  <2>2. after' # NoCursor
    BY <1>1, <1>2, <1>3
  <2> QED BY <2>1, <2>2, <1>1, <1>7 DEF IInv, StreamInv
<1>9. \A i, j \in 1..Len(page) : i < j => Precedes(page[i], page[j])
  BY DEF IInv, PageInv
<1>10. PageInv(AllEvents)'
  <2>1. \A i \in 1..Len(page') : page'[i].id <= total
    BY <1>2, <1>3
  <2>2. ASSUME NEW i \in 1..Len(page'), NEW j \in 1..Len(page'), i < j
        PROVE  Precedes(page'[i], page'[j])
    <3>1. i + 1 \in 1..Len(page) /\ j + 1 \in 1..Len(page) /\ i + 1 < j + 1
      BY <2>2, <1>2
    <3> QED BY <3>1, <1>2, <1>9
  <2>3. ASSUME NEW i \in 1..Len(page'), page'[i].id # 0, NEW n \in sent'
        PROVE  n < page'[i].id
    <3>1. page'[i] = page[i + 1] /\ i + 1 \in 1..Len(page) /\ 1 < i + 1
      BY <1>2
    <3>2. CASE n \in sent
      BY <3>1, <3>2, <2>3 DEF IInv, PageInv
    <3>3. CASE n = h.id /\ h.id # 0
      BY <3>1, <3>3, <1>2, <1>9 DEF Precedes
    <3> QED BY <3>2, <3>3, <1>1
  <2>4. \A i \in 1..Len(page'), p \in 1..Len(E) :
          page'[i].cursor = E[p].cursor => page'[i].id = E[p].id
    BY <1>2 DEF IInv, PageInv
  <2>5. Len(page') <= Limit
    BY <1>2, LimitAssumption DEF IInv, PageInv
  <2> HIDE DEF E, h
  <2> QED BY <2>1, <2>2, <2>3, <2>4, <2>5, <1>1, <1>2, <1>6 DEF PageInv, Precedes
<1>11. Fresh(AllEvents)'
  <2> SUFFICES ASSUME NEW p \in 1..Len(E), E[p].cursor \in HeldCursors',
                      NEW q \in (p + 1)..Len(E), E[q].id # 0, NEW n \in sent'
               PROVE  n < E[q].id
    BY <1>6 DEF Fresh
  <2>1. CASE n \in sent
    BY <2>1, <1>5 DEF IInv, Fresh
  <2>2. CASE n = h.id /\ h.id # 0
    <3>1. q \in 1..Len(E) /\ p < q
      BY <1>4
    <3>2. E[p].id < E[q].id /\ E[p].id \in Nat /\ E[q].id \in Nat
      BY <3>1, <1>4 DEF Precedes
    <3>3. PICK i \in 1..Len(page) : page[i].cursor = E[p].cursor
      <4>1. HeldCursors' = {page'[i].cursor : i \in 1..Len(page')} \cup ({after'} \ {NoCursor})
        BY DEF HeldCursors
      <4>2. CASE E[p].cursor = after'
        BY <4>2, <1>1, <1>2
      <4>3. CASE \E i \in 1..Len(page') : E[p].cursor = page'[i].cursor
        BY <4>3, <1>2
      <4> QED BY <4>1, <4>2, <4>3
    <3>4. page[i].id = E[p].id
      BY <3>3 DEF IInv, PageInv
    <3>5. i = 1 \/ Precedes(page[1], page[i])
      BY <1>2, <1>9
    <3>6. h.id <= page[i].id
      BY <3>5, <2>2, <1>2, <1>3 DEF Precedes
    <3>7. h.id \in Nat
      BY <1>2, <1>3
    <3> HIDE DEF E, h
    <3> QED BY <3>2, <3>4, <3>6, <3>7, <2>2
  <2> QED BY <2>1, <2>2, <1>1
<1>12. ClientInv(AllEvents)'
  <2>1. ASSUME NEW k \in 0..total, KnowsFirst(AllEvents, k)
        PROVE  \E j \in 0..total : KnowsFirst(AllEvents, j)'
    <3>0. PICK j : j = IF h.id = k + 1 THEN k + 1 ELSE k
      OBVIOUS
    <3>1. h.id \in Nat /\ h.id <= total
      BY <1>2, <1>3
    <3>2. /\ known = 1..k
          /\ \A i \in 1..Len(page) :
               page[i].id <= k + 1 \/ (i > 1 /\ page[i].id = page[i - 1].id + 1)
          /\ \A p \in 1..Len(E) : E[p].cursor \in HeldCursors =>
               \A q \in 1..Len(E) : E[q].id = 0 => Numeral(E, q) <= k
      BY <2>1, <1>1 DEF KnowsFirst
    <3>3. h.id <= k + 1
      BY <3>2, <1>2
    <3> HIDE DEF h
    <3>4. /\ j \in 0..total /\ k <= j /\ h.id <= j /\ j <= k + 1 /\ k \in Nat /\ j \in Nat
          /\ known' = 1..j
      <4>1. /\ j \in 0..total /\ k <= j /\ h.id <= j /\ j <= k + 1 /\ k \in Nat /\ j \in Nat
        BY <3>0, <3>1, <3>3, <1>4
      <4>2. CASE h.id = k + 1
        BY <4>1, <4>2, <3>0, <3>2, <1>1
      <4>3. CASE h.id # k + 1
        <5>1. {h.id} \ {0} \subseteq 1..k
          BY <4>3, <4>1, <3>1, <3>3
        <5> QED BY <5>1, <4>3, <3>0, <3>2, <1>1
      <4> QED BY <4>1, <4>2, <4>3
    <3>5. ASSUME NEW i \in 1..Len(page')
          PROVE  page'[i].id <= j + 1 \/ (i > 1 /\ page'[i].id = page'[i - 1].id + 1)
      <4>1. page'[i] = page[i + 1] /\ i + 1 \in 1..Len(page) /\ (i + 1) - 1 = i /\ i \in 1..Len(page)
        BY <1>2
      <4>2. page[i + 1].id \in Nat
        BY <4>1, <1>3
      <4>3. page[i + 1].id <= k + 1 \/ page[i + 1].id = page[i].id + 1
        BY <4>1, <3>2
      <4>4. CASE page[i + 1].id <= k + 1
        BY <4>1, <4>2, <4>4, <3>4
      <4>5. CASE page[i + 1].id = page[i].id + 1 /\ i = 1
        <5>1. page[i].id = h.id
          BY <4>5 DEF h
        <5> QED BY <5>1, <4>1, <4>2, <4>5, <3>1, <3>4
      <4>6. CASE page[i + 1].id = page[i].id + 1 /\ i > 1
        <5>1. i - 1 \in 1..Len(page') /\ (i - 1) + 1 = i
          BY <4>6, <1>2
        <5>2. page'[i - 1] = page[i]
          BY <5>1, <1>2
        <5> QED BY <5>2, <4>1, <4>6
      <4>7. i = 1 \/ i > 1
        BY <1>2
      <4> QED BY <4>3, <4>4, <4>5, <4>6, <4>7
    <3>6. ASSUME NEW p \in 1..Len(E), E[p].cursor \in HeldCursors', NEW q \in 1..Len(E), E[q].id = 0
          PROVE  Numeral(E, q) <= j
      <4>1. Numeral(E, q) <= k
        BY <3>2, <3>6, <1>5
      <4>2. Numeral(E, q) \in Int
        BY <1>4 DEF Numeral
      <4> QED BY <4>1, <4>2, <3>4
    <3>7. ASSUME NEW p \in 1..Len(E), E[p].cursor = after' PROVE E[p].id <= j
      <4>1. E[p].id = h.id
        BY <3>7, <1>1, <1>2 DEF IInv, PageInv, h
      <4> QED BY <4>1, <3>4
    <3>8. KnowsFirst(AllEvents, j)'
      <4>1. \A p \in 1..Len(E) : E[p].cursor \in HeldCursors' =>
              \A q \in 1..Len(E) : E[q].id = 0 => total' - Len(E) + q <= j
        <5> SUFFICES ASSUME NEW p \in 1..Len(E), E[p].cursor \in HeldCursors',
                            NEW q \in 1..Len(E), E[q].id = 0
                     PROVE  total' - Len(E) + q <= j
          OBVIOUS
        <5>1. total - Len(E) + q <= j
          BY <3>6 DEF Numeral
        <5> HIDE DEF E
        <5> QED BY <5>1, <1>1, <1>4
      <4>2. \A p \in 1..Len(E) : E[p].cursor = after' => E[p].id <= j
        BY <3>7
      <4>3. \A i \in 1..Len(page') :
              page'[i].id <= j + 1 \/ (i > 1 /\ page'[i].id = page'[i - 1].id + 1)
        BY <3>5, Zenon
      <4>4. known' = 1..j
        BY <3>4
      <4> QED BY <4>1, <4>2, <4>3, <4>4, <1>6 DEF KnowsFirst, Numeral
    <3> QED BY <3>4, <3>8
  <2> QED BY <2>1, <1>1, <1>7 DEF IInv, ClientInv
<1> QED BY <1>6, <1>8, <1>10, <1>11, <1>12 DEF IInv

(***************************************************************************)
(* A page is read: a part of the file, all of it before the cursor sent.   *)
(***************************************************************************)
LEMMA SegmentIs ==
  ASSUME NEW T, NEW s, NEW a, NEW b, NEW t, s \in Seq(T), a \in Nat, b \in Nat,
         1 <= a, b <= Len(s), a <= b + 1, t = SubSeq(s, a, b)
  PROVE  /\ t \in Seq(T) /\ Len(t) = b - a + 1
         /\ \A i \in 1..Len(t) : t[i] = s[a + i - 1] /\ a + i - 1 \in a..b
<1>1. t = [i \in 1..(b - a + 1) |-> s[a + i - 1]]
  OBVIOUS
<1>2. b - a + 1 \in Nat
  OBVIOUS
<1>3. \A i \in 1..(b - a + 1) : a + i - 1 \in 1..Len(s) /\ a + i - 1 \in a..b
  <2> TAKE i \in 1..(b - a + 1)
  <2>1. Len(s) \in Nat /\ i \in Nat
    BY ElementIs
  <2> QED BY <2>1
<1>4. \A i \in 1..(b - a + 1) : s[a + i - 1] \in T
  BY <1>3, ElementIs
<1>5. t \in [1..(b - a + 1) -> T]
  BY <1>1, <1>4
<1> QED BY <1>1, <1>2, <1>3, <1>5, FunctionIsSeq

(* The page is a part [a, b] of the file; what precedes it up to the cursor *)
(* was sent in order.                                                      *)
LEMMA PartKeeps ==
  ASSUME NEW a, NEW b, IInv, UNCHANGED <<ledger, known, owed, after>>, live' = TRUE,
         a \in Nat, b \in Nat, 1 <= a, b <= Len(AllEvents), a <= b + 1,
         b - a + 1 <= Limit, page' = SubSeq(AllEvents, a, b),
         notice' \in BOOLEAN, notice' => after = NoCursor,
         sent' \in {sent, {}},
         after = NoCursor => a <= b /\ sent' = {},
         after # NoCursor => a > 1 /\ AllEvents[a - 1].cursor = after,
         \A k \in 0..total : ~owed /\ KnowsFirst(AllEvents, k) => KnowsFirst(AllEvents, k)'
  PROVE  IInv'
<1> DEFINE E == AllEvents
<1>1. /\ E \in Seq(Event) /\ Len(E) \in Nat
      /\ \A p \in 1..Len(E) : /\ E[p].id \in 0..total /\ E[p].cursor # NoCursor
                              /\ Given(E[p].cursor)
      /\ \A p, q \in 1..Len(E) : /\ E[p].cursor = E[q].cursor => p = q
                                 /\ p < q => Precedes(E[p], E[q])
  BY FileFacts DEF IInv, FileInv
<1>2. /\ lines' = lines /\ epoch' = epoch /\ total' = total /\ known' = known
      /\ owed' = owed /\ after' = after
  BY DEF ledger
<1>3. FileInv' /\ AllEvents' = E
  BY <1>2, FileSame DEF IInv
<1>4. /\ page' \in Seq(Event) /\ Len(page') = b - a + 1
      /\ \A i \in 1..Len(page') : page'[i] = E[a + i - 1] /\ a + i - 1 \in a..b
  BY <1>1, SegmentIs
<1>5. \A p \in a..b : p \in 1..Len(E)
  BY <1>1
<1>6. ASSUME NEW c \in HeldCursors' PROVE (\E p \in a..b : c = E[p].cursor) \/ (c = after /\ c # NoCursor)
  <2>1. HeldCursors' = {page'[i].cursor : i \in 1..Len(page')} \cup ({after} \ {NoCursor})
    BY <1>2 DEF HeldCursors
  <2> QED BY <2>1, <1>4
<1>7. \A c \in HeldCursors' : Given(c)'
  <2>1. ASSUME NEW c, Given(c) PROVE Given(c)'
    BY <2>1, <1>2 DEF Given
  <2>2. ASSUME NEW c \in HeldCursors' PROVE Given(c)
    <3>1. CASE \E p \in a..b : c = E[p].cursor
      BY <3>1, <1>1, <1>5
    <3>2. CASE c = after /\ c # NoCursor
      BY <3>2 DEF IInv, StreamInv, HeldCursors
    <3> QED BY <3>1, <3>2, <1>6
  <2> QED BY <2>1, <2>2
<1>8. sent' \subseteq 1..total
  BY DEF IInv, StreamInv
<1>9. StreamInv'
  <2>1. page' = <<>> => after' # NoCursor
    <3>1. after = NoCursor => Len(page') > 0
      BY <1>4
    <3> QED BY <3>1, <1>2
  <2> QED BY <2>1, <1>2, <1>7, <1>8 DEF IInv, StreamInv
<1>10. after # NoCursor => \A q \in a..Len(E) : E[q].id = 0 \/ \A n \in sent' : n < E[q].id
  <2> SUFFICES ASSUME after # NoCursor, NEW q \in a..Len(E), E[q].id # 0, NEW n \in sent'
               PROVE  n < E[q].id
    OBVIOUS
  <2>1. a - 1 \in 1..Len(E) /\ (a - 1) + 1 = a /\ E[a - 1].cursor \in HeldCursors
    BY <1>1 DEF HeldCursors
  <2> QED BY <2>1 DEF IInv, Fresh
<1>11. PageInv(AllEvents)'
  <2>1. \A i \in 1..Len(page') : page'[i].id <= total
    BY <1>1, <1>4, <1>5
  <2>2. ASSUME NEW i \in 1..Len(page'), NEW j \in 1..Len(page'), i < j
        PROVE  Precedes(page'[i], page'[j])
    <3>1. a + i - 1 < a + j - 1
      BY <2>2, <1>4
    <3> QED BY <3>1, <1>1, <1>4, <1>5
  <2>3. ASSUME NEW i \in 1..Len(page'), page'[i].id # 0, NEW n \in sent'
        PROVE  n < page'[i].id
    <3>1. after # NoCursor
      OBVIOUS
    <3>2. a + i - 1 \in a..Len(E) /\ page'[i] = E[a + i - 1]
      BY <1>1, <1>4
    <3> QED BY <2>3, <3>1, <3>2, <1>10
  <2>4. ASSUME NEW i \in 1..Len(page'), NEW p \in 1..Len(E), page'[i].cursor = E[p].cursor
        PROVE  page'[i].id = E[p].id
    BY <2>4, <1>1, <1>4, <1>5
  <2>5. Len(page') <= Limit
    BY <1>4
  <2>6. \A v, w : Precedes(v, w)' <=> Precedes(v, w)
    BY DEF Precedes
  <2> HIDE DEF E
  <2> QED BY <2>1, <2>2, <2>3, <2>4, <2>5, <1>2, <1>3, <1>4 DEF PageInv, Precedes
<1>12. Fresh(AllEvents)'
  <2> SUFFICES ASSUME NEW p \in 1..Len(E), E[p].cursor \in HeldCursors',
                      NEW q \in (p + 1)..Len(E), E[q].id # 0, NEW n \in sent'
               PROVE  n < E[q].id
    BY <1>3 DEF Fresh
  <2>1. after # NoCursor
    OBVIOUS
  <2>2. p >= a - 1
    <3>1. CASE \E r \in a..b : E[p].cursor = E[r].cursor
      BY <3>1, <1>1, <1>5
    <3>2. CASE E[p].cursor = after
      <4>1. a - 1 \in 1..Len(E)
        BY <2>1, <1>1
      <4> QED BY <4>1, <3>2, <2>1, <1>1
    <3> QED BY <3>1, <3>2, <1>6
  <2>3. q \in a..Len(E)
    BY <2>2, <1>1
  <2> QED BY <2>1, <2>3, <1>10
<1>13. ClientInv(AllEvents)'
  <2>1. ASSUME ~owed PROVE (\E k \in 0..total : KnowsFirst(AllEvents, k))'
    <3>1. PICK k \in 0..total : KnowsFirst(AllEvents, k)
      BY <2>1 DEF IInv, ClientInv
    <3>2. KnowsFirst(AllEvents, k)'
      BY <2>1, <3>1
    <3>3. k \in 0..total'
      BY <1>2
    <3> QED BY <3>2, <3>3
  <2>2. known' \subseteq 1..total'
    BY <1>2 DEF IInv, ClientInv
  <2> QED BY <2>1, <2>2, <1>2 DEF ClientInv
<1> QED BY <1>3, <1>9, <1>11, <1>12, <1>13 DEF IInv

(* Without a cursor: the newest events, and a notice unless these are all. *)
LEMMA TailKeeps ==
  ASSUME IInv, UNCHANGED <<ledger, known, owed, after>>, live' = TRUE,
         after = NoCursor, sent' = {}, Load
  PROVE  IInv'
<1> DEFINE E == AllEvents
           n == Len(E)
           a == TailStart
<1>1. /\ n \in Nat /\ n > 0 /\ total \in Nat /\ Limit \in Nat /\ Limit > 0
      /\ \A p \in 1..n : E[p].id \in 0..total /\ E[p].cursor # NoCursor
  BY FileFacts, LimitAssumption DEF IInv
<1>2. page' = SubSeq(E, a, n) /\ notice' = HistoryTruncated
  BY DEF Load
<1>3. a \in Nat /\ 1 <= a /\ a <= n /\ n - a + 1 <= Limit
  BY <1>1 DEF TailStart
<1>4. notice' \in BOOLEAN
  BY <1>2 DEF HistoryTruncated, HistoryCompacted
<1>5. ASSUME NEW k \in 0..total, KnowsFirst(AllEvents, k) PROVE KnowsFirst(AllEvents, k)'
  <2>1. AllEvents' = E /\ known' = known /\ after' = after /\ total' = total
    BY FileSame DEF IInv, ledger
  <2>2. \A p \in 1..n : E[p].cursor # after'
    BY <2>1, <1>1
  <2>3. CASE notice'
    BY <2>1, <2>3, <1>5 DEF KnowsFirst
  <2>4. CASE ~notice'
    <3>1. a = 1 /\ ~HistoryCompacted
      <4>1. ~HistoryTruncated
        BY <2>4, <1>2, Zenon
      <4> QED BY <4>1, <1>3 DEF HistoryTruncated
    <3>2. Numbered(E)
      BY DEF IInv, FileInv
    <3>3. ASSUME NEW p \in 1..n PROVE E[p].id = p
      <4>1. E[p].id # 0
        <5>1. E[1].id # 0
          BY <3>1, <3>2 DEF Numbered
        <5>2. 1 \in 1..n /\ (p = 1 \/ 1 < p)
          BY <1>1
        <5> QED BY <5>1, <5>2, <3>2 DEF Numbered
      <4>2. E[p].id = Numeral(E, p) /\ total = n
        BY <4>1, <3>1, <3>2 DEF Numbered
      <4> HIDE DEF E, n
      <4>3. Numeral(E, p) = total - n + p
        BY DEF Numeral, n
      <4> QED BY <4>2, <4>3, <1>1
    <3>4. /\ Len(page') = n
          /\ \A i \in 1..n : page'[i] = E[i]
      <4>1. E \in Seq(Event) /\ page' = SubSeq(E, 1, n)
        BY <1>2, <3>1 DEF IInv, FileInv
      <4> HIDE DEF E
      <4>2. Len(page') = n - 1 + 1 /\ \A i \in 1..Len(page') : page'[i] = E[1 + i - 1]
        BY <4>1, <1>1, SegmentIs
      <4> QED BY <4>2, <1>1
    <3>5. ASSUME NEW i \in 1..Len(page')
          PROVE  page'[i].id <= k + 1 \/ (i > 1 /\ page'[i].id = page'[i - 1].id + 1)
      <4>1. i \in 1..n /\ page'[i].id = i
        BY <3>3, <3>4
      <4>2. CASE i = 1
        BY <4>1, <4>2
      <4>3. CASE i > 1
        <5>1. i - 1 \in 1..n
          BY <4>1, <4>3, <1>1
        <5>2. page'[i - 1].id = i - 1
          BY <5>1, <3>3, <3>4
        <5> QED BY <4>1, <4>3, <5>2, <1>1
      <4> QED BY <4>1, <4>2, <4>3, <1>1
    <3>6. ASSUME NEW p \in 1..n, NEW q \in 1..n, E[q].id = 0
          PROVE  total' - n + q <= k
      BY <3>3, <3>6
    <3> HIDE DEF E
    <3> QED BY <2>1, <2>2, <3>5, <3>6, <1>5 DEF KnowsFirst, Numeral
  <2> QED BY <2>3, <2>4, <1>4
<1> HIDE DEF a
<1>6. /\ a \in Nat /\ n \in Nat /\ 1 <= a /\ n <= Len(AllEvents) /\ a <= n + 1
      /\ n - a + 1 <= Limit /\ page' = SubSeq(AllEvents, a, n)
      /\ notice' \in BOOLEAN /\ (notice' => after = NoCursor) /\ sent' \in {sent, {}}
      /\ (after = NoCursor => a <= n /\ sent' = {})
      /\ (after # NoCursor => a > 1 /\ AllEvents[a - 1].cursor = after)
  BY <1>1, <1>2, <1>3, <1>4
<1>7. \A k \in 0..total : ~owed /\ KnowsFirst(AllEvents, k) => KnowsFirst(AllEvents, k)'
  BY <1>5
<1> HIDE DEF n
<1> QED BY <1>6, <1>7, PartKeeps

(* After a cursor: the events that follow the one it marks.                *)
LEMMA CursorPageKeeps ==
  ASSUME IInv, UNCHANGED <<ledger, known, owed, after>>, live' = TRUE,
         after # NoCursor, Positions(after) # {}, sent' = sent, Load
  PROVE  IInv'
<1> DEFINE E == AllEvents
           n == Len(E)
<1>1. PICK p \in 1..n : E[p].cursor = after
  BY DEF Positions
<1>2. /\ n \in Nat /\ n > 0 /\ total \in Nat /\ Limit \in Nat /\ Limit > 0
      /\ \A q \in 1..n : /\ E[q].id \in 0..total
                         /\ E[q].id = 0 \/ E[q].id = Numeral(E, q)
      /\ \A q, r \in 1..n : E[q].cursor = E[r].cursor => q = r
  BY FileFacts, LimitAssumption, SMTT(30) DEF IInv
<1>3. Positions(after) = {p}
  BY <1>1, <1>2 DEF Positions
<1>4. (CHOOSE i \in Positions(after) : \A j \in Positions(after) : i <= j) = p
  BY <1>1, <1>2, <1>3
<1> DEFINE a == p + 1
           b == Least(a + Limit - 1, n)
<1>5. page' = SubSeq(E, a, b) /\ notice' = FALSE
  BY <1>4 DEF Load, PageAfter, Following
<1>6. a \in Nat /\ b \in Nat /\ 1 <= a /\ a > 1 /\ b <= n /\ a <= b + 1 /\ b - a + 1 <= Limit
      /\ a - 1 = p
  BY <1>2 DEF Least
<1>7. ASSUME ~owed, NEW k \in 0..total, KnowsFirst(AllEvents, k) PROVE KnowsFirst(AllEvents, k)'
  <2>1. AllEvents' = E /\ known' = known /\ after' = after /\ total' = total
    BY FileSame DEF IInv, ledger
  <2>2. ~notice
    BY DEF IInv, StreamInv
  <2>3. E[p].cursor \in HeldCursors
    BY <1>1 DEF HeldCursors
  <2>4. /\ known = 1..k /\ E[p].id <= k
        /\ \A q \in 1..n : E[q].id = 0 => Numeral(E, q) <= k
    BY <1>1, <1>7, <2>2, <2>3 DEF KnowsFirst
  <2>5. E \in Seq(Event)
    BY DEF IInv, FileInv
  <2> HIDE DEF b, E
  <2>6. /\ Len(page') = b - a + 1
        /\ \A i \in 1..Len(page') : page'[i] = E[a + i - 1] /\ a + i - 1 \in a..b
    BY <1>5, <1>6, <2>5, SegmentIs
  <2>7. ASSUME NEW i \in 1..Len(page')
        PROVE  page'[i].id <= k + 1 \/ (i > 1 /\ page'[i].id = page'[i - 1].id + 1)
    <3> DEFINE q == a + i - 1
    <3>1. q \in 1..n /\ page'[i] = E[q] /\ q - 1 \in 1..n /\ q = p + i /\ i \in Nat /\ i > 0
      BY <1>2, <1>6, <2>6
    <3> HIDE DEF q
    <3>2. Numeral(E, q) = Numeral(E, q - 1) + 1 /\ Numeral(E, q - 1) \in Int
      BY <3>1, <1>2 DEF Numeral
    <3>3. CASE E[q].id = 0
      BY <3>1, <3>3, <1>2
    <3>4. CASE E[q].id # 0 /\ E[q - 1].id = 0
      <4>1. Numeral(E, q - 1) <= k /\ E[q].id = Numeral(E, q)
        BY <3>1, <3>4, <2>4, <1>2
      <4> QED BY <4>1, <3>1, <3>2
    <3>5. CASE E[q].id # 0 /\ E[q - 1].id # 0
      <4>1. E[q - 1].id = Numeral(E, q - 1) /\ E[q].id = Numeral(E, q)
        BY <3>1, <3>5, <1>2
      <4>2. CASE i = 1
        <5>1. q - 1 = p
          BY <3>1, <4>2
        <5> QED BY <5>1, <4>1, <3>1, <3>2, <2>4
      <4>3. CASE i > 1
        <5>1. i - 1 \in 1..Len(page') /\ a + (i - 1) - 1 = q - 1
          BY <4>3, <3>1, <1>6, <2>6
        <5>2. page'[i - 1] = E[q - 1]
          BY <5>1, <2>6
        <5> QED BY <5>2, <4>1, <4>3, <3>1, <3>2
      <4> QED BY <4>2, <4>3, <3>1
    <3> QED BY <3>3, <3>4, <3>5
  <2>8. ASSUME NEW q \in 1..n, E[q].id = 0 PROVE total' - n + q <= k
    <3>1. total - n + q <= k
      BY <2>4, <2>8 DEF Numeral
    <3> QED BY <3>1, <2>1, <1>2
  <2>9. ASSUME NEW q \in 1..n, E[q].cursor = after' PROVE E[q].id <= k
    BY <2>9, <2>1, <2>4, <1>1, <1>2
  <2> QED BY <2>1, <2>4, <2>7, <2>8, <2>9 DEF KnowsFirst, Numeral
<1> HIDE DEF b
<1> QED BY <1>1, <1>5, <1>6, <1>7, PartKeeps

(* A stream is opened.                                                      *)
LEMMA SubscribeKeeps ==
  ASSUME IInv, Subscribe
  PROVE  IInv'
<1>1. CASE after = NoCursor
  BY <1>1, TailKeeps DEF Subscribe
<1>2. CASE after # NoCursor
  BY <1>2, CursorPageKeeps DEF Subscribe, Available
<1> QED BY <1>1, <1>2

(* A stream reads its next page.                                            *)
LEMMA LoadNextKeeps ==
  ASSUME IInv, LoadNext
  PROVE  IInv'
<1>1. after # NoCursor
  BY DEF LoadNext, IInv, StreamInv
<1>2. live' = TRUE /\ sent' = sent /\ Positions(after) # {}
  BY <1>1 DEF LoadNext, Available, client, IInv, StreamInv
<1> QED BY <1>1, <1>2, CursorPageKeeps DEF LoadNext, client

(***************************************************************************)
(* The theorems.                                                           *)
(***************************************************************************)
(* The lines that writers append carry the next numbers.                   *)
LEMMA AppendRecordKeeps ==
  ASSUME IInv, AppendRecord
  PROVE  IInv'
<1>1. total \in Nat
  BY DEF IInv, FileInv, LinesOK
<1>2. PICK kind \in {"Record", "Finalized"} :
        AppendLine(Line(kind, IF kind = "Record" THEN <<total + 1>> ELSE <<total + 1, total + 2>>))
  BY DEF AppendRecord
<1> DEFINE ids == IF kind = "Record" THEN <<total + 1>> ELSE <<total + 1, total + 2>>
<1>3. ids \in Seq(Nat) /\ Len(ids) <= 2 /\ \A j \in 1..Len(ids) : ids[j] = total + j
  <2>1. /\ <<total + 1>> \in Seq(Nat) /\ Len(<<total + 1>>) = 1
        /\ <<total + 1, total + 2>> \in Seq(Nat) /\ Len(<<total + 1, total + 2>>) = 2
        /\ \A j \in 1..1 : <<total + 1>>[j] = total + j
        /\ \A j \in 1..2 : <<total + 1, total + 2>>[j] = total + j
    BY <1>1
  <2>2. CASE kind = "Record"
    BY <2>1, <2>2
  <2>3. CASE kind # "Record"
    BY <2>1, <2>3
  <2> QED BY <2>2, <2>3
<1> DEFINE line == Line(kind, ids)
<1>4. AppendLine(line)
  BY <1>2
<1> HIDE DEF ids
<1>5. line \in [kind : LineKinds \ {"Epoch"}, ids : Seq(Nat)] /\ line.ids = ids
  BY <1>3 DEF Line, LineKinds
<1> HIDE DEF line
<1>6. Len(line.ids) <= 2 /\ \A j \in 1..Len(line.ids) : line.ids[j] = total + j
  BY <1>3, <1>5
<1> QED BY <1>4, <1>5, <1>6, AppendKeeps

(* A torn line carries none.                                                *)
LEMMA TearKeeps ==
  ASSUME IInv, Tear
  PROVE  IInv'
<1> DEFINE line == Line("Torn", <<>>)
<1>1. AppendLine(line)
  BY DEF Tear
<1>2. line \in [kind : LineKinds \ {"Epoch"}, ids : Seq(Nat)] /\ line.ids = <<>>
  BY DEF Line, LineKinds
<1> HIDE DEF line
<1>3. Len(line.ids) <= 2 /\ \A j \in 1..Len(line.ids) : line.ids[j] = total + j
  BY <1>2
<1> QED BY <1>1, <1>2, <1>3, AppendKeeps

(* A stutter.                                                               *)
LEMMA StutterKeeps ==
  ASSUME IInv, UNCHANGED vars
  PROVE  IInv'
<1>1. /\ lines' = lines /\ epoch' = epoch /\ total' = total /\ sent' = sent
      /\ page' = page /\ live' = live /\ notice' = notice
      /\ after' = after /\ owed' = owed /\ known' = known
  BY DEF vars
<1>2. HeldCursors' = HeldCursors
  BY <1>1 DEF HeldCursors
<1>3. /\ FileInv' /\ PageInv(AllEvents)' /\ Fresh(AllEvents)' /\ sent' \subseteq 1..total'
      /\ AllEvents' = AllEvents /\ \A c \in HeldCursors' : Given(c)'
  BY <1>1, <1>2, LosesKeeps
<1>4. StreamInv'
  BY <1>1, <1>2, <1>3 DEF IInv, StreamInv
<1>5. ClientInv(AllEvents)'
  <2>1. ASSUME NEW k \in 0..total, KnowsFirst(AllEvents, k) PROVE KnowsFirst(AllEvents, k)'
    BY <2>1, <1>1, <1>2, <1>3 DEF KnowsFirst, Numeral
  <2> QED BY <2>1, <1>1 DEF IInv, ClientInv
<1> QED BY <1>3, <1>4, <1>5 DEF IInv

(* One case per action.                                                     *)
LEMMA StepKeeps == IInv /\ [Next]_vars => IInv'
<1> SUFFICES ASSUME IInv, [Next]_vars PROVE IInv'
  OBVIOUS
<1>1. CASE AppendRecord      BY <1>1, AppendRecordKeeps
<1>2. CASE Tear              BY <1>2, TearKeeps
<1>3. CASE Compact           BY <1>3, CompactKeeps
<1>4. CASE Subscribe         BY <1>4, SubscribeKeeps
<1>5. CASE CursorUnavailable BY <1>5, CursorUnavailableKeeps
<1>6. CASE SendNotice        BY <1>6, SendNoticeKeeps
<1>7. CASE SendEvent         BY <1>7, SendEventKeeps
<1>8. CASE LoadNext          BY <1>8, LoadNextKeeps
<1>9. CASE Drop              BY <1>9, DropKeeps
<1>10. CASE Forget           BY <1>10, ForgetKeeps
<1>11. CASE Reload           BY <1>11, ReloadKeeps
<1>12. CASE UNCHANGED vars   BY <1>12, StutterKeeps
<1> QED BY <1>1, <1>2, <1>3, <1>4, <1>5, <1>6, <1>7, <1>8, <1>9, <1>10, <1>11, <1>12
        DEF Next, Writers, Stream

(* IInv is an invariant of the specification, and implies ReplayInv.        *)
LEMMA Invariance == Spec => []IInv
<1> QED BY InitHolds, StepKeeps, PTL DEF Spec

LEMMA InvGivesReplayInv == IInv => ReplayInv
<1> SUFFICES ASSUME IInv PROVE ReplayInv
  OBVIOUS
<1>1. TypeOK
  <2>1. \A i \in 1..Len(lines) : lines[i].ids \in Seq(0..total)
    <3>1. \A i \in 1..Len(lines) : lines[i] \in [kind : LineKinds, ids : Seq(0..total)]
      BY ElementIs DEF IInv, FileInv, LinesOK
    <3> QED BY <3>1
  <2> QED BY <2>1 DEF TypeOK, IInv, PageInv, StreamInv, ClientInv
<1>2. NoSilentGap
  <2> SUFFICES ASSUME ~owed, NEW i \in known PROVE 1..i \subseteq known
    BY DEF NoSilentGap
  <2>1. PICK k \in 0..total : known = 1..k
    BY DEF IInv, ClientInv, KnowsFirst
  <2> QED BY <2>1
<1> QED BY <1>1, <1>2 DEF ReplayInv

(* A client that was not told to reload knows the run's history without     *)
(* holes, whatever the writers append, tear or compact and whatever        *)
(* connection or cursor is lost (stream_fleet_events and replay_events).   *)
THEOREM NoGap == Spec => []ReplayInv
<1> QED BY Invariance, InvGivesReplayInv, PTL

(* What is sent is later than all that was sent.                            *)
LEMMA SendsNew == IInv /\ SendEvent => Head(page).id \notin sent
<1> SUFFICES ASSUME IInv, SendEvent PROVE Head(page).id \notin sent
  OBVIOUS
<1>1. page \in Seq(Event) /\ page # <<>>
  BY DEF SendEvent, IInv, PageInv
<1>2. Head(page) = page[1] /\ 1 \in 1..Len(page)
  BY <1>1, TailIs
<1>3. page[1].id = 0 \/ \A n \in sent : n < page[1].id
  BY <1>2 DEF IInv, PageInv
<1>4. sent \subseteq 1..total /\ total \in Nat
  BY DEF IInv, StreamInv, FileInv, LinesOK
<1>5. 0 \notin sent /\ \A n \in sent : n \in Nat
  BY <1>4
<1>6. \A n \in sent : ~(n < n)
  BY <1>5
<1> QED BY <1>2, <1>3, <1>5, <1>6

(* A cursor "is stable across ordinary appends": no event is sent twice to  *)
(* a client that keeps coming back with the cursor it was given            *)
(* (replay_events returns only what follows it).                           *)
THEOREM SentOnce == Spec => NothingTwice
<1>1. IInv /\ [Next]_vars => [SendEvent => Head(page).id \notin sent]_vars
  BY SendsNew
<1> QED BY <1>1, Invariance, PTL DEF Spec, NothingTwice

=============================================================================
