--------------------------- MODULE Evidence_proofs ---------------------------
(***************************************************************************)
(* Proofs about the validation of reports and about the reports a native   *)
(* audit offers it, for reports of any size, texts in any encoding, any    *)
(* observations and any bounds on extents and groups.  An accepted report  *)
(* accounts for what was analysed and its findings rest on that; and what  *)
(* is assembled of observations passes every stage of the validation.      *)
(*                                                                         *)
(* The code's loops over sequences are functions on 0..Len; what is shown  *)
(* of a loop is shown for each of its rounds, by descent to the first one  *)
(* that would break it.                                                    *)
(***************************************************************************)
EXTENDS NativeAnchors, FiniteSetTheorems, SequenceTheorems, WellFoundedInduction, TLAPS

----------------------------------------------------------------------------
(* Loops over sequences.                                                   *)

\* A set of natural numbers of which none is the least has no element.
LEMMA Descent ==
    ASSUME NEW Bad \in SUBSET Nat, \A n \in Bad : n # 0 /\ n - 1 \in Bad
    PROVE  Bad = {}
<1> SUFFICES ASSUME Bad # {} PROVE FALSE
  OBVIOUS
<1> DEFINE R == {ss \in Nat \X Nat : ss[1] < ss[2]}
<1>1. IsWellFoundedOn(R, Nat)
  BY NatLessThanWellFounded DEF OpToRel
<1>2. PICK n \in Bad : \A m \in Bad : <<m, n>> \notin R
  BY <1>1, WFMin, Zenon
<1>3. n \in Nat /\ n # 0 /\ n - 1 \in Bad
  OBVIOUS
<1>4. <<n - 1, n>> \in Nat \X Nat /\ <<n - 1, n>>[1] = n - 1 /\ <<n - 1, n>>[2] = n
  BY <1>3
<1>5. n - 1 < n
  BY <1>3
<1>6. <<n - 1, n>> \in R
  BY <1>4, <1>5
<1> QED BY <1>2, <1>3, <1>6

\* A function of 0..N that is defined from its predecessor.
Unrolls(f, N, S, base, step) ==
    f \in [0..N -> S] /\ f[0] = base /\ \A n \in 1..N : f[n] = step[n][f[n - 1]]

\* Such a function exists.
LEMMA Unrolled ==
    ASSUME NEW N \in Nat, NEW S, NEW base \in S, NEW step \in [1..N -> [S -> S]]
    PROVE  \E f : Unrolls(f, N, S, base, step)
<1> DEFINE Q(m) == \E f : Unrolls(f, m, S, base, step)
           Bad == {m \in 0..N : ~Q(m)}
<1>1. ASSUME NEW m \in Bad PROVE m # 0 /\ m - 1 \in Bad
  <2>1. m \in 0..N /\ ~Q(m)
    OBVIOUS
  <2>2. m # 0
    <3> DEFINE g == [i \in 0..0 |-> base]
    <3>1. g \in [0..0 -> S] /\ g[0] = base /\ \A n \in 1..0 : g[n] = step[n][g[n - 1]]
      OBVIOUS
    <3>2. Q(0)
      <4> HIDE DEF g
      <4> QED BY <3>1 DEF Unrolls
    <3> HIDE DEF Q
    <3> QED BY <3>2, <2>1
  <2>3. SUFFICES ASSUME Q(m - 1) PROVE FALSE
    <3> HIDE DEF Q
    <3>1. m - 1 \in 0..N
      BY <2>1, <2>2
    <3> QED BY <3>1, <2>2, <2>3
  <2>4. PICK f \in [0..(m - 1) -> S] : f[0] = base /\ \A n \in 1..(m - 1) : f[n] = step[n][f[n - 1]]
    BY <2>3 DEF Unrolls
  <2> DEFINE g == [i \in 0..m |-> IF i = m THEN step[m][f[m - 1]] ELSE f[i]]
  <2>5. step[m][f[m - 1]] \in S
    BY <2>1, <2>2, <2>4
  <2>6. g \in [0..m -> S] /\ g[0] = base
    BY <2>1, <2>2, <2>4, <2>5
  <2>7. ASSUME NEW n \in 1..m PROVE g[n] = step[n][g[n - 1]]
    <3>1. CASE n = m
      BY <2>1, <2>2, <2>4, <3>1
    <3>2. CASE n # m
      <4>1. n \in 1..(m - 1) /\ n \in 0..m /\ n - 1 \in 0..m /\ n - 1 # m
        BY <2>1, <3>2
      <4>2. g[n] = f[n] /\ g[n - 1] = f[n - 1]
        BY <4>1, <3>2
      <4> QED BY <4>1, <4>2, <2>4
    <3> QED BY <3>1, <3>2
  <2>8. Q(m)
    <3> HIDE DEF g
    <3> QED BY <2>6, <2>7 DEF Unrolls
  <2> QED BY <2>8, <2>1
<1>2. Bad = {}
  <2>1. Bad \in SUBSET Nat
    OBVIOUS
  <2> HIDE DEF Bad
  <2> QED BY <1>1, <2>1, Descent
<1>3. N \in 0..N /\ N \notin Bad
  <2>1. N \in 0..N
    OBVIOUS
  <2> HIDE DEF Bad
  <2> QED BY <1>2, <2>1
<1>4. Q(N)
  <2> HIDE DEF Q
  <2> QED BY <1>3
<1> QED BY <1>4

\* Totals of natural numbers, one number more each time.
LEMMA TotalsUnfold ==
    ASSUME NEW seq \in Seq(Nat)
    PROVE  /\ Totals(seq) \in [0..Len(seq) -> Nat] /\ Totals(seq)[0] = 0
           /\ \A i \in 1..Len(seq) : Totals(seq)[i] = Totals(seq)[i - 1] + seq[i]
<1> DEFINE N == Len(seq)
           step == [i \in 1..N |-> [x \in Nat |-> Plus(x, seq[i])]]
           Unfolds(f) == f = [i \in 0..N |-> IF i = 0 THEN 0 ELSE Plus(f[i - 1], seq[i])]
<1>1. N \in Nat /\ \A i \in 1..N : seq[i] \in Nat
  OBVIOUS
<1>2. \A x \in Nat, i \in 1..N : Plus(x, seq[i]) \in Nat
  BY <1>1 DEF Plus
<1>3. step \in [1..N -> [Nat -> Nat]]
  BY <1>2
<1>4. PICK f \in [0..N -> Nat] : f[0] = 0 /\ \A i \in 1..N : f[i] = step[i][f[i - 1]]
  <2> HIDE DEF step, N
  <2>1. \E f : Unrolls(f, N, Nat, 0, step)
    BY <1>1, <1>3, Unrolled
  <2> QED BY <2>1 DEF Unrolls
<1>5. ASSUME NEW i \in 1..N PROVE f[i] = Plus(f[i - 1], seq[i])
  <2>1. f[i - 1] \in Nat
    <3>1. i - 1 \in 0..N
      BY <1>1
    <3> HIDE DEF N
    <3> QED BY <3>1
  <2>2. \A x \in Nat : step[i][x] = Plus(x, seq[i])
    OBVIOUS
  <2> HIDE DEF step
  <2> QED BY <1>4, <2>1, <2>2
<1>6. Unfolds(f)
  <2>1. \A i \in 0..N : f[i] = IF i = 0 THEN 0 ELSE Plus(f[i - 1], seq[i])
    BY <1>4, <1>5
  <2> QED BY <2>1, <1>4
<1>7. Totals(seq) = CHOOSE g : Unfolds(g)
  BY Zenon DEF Totals, Loop
<1>8. PICK g : g = Totals(seq) /\ Unfolds(g)
  <2> HIDE DEF Unfolds
  <2> QED BY <1>6, <1>7
<1>9. /\ DOMAIN g = 0..N /\ g[0] = 0 /\ g = [i \in 0..N |-> g[i]]
      /\ \A i \in 1..N : g[i] = Plus(g[i - 1], seq[i])
  BY <1>1, <1>8
<1> DEFINE Bad == {i \in 0..N : g[i] \notin Nat}
<1>10. ASSUME NEW i \in Bad PROVE i # 0 /\ i - 1 \in Bad
  <2>1. i # 0
    BY <1>9
  <2>2. i \in 1..N /\ i - 1 \in 0..N
    BY <2>1
  <2> QED BY <2>2, <1>2, <1>9, <2>1
<1>11. Bad = {}
  <2>1. Bad \in SUBSET Nat
    OBVIOUS
  <2> HIDE DEF Bad
  <2> QED BY <1>10, <2>1, Descent
<1>12. \A i \in 0..N : g[i] \in Nat
  BY <1>11
<1>13. g \in [0..N -> Nat]
  BY <1>9, <1>12
<1> QED BY <1>8, <1>9, <1>13 DEF Plus

\* Totals do not decrease.
LEMMA TotalsGrow ==
    ASSUME NEW seq \in Seq(Nat), NEW i \in 0..Len(seq), NEW j \in i..Len(seq)
    PROVE  Totals(seq)[i] <= Totals(seq)[j]
<1> DEFINE Bad == {k \in i..Len(seq) : ~(Totals(seq)[i] <= Totals(seq)[k])}
<1>1. ASSUME NEW k \in Bad PROVE k # 0 /\ k - 1 \in Bad
  <2>1. k \in 0..Len(seq) /\ Totals(seq)[i] \in Nat /\ Totals(seq)[k] \in Nat /\ k # i
    <3>1. k \in i..Len(seq) /\ i \in 0..Len(seq) /\ Len(seq) \in Nat /\ k \in 0..Len(seq)
      OBVIOUS
    <3>2. Totals(seq)[i] \in Nat /\ Totals(seq)[k] \in Nat
      BY <3>1, TotalsUnfold
    <3>3. k # i
      BY <3>2
    <3> QED BY <3>1, <3>2, <3>3
  <2>2. k \in 1..Len(seq) /\ k - 1 \in i..Len(seq) /\ k - 1 \in 0..Len(seq)
    BY <2>1
  <2> DEFINE T == Totals(seq)
  <2>3. T[k - 1] \in Nat
    BY <2>2, TotalsUnfold
  <2>4. T[k] = T[k - 1] + seq[k]
    BY <2>2, TotalsUnfold
  <2>5. seq[k] \in Nat
    BY <2>2
  <2>6. T[i] \in Nat /\ T[k] \in Nat /\ ~(T[i] <= T[k])
    BY <2>1
  <2> HIDE DEF T
  <2>7. ~(T[i] <= T[k - 1])
    BY <2>3, <2>4, <2>5, <2>6
  <2> QED BY <2>1, <2>2, <2>7 DEF T
<1>2. Bad = {}
  <2>1. Bad \in SUBSET Nat
    OBVIOUS
  <2> HIDE DEF Bad
  <2> QED BY <1>1, <2>1, Descent
<1> QED BY <1>2

----------------------------------------------------------------------------
(* Regions, and what is left of them when they are merged.                 *)

Proper == {r \in Regions : r.start <= r.end}
UnitsOf(regions) == UNION {r.start..(r.end - 1) : r \in Range(regions)}

\* The units of a sequence with one more region.
LEMMA UnitsOfAppend ==
    ASSUME NEW regions \in Seq(Proper), NEW r \in Proper
    PROVE  /\ Append(regions, r) \in Seq(Proper)
           /\ UnitsOf(Append(regions, r)) = UnitsOf(regions) \cup (r.start..(r.end - 1))
<1>1. /\ Append(regions, r) \in Seq(Proper) /\ DOMAIN Append(regions, r) = 1..(Len(regions) + 1)
      /\ Append(regions, r)[Len(regions) + 1] = r
      /\ \A i \in 1..Len(regions) : Append(regions, r)[i] = regions[i]
  OBVIOUS
<1>2. Range(Append(regions, r)) = Range(regions) \cup {r}
  <2>1. DOMAIN regions = 1..Len(regions) /\ Len(regions) \in Nat
    OBVIOUS
  <2> QED BY <1>1, <2>1 DEF Range
<1> QED BY <1>1, <1>2 DEF UnitsOf

\* Joining a region to the merged ones keeps the units of both.
LEMMA JoinFacts ==
    ASSUME NEW merged \in Seq(Proper), NEW r \in Proper
    PROVE  /\ Join(merged, r) \in Seq(Proper)
           /\ UnitsOf(Join(merged, r)) = UnitsOf(merged) \cup (r.start..(r.end - 1))
<1>1. CASE ~(merged # <<>> /\ Last(merged).end = r.start)
  BY <1>1, UnitsOfAppend, Zenon DEF Join
<1>2. CASE merged # <<>> /\ Last(merged).end = r.start
  <2> DEFINE n == Len(merged)
             l == merged[n]
             j == [l EXCEPT !.end = r.end]
             new == [merged EXCEPT ![n] = j]
  <2>1. n \in 1..Len(merged) /\ DOMAIN merged = 1..n /\ l \in Proper /\ l.end = r.start
    BY <1>2 DEF Last
  <2>2. /\ j \in Proper /\ j.start = l.start /\ j.end = r.end
        /\ j.start..(j.end - 1) = (l.start..(l.end - 1)) \cup (r.start..(r.end - 1))
    <3>1. l \in Regions /\ r \in Regions /\ l.start <= l.end /\ r.start <= r.end
      BY <2>1 DEF Proper
    <3>2. j \in Regions /\ j.start = l.start /\ j.end = r.end
      BY <3>1 DEF Regions
    <3>3. l.start \in Nat /\ l.end \in Nat /\ r.start \in Nat /\ r.end \in Nat
      BY <3>1 DEF Regions
    <3> HIDE DEF l, j
    <3> QED BY <3>1, <3>2, <3>3, <2>1 DEF Proper
  <2>3. Join(merged, r) = new
    BY <1>2, Zenon DEF Join
  <2>4. new \in Seq(Proper) /\ DOMAIN new = 1..n /\ new[n] = j /\ \A i \in 1..n : i # n => new[i] = merged[i]
    <3>1. merged \in [1..n -> Proper] /\ n \in 1..n /\ n \in Nat
      BY <2>1
    <3> HIDE DEF j, n
    <3>2. new \in [1..n -> Proper] /\ new[n] = j /\ \A i \in 1..n : i # n => new[i] = merged[i]
      BY <3>1, <2>2
    <3>3. DOMAIN new = 1..n
      BY <3>1
    <3> HIDE DEF new
    <3> QED BY <3>1, <3>2, <3>3
  <2>5. UnitsOf(new) = UNION {new[i].start..(new[i].end - 1) : i \in 1..n}
    <3> HIDE DEF new
    <3> QED BY <2>4 DEF UnitsOf, Range
  <2>6. UnitsOf(merged) = UNION {merged[i].start..(merged[i].end - 1) : i \in 1..n}
    BY <2>1 DEF UnitsOf, Range
  <2>7. UnitsOf(new) = UnitsOf(merged) \cup (r.start..(r.end - 1))
    <3> HIDE DEF new, j
    <3>1. n \in 1..n
      BY <2>1
    <3> HIDE DEF n
    <3>2. ASSUME NEW u, u \in UnitsOf(new) PROVE u \in UnitsOf(merged) \/ u \in r.start..(r.end - 1)
      <4>1. PICK i \in 1..n : u \in new[i].start..(new[i].end - 1)
        BY <3>2, <2>5
      <4> QED BY <4>1, <2>2, <2>4, <2>6, <3>1
    <3>3. ASSUME NEW u, u \in UnitsOf(merged) \/ u \in r.start..(r.end - 1) PROVE u \in UnitsOf(new)
      <4>1. CASE u \in r.start..(r.end - 1)
        BY <4>1, <2>2, <2>4, <2>5, <3>1
      <4>2. CASE u \in UnitsOf(merged)
        <5>1. PICK i \in 1..n : u \in merged[i].start..(merged[i].end - 1)
          BY <4>2, <2>6
        <5> QED BY <5>1, <2>2, <2>4, <2>5, <3>1
      <4> QED BY <3>3, <4>1, <4>2
    <3> QED BY <3>2, <3>3
  <2> QED BY <2>3, <2>4, <2>7
<1> QED BY <1>1, <1>2

\* Merging takes one region more each time.
LEMMA MergingUnfolds ==
    ASSUME NEW seq \in Seq(Proper)
    PROVE  /\ Loop(Join, <<>>, seq) \in [0..Len(seq) -> Seq(Proper)] /\ Loop(Join, <<>>, seq)[0] = <<>>
           /\ \A i \in 1..Len(seq) : Loop(Join, <<>>, seq)[i] = Join(Loop(Join, <<>>, seq)[i - 1], seq[i])
<1> DEFINE N == Len(seq)
           step == [i \in 1..N |-> [x \in Seq(Proper) |-> Join(x, seq[i])]]
           Unfolds(f) == f = [i \in 0..N |-> IF i = 0 THEN <<>> ELSE Join(f[i - 1], seq[i])]
<1>1. N \in Nat /\ \A i \in 1..N : seq[i] \in Proper
  OBVIOUS
<1>2. \A x \in Seq(Proper), i \in 1..N : Join(x, seq[i]) \in Seq(Proper)
  BY <1>1, JoinFacts
<1>3. step \in [1..N -> [Seq(Proper) -> Seq(Proper)]]
  BY <1>2
<1>4. PICK f \in [0..N -> Seq(Proper)] : f[0] = <<>> /\ \A i \in 1..N : f[i] = step[i][f[i - 1]]
  <2>1. <<>> \in Seq(Proper)
    OBVIOUS
  <2> HIDE DEF step, N
  <2>2. \E f : Unrolls(f, N, Seq(Proper), <<>>, step)
    BY <1>1, <1>3, <2>1, Unrolled
  <2> QED BY <2>2 DEF Unrolls
<1>5. ASSUME NEW i \in 1..N PROVE f[i] = Join(f[i - 1], seq[i])
  <2>1. f[i - 1] \in Seq(Proper)
    <3>1. i - 1 \in 0..N
      BY <1>1
    <3> HIDE DEF N
    <3> QED BY <3>1
  <2>2. \A x \in Seq(Proper) : step[i][x] = Join(x, seq[i])
    OBVIOUS
  <2> HIDE DEF step
  <2> QED BY <1>4, <2>1, <2>2
<1>6. Unfolds(f)
  <2>1. \A i \in 0..N : f[i] = IF i = 0 THEN <<>> ELSE Join(f[i - 1], seq[i])
    BY <1>4, <1>5
  <2> QED BY <2>1, <1>4
<1>7. Loop(Join, <<>>, seq) = CHOOSE g : Unfolds(g)
  BY Zenon DEF Loop
<1>8. PICK g : g = Loop(Join, <<>>, seq) /\ Unfolds(g)
  <2> HIDE DEF Unfolds
  <2> QED BY <1>6, <1>7
<1>9. /\ DOMAIN g = 0..N /\ g[0] = <<>> /\ g = [i \in 0..N |-> g[i]]
      /\ \A i \in 1..N : g[i] = Join(g[i - 1], seq[i])
  <2>1. g = [i \in 0..N |-> IF i = 0 THEN <<>> ELSE Join(g[i - 1], seq[i])]
    BY <1>8
  <2>2. N \in Nat
    BY <1>1
  <2> HIDE DEF N
  <2>3. \A i \in 0..N : g[i] = IF i = 0 THEN <<>> ELSE Join(g[i - 1], seq[i])
    BY <2>1, Zenon
  <2>4. DOMAIN g = 0..N
    BY <2>1, Zenon
  <2>5. g = [i \in 0..N |-> g[i]]
    BY <2>1, Zenon
  <2>6. 0 \in 0..N /\ \A i \in 1..N : i \in 0..N /\ i # 0
    BY <2>2
  <2>7. g[0] = <<>> /\ \A i \in 1..N : g[i] = Join(g[i - 1], seq[i])
    BY <2>3, <2>6, Zenon
  <2> QED BY <2>4, <2>5, <2>7, Zenon
<1> DEFINE Bad == {i \in 0..N : g[i] \notin Seq(Proper)}
<1>10. ASSUME NEW i \in Bad PROVE i # 0 /\ i - 1 \in Bad
  <2>1. i # 0
    BY <1>4, <1>9
  <2>2. i \in 1..N /\ i - 1 \in 0..N
    BY <2>1
  <2> QED BY <2>2, <1>2, <1>9, <2>1
<1>11. Bad = {}
  <2>1. Bad \in SUBSET Nat
    OBVIOUS
  <2> HIDE DEF Bad
  <2> QED BY <1>10, <2>1, Descent
<1>12. \A i \in 0..N : g[i] \in Seq(Proper)
  BY <1>11
<1>13. g \in [0..N -> Seq(Proper)]
  BY <1>9, <1>12
<1> QED BY <1>8, <1>9, <1>13

\* Merging keeps the units of all regions.
LEMMA MergingKeeps ==
    ASSUME NEW seq \in Seq(Proper)
    PROVE  UnitsOf(Loop(Join, <<>>, seq)[Len(seq)]) = UnitsOf(seq)
<1> DEFINE g == Loop(Join, <<>>, seq)
           Part(i) == UNION {seq[j].start..(seq[j].end - 1) : j \in 1..i}
           Bad == {i \in 0..Len(seq) : UnitsOf(g[i]) # Part(i)}
<1>1. /\ g \in [0..Len(seq) -> Seq(Proper)] /\ g[0] = <<>>
      /\ \A i \in 1..Len(seq) : g[i] = Join(g[i - 1], seq[i])
  BY MergingUnfolds
<1> HIDE DEF g
<1>2. ASSUME NEW i \in Bad PROVE i # 0 /\ i - 1 \in Bad
  <2>1. i # 0
    <3>1. UnitsOf(g[0]) = {} /\ Part(0) = {}
      BY <1>1 DEF UnitsOf, Range
    <3> QED BY <3>1
  <2>2. i \in 1..Len(seq) /\ i - 1 \in 0..Len(seq) /\ g[i - 1] \in Seq(Proper) /\ seq[i] \in Proper
    BY <2>1, <1>1
  <2>3. UnitsOf(g[i]) = UnitsOf(g[i - 1]) \cup (seq[i].start..(seq[i].end - 1))
    BY <1>1, <2>2, JoinFacts
  <2>4. Part(i) = Part(i - 1) \cup (seq[i].start..(seq[i].end - 1))
    <3>1. 1..i = (1..(i - 1)) \cup {i}
      BY <2>2
    <3> QED BY <3>1
  <2>5. i \in Bad
    OBVIOUS
  <2>6. UnitsOf(g[i]) # Part(i)
    BY <2>5
  <2>7. UnitsOf(g[i - 1]) # Part(i - 1)
    <3> HIDE DEF Part
    <3> QED BY <2>3, <2>4, <2>6
  <2> QED BY <2>1, <2>2, <2>7
<1>3. Bad = {}
  <2>1. Bad \in SUBSET Nat
    OBVIOUS
  <2> HIDE DEF Bad
  <2> QED BY <1>2, <2>1, Descent
<1>4. Len(seq) \in 0..Len(seq) /\ UnitsOf(seq) = Part(Len(seq))
  BY DEF UnitsOf, Range
<1>5. UnitsOf(g[Len(seq)]) = Part(Len(seq))
  <2> HIDE DEF Part
  <2> QED BY <1>3, <1>4
<1> QED BY <1>4, <1>5 DEF g

\* Regions merged in any order that takes each of them once keep their units.
LEMMA MergedKeeps ==
    ASSUME NEW regions \in Seq(Proper), NEW order \in Sorted(regions)
    PROVE  UnitsOf(Merged(regions, order)) = UnitsOf(regions)
<1> DEFINE seq == InOrder(regions, order)
<1>1. /\ DOMAIN regions = 1..Len(regions) /\ order \in [1..Len(regions) -> 1..Len(regions)]
      /\ \A k \in 1..Len(regions) : \E i \in 1..Len(regions) : order[i] = k
  <2>1. DOMAIN regions = 1..Len(regions)
    OBVIOUS
  <2>2. order \in Bijection(DOMAIN regions, DOMAIN regions)
    BY Zenon DEF Sorted
  <2>3. order \in [DOMAIN regions -> DOMAIN regions]
        /\ \A k \in DOMAIN regions : \E i \in DOMAIN regions : order[i] = k
    BY <2>2, Zenon DEF Bijection, Injection, Surjection
  <2> QED BY <2>1, <2>3
<1>2. seq \in Seq(Proper) /\ Len(seq) = Len(regions) /\ DOMAIN seq = 1..Len(regions)
  BY <1>1 DEF InOrder
<1>3. \A i \in 1..Len(regions) : seq[i] = regions[order[i]]
  BY <1>1 DEF InOrder
<1>4. Range(seq) = Range(regions)
  <2> HIDE DEF seq
  <2>1. Range(seq) = {seq[i] : i \in 1..Len(regions)} /\ Range(regions) = {regions[i] : i \in 1..Len(regions)}
    BY <1>1, <1>2 DEF Range
  <2>2. \A i \in 1..Len(regions) : order[i] \in 1..Len(regions)
    BY <1>1
  <2>3. \A r : r \in Range(seq) => r \in Range(regions)
    BY <2>1, <2>2, <1>3
  <2>4. \A r : r \in Range(regions) => r \in Range(seq)
    <3> SUFFICES ASSUME NEW k \in 1..Len(regions) PROVE regions[k] \in Range(seq)
      BY <2>1
    <3>1. PICK i \in 1..Len(regions) : order[i] = k
      BY <1>1
    <3> QED BY <3>1, <2>1, <1>3
  <2> QED BY <2>3, <2>4
<1>5. UnitsOf(seq) = UnitsOf(regions)
  BY <1>4 DEF UnitsOf
<1>6. UnitsOf(Loop(Join, <<>>, seq)[Len(seq)]) = UnitsOf(seq)
  <2> HIDE DEF seq
  <2> QED BY <1>2, MergingKeeps
<1>7. Merged(regions, order) = Loop(Join, <<>>, seq)[Len(regions)]
  BY DEF Merged
<1> HIDE DEF seq
<1> QED BY <1>2, <1>5, <1>6, <1>7

----------------------------------------------------------------------------
(* The scopes of an execution and their regions.                           *)

\* The regions of one more scope are added each time.
LEMMA RegionsUnfold ==
    ASSUME NEW U, NEW scopes \in Seq(U), \A s \in U : RegionsOf(s) \in Seq(Proper)
    PROVE  /\ Loop(WithRegions, <<>>, scopes) \in [0..Len(scopes) -> Seq(Proper)] /\ Loop(WithRegions, <<>>, scopes)[0] = <<>>
           /\ \A i \in 1..Len(scopes) : Loop(WithRegions, <<>>, scopes)[i] = WithRegions(Loop(WithRegions, <<>>, scopes)[i - 1], scopes[i])
<1> DEFINE N == Len(scopes)
           step == [i \in 1..N |-> [x \in Seq(Proper) |-> WithRegions(x, scopes[i])]]
           Unfolds(f) == f = [i \in 0..N |-> IF i = 0 THEN <<>> ELSE WithRegions(f[i - 1], scopes[i])]
<1>1. N \in Nat /\ \A i \in 1..N : scopes[i] \in U
  OBVIOUS
<1>2. \A x \in Seq(Proper), i \in 1..N : WithRegions(x, scopes[i]) \in Seq(Proper)
  BY <1>1, ConcatProperties DEF WithRegions
<1>3. step \in [1..N -> [Seq(Proper) -> Seq(Proper)]]
  BY <1>2
<1>4. PICK f \in [0..N -> Seq(Proper)] : f[0] = <<>> /\ \A i \in 1..N : f[i] = step[i][f[i - 1]]
  <2>1. <<>> \in Seq(Proper)
    OBVIOUS
  <2> HIDE DEF step, N
  <2>2. \E f : Unrolls(f, N, Seq(Proper), <<>>, step)
    BY <1>1, <1>3, <2>1, Unrolled
  <2> QED BY <2>2 DEF Unrolls
<1>5. ASSUME NEW i \in 1..N PROVE f[i] = WithRegions(f[i - 1], scopes[i])
  <2>1. f[i - 1] \in Seq(Proper)
    <3>1. i - 1 \in 0..N
      BY <1>1
    <3> HIDE DEF N
    <3> QED BY <3>1
  <2>2. \A x \in Seq(Proper) : step[i][x] = WithRegions(x, scopes[i])
    OBVIOUS
  <2> HIDE DEF step
  <2> QED BY <1>4, <2>1, <2>2
<1>6. Unfolds(f)
  <2>1. \A i \in 0..N : f[i] = IF i = 0 THEN <<>> ELSE WithRegions(f[i - 1], scopes[i])
    BY <1>4, <1>5
  <2> QED BY <2>1, <1>4
<1>7. Loop(WithRegions, <<>>, scopes) = CHOOSE g : Unfolds(g)
  BY Zenon DEF Loop
<1>8. PICK g : g = Loop(WithRegions, <<>>, scopes) /\ Unfolds(g)
  <2> HIDE DEF Unfolds
  <2> QED BY <1>6, <1>7
<1>9. /\ DOMAIN g = 0..N /\ g[0] = <<>> /\ g = [i \in 0..N |-> g[i]]
      /\ \A i \in 1..N : g[i] = WithRegions(g[i - 1], scopes[i])
  <2>1. g = [i \in 0..N |-> IF i = 0 THEN <<>> ELSE WithRegions(g[i - 1], scopes[i])]
    BY <1>8
  <2>2. N \in Nat
    BY <1>1
  <2> HIDE DEF N
  <2>3. \A i \in 0..N : g[i] = IF i = 0 THEN <<>> ELSE WithRegions(g[i - 1], scopes[i])
    BY <2>1, Zenon
  <2>4. DOMAIN g = 0..N
    BY <2>1, Zenon
  <2>5. g = [i \in 0..N |-> g[i]]
    BY <2>1, Zenon
  <2>6. 0 \in 0..N /\ \A i \in 1..N : i \in 0..N /\ i # 0
    BY <2>2
  <2>7. g[0] = <<>> /\ \A i \in 1..N : g[i] = WithRegions(g[i - 1], scopes[i])
    BY <2>3, <2>6, Zenon
  <2> QED BY <2>4, <2>5, <2>7, Zenon
<1> DEFINE Bad == {i \in 0..N : g[i] \notin Seq(Proper)}
<1>10. ASSUME NEW i \in Bad PROVE i # 0 /\ i - 1 \in Bad
  <2>1. i # 0
    BY <1>4, <1>9
  <2>2. i \in 1..N /\ i - 1 \in 0..N
    BY <2>1
  <2> QED BY <2>2, <1>2, <1>9, <2>1
<1>11. Bad = {}
  <2>1. Bad \in SUBSET Nat
    OBVIOUS
  <2> HIDE DEF Bad
  <2> QED BY <1>10, <2>1, Descent
<1>12. \A i \in 0..N : g[i] \in Seq(Proper)
  BY <1>11
<1>13. g \in [0..N -> Seq(Proper)]
  BY <1>9, <1>12
<1> QED BY <1>8, <1>9, <1>13

\* The regions of scopes together have the units of each.
LEMMA RegionsOfAllKeeps ==
    ASSUME NEW U, NEW scopes \in Seq(U), \A s \in U : RegionsOf(s) \in Seq(Proper)
    PROVE  /\ RegionsOfAll(scopes) \in Seq(Proper)
           /\ UnitsOf(RegionsOfAll(scopes)) = UNION {Units(s) : s \in Range(scopes)}
<1> DEFINE g == Loop(WithRegions, <<>>, scopes)
           Part(i) == UNION {Units(scopes[j]) : j \in 1..i}
           Bad == {i \in 0..Len(scopes) : UnitsOf(g[i]) # Part(i)}
<1>1. /\ g \in [0..Len(scopes) -> Seq(Proper)] /\ g[0] = <<>>
      /\ \A i \in 1..Len(scopes) : g[i] = WithRegions(g[i - 1], scopes[i])
  BY RegionsUnfold
<1> HIDE DEF g
<1>2. ASSUME NEW i \in Bad PROVE i # 0 /\ i - 1 \in Bad
  <2>1. i # 0
    <3>1. UnitsOf(g[0]) = {} /\ Part(0) = {}
      BY <1>1 DEF UnitsOf, Range
    <3> QED BY <3>1
  <2>2. /\ i \in 1..Len(scopes) /\ i - 1 \in 0..Len(scopes) /\ g[i - 1] \in Seq(Proper)
        /\ scopes[i] \in U
    <3>1. i \in 1..Len(scopes) /\ i - 1 \in 0..Len(scopes)
      BY <2>1
    <3>2. g[i - 1] \in Seq(Proper)
      BY <1>1, <3>1
    <3>3. scopes[i] \in U
      BY <3>1
    <3> QED BY <3>1, <3>2, <3>3
  <2>3. UnitsOf(g[i]) = UnitsOf(g[i - 1]) \cup Units(scopes[i])
    <3>1. g[i] = g[i - 1] \o RegionsOf(scopes[i]) /\ RegionsOf(scopes[i]) \in Seq(Proper)
      BY <1>1, <2>2 DEF WithRegions
    <3>2. Range(g[i]) = Range(g[i - 1]) \cup Range(RegionsOf(scopes[i]))
      BY <3>1, <2>2, RangeConcatenation
    <3> QED BY <3>2 DEF UnitsOf, Units
  <2>4. Part(i) = Part(i - 1) \cup Units(scopes[i])
    <3>1. 1..i = (1..(i - 1)) \cup {i}
      BY <2>2
    <3> QED BY <3>1
  <2>5. i \in Bad
    OBVIOUS
  <2>6. UnitsOf(g[i]) # Part(i)
    BY <2>5
  <2>7. UnitsOf(g[i - 1]) # Part(i - 1)
    <3> HIDE DEF Part
    <3> QED BY <2>3, <2>4, <2>6
  <2> QED BY <2>1, <2>2, <2>7
<1>3. Bad = {}
  <2>1. Bad \in SUBSET Nat
    OBVIOUS
  <2> HIDE DEF Bad
  <2> QED BY <1>2, <2>1, Descent
<1>4. /\ Len(scopes) \in 0..Len(scopes)
      /\ UNION {Units(s) : s \in Range(scopes)} = Part(Len(scopes))
  <2>1. Range(scopes) = {scopes[i] : i \in 1..Len(scopes)}
    BY DEF Range
  <2> QED BY <2>1
<1>5. UnitsOf(g[Len(scopes)]) = Part(Len(scopes))
  <2> HIDE DEF Part
  <2> QED BY <1>3, <1>4
<1> QED BY <1>1, <1>4, <1>5 DEF g, RegionsOfAll

\* The scopes of exclusions are added to the analyzed ones.
LEMMA PartsUnfold ==
    ASSUME NEW U, NEW e, e.analyzed \in Seq(U), List(e.exclusions),
           \A x \in Range(e.exclusions) : x.scope # None => x.scope \in U
    PROVE  /\ Loop(WithScope, e.analyzed, e.exclusions) \in [0..Len(e.exclusions) -> Seq(U)] /\ Loop(WithScope, e.analyzed, e.exclusions)[0] = e.analyzed
           /\ \A i \in 1..Len(e.exclusions) : Loop(WithScope, e.analyzed, e.exclusions)[i] = WithScope(Loop(WithScope, e.analyzed, e.exclusions)[i - 1], e.exclusions[i])
<1> DEFINE N == Len(e.exclusions)
           step == [i \in 1..N |-> [x \in Seq(U) |-> WithScope(x, e.exclusions[i])]]
           Unfolds(f) == f = [i \in 0..N |-> IF i = 0 THEN e.analyzed ELSE WithScope(f[i - 1], e.exclusions[i])]
<1>1. N \in Nat /\ \A i \in 1..N : e.exclusions[i] \in Range(e.exclusions)
  BY DEF List
<1>2. \A x \in Seq(U), i \in 1..N : WithScope(x, e.exclusions[i]) \in Seq(U)
  BY <1>1 DEF WithScope
<1>3. step \in [1..N -> [Seq(U) -> Seq(U)]]
  BY <1>2
<1>4. PICK f \in [0..N -> Seq(U)] : f[0] = e.analyzed /\ \A i \in 1..N : f[i] = step[i][f[i - 1]]
  <2>1. e.analyzed \in Seq(U)
    OBVIOUS
  <2> HIDE DEF step, N
  <2>2. \E f : Unrolls(f, N, Seq(U), e.analyzed, step)
    BY <1>1, <1>3, <2>1, Unrolled
  <2> QED BY <2>2 DEF Unrolls
<1>5. ASSUME NEW i \in 1..N PROVE f[i] = WithScope(f[i - 1], e.exclusions[i])
  <2>1. f[i - 1] \in Seq(U)
    <3>1. i - 1 \in 0..N
      BY <1>1
    <3> HIDE DEF N
    <3> QED BY <3>1
  <2>2. \A x \in Seq(U) : step[i][x] = WithScope(x, e.exclusions[i])
    OBVIOUS
  <2> HIDE DEF step
  <2> QED BY <1>4, <2>1, <2>2
<1>6. Unfolds(f)
  <2>1. \A i \in 0..N : f[i] = IF i = 0 THEN e.analyzed ELSE WithScope(f[i - 1], e.exclusions[i])
    BY <1>4, <1>5
  <2> QED BY <2>1, <1>4
<1>7. Loop(WithScope, e.analyzed, e.exclusions) = CHOOSE g : Unfolds(g)
  BY Zenon DEF Loop
<1>8. PICK g : g = Loop(WithScope, e.analyzed, e.exclusions) /\ Unfolds(g)
  <2> HIDE DEF Unfolds
  <2> QED BY <1>6, <1>7
<1>9. /\ DOMAIN g = 0..N /\ g[0] = e.analyzed /\ g = [i \in 0..N |-> g[i]]
      /\ \A i \in 1..N : g[i] = WithScope(g[i - 1], e.exclusions[i])
  <2>1. g = [i \in 0..N |-> IF i = 0 THEN e.analyzed ELSE WithScope(g[i - 1], e.exclusions[i])]
    BY <1>8
  <2>2. N \in Nat
    BY <1>1
  <2> HIDE DEF N
  <2>3. \A i \in 0..N : g[i] = IF i = 0 THEN e.analyzed ELSE WithScope(g[i - 1], e.exclusions[i])
    BY <2>1, Zenon
  <2>4. DOMAIN g = 0..N
    BY <2>1, Zenon
  <2>5. g = [i \in 0..N |-> g[i]]
    BY <2>1, Zenon
  <2>6. 0 \in 0..N /\ \A i \in 1..N : i \in 0..N /\ i # 0
    BY <2>2
  <2>7. g[0] = e.analyzed /\ \A i \in 1..N : g[i] = WithScope(g[i - 1], e.exclusions[i])
    BY <2>3, <2>6, Zenon
  <2> QED BY <2>4, <2>5, <2>7, Zenon
<1> DEFINE Bad == {i \in 0..N : g[i] \notin Seq(U)}
<1>10. ASSUME NEW i \in Bad PROVE i # 0 /\ i - 1 \in Bad
  <2>1. i # 0
    BY <1>4, <1>9
  <2>2. i \in 1..N /\ i - 1 \in 0..N
    BY <2>1
  <2> QED BY <2>2, <1>2, <1>9, <2>1
<1>11. Bad = {}
  <2>1. Bad \in SUBSET Nat
    OBVIOUS
  <2> HIDE DEF Bad
  <2> QED BY <1>10, <2>1, Descent
<1>12. \A i \in 0..N : g[i] \in Seq(U)
  BY <1>11
<1>13. g \in [0..N -> Seq(U)]
  BY <1>9, <1>12
<1> QED BY <1>8, <1>9, <1>13

\* The scopes an execution may account for.
Claimed(e) ==
    Range(e.analyzed) \cup {s \in {x.scope : x \in Range(e.exclusions)} : s # None}

\* The scopes accounted for are the analyzed ones and those of exclusions.
LEMMA PartsFacts ==
    ASSUME NEW e, ExecutionRead(e)
    PROVE  /\ Parts(e) \in Seq(Claimed(e)) /\ \A s \in Claimed(e) : ScopeRead(s)
           /\ Range(e.analyzed) \subseteq Range(Parts(e))
           /\ e.exclusions = <<>> => Parts(e) = e.analyzed
<1> DEFINE U == Claimed(e)
           n == Len(e.exclusions)
           g == Loop(WithScope, e.analyzed, e.exclusions)
           Bad == {i \in 0..n : ~(Range(e.analyzed) \subseteq Range(g[i]))}
<1>1. /\ e.analyzed \in Seq(Range(e.analyzed)) /\ e.exclusions \in Seq(Range(e.exclusions))
      /\ n \in Nat /\ List(e.exclusions)
  BY DEF ExecutionRead, List
<1>2. e.analyzed \in Seq(U)
  BY <1>1, SeqMonotonic DEF Claimed
<1>3. \A x \in Range(e.exclusions) : x.scope # None => x.scope \in U
  BY DEF Claimed
<1>4. \A s \in U : ScopeRead(s)
  BY DEF Claimed, ExecutionRead
<1> HIDE DEF U
<1>5. /\ g \in [0..n -> Seq(U)] /\ g[0] = e.analyzed
      /\ \A i \in 1..n : g[i] = WithScope(g[i - 1], e.exclusions[i])
  <2>1. List(e.exclusions)
    BY <1>1
  <2> QED BY <1>2, <1>3, <2>1, PartsUnfold
<1>6. Parts(e) = g[n]
  BY DEF Parts
<1> HIDE DEF g
<1>7. ASSUME NEW i \in Bad PROVE i # 0 /\ i - 1 \in Bad
  <2>1. i # 0
    BY <1>5
  <2>2. i \in 1..n /\ i - 1 \in 0..n
    BY <1>1, <2>1
  <2>3. g[i] = g[i - 1] \/ g[i] = Append(g[i - 1], e.exclusions[i].scope)
    BY <1>5, <2>2 DEF WithScope
  <2>4. g[i - 1] \in Seq(U) /\ g[i] \in Seq(U)
    <3>1. i \in 0..n
      OBVIOUS
    <3> QED BY <1>5, <2>2, <3>1
  <2>5. Range(g[i - 1]) \subseteq Range(g[i])
    <3> DEFINE p == g[i - 1]
               y == e.exclusions[i].scope
    <3>1. CASE g[i] = Append(p, y)
      <4>1. p \in Seq(U)
        BY <2>4
      <4> HIDE DEF p, y
      <4>2. DOMAIN p = 1..Len(p) /\ DOMAIN Append(p, y) = 1..(Len(p) + 1) /\ Len(p) \in Nat
            /\ \A k \in 1..Len(p) : Append(p, y)[k] = p[k]
        BY <4>1
      <4>3. Range(p) \subseteq Range(Append(p, y))
        BY <4>2 DEF Range
      <4> QED BY <4>3, <3>1 DEF p
    <3> QED BY <2>3, <3>1
  <2> QED BY <2>1, <2>2, <2>5
<1>8. Bad = {}
  <2>1. Bad \in SUBSET Nat
    BY <1>1
  <2> HIDE DEF Bad
  <2> QED BY <1>7, <2>1, Descent
<1>9. n \in 0..n
  BY <1>1
<1>10. Range(e.analyzed) \subseteq Range(g[n])
  BY <1>8, <1>9
<1>11. e.exclusions = <<>> => n = 0
  OBVIOUS
<1> QED BY <1>4, <1>5, <1>6, <1>9, <1>10, <1>11 DEF U

\* A reference that is known leads to a record that has it.
LEMMA NamedFacts ==
    ASSUME NEW seq, NEW ref, Known(seq, ref)
    PROVE  Named(seq, ref) \in Range(seq) /\ Named(seq, ref).ref = ref
  BY DEF Known, Refs, Named

\* The extent of a whole artifact is the artifact's length.
LEMMA ExtentFacts ==
    ASSUME Read(report), NEW s, NEW known, Measured(s, known), s.unit = "whole_artifact"
    PROVE  /\ Extent(s) = ArtifactAt(s.artifact).length /\ Extent(s) \in Nat \cup {None}
           /\ known => Extent(s) \in Nat
<1>1. Known(report.artifacts, s.artifact) /\ (known => Extent(s) # None)
  BY DEF Measured
<1>2. ArtifactAt(s.artifact) \in Range(report.artifacts)
  BY <1>1, NamedFacts DEF ArtifactAt
<1>3. Extent(s) = ArtifactAt(s.artifact).length
  BY DEF Extent
<1> QED BY <1>1, <1>2, <1>3 DEF Read

\* The regions of a scope that is measured have an order and lengths.
LEMMA RegionsFacts ==
    ASSUME Read(report), NEW s, ScopeRead(s), ScopeValid(s), NEW known, Measured(s, known)
    PROVE  RegionsOf(s) \in Seq(Proper)
<1>1. CASE s.unit # "whole_artifact"
  <2>1. s.regions \in Seq(Regions) /\ \A i \in DOMAIN s.regions : s.regions[i].start < s.regions[i].end
    BY <1>1 DEF ScopeValid, Increasing, ScopeRead
  <2>2. \A i \in 1..Len(s.regions) : s.regions[i] \in Proper
    <3> SUFFICES ASSUME NEW i \in 1..Len(s.regions) PROVE s.regions[i] \in Proper
      OBVIOUS
    <3>1. s.regions[i] \in Regions /\ s.regions[i].start < s.regions[i].end
      BY <2>1
    <3>2. s.regions[i].start \in Nat /\ s.regions[i].end \in Nat
      BY <3>1 DEF Regions
    <3> QED BY <3>1, <3>2 DEF Proper
  <2>3. s.regions \in Seq(Proper)
    BY <2>1, <2>2
  <2> QED BY <1>1, <2>3 DEF RegionsOf
<1>2. CASE s.unit = "whole_artifact"
  <2>1. Extent(s) \in Nat \cup {None}
    BY <1>2, ExtentFacts
  <2>2. CASE Extent(s) = None
    BY <1>2, <2>2 DEF RegionsOf
  <2>3. CASE Extent(s) # None
    <3>1. Region(0, Extent(s)) \in Proper
      BY <2>1, <2>3 DEF Region, Proper, Regions
    <3>2. RegionsOf(s) = <<Region(0, Extent(s))>>
      BY <1>2, <2>3 DEF RegionsOf
    <3> QED BY <3>1, <3>2
  <2> QED BY <2>2, <2>3
<1> QED BY <1>1, <1>2

----------------------------------------------------------------------------
(* What every stage of the validation leaves behind.                       *)

EvidenceInv ==
    /\ Read(report)
    /\ pc \notin {"index", "refused"} => Indexed
    /\ pc \notin {"index", "artifacts", "refused"} => ArtifactsStand
    /\ pc \notin {"index", "artifacts", "texts", "refused"} => TextsStand
    /\ pc \in {"anchors", "results", "diagnostics", "status", "findings", "accepted"} =>
          ExecutionsStand
    /\ pc \in {"results", "diagnostics", "status", "findings", "accepted"} => AnchorsStand
    /\ pc = "accepted" => FindingsStand

\* What the stages found of a report stays true of it.
LEMMA ReportStays ==
    ASSUME report' = report
    PROVE  /\ Read(report)' = Read(report) /\ Indexed' = Indexed
           /\ ArtifactsStand' = ArtifactsStand /\ TextsStand' = TextsStand
           /\ ExecutionsStand' = ExecutionsStand /\ AnchorsStand' = AnchorsStand
           /\ FindingsStand' = FindingsStand
<1>1. Read(report)' = Read(report)
  OBVIOUS
<1>2. Indexed' = Indexed
  BY DEF Indexed, AllOf, Unique, RefOf
<1>3. ArtifactsStand' = ArtifactsStand
  BY DEF ArtifactsStand, Parented, MappingResolved, SourceAgrees, TextAgrees, TextOf, Measured, Extent, ArtifactAt
<1>4. TextsStand' = TextsStand
  BY DEF TextsStand, TextStands
<1>5. ExecutionsStand' = ExecutionsStand
  <2>1. \A s : RegionsOf(s)' = RegionsOf(s)
    BY DEF RegionsOf, Extent, TextOf, ArtifactAt
  <2>2. \A all, s : WithRegions(all, s)' = WithRegions(all, s)
    BY <2>1 DEF WithRegions
  <2>3. \A scopes : RegionsOfAll(scopes)' = RegionsOfAll(scopes)
    BY <2>2, Zenon DEF RegionsOfAll, Loop
  <2>4. \A e : Accounted(e)' = Accounted(e)
    BY <2>1, <2>3, Zenon DEF Accounted
  <2>5. \A s, known : Measured(s, known)' = Measured(s, known)
    BY DEF Measured, Extent, TextOf, ArtifactAt
  <2>6. CapabilityIds' = CapabilityIds /\ \A e : CapabilityOf(e)' = CapabilityOf(e)
    BY DEF CapabilityIds, CapabilityOf
  <2> QED BY <2>4, <2>5, <2>6 DEF ExecutionsStand
<1>6. AnchorsStand' = AnchorsStand
  BY DEF AnchorsStand, MappingResolved, LocatorStands, SpanStands, ArtifactAt, ExecutionAt, Measured, Extent, TextOf
<1>7. FindingsStand' = FindingsStand
  BY DEF FindingsStand, ExecutionAt, OriginStands, CapabilityOf, CoordinatesStand, AnchorsOf, Positive, BelongsTo, Segments, Segment, Spans
<1> QED BY <1>1, <1>2, <1>3, <1>4, <1>5, <1>6, <1>7

----------------------------------------------------------------------------
(* Coverage                                                                *)

\* Scopes of one artifact that do not overlap have no unit in common.
LEMMA ApartFacts ==
    ASSUME NEW a, NEW b, ScopeRead(a), ScopeRead(b), a.artifact = b.artifact, ~Overlap(a, b)
    PROVE  Units(a) \cap Units(b) = {}
<1>1. /\ a.unit # "whole_artifact" /\ b.unit # "whole_artifact"
      /\ \A x \in Range(a.regions), y \in Range(b.regions) : ~(x.start < y.end /\ y.start < x.end)
  BY DEF Overlap
<1>2. RegionsOf(a) = a.regions /\ RegionsOf(b) = b.regions
  BY <1>1 DEF RegionsOf
<1>3. Range(a.regions) \subseteq Regions /\ Range(b.regions) \subseteq Regions
  BY RangeOfSeq DEF ScopeRead
<1> SUFFICES ASSUME NEW u, u \in Units(a), u \in Units(b) PROVE FALSE
  OBVIOUS
<1>4. PICK x \in Range(a.regions) : u \in x.start..(x.end - 1)
  BY <1>2 DEF Units
<1>5. PICK y \in Range(b.regions) : u \in y.start..(y.end - 1)
  BY <1>2 DEF Units
<1>6. x.start \in Nat /\ x.end \in Nat /\ y.start \in Nat /\ y.end \in Nat
  BY <1>3 DEF Regions
<1> QED BY <1>1, <1>4, <1>5, <1>6

\* A scope within another speaks of no unit that the other does not.
LEMMA WithinFacts ==
    ASSUME Read(report), NEW s, NEW o, ScopeRead(s), ScopeRead(o), ScopeValid(s), ScopeValid(o),
           Measured(s, TRUE), Measured(o, FALSE), Within(s, o)
    PROVE  Units(s) \subseteq Units(o)
<1>1. s.artifact = o.artifact
  BY DEF Within
<1>2. Range(s.regions) \subseteq Regions /\ Range(o.regions) \subseteq Regions
  BY RangeOfSeq DEF ScopeRead
<1>3. CASE o.unit # "whole_artifact"
  <2>1. s.unit = o.unit /\ \A r \in Range(s.regions) : \E x \in Range(o.regions) : Lies(r, x)
    BY <1>3 DEF Within
  <2>2. RegionsOf(s) = s.regions /\ RegionsOf(o) = o.regions
    BY <1>3, <2>1 DEF RegionsOf
  <2> SUFFICES ASSUME NEW u, u \in Units(s) PROVE u \in Units(o)
    OBVIOUS
  <2>3. PICK r \in Range(s.regions) : u \in r.start..(r.end - 1)
    BY <2>2 DEF Units
  <2>4. PICK x \in Range(o.regions) : Lies(r, x)
    BY <2>1
  <2>5. r.start \in Nat /\ r.end \in Nat /\ x.start \in Nat /\ x.end \in Nat
    BY <1>2 DEF Regions
  <2>6. u \in x.start..(x.end - 1)
    BY <2>3, <2>4, <2>5 DEF Lies
  <2> QED BY <2>2, <2>6 DEF Units
<1>4. CASE o.unit = "whole_artifact" /\ s.unit = "whole_artifact"
  <2>1. Extent(s) = Extent(o)
    BY <1>1, <1>4 DEF Extent
  <2>2. RegionsOf(s) = RegionsOf(o)
    BY <1>4, <2>1 DEF RegionsOf
  <2> QED BY <2>2 DEF Units
<1>5. CASE o.unit = "whole_artifact" /\ s.unit = "byte"
  <2>1. /\ Extent(s) = Extent(o) /\ Extent(s) # None
        /\ \A r \in Range(s.regions) : r.end <= Extent(s)
    BY <1>1, <1>5 DEF Extent, Measured
  <2>2. Extent(o) \in Nat
    BY <1>5, <2>1, ExtentFacts
  <2>3. RegionsOf(s) = s.regions /\ RegionsOf(o) = <<Region(0, Extent(o))>>
    BY <1>5, <2>1 DEF RegionsOf
  <2>4. Range(RegionsOf(o)) = {Region(0, Extent(o))}
    BY <2>3 DEF Range
  <2> SUFFICES ASSUME NEW u, u \in Units(s) PROVE u \in Units(o)
    OBVIOUS
  <2>5. PICK r \in Range(s.regions) : u \in r.start..(r.end - 1)
    BY <2>3 DEF Units
  <2>6. r.start \in Nat /\ r.end \in Nat
    BY <1>2 DEF Regions
  <2>7. u \in 0..(Extent(o) - 1)
    BY <2>1, <2>2, <2>5, <2>6
  <2>8. Region(0, Extent(o)).start = 0 /\ Region(0, Extent(o)).end = Extent(o)
    BY DEF Region
  <2> QED BY <2>4, <2>7, <2>8 DEF Units
<1>6. o.unit = "whole_artifact" => s.unit \in {"whole_artifact", "byte"}
  BY DEF Within
<1> QED BY <1>3, <1>4, <1>5, <1>6

\* What the validation establishes of the scopes of an execution.
LEMMA CoverageFacts ==
    ASSUME EvidenceInv, Accepted, NEW e \in Range(report.executions)
    PROVE  /\ Read(report) /\ ExecutionRead(e) /\ ExecutionValid(e) /\ Accounted(e)
           /\ Measured(e.requested, FALSE) /\ \A s \in Range(Parts(e)) : Measured(s, TRUE)
<1>1. Indexed /\ ExecutionsStand /\ Read(report)
  BY DEF EvidenceInv, Accepted
<1> QED BY <1>1 DEF Indexed, AllOf, ExecutionsStand, Read

\* In a report that has passed every stage all is accounted for once.
LEMMA AllAccounted ==
    ASSUME EvidenceInv
    PROVE  AccountedOnce
<1> SUFFICES ASSUME Accepted, NEW e \in Range(report.executions)
             PROVE  LET all == UNION {Units(s) : s \in Range(Parts(e))} IN
                    /\ \A i, j \in DOMAIN Parts(e) :
                          i # j => Units(Parts(e)[i]) \cap Units(Parts(e)[j]) = {}
                    /\ all \subseteq Units(e.requested)
                    /\ Usable(e) /\ (\A x \in Range(e.exclusions) : ~x.unknown)
                          => all = Units(e.requested)
  BY DEF AccountedOnce
<1> DEFINE P == Parts(e)
           all == UNION {Units(s) : s \in Range(P)}
<1>1. /\ Read(report) /\ ExecutionRead(e) /\ ExecutionValid(e) /\ Accounted(e)
      /\ Measured(e.requested, FALSE) /\ \A s \in Range(P) : Measured(s, TRUE)
  BY CoverageFacts
<1>2. P \in Seq(Claimed(e)) /\ DOMAIN P = 1..Len(P)
  BY <1>1, PartsFacts
<1>3. /\ ScopeRead(e.requested) /\ ScopeValid(e.requested)
      /\ \A s \in Range(P) : ScopeRead(s) /\ ScopeValid(s) /\ Within(s, e.requested)
  <2>1. Range(P) \subseteq Claimed(e)
    BY <1>2, RangeOfSeq
  <2>2. ScopeRead(e.requested) /\ ScopeValid(e.requested)
    BY <1>1 DEF ExecutionRead, ExecutionValid
  <2>3. \A s \in Range(P) : ScopeRead(s)
    BY <1>1, <2>1, PartsFacts
  <2>4. \A s \in Range(P) : ScopeValid(s) /\ Within(s, e.requested)
    BY <1>1 DEF ExecutionValid
  <2> QED BY <2>2, <2>3, <2>4
<1>4. \A i, j \in DOMAIN P : i < j => ~Overlap(P[i], P[j])
  BY <1>1 DEF ExecutionValid
<1>5. \A i \in DOMAIN P : P[i] \in Range(P)
  BY DEF Range
<1> HIDE DEF P
<1>6. ASSUME NEW i \in DOMAIN P, NEW j \in DOMAIN P, i < j
      PROVE  Units(P[i]) \cap Units(P[j]) = {}
  <2>1. P[i].artifact = e.requested.artifact /\ P[j].artifact = e.requested.artifact
    BY <1>3, <1>5 DEF Within
  <2>2. ScopeRead(P[i]) /\ ScopeRead(P[j]) /\ ~Overlap(P[i], P[j])
    BY <1>3, <1>4, <1>5, <1>6
  <2> QED BY <2>1, <2>2, ApartFacts
<1>7. ASSUME NEW i \in DOMAIN P, NEW j \in DOMAIN P, i # j
      PROVE  Units(P[i]) \cap Units(P[j]) = {}
  <2>1. i < j \/ j < i
    BY <1>2, <1>7
  <2> QED BY <1>6, <2>1
<1>8. all \subseteq Units(e.requested)
  <2>1. \A s \in Range(P) : Units(s) \subseteq Units(e.requested)
    BY <1>1, <1>3, WithinFacts
  <2> QED BY <2>1
<1>9. ASSUME Usable(e), \A x \in Range(e.exclusions) : ~x.unknown
      PROVE  all = Units(e.requested)
  <2>1. CASE e.state = "completed"
    <3>1. StateFits(e)
      BY <1>1 DEF ExecutionValid
    <3>2. e.exclusions = <<>> /\ e.analyzed = <<e.requested>>
      BY <2>1, <3>1 DEF StateFits
    <3>3. P = <<e.requested>>
      BY <1>1, <3>2, PartsFacts DEF P
    <3>4. Range(P) = {e.requested}
      BY <3>3 DEF Range
    <3> QED BY <3>4
  <2>2. CASE e.state = "partial"
    <3>1. PICK p \in Sorted(RegionsOfAll(P)), q \in Sorted(RegionsOf(e.requested)) :
              Merged(RegionsOfAll(P), p) = Merged(RegionsOf(e.requested), q)
      BY <1>1, <1>9, <2>2 DEF Accounted, MergedEqual, P
    <3>2. \A s \in Range(P) : RegionsOf(s) \in Seq(Proper)
      BY <1>1, <1>3, RegionsFacts
    <3>3. P \in Seq(Range(P))
      BY <1>2, SeqOfRange
    <3>4. RegionsOfAll(P) \in Seq(Proper) /\ UnitsOf(RegionsOfAll(P)) = all
      BY <3>2, <3>3, RegionsOfAllKeeps
    <3>5. RegionsOf(e.requested) \in Seq(Proper)
      BY <1>1, <1>3, RegionsFacts
    <3>6. UnitsOf(RegionsOf(e.requested)) = Units(e.requested)
      BY DEF UnitsOf, Units
    <3>7. /\ UnitsOf(Merged(RegionsOfAll(P), p)) = UnitsOf(RegionsOfAll(P))
          /\ UnitsOf(Merged(RegionsOf(e.requested), q)) = UnitsOf(RegionsOf(e.requested))
      BY <3>1, <3>4, <3>5, MergedKeeps
    <3> QED BY <3>1, <3>4, <3>6, <3>7
  <2> QED BY <1>9, <2>1, <2>2 DEF Usable
<1> QED BY <1>7, <1>8, <1>9 DEF P

----------------------------------------------------------------------------
(* Occurrences                                                             *)

\* A source that has one text is the source of that text.
LEMMA SegmentFacts ==
    ASSUME Read(report), NEW f, Cardinality(Segments(f.source)) = 1
    PROVE  /\ Segment(f) \in DOMAIN report.texts /\ Segment(f) \in Nat
           /\ report.texts[Segment(f)] \in Range(report.texts)
<1>1. Segments(f.source) # {}
  BY FS_EmptySet
<1>2. Segment(f) \in DOMAIN report.texts
  BY <1>1 DEF Segments, Segment
<1>3. DOMAIN report.texts = 1..Len(report.texts) /\ Len(report.texts) \in Nat
  BY DEF Read, List
<1> QED BY <1>2, <1>3 DEF Range

\* A text's scalars and its offsets, as they are read.
LEMMA TextFacts ==
    ASSUME Read(report), TextsStand, NEW t \in Range(report.texts)
    PROVE  /\ t.scalars \in Seq(Nat) /\ t.scalars \in Seq(1..4) /\ t.offsets \in Seq(Nat)
           /\ Len(t.offsets) = Len(t.scalars) + 1
           /\ report.file.size \in Nat /\ \A b \in Range(t.offsets) : b <= report.file.size
           /\ \A i \in DOMAIN t.scalars :
                 t.offsets[i + 1] = t.offsets[i] + Width(t.encoding, t.scalars[i])
<1>1. t.scalars \in Seq(1..4) /\ t.offsets \in Seq(Nat)
  BY DEF Read, TextRead
<1>2. t.scalars \in Seq(Nat)
  <2>1. 1..4 \subseteq Nat
    OBVIOUS
  <2> QED BY <1>1, <2>1, SeqMonotonic
<1>3. report.file.size # None
  BY DEF TextsStand, TextStands
<1> QED BY <1>1, <1>2, <1>3 DEF Read, TextRead, TextsStand, TextStands

\* A span that covers a position is covered by an analyzed scope, and so is the position.
LEMMA CoveredFacts ==
    ASSUME EvidenceInv, Accepted, NEW e \in Range(report.executions), NEW scope \in Range(e.analyzed),
           NEW i \in DOMAIN report.texts, ArtifactAt(scope.artifact).content = i,
           NEW x \in Regions, x.end <= Len(report.texts[i].scalars),
           Covered(report.texts[i], scope, x),
           NEW n \in Nat, x.start <= n, n < x.end
    PROVE  Analyzed(e, i, n)
<1> DEFINE t == report.texts[i]
<1>1. /\ Read(report) /\ TextsStand /\ ArtifactsStand /\ ExecutionRead(e) /\ ExecutionValid(e)
      /\ \A s \in Range(Parts(e)) : Measured(s, TRUE)
  BY CoverageFacts DEF EvidenceInv, Accepted
<1>2. t \in Range(report.texts) /\ t.scalars \in Seq(Nat)
  <2>1. t \in Range(report.texts)
    BY DEF Range
  <2> QED BY <1>1, <2>1, TextFacts
<1>3. scope \in Range(Parts(e))
  BY <1>1, PartsFacts
<1>4. ScopeValid(scope) /\ ScopeRead(scope) /\ Measured(scope, TRUE)
  BY <1>1, <1>3 DEF ExecutionValid, ExecutionRead
<1>5. scope.unit \in {"whole_artifact", "byte", "scalar"}
  BY <1>4 DEF ScopeValid
<1>6. Range(scope.regions) \subseteq Regions
  BY <1>4, RangeOfSeq DEF ScopeRead
<1> DEFINE L == Len(t.scalars)
           T == Totals(t.scalars)
<1>7. x.start \in Nat /\ x.end \in Nat /\ L \in Nat /\ n + 1 \in 0..L /\ n \in 0..L /\ x.start \in 0..L /\ x.end \in 0..L
  <2>1. x.start \in Nat /\ x.end \in Nat /\ L \in Nat /\ x.end <= L
    BY <1>2 DEF Regions
  <2> HIDE DEF L
  <2> QED BY <2>1
<1>8. /\ T \in [0..L -> Nat] /\ T[0] = 0
      /\ T[x.start] <= T[n] /\ T[n + 1] <= T[x.end] /\ T[n + 1] <= T[L]
  <2>1. T \in [0..L -> Nat] /\ T[0] = 0
    BY <1>2, TotalsUnfold
  <2>2. n \in x.start..L /\ x.end \in (n + 1)..L /\ L \in (n + 1)..L
    <3> HIDE DEF L
    <3> QED BY <1>7
  <2>3. t.scalars \in Seq(Nat) /\ L = Len(t.scalars)
    BY <1>2
  <2> HIDE DEF L, T
  <2>4. T[x.start] <= T[n]
    BY <1>7, <2>2, <2>3, TotalsGrow DEF T
  <2>5. T[n + 1] <= T[x.end]
    BY <1>7, <2>2, <2>3, TotalsGrow DEF T
  <2>6. T[n + 1] <= T[L]
    BY <1>7, <2>2, <2>3, TotalsGrow DEF T
  <2> QED BY <2>1, <2>4, <2>5, <2>6
<1>9. /\ Utf8Offset(t, n) = T[n] /\ Utf8Offset(t, n + 1) = T[n + 1] /\ Utf8Offset(t, x.start) = T[x.start]
      /\ Utf8Offset(t, x.end) = T[x.end] /\ Sum(t.scalars) = T[L]
  BY DEF Utf8Offset, Sum
<1>10. SUFFICES IF scope.unit = "scalar" THEN n \in Units(scope)
                ELSE \A b \in T[n]..(T[n + 1] - 1) : b \in Units(scope)
  BY <1>9 DEF Analyzed
<1> HIDE DEF T, L
<1>11. T[n] \in Nat /\ T[n + 1] \in Nat /\ T[x.start] \in Nat /\ T[x.end] \in Nat /\ T[L] \in Nat
  <2>1. L \in 0..L
    BY <1>7
  <2> QED BY <1>7, <1>8, <2>1
<1>12. CASE scope.unit = "scalar"
  <2>1. PICK o \in Range(scope.regions) : Lies(x, o)
    BY <1>12 DEF Covered
  <2>2. o.start \in Nat /\ o.end \in Nat
    BY <1>6 DEF Regions
  <2>3. n \in o.start..(o.end - 1)
    BY <2>1, <2>2, <1>7 DEF Lies
  <2>4. RegionsOf(scope) = scope.regions
    BY <1>12 DEF RegionsOf
  <2> QED BY <1>12, <2>3, <2>4 DEF Units
<1>13. CASE scope.unit = "byte"
  <2>1. PICK o \in Range(scope.regions) : Lies(Region(T[x.start], T[x.end]), o)
    BY <1>9, <1>13 DEF Covered
  <2>2. o.start \in Nat /\ o.end \in Nat /\ o.start <= T[x.start] /\ T[x.end] <= o.end
    BY <1>6, <2>1 DEF Regions, Lies, Region
  <2>3. \A b \in T[n]..(T[n + 1] - 1) : b \in o.start..(o.end - 1)
    <3>1. o.start <= T[n] /\ T[n + 1] <= o.end
      <4>1. \A u, v, w \in Nat : u <= v /\ v <= w => u <= w
        OBVIOUS
      <4>2. o.start <= T[n]
        BY <1>8, <1>11, <2>2, <4>1
      <4>3. T[n + 1] <= o.end
        BY <1>8, <1>11, <2>2, <4>1
      <4> QED BY <4>2, <4>3
    <3>2. T[n] \in Nat /\ T[n + 1] \in Nat /\ o.start \in Nat /\ o.end \in Nat
      BY <1>11, <2>2
    <3> QED BY <3>1, <3>2
  <2>4. RegionsOf(scope) = scope.regions
    BY <1>13 DEF RegionsOf
  <2>5. \A b \in o.start..(o.end - 1) : b \in Units(scope)
    BY <2>4 DEF Units
  <2> QED BY <1>13, <2>3, <2>5
<1>14. CASE scope.unit = "whole_artifact"
  <2> DEFINE a == ArtifactAt(scope.artifact)
  <2>1. Known(report.artifacts, scope.artifact)
    BY <1>4 DEF Measured
  <2>2. a \in Range(report.artifacts)
    BY <2>1, NamedFacts DEF ArtifactAt
  <2>3. i \in Nat
    BY <1>1 DEF Read, List
  <2>4. Retained(a)
    BY <2>3, NoneAssumption, BlobAssumption DEF Retained
  <2>5. PICK k \in DOMAIN report.artifacts : report.artifacts[k] = a
    BY <2>2 DEF Range
  <2>6. TextAgrees(a)
    BY <1>1, <2>5 DEF ArtifactsStand
  <2>7. a.length = T[L]
    BY <2>4, <2>6, <1>9 DEF TextAgrees, TextOf
  <2>8. Extent(scope) = T[L] /\ Extent(scope) # None
    BY <1>4, <1>14, <2>7, <1>11, NoneAssumption DEF Extent, Measured
  <2>9. RegionsOf(scope) = <<Region(0, T[L])>>
    BY <1>14, <2>8 DEF RegionsOf
  <2>10. Range(RegionsOf(scope)) = {Region(0, T[L])}
    BY <2>9 DEF Range
  <2>11. Region(0, T[L]).start = 0 /\ Region(0, T[L]).end = T[L]
    BY DEF Region
  <2>12. \A b \in T[n]..(T[n + 1] - 1) : b \in 0..(T[L] - 1)
    BY <1>8, <1>11
  <2>13. \A b \in 0..(T[L] - 1) : b \in Units(scope)
    BY <2>10, <2>11 DEF Units
  <2> QED BY <1>14, <2>12, <2>13
<1> QED BY <1>5, <1>12, <1>13, <1>14

\* In a report that has passed every stage a finding's occurrences are analyzed.
LEMMA AllAnalyzed ==
    ASSUME EvidenceInv
    PROVE  OccurrencesAnalyzed
<1> SUFFICES ASSUME Accepted, NEW f \in Range(report.findings), f.positions # None
             PROVE  LET t == report.texts[Segment(f)]  e == ExecutionAt(f.execution) IN
                    \A i \in DOMAIN f.positions :
                       /\ Analyzed(e, Segment(f), f.positions[i])
                       /\ f.offsets[i] + Width(t.encoding, t.scalars[f.positions[i] + 1])
                             <= report.file.size
  BY DEF OccurrencesAnalyzed
<1> DEFINE t == report.texts[Segment(f)]
           e == ExecutionAt(f.execution)
<1>1. /\ Read(report) /\ TextsStand /\ AnchorsStand /\ Indexed /\ FindingRead(f)
      /\ Known(report.executions, f.execution) /\ CoordinatesStand(f) /\ AnchorsOf(f)
      /\ OriginStands(f, e, CapabilityOf(e))
  BY DEF EvidenceInv, Accepted, FindingsStand, Read
<1>2. e \in Range(report.executions) /\ e.ref = f.execution
  BY <1>1, NamedFacts DEF ExecutionAt
<1>3. /\ f.positions \in Seq(Nat) /\ f.source # None /\ Cardinality(Segments(f.source)) = 1
      /\ \A i \in DOMAIN f.positions :
            f.positions[i] + 1 < Len(t.offsets) /\ t.offsets[f.positions[i] + 1] = f.offsets[i]
  BY <1>1 DEF FindingRead, CoordinatesStand
<1>4. Segment(f) \in DOMAIN report.texts /\ t \in Range(report.texts)
  BY <1>1, <1>3, SegmentFacts
<1>5. /\ t.scalars \in Seq(1..4) /\ t.offsets \in Seq(Nat) /\ Len(t.offsets) = Len(t.scalars) + 1
      /\ report.file.size \in Nat /\ \A b \in Range(t.offsets) : b <= report.file.size
      /\ \A i \in DOMAIN t.scalars :
            t.offsets[i + 1] = t.offsets[i] + Width(t.encoding, t.scalars[i])
  BY <1>1, <1>4, TextFacts
<1> SUFFICES ASSUME NEW i \in DOMAIN f.positions
             PROVE  /\ Analyzed(e, Segment(f), f.positions[i])
                    /\ f.offsets[i] + Width(t.encoding, t.scalars[f.positions[i] + 1])
                          <= report.file.size
  OBVIOUS
<1> DEFINE p == f.positions[i]
<1> HIDE DEF t, e
<1>6. p \in Nat /\ p + 1 \in 1..Len(t.scalars) /\ p + 2 \in 1..Len(t.offsets) /\ p \in Range(f.positions)
  <2>1. p \in Nat /\ p \in Range(f.positions)
    BY <1>3 DEF Range
  <2>2. p + 1 < Len(t.offsets) /\ Len(t.offsets) = Len(t.scalars) + 1 /\ Len(t.scalars) \in Nat
    BY <1>3, <1>5
  <2> HIDE DEF p
  <2> QED BY <2>1, <2>2
<1>7. f.offsets[i] + Width(t.encoding, t.scalars[p + 1]) <= report.file.size
  <2>1. p + 1 \in DOMAIN t.scalars /\ p + 2 \in DOMAIN t.offsets
    <3>1. DOMAIN t.scalars = 1..Len(t.scalars)
      BY <1>5
    <3>2. DOMAIN t.offsets = 1..Len(t.offsets)
      BY <1>5
    <3> QED BY <1>6, <3>1, <3>2
  <2>2. t.offsets[p + 2] = t.offsets[p + 1] + Width(t.encoding, t.scalars[p + 1])
    <3>1. (p + 1) + 1 = p + 2
      BY <1>6
    <3> QED BY <3>1, <2>1, <1>5
  <2>3. t.offsets[p + 2] <= report.file.size
    BY <2>1, <1>5 DEF Range
  <2>4. t.offsets[p + 1] = f.offsets[i]
    BY <1>3
  <2> QED BY <2>2, <2>3, <2>4
<1>8. PICK span \in Spans(f) : At(p, span)
  BY <1>1, <1>3, <1>6 DEF AnchorsOf
<1>9. PICK a \in Range(f.anchors) : span \in Range(Named(report.anchors, a).spans)
  BY DEF Spans
<1> DEFINE x == Named(report.anchors, a)
<1>10. x \in Range(report.anchors) /\ x.execution = f.execution /\ x.kind = "text" /\ x.segment = Segment(f)
  <2>1. BelongsTo(a, e)
    BY <1>1 DEF OriginStands
  <2>2. x.execution = e.ref /\ x \in Range(report.anchors)
    BY <2>1, NamedFacts DEF BelongsTo
  <2>3. x.kind = "text" /\ x.segment = Segment(f)
    BY <1>1, <1>3 DEF AnchorsOf
  <2> QED BY <1>2, <2>2, <2>3
<1> HIDE DEF x
<1>11. /\ ArtifactAt(x.artifact).content = x.segment /\ x.spans \in Seq([scalar : Regions, byte : Regions])
       /\ SpanStands(report.texts[x.segment], x, span)
  <2>1. LocatorStands(x) /\ AnchorRead(x)
    BY <1>1, <1>10 DEF AnchorsStand, Read
  <2>2. span \in Range(x.spans)
    BY <1>9 DEF x
  <2> QED BY <1>10, <2>1, <2>2 DEF LocatorStands, AnchorRead
<1>12. span.scalar \in Regions
  <2>1. span \in [scalar : Regions, byte : Regions]
    BY <1>9, <1>11, RangeOfSeq DEF x
  <2> QED BY <2>1
<1>13. PICK scope \in Range(e.analyzed) : scope.artifact = x.artifact /\ Covered(t, scope, span.scalar)
  BY <1>10, <1>11 DEF SpanStands, e, t
<1>14. span.scalar.end <= Len(t.scalars)
  BY <1>10, <1>11 DEF SpanStands, t
<1>15. Analyzed(e, Segment(f), p)
  <2>1. ArtifactAt(scope.artifact).content = Segment(f)
    BY <1>10, <1>11, <1>13
  <2>2. span.scalar.start <= p /\ p < span.scalar.end
    BY <1>8 DEF At
  <2> HIDE DEF p
  <2> QED BY <1>2, <1>4, <1>6, <1>12, <1>13, <1>14, <2>1, <2>2, CoveredFacts DEF t
<1> QED BY <1>7, <1>15

----------------------------------------------------------------------------
\* The validation keeps what its stages have found.
LEMMA EvidenceInitInv == Init => EvidenceInv
  BY DEF Init, EvidenceInv

LEMMA EvidenceStepInv ==
    ASSUME EvidenceInv, [Next]_vars
    PROVE  EvidenceInv'
<1>1. CASE UNCHANGED vars
  <2>1. report' = report /\ pc' = pc
    BY <1>1 DEF vars
  <2> QED BY <2>1, ReportStays, Zenon DEF EvidenceInv
<1>2. CASE Next
  <2>1. report' = report
    BY <1>2 DEF Next, Step
  <2> QED BY <1>2, <2>1, ReportStays DEF EvidenceInv, Next, Step
<1> QED BY <1>1, <1>2

----------------------------------------------------------------------------
(* Extents and spans of occurrences (NativeAnchors)                        *)

\* A text as the parser makes it.
Decoded(t) ==
    /\ t.scalars \in Seq(1..4) /\ t.offsets \in Seq(Nat) /\ t.encoding \in Encodings
    /\ Len(t.offsets) = Len(t.scalars) + 1
    /\ \A i \in DOMAIN t.scalars :
          t.offsets[i + 1] = t.offsets[i] + Width(t.encoding, t.scalars[i])

\* Every scalar has a byte or more in the source.
LEMMA WidthFacts ==
    ASSUME NEW encoding \in Encodings, NEW s \in 1..4
    PROVE  Width(encoding, s) \in Nat \ {0}
  BY DEF Encodings, Width

\* Offsets increase.
LEMMA OffsetsGrow ==
    ASSUME NEW t, Decoded(t), NEW i \in 1..Len(t.offsets), NEW j \in 1..Len(t.offsets), i < j
    PROVE  t.offsets[i] < t.offsets[j]
<1> DEFINE N == Len(t.offsets)
           Bad == {k \in (i + 1)..N : ~(t.offsets[i] < t.offsets[k])}
<1>1. N \in Nat /\ Len(t.scalars) \in Nat /\ N = Len(t.scalars) + 1
      /\ \A k \in 1..N : t.offsets[k] \in Nat
  <2>1. t.scalars \in Seq(1..4) /\ t.offsets \in Seq(Nat) /\ Len(t.offsets) = Len(t.scalars) + 1
    BY DEF Decoded
  <2>2. Len(t.offsets) \in Nat /\ Len(t.scalars) \in Nat
    <3>1. t.offsets \in Seq(Nat) /\ t.scalars \in Seq(1..4)
      BY <2>1
    <3>2. \A s : s \in Seq(Nat) => Len(s) \in Nat
      OBVIOUS
    <3>3. \A s : s \in Seq(1..4) => Len(s) \in Nat
      OBVIOUS
    <3> QED BY <3>1, <3>2, <3>3
  <2>3. \A k \in 1..Len(t.offsets) : t.offsets[k] \in Nat
    <3>1. \A s \in Seq(Nat) : \A k \in 1..Len(s) : s[k] \in Nat
      OBVIOUS
    <3>2. t.offsets \in Seq(Nat)
      BY <2>1
    <3> QED BY <3>1, <3>2
  <2> QED BY <2>1, <2>2, <2>3
<1>2. ASSUME NEW k \in Bad PROVE k # 0 /\ k - 1 \in Bad
  <2>1. k \in (i + 1)..N /\ ~(t.offsets[i] < t.offsets[k])
    OBVIOUS
  <2>2. k - 1 \in 1..Len(t.scalars) /\ k \in 1..N /\ k - 1 \in 1..N /\ k # 0 /\ (k - 1) + 1 = k
        /\ (k - 1 = i \/ k - 1 \in (i + 1)..N)
    <3> HIDE DEF N
    <3> QED BY <1>1, <2>1
  <2>3. t.scalars[k - 1] \in 1..4 /\ k - 1 \in DOMAIN t.scalars
    BY <2>2 DEF Decoded
  <2>4. t.offsets[k] = t.offsets[k - 1] + Width(t.encoding, t.scalars[k - 1])
    BY <2>2, <2>3 DEF Decoded
  <2>5. Width(t.encoding, t.scalars[k - 1]) \in Nat \ {0}
    BY <2>3, WidthFacts DEF Decoded
  <2>6. t.offsets[k] \in Nat /\ t.offsets[k - 1] \in Nat /\ t.offsets[i] \in Nat
    <3>1. i \in 1..N
      OBVIOUS
    <3> QED BY <3>1, <1>1, <2>2
  <2>7. ~(t.offsets[i] < t.offsets[k - 1]) /\ k - 1 # i
    <3>1. \A a, b, c \in Nat : \A w \in Nat \ {0} : c = b + w /\ ~(a < c) => ~(a < b) /\ a # b
      OBVIOUS
    <3>2. ~(t.offsets[i] < t.offsets[k - 1]) /\ t.offsets[i] # t.offsets[k - 1]
      BY <2>1, <2>4, <2>5, <2>6, <3>1
    <3> QED BY <3>2
  <2> QED BY <2>2, <2>7
<1>3. Bad = {}
  <2>1. Bad \in SUBSET Nat
    BY <1>1
  <2> HIDE DEF Bad
  <2> QED BY <1>2, <2>1, Descent
<1>4. j \in (i + 1)..N
  OBVIOUS
<1> QED BY <1>3, <1>4

\* The extents there may be in a text.
Extents(t) == {x \in Regions : x.start < x.end /\ x.end <= Len(t.scalars)}

\* Its last extent reaches to the end of one that begins where it ended.
Lengthened(extents, x, new) ==
    /\ extents # <<>> /\ extents[Len(extents)].end = x.start
    /\ Len(new) = Len(extents)
    /\ new[Len(extents)].start = extents[Len(extents)].start
    /\ new[Len(extents)].end = x.end
    /\ \A k \in 1..Len(extents) : k # Len(extents) => new[k] = extents[k]

\* An extent that is added begins a new one or lengthens the last.
LEMMA CoalesceFacts ==
    ASSUME NEW t, NEW extents \in Seq(Extents(t)), NEW x \in Extents(t)
    PROVE  /\ Coalesce(extents, x) \in Seq(Extents(t))
           /\ \/ Coalesce(extents, x) = Append(extents, x)
              \/ Lengthened(extents, x, Coalesce(extents, x))
<1> DEFINE joins == /\ extents # <<>> /\ Last(extents).end = x.start
                    /\ x.end - Last(extents).start <= MaxExtent
<1>1. CASE ~joins
  <2>1. Coalesce(extents, x) = Append(extents, x)
    BY <1>1, Zenon DEF Coalesce
  <2> QED BY <2>1
<1>2. CASE joins
  <2> DEFINE n == Len(extents)
             l == extents[n]
             y == [l EXCEPT !.end = x.end]
  <2>1. n \in 1..Len(extents) /\ l \in Extents(t) /\ l.end = x.start
    BY <1>2 DEF Last
  <2>2. y \in Extents(t) /\ y.start = l.start /\ y.end = x.end
    <3>1. l \in Regions /\ x \in Regions /\ l.start < l.end /\ x.start < x.end /\ x.end <= Len(t.scalars)
      BY <2>1 DEF Extents
    <3>2. y \in Regions /\ y.start = l.start /\ y.end = x.end
      BY <3>1 DEF Regions
    <3>3. l.start \in Nat /\ l.end \in Nat /\ x.start \in Nat /\ x.end \in Nat
      BY <3>1 DEF Regions
    <3> HIDE DEF y, l
    <3> QED BY <3>1, <3>2, <3>3, <2>1 DEF Extents
  <2>3. Coalesce(extents, x) = [extents EXCEPT ![n] = y]
    BY <1>2, Zenon DEF Coalesce
  <2>4. [extents EXCEPT ![n] = y] \in Seq(Extents(t))
    <3> HIDE DEF y
    <3> QED BY <2>1, <2>2, ExceptSeq
  <2>5. extents # <<>> /\ l.end = x.start
    BY <1>2, <2>1
  <2>6. /\ Len([extents EXCEPT ![n] = y]) = n /\ [extents EXCEPT ![n] = y][n] = y
        /\ \A k \in 1..n : k # n => [extents EXCEPT ![n] = y][k] = extents[k]
    <3>1. extents \in [1..n -> Extents(t)] /\ n \in Nat /\ n \in 1..n
      BY <2>1
    <3>2. Len([extents EXCEPT ![n] = y]) = n
      <4> HIDE DEF y
      <4> QED BY <2>1, <2>2, ExceptSeq
    <3> HIDE DEF n, y
    <3> QED BY <3>1, <3>2
  <2>7. Lengthened(extents, x, [extents EXCEPT ![n] = y])
    <3> HIDE DEF y
    <3> QED BY <2>2, <2>5, <2>6 DEF Lengthened
  <2> QED BY <2>3, <2>4, <2>7
<1> QED BY <1>1, <1>2

\* Coalescing takes one extent more each time.
LEMMA CoalescingUnfolds ==
    ASSUME NEW t, NEW seq \in Seq(Extents(t))
    PROVE  /\ Loop(Coalesce, <<>>, seq) \in [0..Len(seq) -> Seq(Extents(t))] /\ Loop(Coalesce, <<>>, seq)[0] = <<>>
           /\ \A i \in 1..Len(seq) : Loop(Coalesce, <<>>, seq)[i] = Coalesce(Loop(Coalesce, <<>>, seq)[i - 1], seq[i])
<1> DEFINE N == Len(seq)
           step == [i \in 1..N |-> [x \in Seq(Extents(t)) |-> Coalesce(x, seq[i])]]
           Unfolds(f) == f = [i \in 0..N |-> IF i = 0 THEN <<>> ELSE Coalesce(f[i - 1], seq[i])]
<1>1. N \in Nat /\ \A i \in 1..N : seq[i] \in Extents(t)
  OBVIOUS
<1>2. \A x \in Seq(Extents(t)), i \in 1..N : Coalesce(x, seq[i]) \in Seq(Extents(t))
  BY <1>1, CoalesceFacts
<1>3. step \in [1..N -> [Seq(Extents(t)) -> Seq(Extents(t))]]
  BY <1>2
<1>4. PICK f \in [0..N -> Seq(Extents(t))] : f[0] = <<>> /\ \A i \in 1..N : f[i] = step[i][f[i - 1]]
  <2>1. <<>> \in Seq(Extents(t))
    OBVIOUS
  <2> HIDE DEF step, N
  <2>2. \E f : Unrolls(f, N, Seq(Extents(t)), <<>>, step)
    BY <1>1, <1>3, <2>1, Unrolled
  <2> QED BY <2>2 DEF Unrolls
<1>5. ASSUME NEW i \in 1..N PROVE f[i] = Coalesce(f[i - 1], seq[i])
  <2>1. f[i - 1] \in Seq(Extents(t))
    <3>1. i - 1 \in 0..N
      BY <1>1
    <3> HIDE DEF N
    <3> QED BY <3>1
  <2>2. \A x \in Seq(Extents(t)) : step[i][x] = Coalesce(x, seq[i])
    OBVIOUS
  <2> HIDE DEF step
  <2> QED BY <1>4, <2>1, <2>2
<1>6. Unfolds(f)
  <2>1. \A i \in 0..N : f[i] = IF i = 0 THEN <<>> ELSE Coalesce(f[i - 1], seq[i])
    BY <1>4, <1>5
  <2> QED BY <2>1, <1>4
<1>7. Loop(Coalesce, <<>>, seq) = CHOOSE g : Unfolds(g)
  BY Zenon DEF Loop
<1>8. PICK g : g = Loop(Coalesce, <<>>, seq) /\ Unfolds(g)
  <2> HIDE DEF Unfolds
  <2> QED BY <1>6, <1>7
<1>9. /\ DOMAIN g = 0..N /\ g[0] = <<>> /\ g = [i \in 0..N |-> g[i]]
      /\ \A i \in 1..N : g[i] = Coalesce(g[i - 1], seq[i])
  <2>1. g = [i \in 0..N |-> IF i = 0 THEN <<>> ELSE Coalesce(g[i - 1], seq[i])]
    BY <1>8
  <2>2. N \in Nat
    BY <1>1
  <2> HIDE DEF N
  <2>3. \A i \in 0..N : g[i] = IF i = 0 THEN <<>> ELSE Coalesce(g[i - 1], seq[i])
    BY <2>1, Zenon
  <2>4. DOMAIN g = 0..N
    BY <2>1, Zenon
  <2>5. g = [i \in 0..N |-> g[i]]
    BY <2>1, Zenon
  <2>6. 0 \in 0..N /\ \A i \in 1..N : i \in 0..N /\ i # 0
    BY <2>2
  <2>7. g[0] = <<>> /\ \A i \in 1..N : g[i] = Coalesce(g[i - 1], seq[i])
    BY <2>3, <2>6, Zenon
  <2> QED BY <2>4, <2>5, <2>7, Zenon
<1> DEFINE Bad == {i \in 0..N : g[i] \notin Seq(Extents(t))}
<1>10. ASSUME NEW i \in Bad PROVE i # 0 /\ i - 1 \in Bad
  <2>1. i # 0
    BY <1>4, <1>9
  <2>2. i \in 1..N /\ i - 1 \in 0..N
    BY <2>1
  <2> QED BY <2>2, <1>2, <1>9, <2>1
<1>11. Bad = {}
  <2>1. Bad \in SUBSET Nat
    OBVIOUS
  <2> HIDE DEF Bad
  <2> QED BY <1>10, <2>1, Descent
<1>12. \A i \in 0..N : g[i] \in Seq(Extents(t))
  BY <1>11
<1>13. g \in [0..N -> Seq(Extents(t))]
  BY <1>9, <1>12
<1> QED BY <1>8, <1>9, <1>13

\* What coalescing n of the occurrences has come to: extents in order and apart, that
\* begin where one of the occurrences does and hold the first scalar of each.
Coalesced(extents, occ, n) ==
    /\ \A k, l \in DOMAIN extents : k < l => extents[k].end <= extents[l].start
    /\ n > 0 => extents # <<>> /\ extents[Len(extents)].end = occ[n].end
    /\ n = 0 => extents = <<>>
    /\ \A j \in 1..n : \E k \in DOMAIN extents :
          extents[k].start <= occ[j].start /\ occ[j].start < extents[k].end
    /\ \A k \in DOMAIN extents : \E j \in 1..n : occ[j].start = extents[k].start

\* One occurrence more.
LEMMA CoalesceKeeps ==
    ASSUME NEW t, NEW occ \in Seq(Extents(t)), NEW n \in 1..Len(occ),
           NEW extents \in Seq(Extents(t)), Coalesced(extents, occ, n - 1),
           EndBefore(occ, n) <= occ[n].start
    PROVE  Coalesced(Coalesce(extents, occ[n]), occ, n)
<1> DEFINE x == occ[n]
           m == Len(extents)
           new == Coalesce(extents, x)
<1>1. x \in Extents(t) /\ x.start \in Nat /\ x.end \in Nat /\ x.start < x.end /\ n \in Nat /\ n > 0
      /\ m \in Nat /\ DOMAIN extents = 1..m
  <2>1. x \in Extents(t)
    OBVIOUS
  <2>2. x \in Regions /\ x.start < x.end
    BY <2>1 DEF Extents
  <2>3. x.start \in Nat /\ x.end \in Nat
    BY <2>2 DEF Regions
  <2> QED BY <2>1, <2>2, <2>3
<1>2. \A k \in 1..m : extents[k].start \in Nat /\ extents[k].end \in Nat /\ extents[k].start < extents[k].end
  <2> SUFFICES ASSUME NEW k \in 1..m
               PROVE  extents[k].start \in Nat /\ extents[k].end \in Nat /\ extents[k].start < extents[k].end
    OBVIOUS
  <2>1. extents[k] \in Extents(t)
    OBVIOUS
  <2>2. extents[k] \in Regions /\ extents[k].start < extents[k].end
    BY <2>1 DEF Extents
  <2> QED BY <2>2 DEF Regions
<1>3. \A k \in 1..m : extents[k].end <= x.start
  <2>1. CASE n = 1
    <3>1. extents = <<>>
      BY <2>1 DEF Coalesced
    <3>2. m = 0
      BY <3>1
    <3> HIDE DEF m
    <3> QED BY <3>2
  <2>2. CASE n # 1
    <3>1. n - 1 > 0 /\ EndBefore(occ, n) = occ[n - 1].end
      BY <2>2, <1>1 DEF EndBefore
    <3>2. extents # <<>> /\ extents[m].end = occ[n - 1].end /\ extents[m].end <= x.start
      BY <3>1 DEF Coalesced
    <3>3. m \in 1..m
      BY <3>2, <1>1
    <3>4. \A k \in 1..m : k # m => extents[k].end <= extents[m].start
      <4>1. \A k \in 1..m : k # m => k < m
        <5>1. m \in Nat
          BY <1>1
        <5> HIDE DEF m
        <5> QED BY <5>1
      <4> HIDE DEF m
      <4> QED BY <1>1, <3>3, <4>1 DEF Coalesced
    <3>5. \A k \in 1..m : k = m => extents[k].end <= x.start
      BY <3>2
    <3>6. ASSUME NEW k \in 1..m, k # m PROVE extents[k].end <= x.start
      <4>1. extents[k].end <= extents[m].start
        BY <3>4, <3>6
      <4>2. extents[m].start < extents[m].end /\ extents[m].end <= x.start
        BY <1>2, <3>2, <3>3
      <4>3. extents[k].end \in Nat /\ extents[m].start \in Nat /\ extents[m].end \in Nat /\ x.start \in Nat
        BY <1>1, <1>2, <3>3
      <4>4. \A p, q, r, u \in Nat : p <= q /\ q < r /\ r <= u => p <= u
        OBVIOUS
      <4> HIDE DEF m, x
      <4> QED BY <4>1, <4>2, <4>3, <4>4
    <3> QED BY <3>5, <3>6
  <2> QED BY <2>1, <2>2
<1>4. /\ \A j \in 1..(n - 1) : \E k \in 1..m :
            extents[k].start <= occ[j].start /\ occ[j].start < extents[k].end
      /\ \A k \in 1..m : \E j \in 1..(n - 1) : occ[j].start = extents[k].start
      /\ \A k, l \in 1..m : k < l => extents[k].end <= extents[l].start
  BY <1>1 DEF Coalesced
<1>5. \A j \in 1..n : j = n \/ j \in 1..(n - 1)
  BY <1>1
<1>6. \A j \in 1..(n - 1) : j \in 1..n
  BY <1>1
<1>7. n \in 1..n /\ n # 0
  BY <1>1
<1>8. CASE new = Append(extents, x)
  <2>1. /\ new \in Seq(Extents(t)) /\ DOMAIN new = 1..(m + 1) /\ Len(new) = m + 1 /\ new # <<>>
        /\ new[m + 1] = x /\ \A k \in 1..m : new[k] = extents[k]
    <3> HIDE DEF new, x
    <3>1. /\ DOMAIN Append(extents, x) = 1..(m + 1) /\ Len(Append(extents, x)) = m + 1 /\ Append(extents, x) # <<>>
          /\ Append(extents, x)[m + 1] = x /\ \A k \in 1..m : Append(extents, x)[k] = extents[k]
      BY <1>1, AppendProperties
    <3> QED BY <1>8, <1>1, <3>1
  <2>2. \A k \in 1..(m + 1) : k \in 1..m \/ k = m + 1
    <3>1. m \in Nat
      BY <1>1
    <3> HIDE DEF m
    <3> QED BY <3>1
  <2>3. \A k \in 1..m : k \in 1..(m + 1) /\ k < m + 1
    BY <1>1
  <2>9. m + 1 \in 1..(m + 1)
    BY <1>1
  <2> HIDE DEF new, m, x
  <2>4. \A k, l \in 1..(m + 1) : k < l => new[k].end <= new[l].start
    <3> SUFFICES ASSUME NEW k \in 1..(m + 1), NEW l \in 1..(m + 1), k < l PROVE new[k].end <= new[l].start
      OBVIOUS
    <3>1. k \in 1..m
      BY <1>1
    <3>2. CASE l \in 1..m
      BY <3>1, <3>2, <2>1, <1>4
    <3>3. CASE l = m + 1
      BY <3>1, <3>3, <2>1, <1>3
    <3> QED BY <3>2, <3>3, <2>2
  <2>5. \A j \in 1..n : \E k \in 1..(m + 1) : new[k].start <= occ[j].start /\ occ[j].start < new[k].end
    <3> SUFFICES ASSUME NEW j \in 1..n
                 PROVE  \E k \in 1..(m + 1) : new[k].start <= occ[j].start /\ occ[j].start < new[k].end
      OBVIOUS
    <3>1. CASE j = n
      BY <3>1, <2>1, <2>9, <1>1 DEF x
    <3>2. CASE j \in 1..(n - 1)
      BY <3>2, <1>4, <2>1, <2>3
    <3> QED BY <3>1, <3>2, <1>5
  <2>6. \A k \in 1..(m + 1) : \E j \in 1..n : occ[j].start = new[k].start
    <3> SUFFICES ASSUME NEW k \in 1..(m + 1) PROVE \E j \in 1..n : occ[j].start = new[k].start
      OBVIOUS
    <3>1. CASE k = m + 1
      BY <3>1, <2>1, <1>7 DEF x
    <3>2. CASE k \in 1..m
      BY <3>2, <1>4, <1>6, <2>1
    <3> QED BY <3>1, <3>2, <2>2
  <2>7. new[Len(new)].end = occ[n].end
    BY <2>1 DEF x
  <2>8. Coalesced(new, occ, n)
    BY <2>1, <2>4, <2>5, <2>6, <2>7, <1>7 DEF Coalesced
  <2> QED BY <2>8 DEF new, x
<1>9. CASE Lengthened(extents, x, new)
  <2>1. /\ extents # <<>> /\ extents[m].end = x.start /\ Len(new) = m
        /\ new[m].start = extents[m].start /\ new[m].end = x.end
        /\ \A k \in 1..m : k # m => new[k] = extents[k]
    BY <1>9 DEF Lengthened
  <2>2. m \in 1..m
    <3>1. m # 0
      BY <2>1
    <3>2. m \in Nat
      BY <1>1
    <3> HIDE DEF m
    <3> QED BY <3>1, <3>2
  <2>3. new # <<>> /\ DOMAIN new = 1..m
    <3>1. new \in Seq(Extents(t))
      BY <1>1, CoalesceFacts
    <3> HIDE DEF new, m
    <3>2. DOMAIN new = 1..Len(new)
      BY <3>1
    <3>3. m # 0
      BY <2>2
    <3> QED BY <2>1, <3>2, <3>3
  <2>4. \A k \in 1..m : new[k].start = extents[k].start /\ (k # m => new[k].end = extents[k].end)
    <3> HIDE DEF new, m
    <3> QED BY <2>1, <2>2
  <2>5. new[m].end = x.end /\ \A k \in 1..m : extents[k].end <= new[k].end
    <3>1. new[m].end = x.end /\ extents[m].end = x.start
      BY <2>1
    <3> HIDE DEF new, m, x
    <3> QED BY <3>1, <2>4, <1>1, <1>2, <2>2
  <2> HIDE DEF new, m, x
  <2>6. \A k, l \in 1..m : k < l => new[k].end <= new[l].start
    <3> SUFFICES ASSUME NEW k \in 1..m, NEW l \in 1..m, k < l PROVE new[k].end <= new[l].start
      OBVIOUS
    <3>1. k # m
      BY <1>1
    <3> QED BY <3>1, <2>4, <1>4
  <2>7. \A j \in 1..n : \E k \in 1..m : new[k].start <= occ[j].start /\ occ[j].start < new[k].end
    <3> SUFFICES ASSUME NEW j \in 1..n
                 PROVE  \E k \in 1..m : new[k].start <= occ[j].start /\ occ[j].start < new[k].end
      OBVIOUS
    <3>1. CASE j = n
      <4>1. new[m].start <= x.start /\ x.start < new[m].end
        BY <1>1, <1>2, <2>1, <2>2, <2>4, <2>5
      <4> QED BY <4>1, <3>1, <2>2 DEF x
    <3>2. CASE j \in 1..(n - 1)
      <4>1. PICK k \in 1..m : extents[k].start <= occ[j].start /\ occ[j].start < extents[k].end
        BY <3>2, <1>4
      <4>2. /\ new[k].start = extents[k].start /\ extents[k].end <= new[k].end
            /\ extents[k].end \in Nat /\ new[k].end \in Nat
        BY <4>1, <2>4, <2>5, <1>2, <1>1
      <4>3. occ[j].start \in Nat
        <5>1. j \in 1..Len(occ)
          BY <3>2, <1>1
        <5>2. occ[j] \in Extents(t)
          BY <5>1
        <5> QED BY <5>2 DEF Extents, Regions
      <4>4. occ[j].start < new[k].end
        BY <4>1, <4>2, <4>3
      <4> QED BY <4>1, <4>2, <4>4
    <3> QED BY <3>1, <3>2, <1>5
  <2>8. \A k \in 1..m : \E j \in 1..n : occ[j].start = new[k].start
    BY <1>4, <1>6, <2>4
  <2>9. new[Len(new)].end = occ[n].end
    BY <2>1, <2>5 DEF x
  <2>10. Coalesced(new, occ, n)
    BY <2>3, <2>6, <2>7, <2>8, <2>9, <1>7 DEF Coalesced
  <2> QED BY <2>10 DEF new, x
<1>10. new = Append(extents, x) \/ Lengthened(extents, x, new)
  BY <1>1, CoalesceFacts
<1>11. Coalesced(new, occ, n) => Coalesced(Coalesce(extents, occ[n]), occ, n)
  OBVIOUS
<1> HIDE DEF new, m, x
<1> QED BY <1>8, <1>9, <1>10, <1>11

\* A finding of an analyzer in a text.
Found(f, t) ==
    /\ f.width \in Nat \ {0} /\ (f.positions # None => f.positions \in Seq(Nat))
    /\ Spannable(f, t)

\* Occurrences are extents of the text.
LEMMA OccurrencesFacts ==
    ASSUME NEW t, Decoded(t), NEW f, Found(f, t)
    PROVE  /\ Occurrences(f) \in Seq(Extents(t))
           /\ Positions(f) \in Seq(Nat) /\ Len(Occurrences(f)) = Len(Positions(f))
           /\ \A i \in 1..Len(Occurrences(f)) : Occurrences(f)[i].start = Positions(f)[i]
<1> DEFINE P == Positions(f)
           O == Occurrences(f)
<1>1. P \in Seq(Nat)
  BY DEF Positions, Found
<1>2. Len(P) \in Nat /\ DOMAIN P = 1..Len(P) /\ \A i \in 1..Len(P) : P[i] \in Nat
  <2> HIDE DEF P
  <2> QED BY <1>1
<1>3. f.width \in Nat /\ f.width > 0
  BY DEF Found
<1>4. /\ DOMAIN O = 1..Len(P)
      /\ \A i \in 1..Len(P) : O[i] = Region(P[i], P[i] + f.width)
  BY <1>2 DEF Occurrences
<1>5. \A i \in 1..Len(P) : O[i] \in Range(O)
  BY <1>4 DEF Range
<1>6. \A x \in Range(O) : x.end <= Len(t.scalars)
  BY DEF Found, Spannable
<1>7. ASSUME NEW i \in 1..Len(P)
      PROVE  O[i] \in Extents(t) /\ O[i].start = P[i]
  <2>1. O[i] = [start |-> P[i], end |-> P[i] + f.width]
    BY <1>4 DEF Region
  <2>2. P[i] \in Nat /\ P[i] + f.width \in Nat /\ P[i] < P[i] + f.width
    <3>1. P[i] \in Nat
      BY <1>2
    <3> HIDE DEF P
    <3> QED BY <3>1, <1>3
  <2>3. O[i].end <= Len(t.scalars)
    BY <1>5, <1>6
  <2> HIDE DEF O, P
  <2> QED BY <2>1, <2>2, <2>3 DEF Extents, Regions
<1>8. O = [i \in 1..Len(P) |-> O[i]]
  BY <1>4 DEF Occurrences
<1>9. O \in Seq(Extents(t)) /\ Len(O) = Len(P)
  <2> HIDE DEF O, P
  <2> QED BY <1>2, <1>4, <1>7, <1>8
<1> QED BY <1>1, <1>7, <1>9

\* The extents that the occurrences are joined to.
ExtentsOf(f) == Loop(Coalesce, <<>>, Occurrences(f))[Len(Occurrences(f))]

\* They are coalesced.
LEMMA ExtentsOfFacts ==
    ASSUME NEW t, Decoded(t), NEW f, Found(f, t)
    PROVE  /\ ExtentsOf(f) \in Seq(Extents(t))
           /\ Coalesced(ExtentsOf(f), Occurrences(f), Len(Occurrences(f)))
<1> DEFINE occ == Occurrences(f)
           g == Loop(Coalesce, <<>>, occ)
           N == Len(occ)
           Bad == {i \in 0..N : ~Coalesced(g[i], occ, i)}
<1>1. occ \in Seq(Extents(t)) /\ N \in Nat
  BY OccurrencesFacts
<1>2. /\ g \in [0..N -> Seq(Extents(t))] /\ g[0] = <<>>
      /\ \A i \in 1..N : g[i] = Coalesce(g[i - 1], occ[i])
  <2> HIDE DEF occ
  <2> QED BY <1>1, CoalescingUnfolds
<1>3. \A i \in 1..N : EndBefore(occ, i) <= occ[i].start
  <2>1. \A i \in DOMAIN occ : EndBefore(occ, i) <= occ[i].start
    BY DEF Found, Spannable
  <2>2. DOMAIN occ = 1..N
    <3> HIDE DEF occ
    <3> QED BY <1>1
  <2> QED BY <2>1, <2>2
<1> HIDE DEF occ, g
<1>4. Coalesced(g[0], occ, 0)
  <2>1. g[0] = <<>> /\ DOMAIN g[0] = {}
    BY <1>2
  <2>2. 1..0 = {}
    OBVIOUS
  <2> QED BY <2>1, <2>2 DEF Coalesced
<1>5. ASSUME NEW i \in Bad PROVE i # 0 /\ i - 1 \in Bad
  <2>1. i # 0 /\ i \in 0..N /\ ~Coalesced(g[i], occ, i)
    BY <1>4
  <2>2. i \in 1..N /\ i - 1 \in 0..N
    <3> HIDE DEF N
    <3> QED BY <1>1, <2>1
  <2>3. g[i - 1] \in Seq(Extents(t)) /\ g[i] = Coalesce(g[i - 1], occ[i])
    BY <1>2, <2>2
  <2>4. EndBefore(occ, i) <= occ[i].start
    BY <1>3, <2>2
  <2>5. ~Coalesced(g[i - 1], occ, i - 1)
    BY <1>1, <2>1, <2>2, <2>3, <2>4, CoalesceKeeps
  <2> QED BY <2>1, <2>2, <2>5
<1>6. Bad = {}
  <2>1. Bad \in SUBSET Nat
    OBVIOUS
  <2> HIDE DEF Bad
  <2> QED BY <1>5, <2>1, Descent
<1>7. N \in 0..N
  BY <1>1
<1>8. Coalesced(g[N], occ, N) /\ g[N] \in Seq(Extents(t))
  BY <1>2, <1>6, <1>7
<1> QED BY <1>8 DEF ExtentsOf, occ, g

----------------------------------------------------------------------------
\* The spans of a text.
TextSpans(t) == {SpanOf(t, x) : x \in Extents(t)}
SpanRecords == [scalar : Regions, byte : Regions]
Before(x, y) == x.scalar.end <= y.scalar.start

\* A span has scalars and bytes.
LEMMA SpanFacts ==
    ASSUME NEW t, Decoded(t), NEW s \in TextSpans(t)
    PROVE  /\ s \in SpanRecords /\ s.scalar \in Extents(t) /\ s = SpanOf(t, s.scalar)
           /\ s.scalar.start \in Nat /\ s.scalar.end \in Nat /\ s.scalar.start < s.scalar.end
           /\ s.byte.start < s.byte.end
<1>1. PICK x \in Extents(t) : s = SpanOf(t, x)
  BY DEF TextSpans
<1>2. x \in Regions /\ x.start < x.end /\ x.end <= Len(t.scalars)
  BY DEF Extents
<1>3. x.start \in Nat /\ x.end \in Nat
  BY <1>2 DEF Regions
<1>4. /\ Len(t.offsets) \in Nat /\ Len(t.offsets) = Len(t.scalars) + 1 /\ Len(t.scalars) \in Nat
      /\ \A k \in 1..Len(t.offsets) : t.offsets[k] \in Nat
  <2>1. t.offsets \in Seq(Nat) /\ t.scalars \in Seq(1..4) /\ Len(t.offsets) = Len(t.scalars) + 1
    BY DEF Decoded
  <2>2. \A q \in Seq(Nat) : Len(q) \in Nat /\ \A k \in 1..Len(q) : q[k] \in Nat
    OBVIOUS
  <2>3. \A q \in Seq(1..4) : Len(q) \in Nat
    OBVIOUS
  <2> QED BY <2>1, <2>2, <2>3
<1>5. x.start + 1 \in 1..Len(t.offsets) /\ x.end + 1 \in 1..Len(t.offsets) /\ x.start + 1 < x.end + 1
  BY <1>2, <1>3, <1>4
<1>6. t.offsets[x.start + 1] < t.offsets[x.end + 1]
  BY <1>5, OffsetsGrow
<1>7. t.offsets[x.start + 1] \in Nat /\ t.offsets[x.end + 1] \in Nat
  BY <1>4, <1>5
<1>8. /\ s.scalar = x /\ s.byte = [start |-> t.offsets[x.start + 1], end |-> t.offsets[x.end + 1]]
      /\ s = [scalar |-> x, byte |-> [start |-> t.offsets[x.start + 1], end |-> t.offsets[x.end + 1]]]
  BY <1>1 DEF SpanOf, Region
<1>9. s.byte \in Regions
  BY <1>7, <1>8 DEF Regions
<1>10. s \in SpanRecords
  BY <1>2, <1>8, <1>9 DEF SpanRecords
<1>11. s.byte.start < s.byte.end
  BY <1>6, <1>8
<1> QED BY <1>1, <1>2, <1>3, <1>8, <1>10, <1>11

\* What lies before in scalars lies before in bytes.
LEMMA BytesFollow ==
    ASSUME NEW t, Decoded(t), NEW x \in TextSpans(t), NEW y \in TextSpans(t), Before(x, y)
    PROVE  x.byte.end <= y.byte.start
<1>1. /\ x = SpanOf(t, x.scalar) /\ y = SpanOf(t, y.scalar)
      /\ x.scalar \in Extents(t) /\ y.scalar \in Extents(t)
      /\ x.scalar.end \in Nat /\ y.scalar.start \in Nat /\ y.scalar.end \in Nat
      /\ y.scalar.start < y.scalar.end
  BY SpanFacts
<1>2. x.byte.end = t.offsets[x.scalar.end + 1] /\ y.byte.start = t.offsets[y.scalar.start + 1]
  <2>1. /\ SpanOf(t, x.scalar).byte.end = t.offsets[x.scalar.end + 1]
        /\ SpanOf(t, y.scalar).byte.start = t.offsets[y.scalar.start + 1]
    BY DEF SpanOf, Region
  <2> QED BY <1>1, <2>1
<1>3. y.scalar.end <= Len(t.scalars)
  BY <1>1 DEF Extents
<1>4. /\ Len(t.offsets) \in Nat /\ Len(t.offsets) = Len(t.scalars) + 1 /\ Len(t.scalars) \in Nat
      /\ \A k \in 1..Len(t.offsets) : t.offsets[k] \in Nat
  <2>1. t.offsets \in Seq(Nat) /\ t.scalars \in Seq(1..4) /\ Len(t.offsets) = Len(t.scalars) + 1
    BY DEF Decoded
  <2>2. \A q \in Seq(Nat) : Len(q) \in Nat /\ \A k \in 1..Len(q) : q[k] \in Nat
    OBVIOUS
  <2>3. \A q \in Seq(1..4) : Len(q) \in Nat
    OBVIOUS
  <2> QED BY <2>1, <2>2, <2>3
<1> DEFINE i == x.scalar.end + 1
           j == y.scalar.start + 1
<1>5. i \in 1..Len(t.offsets) /\ j \in 1..Len(t.offsets) /\ i <= j /\ i \in Nat /\ j \in Nat
  <2>1. /\ x.scalar.end \in Nat /\ y.scalar.start \in Nat /\ x.scalar.end <= y.scalar.start
        /\ y.scalar.start < Len(t.scalars)
    BY <1>1, <1>3, <1>4 DEF Before
  <2>2. \A a, b \in Nat : a <= b /\ b < Len(t.scalars) =>
           /\ a + 1 \in 1..Len(t.offsets) /\ b + 1 \in 1..Len(t.offsets) /\ a + 1 <= b + 1
           /\ a + 1 \in Nat /\ b + 1 \in Nat
    BY <1>4
  <2> QED BY <2>1, <2>2
<1>6. t.offsets[i] <= t.offsets[j]
  <2> HIDE DEF i, j
  <2>1. CASE i = j
    BY <2>1, <1>4, <1>5
  <2>2. CASE i # j
    <3>1. i < j
      BY <2>2, <1>5
    <3>2. t.offsets[i] < t.offsets[j]
      BY <3>1, <1>5, OffsetsGrow
    <3> QED BY <3>2, <1>4, <1>5
  <2> QED BY <2>1, <2>2
<1> QED BY <1>2, <1>6

\* The spans of a finding are in order, begin where an occurrence does and hold the first
\* scalar of each.
LEMMA NativeSpansFacts ==
    ASSUME NEW t, Decoded(t), NEW f, Found(f, t)
    PROVE  /\ NativeSpans(f, t) \in Seq(TextSpans(t))
           /\ \A k, l \in 1..Len(NativeSpans(f, t)) :
                 k < l => Before(NativeSpans(f, t)[k], NativeSpans(f, t)[l])
           /\ \A s \in Range(NativeSpans(f, t)) : \E p \in Range(Positions(f)) : At(p, s)
           /\ \A p \in Range(Positions(f)) : \E s \in Range(NativeSpans(f, t)) : At(p, s)
<1> DEFINE X == ExtentsOf(f)
           S == NativeSpans(f, t)
           O == Occurrences(f)
<1>1. X \in Seq(Extents(t)) /\ Coalesced(X, O, Len(O))
  BY ExtentsOfFacts
<1>2. /\ Positions(f) \in Seq(Nat) /\ Len(O) = Len(Positions(f))
      /\ \A i \in 1..Len(O) : O[i].start = Positions(f)[i]
  BY OccurrencesFacts
<1>3. S = [i \in DOMAIN X |-> SpanOf(t, X[i])]
  BY Zenon DEF NativeSpans, ExtentsOf
<1> HIDE DEF X, S, O
<1>4. DOMAIN X = 1..Len(X) /\ Len(X) \in Nat /\ \A i \in 1..Len(X) : X[i] \in Extents(t)
  BY <1>1
<1>5. DOMAIN S = 1..Len(X) /\ \A i \in 1..Len(X) : S[i] = SpanOf(t, X[i]) /\ S[i] \in TextSpans(t)
  BY <1>3, <1>4 DEF TextSpans
<1>6. S \in Seq(TextSpans(t)) /\ Len(S) = Len(X)
  <2>1. S \in [1..Len(X) -> TextSpans(t)]
    BY <1>3, <1>4, <1>5
  <2> QED BY <1>4, <2>1
<1>7. \A i \in 1..Len(X) : S[i].scalar = X[i]
  BY <1>5 DEF SpanOf
<1>8. \A k, l \in 1..Len(S) : k < l => Before(S[k], S[l])
  <2>1. \A k, l \in 1..Len(X) : k < l => X[k].end <= X[l].start
    BY <1>1, <1>4 DEF Coalesced
  <2> QED BY <2>1, <1>6, <1>7 DEF Before
<1>9. DOMAIN Positions(f) = 1..Len(O)
  BY <1>2
<1>10. ASSUME NEW s \in Range(S)
       PROVE  \E p \in Range(Positions(f)) : At(p, s)
  <2>1. PICK k \in 1..Len(X) : s = S[k]
    BY <1>5 DEF Range
  <2>2. PICK j \in 1..Len(O) : O[j].start = X[k].start
    BY <1>1, <1>4 DEF Coalesced
  <2>3. Positions(f)[j] = X[k].start /\ Positions(f)[j] \in Range(Positions(f))
    BY <1>2, <1>9, <2>2 DEF Range
  <2>4. X[k].start \in Nat /\ X[k].start < X[k].end
    BY <1>4 DEF Extents, Regions
  <2>5. At(Positions(f)[j], s)
    BY <1>7, <2>1, <2>3, <2>4 DEF At
  <2> QED BY <2>3, <2>5
<1>11. ASSUME NEW p \in Range(Positions(f))
       PROVE  \E s \in Range(S) : At(p, s)
  <2>1. PICK j \in 1..Len(O) : p = Positions(f)[j]
    BY <1>9 DEF Range
  <2>2. PICK k \in 1..Len(X) : X[k].start <= O[j].start /\ O[j].start < X[k].end
    BY <1>1, <1>4 DEF Coalesced
  <2>3. At(p, S[k])
    BY <1>2, <1>7, <2>1, <2>2 DEF At
  <2>4. S[k] \in Range(S)
    BY <1>5 DEF Range
  <2> QED BY <2>3, <2>4
<1> QED BY <1>6, <1>8, <1>10, <1>11 DEF S

----------------------------------------------------------------------------
(* Groups of spans.                                                        *)

GroupsOf(t) == Seq(TextSpans(t)) \ {<<>>}

\* A span comes last, in the last group.
Adds(groups, s, new) ==
    /\ new # <<>> /\ Len(groups) <= Len(new)
    /\ \A j \in 1..Len(groups) :
          /\ Len(groups[j]) <= Len(new[j])
          /\ \A l \in 1..Len(groups[j]) : new[j][l] = groups[j][l]
    /\ \A j \in 1..Len(new) : \A l \in 1..Len(new[j]) :
          \/ j \in 1..Len(groups) /\ l \in 1..Len(groups[j])
          \/ j = Len(new) /\ l = Len(new[j])
    /\ new[Len(new)][Len(new[Len(new)])] = s

\* Whether a span begins a group or ends one, it comes last.
LEMMA GatherFacts ==
    ASSUME NEW t, NEW groups \in Seq(GroupsOf(t)), NEW s \in TextSpans(t)
    PROVE  Gather(groups, s) \in Seq(GroupsOf(t)) /\ Adds(groups, s, Gather(groups, s))
<1> DEFINE m == Len(groups)
           G == GroupsOf(t)
           begins == groups = <<>> \/ FullFor(Last(groups), s)
<1>1. m \in Nat /\ \A j \in 1..m : groups[j] \in Seq(TextSpans(t)) /\ groups[j] # <<>>
  <2>1. m \in Nat /\ \A j \in 1..m : groups[j] \in G
    OBVIOUS
  <2> QED BY <2>1 DEF GroupsOf
<1>2. \A j \in 1..m : Len(groups[j]) \in Nat
  BY <1>1
<1>3. CASE begins
  <2> DEFINE g == <<s>>
             new == Append(groups, g)
  <2>1. Gather(groups, s) = new
    BY <1>3, Zenon DEF Gather
  <2>2. g \in G /\ Len(g) = 1 /\ g[1] = s
    BY DEF GroupsOf
  <2> HIDE DEF g, G
  <2>3. /\ new \in Seq(G) /\ Len(new) = m + 1 /\ new[m + 1] = g /\ new # <<>>
        /\ \A j \in 1..m : new[j] = groups[j]
    BY <2>2, AppendProperties DEF G
  <2> HIDE DEF new, m
  <2>4. \A j \in 1..(m + 1) : j \in 1..m \/ j = m + 1
    BY <1>1
  <2>5. Adds(groups, s, new)
    <3>1. m <= m + 1
      BY <1>1
    <3>2. \A j \in 1..m : Len(groups[j]) <= Len(new[j]) /\ \A l \in 1..Len(groups[j]) : new[j][l] = groups[j][l]
      BY <1>2, <2>3
    <3>3. ASSUME NEW j \in 1..Len(new), NEW l \in 1..Len(new[j])
          PROVE  \/ j \in 1..m /\ l \in 1..Len(groups[j])
                 \/ j = Len(new) /\ l = Len(new[j])
      <4>1. CASE j \in 1..m
        BY <4>1, <2>3
      <4>2. CASE j = m + 1
        <5>1. Len(new[j]) = 1 /\ j = Len(new)
          BY <4>2, <2>2, <2>3
        <5>2. l = 1
          BY <5>1
        <5> QED BY <5>1, <5>2
      <4> QED BY <4>1, <4>2, <2>3, <2>4
    <3> QED BY <2>2, <2>3, <3>1, <3>2, <3>3 DEF Adds, m
  <2> QED BY <2>1, <2>3, <2>5 DEF G
<1>4. CASE ~begins
  <2> DEFINE l0 == groups[m]
             g == Append(l0, s)
             new == [groups EXCEPT ![m] = g]
  <2>1. Gather(groups, s) = new
    BY <1>4, Zenon DEF Gather
  <2>2. m \in 1..m /\ groups # <<>>
    <3>1. m # 0 /\ groups # <<>>
      BY <1>4
    <3> HIDE DEF m
    <3> QED BY <1>1, <3>1
  <2>3. l0 \in Seq(TextSpans(t)) /\ Len(l0) \in Nat
    BY <1>1, <2>2
  <2>4. /\ g \in Seq(TextSpans(t)) /\ Len(g) = Len(l0) + 1 /\ g[Len(l0) + 1] = s /\ g # <<>>
        /\ \A l \in 1..Len(l0) : g[l] = l0[l]
    <3> HIDE DEF l0
    <3> QED BY <2>3, AppendProperties
  <2>5. g \in G
    <3> HIDE DEF g
    <3> QED BY <2>4 DEF GroupsOf
  <2>6. /\ new \in Seq(G) /\ Len(new) = m /\ new[m] = g
        /\ \A j \in 1..m : j # m => new[j] = groups[j]
    <3> HIDE DEF g, G
    <3>1. new \in Seq(G) /\ Len(new) = m
      BY <2>2, <2>5, ExceptSeq DEF G
    <3>2. groups \in [1..m -> G]
      BY DEF G
    <3> HIDE DEF m
    <3> QED BY <2>2, <3>1, <3>2
  <2> HIDE DEF G, new
  <2>7. new # <<>>
    <3>1. Len(new) # 0
      <4>1. m # 0
        <5> HIDE DEF m
        <5> QED BY <2>2
      <4> QED BY <4>1, <2>6
    <3> QED BY <3>1
  <2>8. l0 = groups[m]
    OBVIOUS
  <2> HIDE DEF g, l0, m
  <2>9. Adds(groups, s, new)
    <3>1. m <= Len(new)
      BY <1>1, <2>6
    <3>2. \A j \in 1..m : Len(groups[j]) <= Len(new[j]) /\ \A l \in 1..Len(groups[j]) : new[j][l] = groups[j][l]
      <4> SUFFICES ASSUME NEW j \in 1..m
                   PROVE  Len(groups[j]) <= Len(new[j]) /\ \A l \in 1..Len(groups[j]) : new[j][l] = groups[j][l]
        OBVIOUS
      <4>1. CASE j = m
        BY <4>1, <2>3, <2>4, <2>6, <2>8
      <4>2. CASE j # m
        BY <4>2, <2>6, <1>2
      <4> QED BY <4>1, <4>2
    <3>3. ASSUME NEW j \in 1..Len(new), NEW l \in 1..Len(new[j])
          PROVE  \/ j \in 1..m /\ l \in 1..Len(groups[j])
                 \/ j = Len(new) /\ l = Len(new[j])
      <4>1. CASE j = m
        <5>1. l \in 1..(Len(l0) + 1) /\ Len(new[j]) = Len(l0) + 1
          BY <4>1, <2>4, <2>6
        <5>2. l \in 1..Len(l0) \/ l = Len(l0) + 1
          BY <5>1, <2>3
        <5> QED BY <4>1, <5>1, <5>2, <2>2, <2>6, <2>8
      <4>2. CASE j # m
        BY <4>2, <2>6
      <4> QED BY <4>1, <4>2
    <3> QED BY <2>4, <2>6, <2>7, <3>1, <3>2, <3>3 DEF Adds, m
  <2> QED BY <2>1, <2>6, <2>9 DEF G
<1> QED BY <1>3, <1>4

\* Gathering takes one span more each time.
LEMMA GatheringUnfolds ==
    ASSUME NEW t, NEW seq \in Seq(TextSpans(t))
    PROVE  /\ Loop(Gather, <<>>, seq) \in [0..Len(seq) -> Seq(GroupsOf(t))] /\ Loop(Gather, <<>>, seq)[0] = <<>>
           /\ \A i \in 1..Len(seq) : Loop(Gather, <<>>, seq)[i] = Gather(Loop(Gather, <<>>, seq)[i - 1], seq[i])
<1> DEFINE N == Len(seq)
           step == [i \in 1..N |-> [x \in Seq(GroupsOf(t)) |-> Gather(x, seq[i])]]
           Unfolds(f) == f = [i \in 0..N |-> IF i = 0 THEN <<>> ELSE Gather(f[i - 1], seq[i])]
<1>1. N \in Nat /\ \A i \in 1..N : seq[i] \in TextSpans(t)
  OBVIOUS
<1>2. \A x \in Seq(GroupsOf(t)), i \in 1..N : Gather(x, seq[i]) \in Seq(GroupsOf(t))
  BY <1>1, GatherFacts
<1>3. step \in [1..N -> [Seq(GroupsOf(t)) -> Seq(GroupsOf(t))]]
  BY <1>2
<1>4. PICK f \in [0..N -> Seq(GroupsOf(t))] : f[0] = <<>> /\ \A i \in 1..N : f[i] = step[i][f[i - 1]]
  <2>1. <<>> \in Seq(GroupsOf(t))
    OBVIOUS
  <2> HIDE DEF step, N
  <2>2. \E f : Unrolls(f, N, Seq(GroupsOf(t)), <<>>, step)
    BY <1>1, <1>3, <2>1, Unrolled
  <2> QED BY <2>2 DEF Unrolls
<1>5. ASSUME NEW i \in 1..N PROVE f[i] = Gather(f[i - 1], seq[i])
  <2>1. f[i - 1] \in Seq(GroupsOf(t))
    <3>1. i - 1 \in 0..N
      BY <1>1
    <3> HIDE DEF N
    <3> QED BY <3>1
  <2>2. \A x \in Seq(GroupsOf(t)) : step[i][x] = Gather(x, seq[i])
    OBVIOUS
  <2> HIDE DEF step
  <2> QED BY <1>4, <2>1, <2>2
<1>6. Unfolds(f)
  <2>1. \A i \in 0..N : f[i] = IF i = 0 THEN <<>> ELSE Gather(f[i - 1], seq[i])
    BY <1>4, <1>5
  <2> QED BY <2>1, <1>4
<1>7. Loop(Gather, <<>>, seq) = CHOOSE g : Unfolds(g)
  BY Zenon DEF Loop
<1>8. PICK g : g = Loop(Gather, <<>>, seq) /\ Unfolds(g)
  <2> HIDE DEF Unfolds
  <2> QED BY <1>6, <1>7
<1>9. /\ DOMAIN g = 0..N /\ g[0] = <<>> /\ g = [i \in 0..N |-> g[i]]
      /\ \A i \in 1..N : g[i] = Gather(g[i - 1], seq[i])
  <2>1. g = [i \in 0..N |-> IF i = 0 THEN <<>> ELSE Gather(g[i - 1], seq[i])]
    BY <1>8
  <2>2. N \in Nat
    BY <1>1
  <2> HIDE DEF N
  <2>3. \A i \in 0..N : g[i] = IF i = 0 THEN <<>> ELSE Gather(g[i - 1], seq[i])
    BY <2>1, Zenon
  <2>4. DOMAIN g = 0..N
    BY <2>1, Zenon
  <2>5. g = [i \in 0..N |-> g[i]]
    BY <2>1, Zenon
  <2>6. 0 \in 0..N /\ \A i \in 1..N : i \in 0..N /\ i # 0
    BY <2>2
  <2>7. g[0] = <<>> /\ \A i \in 1..N : g[i] = Gather(g[i - 1], seq[i])
    BY <2>3, <2>6, Zenon
  <2> QED BY <2>4, <2>5, <2>7, Zenon
<1> DEFINE Bad == {i \in 0..N : g[i] \notin Seq(GroupsOf(t))}
<1>10. ASSUME NEW i \in Bad PROVE i # 0 /\ i - 1 \in Bad
  <2>1. i # 0
    BY <1>4, <1>9
  <2>2. i \in 1..N /\ i - 1 \in 0..N
    BY <2>1
  <2> QED BY <2>2, <1>2, <1>9, <2>1
<1>11. Bad = {}
  <2>1. Bad \in SUBSET Nat
    OBVIOUS
  <2> HIDE DEF Bad
  <2> QED BY <1>10, <2>1, Descent
<1>12. \A i \in 0..N : g[i] \in Seq(GroupsOf(t))
  BY <1>11
<1>13. g \in [0..N -> Seq(GroupsOf(t))]
  BY <1>9, <1>12
<1> QED BY <1>8, <1>9, <1>13

\* What gathering n of the spans has come to: all of them, in their order.
Gathered(groups, spans, n) ==
    /\ \A i, j \in 1..Len(groups) : \A k \in 1..Len(groups[i]), l \in 1..Len(groups[j]) :
          i < j \/ (i = j /\ k < l) => Before(groups[i][k], groups[j][l])
    /\ \A i \in 1..Len(groups) : \A k \in 1..Len(groups[i]) :
          \E j \in 1..n : spans[j] = groups[i][k]
    /\ \A j \in 1..n : \E i \in 1..Len(groups) : \E k \in 1..Len(groups[i]) :
          spans[j] = groups[i][k]

\* One span more.
LEMMA GatherKeeps ==
    ASSUME NEW t, NEW spans \in Seq(TextSpans(t)), NEW n \in 1..Len(spans),
           NEW groups \in Seq(GroupsOf(t)), Gathered(groups, spans, n - 1),
           \A j \in 1..(n - 1) : Before(spans[j], spans[n])
    PROVE  Gathered(Gather(groups, spans[n]), spans, n)
<1> DEFINE s == spans[n]
           m == Len(groups)
           new == Gather(groups, s)
           N == Len(new)
<1>1. s \in TextSpans(t) /\ n \in Nat /\ n \in 1..n /\ \A j \in 1..n : j = n \/ j \in 1..(n - 1)
  OBVIOUS
<1>2. new \in Seq(GroupsOf(t)) /\ Adds(groups, s, new)
  <2> HIDE DEF s
  <2> QED BY <1>1, GatherFacts
<1> HIDE DEF s, new
<1>3. m \in Nat /\ N \in Nat /\ N # 0 /\ m <= N
  <2>1. m \in Nat /\ N \in Nat
    BY <1>2
  <2>2. N # 0 /\ m <= N
    BY <1>2 DEF Adds
  <2> QED BY <2>1, <2>2
<1>4. \A j \in 1..N : Len(new[j]) \in Nat /\ new[j] # <<>> /\ Len(new[j]) # 0
  <2>1. \A j \in 1..N : new[j] \in GroupsOf(t)
    BY <1>2
  <2>2. \A g \in GroupsOf(t) : Len(g) \in Nat /\ g # <<>> /\ Len(g) # 0
    BY DEF GroupsOf
  <2> QED BY <2>1, <2>2
<1>5. \A j \in 1..m : Len(groups[j]) \in Nat
  <2>1. \A j \in 1..m : groups[j] \in GroupsOf(t)
    OBVIOUS
  <2>2. \A g \in GroupsOf(t) : Len(g) \in Nat
    BY DEF GroupsOf
  <2> QED BY <2>1, <2>2
<1>6. /\ \A j \in 1..m : /\ Len(groups[j]) <= Len(new[j])
                        /\ \A l \in 1..Len(groups[j]) : new[j][l] = groups[j][l]
      /\ \A j \in 1..N : \A l \in 1..Len(new[j]) :
            \/ j \in 1..m /\ l \in 1..Len(groups[j])
            \/ j = N /\ l = Len(new[j])
      /\ new[N][Len(new[N])] = s
  BY <1>2 DEF Adds
<1>7. /\ \A i, j \in 1..m : \A k \in 1..Len(groups[i]), l \in 1..Len(groups[j]) :
            i < j \/ (i = j /\ k < l) => Before(groups[i][k], groups[j][l])
      /\ \A i \in 1..m : \A k \in 1..Len(groups[i]) : \E j \in 1..(n - 1) : spans[j] = groups[i][k]
      /\ \A j \in 1..(n - 1) : \E i \in 1..m : \E k \in 1..Len(groups[i]) : spans[j] = groups[i][k]
  BY DEF Gathered
<1> HIDE DEF m, N
<1>8. \A i \in 1..m : i \in 1..N /\ \A k \in 1..Len(groups[i]) : k \in 1..Len(new[i])
  BY <1>3, <1>4, <1>5, <1>6
<1>9. N \in 1..N /\ Len(new[N]) \in 1..Len(new[N])
  <2>1. N \in 1..N
    BY <1>3
  <2>2. Len(new[N]) \in Nat /\ Len(new[N]) # 0
    BY <1>4, <2>1
  <2> QED BY <2>1, <2>2
<1>10. \A i \in 1..m : \A k \in 1..Len(groups[i]) : Before(groups[i][k], s)
  <2> SUFFICES ASSUME NEW i \in 1..m, NEW k \in 1..Len(groups[i]) PROVE Before(groups[i][k], s)
    OBVIOUS
  <2>1. PICK j \in 1..(n - 1) : spans[j] = groups[i][k]
    BY <1>7
  <2> QED BY <2>1 DEF s
<1>11. ASSUME NEW i \in 1..N, NEW j \in 1..N, NEW k \in 1..Len(new[i]), NEW l \in 1..Len(new[j]),
              i < j \/ (i = j /\ k < l)
       PROVE  Before(new[i][k], new[j][l])
  <2>1. i \in 1..m /\ k \in 1..Len(groups[i])
    <3>1. ~(i = N /\ k = Len(new[i]))
      BY <1>11, <1>3, <1>4
    <3> QED BY <1>6, <3>1
  <2>2. new[i][k] = groups[i][k]
    BY <1>6, <2>1
  <2>3. CASE j \in 1..m /\ l \in 1..Len(groups[j])
    <3>1. new[j][l] = groups[j][l]
      BY <1>6, <2>3
    <3> QED BY <1>11, <1>7, <2>1, <2>2, <2>3, <3>1
  <2>4. CASE j = N /\ l = Len(new[j])
    BY <1>6, <1>10, <2>1, <2>2, <2>4
  <2> QED BY <1>6, <2>3, <2>4
<1>12. ASSUME NEW i \in 1..N, NEW k \in 1..Len(new[i])
       PROVE  \E j \in 1..n : spans[j] = new[i][k]
  <2>1. CASE i \in 1..m /\ k \in 1..Len(groups[i])
    <3>1. PICK j \in 1..(n - 1) : spans[j] = groups[i][k]
      BY <1>7, <2>1
    <3>2. j \in 1..n
      BY <1>1
    <3> QED BY <1>6, <2>1, <3>1, <3>2
  <2>2. CASE i = N /\ k = Len(new[i])
    BY <1>1, <1>6, <2>2 DEF s
  <2> QED BY <1>6, <2>1, <2>2
<1>13. ASSUME NEW j \in 1..n
       PROVE  \E i \in 1..N : \E k \in 1..Len(new[i]) : spans[j] = new[i][k]
  <2>1. CASE j = n
    BY <1>6, <1>9, <2>1 DEF s
  <2>2. CASE j \in 1..(n - 1)
    <3>1. PICK i \in 1..m : \E k \in 1..Len(groups[i]) : spans[j] = groups[i][k]
      BY <1>7, <2>2
    <3>2. PICK k \in 1..Len(groups[i]) : spans[j] = groups[i][k]
      BY <3>1
    <3> QED BY <1>6, <1>8, <3>1, <3>2
  <2> QED BY <1>1, <2>1, <2>2
<1>14. Gathered(new, spans, n)
  BY <1>11, <1>12, <1>13 DEF Gathered, N
<1> QED BY <1>14 DEF new, s

\* The groups of a finding's spans hold all of them, in their order.
LEMMA AnchorGroupsGathered ==
    ASSUME NEW t, Decoded(t), NEW f, Found(f, t)
    PROVE  /\ AnchorGroups(f, t) \in Seq(GroupsOf(t))
           /\ Gathered(AnchorGroups(f, t), NativeSpans(f, t), Len(NativeSpans(f, t)))
<1> DEFINE spans == NativeSpans(f, t)
           g == Loop(Gather, <<>>, spans)
           N == Len(spans)
           Bad == {i \in 0..N : ~Gathered(g[i], spans, i)}
<1>1. /\ spans \in Seq(TextSpans(t)) /\ N \in Nat
      /\ \A k, l \in 1..N : k < l => Before(spans[k], spans[l])
  <2>1. /\ spans \in Seq(TextSpans(t))
        /\ \A k, l \in 1..N : k < l => Before(spans[k], spans[l])
    BY NativeSpansFacts
  <2> HIDE DEF spans
  <2> QED BY <2>1
<1>2. AnchorGroups(f, t) = g[N]
  BY Zenon DEF AnchorGroups
<1> HIDE DEF spans
<1>3. /\ g \in [0..N -> Seq(GroupsOf(t))] /\ g[0] = <<>>
      /\ \A i \in 1..N : g[i] = Gather(g[i - 1], spans[i])
  BY <1>1, GatheringUnfolds
<1> HIDE DEF g
<1>4. Gathered(g[0], spans, 0)
  <2>1. Len(g[0]) = 0
    BY <1>3
  <2>2. 1..0 = {}
    OBVIOUS
  <2> QED BY <2>1, <2>2 DEF Gathered
<1>5. ASSUME NEW i \in Bad PROVE i # 0 /\ i - 1 \in Bad
  <2>1. i # 0 /\ i \in 0..N /\ ~Gathered(g[i], spans, i)
    BY <1>4
  <2>2. i \in 1..N /\ i - 1 \in 0..N /\ \A j \in 1..(i - 1) : j \in 1..N /\ j < i
    <3> HIDE DEF N
    <3> QED BY <1>1, <2>1
  <2>3. g[i - 1] \in Seq(GroupsOf(t)) /\ g[i] = Gather(g[i - 1], spans[i])
    BY <1>3, <2>2
  <2>4. \A j \in 1..(i - 1) : Before(spans[j], spans[i])
    BY <1>1, <2>2
  <2>5. ~Gathered(g[i - 1], spans, i - 1)
    BY <1>1, <2>1, <2>2, <2>3, <2>4, GatherKeeps
  <2> QED BY <2>1, <2>2, <2>5
<1>6. Bad = {}
  <2>1. Bad \in SUBSET Nat
    OBVIOUS
  <2> HIDE DEF Bad
  <2> QED BY <1>5, <2>1, Descent
<1>7. N \in 0..N
  BY <1>1
<1>8. Gathered(g[N], spans, N) /\ g[N] \in Seq(GroupsOf(t))
  BY <1>3, <1>6, <1>7
<1> QED BY <1>2, <1>8 DEF spans

\* Each is in order; no two are the same; and they hold every occurrence and nothing else.
LEMMA AnchorGroupsFacts ==
    ASSUME NEW t, Decoded(t), NEW f, Found(f, t)
    PROVE  /\ AnchorGroups(f, t) \in Seq(GroupsOf(t))
           /\ \A g \in Range(AnchorGroups(f, t)) :
                 /\ g \in GroupsOf(t)
                 /\ \A k, l \in 1..Len(g) : k < l => Before(g[k], g[l])
           /\ IsInjective(AnchorGroups(f, t))
           /\ \A g \in Range(AnchorGroups(f, t)) : \A s \in Range(g) :
                 \E p \in Range(Positions(f)) : At(p, s)
           /\ \A p \in Range(Positions(f)) :
                 \E g \in Range(AnchorGroups(f, t)) : \E s \in Range(g) : At(p, s)
<1> DEFINE G == AnchorGroups(f, t)
           S == NativeSpans(f, t)
<1>1. G \in Seq(GroupsOf(t)) /\ Gathered(G, S, Len(S))
  BY AnchorGroupsGathered
<1>2. /\ S \in Seq(TextSpans(t))
      /\ \A s \in Range(S) : \E p \in Range(Positions(f)) : At(p, s)
      /\ \A p \in Range(Positions(f)) : \E s \in Range(S) : At(p, s)
  BY NativeSpansFacts
<1> HIDE DEF G, S
<1>3. DOMAIN G = 1..Len(G) /\ Len(G) \in Nat /\ \A i \in 1..Len(G) : G[i] \in GroupsOf(t)
  BY <1>1
<1>4. \A g \in GroupsOf(t) : /\ g \in Seq(TextSpans(t)) /\ DOMAIN g = 1..Len(g) /\ Len(g) \in Nat
                             /\ 1 \in 1..Len(g) /\ g[1] \in TextSpans(t)
  <2> SUFFICES ASSUME NEW g \in GroupsOf(t)
               PROVE  /\ g \in Seq(TextSpans(t)) /\ DOMAIN g = 1..Len(g) /\ Len(g) \in Nat
                      /\ 1 \in 1..Len(g) /\ g[1] \in TextSpans(t)
    OBVIOUS
  <2>1. g \in Seq(TextSpans(t)) /\ g # <<>>
    BY DEF GroupsOf
  <2> QED BY <2>1
<1>5. \A g \in Range(G) : \E i \in 1..Len(G) : g = G[i]
  BY <1>3 DEF Range
<1>6. ASSUME NEW g \in Range(G)
      PROVE  g \in GroupsOf(t) /\ \A k, l \in 1..Len(g) : k < l => Before(g[k], g[l])
  <2>1. PICK i \in 1..Len(G) : g = G[i]
    BY <1>5
  <2>2. \A k, l \in 1..Len(G[i]) : k < l => Before(G[i][k], G[i][l])
    BY <1>1 DEF Gathered
  <2> QED BY <1>3, <2>1, <2>2
<1>7. \A i, j \in 1..Len(G) : i < j => G[i] # G[j]
  <2> SUFFICES ASSUME NEW i \in 1..Len(G), NEW j \in 1..Len(G), i < j, G[i] = G[j]
               PROVE  FALSE
    OBVIOUS
  <2>1. 1 \in 1..Len(G[i]) /\ 1 \in 1..Len(G[j]) /\ G[i][1] \in TextSpans(t)
    BY <1>3, <1>4
  <2>2. Before(G[i][1], G[j][1])
    BY <1>1, <2>1 DEF Gathered
  <2> DEFINE x == G[i][1]
  <2>3. /\ x.scalar.start \in Nat /\ x.scalar.end \in Nat /\ x.scalar.start < x.scalar.end
    BY <2>1, SpanFacts
  <2>4. x.scalar.end <= x.scalar.start
    BY <2>2 DEF Before
  <2> HIDE DEF x
  <2> QED BY <2>3, <2>4
<1>8. IsInjective(G)
  <2>1. \A i, j \in 1..Len(G) : i = j \/ i < j \/ j < i
    BY <1>3
  <2>2. \A i, j \in 1..Len(G) : G[i] = G[j] => i = j
    BY <1>7, <2>1
  <2> QED BY <1>3, <2>2 DEF IsInjective
<1>9. ASSUME NEW g \in Range(G), NEW s \in Range(g)
      PROVE  \E p \in Range(Positions(f)) : At(p, s)
  <2>1. PICK i \in 1..Len(G) : g = G[i]
    BY <1>5
  <2>2. PICK k \in 1..Len(G[i]) : s = G[i][k]
    BY <1>3, <1>4, <2>1 DEF Range
  <2>3. PICK j \in 1..Len(S) : S[j] = G[i][k]
    BY <1>1 DEF Gathered
  <2>4. S[j] \in Range(S)
    BY <1>2 DEF Range
  <2> QED BY <1>2, <2>2, <2>3, <2>4
<1>10. ASSUME NEW p \in Range(Positions(f))
       PROVE  \E g \in Range(G) : \E s \in Range(g) : At(p, s)
  <2>1. PICK s \in Range(S) : At(p, s)
    BY <1>2
  <2>2. PICK j \in 1..Len(S) : s = S[j]
    BY <1>2 DEF Range
  <2>3. PICK i \in 1..Len(G) : \E k \in 1..Len(G[i]) : S[j] = G[i][k]
    BY <1>1 DEF Gathered
  <2>4. PICK k \in 1..Len(G[i]) : S[j] = G[i][k]
    BY <2>3
  <2>5. G[i] \in Range(G) /\ s \in Range(G[i])
    BY <1>3, <1>4, <2>2, <2>4 DEF Range
  <2> QED BY <2>1, <2>5
<1> QED BY <1>1, <1>6, <1>8, <1>9, <1>10 DEF G

----------------------------------------------------------------------------
(* Sets and their sequences.                                               *)

\* The elements of a sequence are finitely many.
LEMMA RangeFinite ==
    ASSUME NEW n \in Nat, NEW h, DOMAIN h = 1..n, h = [i \in 1..n |-> h[i]]
    PROVE  IsFiniteSet(Range(h))
<1>1. IsFiniteSet(1..n)
  BY FS_Interval
<1>2. h \in [1..n -> Range(h)]
  BY DEF Range
<1>3. h \in Surjection(1..n, Range(h))
  BY <1>2 DEF Surjection, Range
<1> QED BY <1>1, <1>3, FS_Surjection

\* A set's sequence has its elements, each of them once.
LEMMA SetToSeqFacts ==
    ASSUME NEW S, IsFiniteSet(S)
    PROVE  /\ SetToSeq(S) \in Seq(S) /\ IsInjective(SetToSeq(S)) /\ Range(SetToSeq(S)) = S
           /\ DOMAIN SetToSeq(S) = 1..Len(SetToSeq(S))
<1> DEFINE n == Cardinality(S)
           Fits(f) == f \in [1..n -> S] /\ IsInjective(f)
           s == SetToSeq(S)
<1>1. n \in Nat /\ ExistsBijection(1..n, S)
  BY FS_CardinalityType
<1>2. PICK b : b \in Bijection(1..n, S)
  BY <1>1 DEF ExistsBijection
<1>3. Fits(b)
  BY <1>2 DEF Bijection, Injection
<1>4. s = CHOOSE f : Fits(f)
  BY Zenon DEF SetToSeq
<1>5. Fits(s)
  <2> HIDE DEF Fits, s
  <2> QED BY <1>3, <1>4
<1> HIDE DEF s
<1>6. s \in Injection(1..n, S)
  BY <1>5 DEF Injection
<1>7. Cardinality(1..n) = n
  <2> HIDE DEF n
  <2>1. Cardinality(1..n) = IF 1 > n THEN 0 ELSE n - 1 + 1
    BY <1>1, FS_Interval
  <2> QED BY <1>1, <2>1
<1>8. s \in Surjection(1..n, S)
  BY <1>6, <1>7, FS_Injection
<1>9. Range(s) = S
  BY <1>8 DEF Surjection, Range
<1>10. s \in Seq(S) /\ Len(s) = n /\ DOMAIN s = 1..n
  <2> HIDE DEF n
  <2>1. s \in [1..n -> S] /\ n \in Nat
    BY <1>1, <1>5 DEF n
  <2> QED BY <2>1
<1> QED BY <1>5, <1>9, <1>10 DEF s

----------------------------------------------------------------------------
(* The report made of an observation.                                      *)

Keys(o) == SetToSeq(AnchorKeys(o))
KeyOf(o, f, g) == CHOOSE k \in DOMAIN Keys(o) : Keys(o)[k] = <<f.by, g>>

\* What is known of an observation.
LEMMA ObservationFacts ==
    ASSUME NEW o, Observed(o)
    PROVE  /\ o.file.sha # None /\ o.file.size \in Nat /\ o.text.digest # None
           /\ Decoded(o.text) /\ TextRead(o.text) /\ TextStands(o.text, o.file)
           /\ o.analyzers \in {0, 1, 2}
           /\ DOMAIN o.findings = 1..Len(o.findings) /\ Len(o.findings) \in Nat
           /\ o.findings \in Seq(Range(o.findings))
           /\ \A f \in Range(o.findings) :
                 /\ Found(f, o.text) /\ f.by \in 2..(o.analyzers + 1) /\ f.by \in {2, 3}
                 /\ f.id # "parser.failure"
<1>1. Decoded(o.text)
  BY DEF Observed, TextRead, TextStands, Decoded
<1>2. o.analyzers \in {0, 1, 2}
  BY DEF Observed
<1>3. o.findings \in Seq(Range(o.findings))
  BY DEF Observed, List
<1>4. DOMAIN o.findings = 1..Len(o.findings) /\ Len(o.findings) \in Nat
  BY <1>3
<1>5. ASSUME NEW f \in Range(o.findings)
      PROVE  /\ Found(f, o.text) /\ f.by \in 2..(o.analyzers + 1) /\ f.by \in {2, 3}
             /\ f.id # "parser.failure"
  <2>1. Found(f, o.text) /\ f.by \in 2..(o.analyzers + 1) /\ f.id # "parser.failure"
    BY DEF Observed, Found
  <2> QED BY <1>2, <2>1
<1> QED BY <1>1, <1>2, <1>3, <1>4, <1>5 DEF Observed

\* References are not null.
LEMMA RefFacts ==
    ASSUME NEW kind \in {"artifact", "exec", "anchor", "result", "finding"}, NEW n \in Nat
    PROVE  Ref(<<kind, n>>, kind) /\ <<kind, n>> # None /\ RefOrNull(<<kind, n>>, kind)
  BY NullAssumption DEF Ref, RefOrNull

\* The keys of anchors: every finding's groups are among them, and no others.
LEMMA KeysFacts ==
    ASSUME NEW o, Observed(o)
    PROVE  /\ DOMAIN Keys(o) = 1..Len(Keys(o)) /\ Len(Keys(o)) \in Nat /\ IsInjective(Keys(o))
           /\ \A k \in 1..Len(Keys(o)) :
                 \E f \in Range(o.findings) : \E g \in Range(AnchorGroups(f, o.text)) :
                    Keys(o)[k] = <<f.by, g>>
           /\ \A f \in Range(o.findings) : \A g \in Range(AnchorGroups(f, o.text)) :
                 KeyOf(o, f, g) \in 1..Len(Keys(o)) /\ Keys(o)[KeyOf(o, f, g)] = <<f.by, g>>
<1> DEFINE F == o.findings
           G(f) == AnchorGroups(f, o.text)
           Of(f) == {<<f.by, g>> : g \in Range(G(f))}
           Sets == {Of(f) : f \in Range(F)}
<1>1. /\ DOMAIN F = 1..Len(F) /\ Len(F) \in Nat /\ Decoded(o.text)
      /\ \A f \in Range(F) : Found(f, o.text)
  BY ObservationFacts
<1>2. ASSUME NEW f \in Range(F) PROVE IsFiniteSet(Of(f))
  <2> DEFINE n == Len(G(f))
             h == [i \in 1..n |-> <<f.by, G(f)[i]>>]
  <2>1. G(f) \in Seq(GroupsOf(o.text))
    BY <1>1, AnchorGroupsFacts
  <2>2. n \in Nat /\ DOMAIN G(f) = 1..n
    <3> HIDE DEF G
    <3> QED BY <2>1
  <2>3. Range(h) = Of(f)
    <3> HIDE DEF n, G
    <3> QED BY <2>2 DEF Range
  <2>4. DOMAIN h = 1..n /\ h = [i \in 1..n |-> h[i]]
    OBVIOUS
  <2>5. IsFiniteSet(Range(h))
    <3> HIDE DEF h, n
    <3> QED BY <2>2, <2>4, RangeFinite
  <2> QED BY <2>3, <2>5
<1>3. IsFiniteSet(Sets)
  <2> DEFINE n == Len(F)
             h == [i \in 1..n |-> Of(F[i])]
  <2> HIDE DEF Of
  <2>1. Range(h) = Sets
    <3> HIDE DEF F
    <3> QED BY <1>1 DEF Range
  <2>2. DOMAIN h = 1..n /\ h = [i \in 1..n |-> h[i]]
    OBVIOUS
  <2>3. IsFiniteSet(Range(h))
    <3> HIDE DEF h
    <3> QED BY <1>1, <2>2, RangeFinite
  <2> QED BY <2>1, <2>3
<1>4. IsFiniteSet(UNION Sets)
  <2>1. \A T \in Sets : IsFiniteSet(T)
    <3> HIDE DEF Of
    <3> QED BY <1>2
  <2> HIDE DEF Sets
  <2> QED BY <1>3, <2>1, FS_UNION
<1>5. AnchorKeys(o) = UNION Sets
  BY Zenon DEF AnchorKeys
<1>6. /\ Keys(o) \in Seq(AnchorKeys(o)) /\ IsInjective(Keys(o)) /\ Range(Keys(o)) = AnchorKeys(o)
      /\ DOMAIN Keys(o) = 1..Len(Keys(o))
  BY <1>4, <1>5, SetToSeqFacts DEF Keys
<1>7. Len(Keys(o)) \in Nat
  BY <1>6
<1>8. ASSUME NEW k \in 1..Len(Keys(o))
      PROVE  \E f \in Range(F) : \E g \in Range(G(f)) : Keys(o)[k] = <<f.by, g>>
  <2>1. Keys(o)[k] \in AnchorKeys(o)
    BY <1>6 DEF Range
  <2> HIDE DEF G
  <2> QED BY <1>5, <2>1
<1>9. ASSUME NEW f \in Range(F), NEW g \in Range(G(f))
      PROVE  KeyOf(o, f, g) \in 1..Len(Keys(o)) /\ Keys(o)[KeyOf(o, f, g)] = <<f.by, g>>
  <2>1. <<f.by, g>> \in AnchorKeys(o)
    <3> HIDE DEF G
    <3> QED BY <1>5
  <2>2. \E k \in DOMAIN Keys(o) : Keys(o)[k] = <<f.by, g>>
    BY <1>6, <2>1 DEF Range
  <2> QED BY <1>6, <2>2 DEF KeyOf
<1> QED BY <1>6, <1>7, <1>8, <1>9

\* A group of a finding's spans, whose key it is.
LEMMA GroupFacts ==
    ASSUME NEW o, Observed(o), NEW k \in 1..Len(Keys(o))
    PROVE  /\ Keys(o)[k][1] \in 2..(o.analyzers + 1) /\ Keys(o)[k][1] \in {2, 3}
           /\ Keys(o)[k][2] \in GroupsOf(o.text)
           /\ \A i, j \in 1..Len(Keys(o)[k][2]) :
                 i < j => Before(Keys(o)[k][2][i], Keys(o)[k][2][j])
<1>1. PICK f \in Range(o.findings) : \E g \in Range(AnchorGroups(f, o.text)) :
                Keys(o)[k] = <<f.by, g>>
  BY KeysFacts
<1>2. PICK g \in Range(AnchorGroups(f, o.text)) : Keys(o)[k] = <<f.by, g>>
  BY <1>1
<1>3. Found(f, o.text) /\ Decoded(o.text) /\ f.by \in 2..(o.analyzers + 1) /\ f.by \in {2, 3}
  BY ObservationFacts
<1>4. g \in GroupsOf(o.text) /\ \A i, j \in 1..Len(g) : i < j => Before(g[i], g[j])
  BY <1>3, AnchorGroupsFacts
<1>5. Keys(o)[k][1] = f.by /\ Keys(o)[k][2] = g
  BY <1>2
<1> QED BY <1>3, <1>4, <1>5

\* A reference that no other of a sequence has names what bears it.
LEMMA NamedOne ==
    ASSUME NEW seq, Unique(seq, RefOf), NEW i \in DOMAIN seq
    PROVE  Known(seq, seq[i].ref) /\ Named(seq, seq[i].ref) = seq[i]
<1>1. seq[i] \in Range(seq)
  BY DEF Range
<1>2. Known(seq, seq[i].ref)
  BY <1>1 DEF Known, Refs
<1>3. Named(seq, seq[i].ref) \in Range(seq) /\ Named(seq, seq[i].ref).ref = seq[i].ref
  BY <1>2, NamedFacts
<1>4. PICK j \in DOMAIN seq : Named(seq, seq[i].ref) = seq[j]
  BY <1>3 DEF Range
<1>5. j = i
  BY <1>3, <1>4 DEF Unique, RefOf
<1> QED BY <1>2, <1>4, <1>5

\* The records of a report that is made of an observation.
LEMMA MadeRecords ==
    ASSUME NEW o, report = MadeOf(o)
    PROVE  /\ report.file = o.file /\ report.texts = <<o.text>> /\ report.capabilities = Catalog
           /\ report.executions = [i \in DOMAIN Catalog |-> NativeExecution(o, i)]
           /\ report.anchors = [k \in DOMAIN Keys(o) |-> NativeAnchor(k, Keys(o)[k])]
           /\ report.results = [n \in 1..o.analyzers |-> NativeResult(o, report.anchors, n)]
           /\ report.artifacts = <<SourceArtifact(o.file), TextArtifact(o.text)>>
           /\ report.diagnostics = <<>>
           /\ report.findings = [n \in DOMAIN o.findings |-> NativeFinding(o, Keys(o), n)]
           /\ report.status = Status(Catalog, [i \in DOMAIN Catalog |-> report.executions[i].state],
                                     report.results # <<>>)
<1> DEFINE keys == SetToSeq(AnchorKeys(o))
           anchors == [k \in DOMAIN keys |-> NativeAnchor(k, keys[k])]
           executions == [i \in DOMAIN Catalog |-> NativeExecution(o, i)]
           results == [n \in 1..o.analyzers |-> NativeResult(o, anchors, n)]
           artifacts == <<SourceArtifact(o.file), TextArtifact(o.text)>>
           findings == [n \in DOMAIN o.findings |-> NativeFinding(o, keys, n)]
           status == Status(Catalog, [i \in DOMAIN Catalog |-> executions[i].state], results # <<>>)
<1>1. report = [file |-> o.file, texts |-> <<o.text>>, capabilities |-> Catalog,
                executions |-> executions, anchors |-> anchors, results |-> results,
                artifacts |-> artifacts, diagnostics |-> <<>>, findings |-> findings,
                status |-> status]
  BY Zenon DEF MadeOf
<1> HIDE DEF anchors, executions, results, artifacts, findings, status
<1>2. /\ report.file = o.file /\ report.texts = <<o.text>> /\ report.capabilities = Catalog
      /\ report.executions = executions /\ report.anchors = anchors /\ report.results = results
      /\ report.artifacts = artifacts /\ report.diagnostics = <<>> /\ report.findings = findings
      /\ report.status = status
  BY <1>1
<1>3. keys = Keys(o)
  BY DEF Keys
<1>4. /\ anchors = [k \in DOMAIN Keys(o) |-> NativeAnchor(k, Keys(o)[k])]
      /\ findings = [n \in DOMAIN o.findings |-> NativeFinding(o, Keys(o), n)]
  BY Zenon DEF anchors, findings, Keys
<1>5. results = [n \in 1..o.analyzers |-> NativeResult(o, report.anchors, n)]
  BY <1>2, Zenon DEF results
<1>6. status = Status(Catalog, [i \in DOMAIN Catalog |-> report.executions[i].state],
                      report.results # <<>>)
  BY <1>2, Zenon DEF status
<1> QED BY <1>2, <1>4, <1>5, <1>6, Zenon DEF executions, artifacts

\* The catalog's operations: two that precede analysis, two analyzers.
LEMMA CatalogFacts ==
    /\ DOMAIN Catalog = 1..4 /\ Range(Catalog) = {Catalog[i] : i \in 1..4}
    /\ \A i \in 1..4 :
          /\ Catalog[i].participation = "required" /\ Catalog[i].available = TRUE
          /\ Catalog[i].implementation # None /\ Catalog[i].reason = None
          /\ Catalog[i].purpose = None
          /\ i > 2 => Catalog[i].role = "analyzer" /\ Catalog[i].mechanism = "structural"
          /\ i <= 2 => Catalog[i].role \in {"acquisition", "parser"} /\ Catalog[i].mechanism = None
    /\ Catalog[1].role = "acquisition" /\ Catalog[2].role = "parser"
    /\ \A i, j \in 1..4 : Catalog[i].id = Catalog[j].id => i = j
<1>1. /\ Catalog[1] = Planned("acquire", "acquisition") /\ Catalog[2] = Planned("parse", "parser")
      /\ Catalog[3] = Planned("text", "analyzer") /\ Catalog[4] = Planned("patterns", "analyzer")
      /\ DOMAIN Catalog = 1..4
  BY DEF Catalog
<1>2. 1..4 = {1, 2, 3, 4}
  OBVIOUS
<1>3. \A id, role : /\ Planned(id, role).id = id /\ Planned(id, role).role = role
                    /\ Planned(id, role).participation = "required"
                    /\ Planned(id, role).available = TRUE
                    /\ Planned(id, role).implementation = id /\ Planned(id, role).reason = None
                    /\ Planned(id, role).purpose = None
                    /\ (role = "analyzer" => Planned(id, role).mechanism = "structural")
                    /\ (role # "analyzer" => Planned(id, role).mechanism = None)
  BY DEF Planned
<1>4. None \notin {"acquire", "parse", "text", "patterns"}
  BY NullAssumption
<1>5. Range(Catalog) = {Catalog[i] : i \in 1..4}
  BY <1>1 DEF Range
<1>6. /\ Catalog[1].id = "acquire" /\ Catalog[2].id = "parse" /\ Catalog[3].id = "text"
      /\ Catalog[4].id = "patterns"
      /\ Catalog[1].role = "acquisition" /\ Catalog[2].role = "parser"
      /\ Catalog[3].role = "analyzer" /\ Catalog[4].role = "analyzer"
  BY <1>1, <1>3
<1>7. \A i \in 1..4 :
          /\ Catalog[i].participation = "required" /\ Catalog[i].available = TRUE
          /\ Catalog[i].implementation # None /\ Catalog[i].reason = None
          /\ Catalog[i].purpose = None
  <2>1. \A i \in 1..4 : Catalog[i] = Planned(Catalog[i].id, Catalog[i].role)
    BY <1>1, <1>2, <1>6
  <2>2. \A i \in 1..4 : Catalog[i].id \in {"acquire", "parse", "text", "patterns"}
    BY <1>2, <1>6
  <2> QED BY <1>3, <1>4, <2>1, <2>2
<1>8. \A i \in 1..4 :
          /\ i > 2 => Catalog[i].role = "analyzer" /\ Catalog[i].mechanism = "structural"
          /\ i <= 2 => Catalog[i].role \in {"acquisition", "parser"} /\ Catalog[i].mechanism = None
  <2>1. /\ Catalog[1].mechanism = None /\ Catalog[2].mechanism = None
        /\ Catalog[3].mechanism = "structural" /\ Catalog[4].mechanism = "structural"
    BY <1>1, <1>3
  <2> QED BY <1>2, <1>6, <2>1
<1>9. \A i, j \in 1..4 : Catalog[i].id = Catalog[j].id => i = j
  BY <1>2, <1>6
<1> QED BY <1>1, <1>5, <1>6, <1>7, <1>8, <1>9

\* An execution as it is made.
LEMMA ExecutionMade ==
    ASSUME NEW o, NEW i \in 1..4, NEW e, e = NativeExecution(o, i)
    PROVE  /\ e.ref = <<"exec", i - 1>> /\ e.capability = Catalog[i].id
           /\ e.requested = WholeOf(IF i > 2 THEN 1 ELSE 0)
           /\ e.exclusions = <<>> /\ e.diagnostics = <<>>
           /\ Ran(o, i) => /\ e.analyzed = <<e.requested>> /\ e.state = "completed"
                           /\ e.reason = None
           /\ ~Ran(o, i) => /\ e.analyzed = <<>> /\ e.state = "not_run"
                            /\ e.reason = "prerequisite"
  BY DEF NativeExecution

\* The executions of a report that is made, and what their references name.
LEMMA ExecutionsMade ==
    ASSUME NEW o, Observed(o), report = MadeOf(o)
    PROVE  /\ DOMAIN report.executions = 1..4
           /\ \A i \in 1..4 : report.executions[i] = NativeExecution(o, i)
           /\ \A e \in Range(report.executions) : \E i \in 1..4 : e = NativeExecution(o, i)
           /\ Unique(report.executions, RefOf)
           /\ \A i \in 1..4 :
                 /\ Known(report.executions, <<"exec", i - 1>>)
                 /\ ExecutionAt(<<"exec", i - 1>>) = NativeExecution(o, i)
                 /\ CapabilityOf(NativeExecution(o, i)) = Catalog[i]
           /\ CapabilityIds = {Catalog[i].id : i \in 1..4}
<1>1. report.executions = [i \in 1..4 |-> NativeExecution(o, i)] /\ report.capabilities = Catalog
  <2>1. DOMAIN Catalog = 1..4
    BY CatalogFacts
  <2>2. /\ report.executions = [i \in DOMAIN Catalog |-> NativeExecution(o, i)]
        /\ report.capabilities = Catalog
    BY MadeRecords, Zenon
  <2> QED BY <2>1, <2>2, Zenon
<1>2. DOMAIN report.executions = 1..4 /\ \A i \in 1..4 : report.executions[i] = NativeExecution(o, i)
  BY <1>1
<1>3. \A i \in 1..4 : report.executions[i].ref = <<"exec", i - 1>>
  BY <1>2, ExecutionMade
<1>4. Unique(report.executions, RefOf)
  <2>1. \A i, j \in 1..4 : <<"exec", i - 1>> = <<"exec", j - 1>> => i = j
    OBVIOUS
  <2> QED BY <1>2, <1>3, <2>1 DEF Unique, RefOf
<1>5. ASSUME NEW i \in 1..4
      PROVE  /\ Known(report.executions, <<"exec", i - 1>>)
             /\ ExecutionAt(<<"exec", i - 1>>) = NativeExecution(o, i)
  BY <1>2, <1>3, <1>4, NamedOne DEF ExecutionAt
<1>6. ASSUME NEW i \in 1..4
      PROVE  CapabilityOf(NativeExecution(o, i)) = Catalog[i]
  <2>1. NativeExecution(o, i).capability = Catalog[i].id
    BY ExecutionMade
  <2>2. \A c \in Range(Catalog) : c.id = Catalog[i].id => c = Catalog[i]
    BY CatalogFacts
  <2>3. Catalog[i] \in Range(Catalog)
    BY CatalogFacts
  <2> QED BY <1>1, <2>1, <2>2, <2>3 DEF CapabilityOf
<1>7. CapabilityIds = {Catalog[i].id : i \in 1..4}
  BY <1>1, CatalogFacts DEF CapabilityIds
<1>8. \A e \in Range(report.executions) : \E i \in 1..4 : e = NativeExecution(o, i)
  BY <1>2 DEF Range
<1> QED BY <1>2, <1>4, <1>5, <1>6, <1>7, <1>8

\* The bytes of a text are as many as its scalars take.
LEMMA SumFacts ==
    ASSUME NEW t, Decoded(t)
    PROVE  Sum(t.scalars) \in Nat
<1>1. t.scalars \in Seq(1..4)
  BY DEF Decoded
<1>2. t.scalars \in Seq(Nat)
  BY <1>1
<1>3. Len(t.scalars) \in 0..Len(t.scalars)
  BY <1>2
<1> QED BY <1>2, <1>3, TotalsUnfold DEF Sum

\* The two artifacts, as they are made.
LEMMA ArtifactsMade ==
    ASSUME NEW o, Observed(o), report = MadeOf(o)
    PROVE  /\ DOMAIN report.artifacts = 1..2
           /\ report.artifacts[1] = SourceArtifact(o.file)
           /\ report.artifacts[2] = TextArtifact(o.text)
           /\ Range(report.artifacts) = {SourceArtifact(o.file), TextArtifact(o.text)}
           /\ Unique(report.artifacts, RefOf)
           /\ \A n \in {0, 1} : Known(report.artifacts, <<"artifact", n>>)
           /\ ArtifactAt(<<"artifact", 0>>) = SourceArtifact(o.file)
           /\ ArtifactAt(<<"artifact", 1>>) = TextArtifact(o.text)
           /\ report.texts = <<o.text>> /\ DOMAIN report.texts = {1}
<1> DEFINE A == report.artifacts
           a == SourceArtifact(o.file)
           b == TextArtifact(o.text)
<1>1. A = <<a, b>> /\ report.texts = <<o.text>>
  BY MadeRecords
<1>2. a.ref = <<"artifact", 0>> /\ b.ref = <<"artifact", 1>>
  BY DEF SourceArtifact, TextArtifact
<1> HIDE DEF a, b
<1>3. 1..2 = {1, 2} /\ 1..1 = {1}
  OBVIOUS
<1>4. DOMAIN A = {1, 2} /\ A[1] = a /\ A[2] = b /\ DOMAIN report.texts = {1}
  BY <1>1, <1>3
<1>5. Range(A) = {a, b}
  BY <1>4 DEF Range
<1>6. Unique(A, RefOf)
  <2>1. <<"artifact", 0>> # <<"artifact", 1>>
    OBVIOUS
  <2> QED BY <1>2, <1>4, <2>1 DEF Unique, RefOf
<1>7. /\ Known(A, A[1].ref) /\ Named(A, A[1].ref) = A[1]
      /\ Known(A, A[2].ref) /\ Named(A, A[2].ref) = A[2]
  <2> HIDE DEF A
  <2> QED BY <1>4, <1>6, NamedOne
<1>8. ArtifactAt(<<"artifact", 0>>) = a /\ ArtifactAt(<<"artifact", 1>>) = b
  BY <1>2, <1>4, <1>7 DEF ArtifactAt
<1>9. \A n \in {0, 1} : Known(A, <<"artifact", n>>)
  BY <1>2, <1>4, <1>7
<1> QED BY <1>1, <1>3, <1>4, <1>5, <1>6, <1>8, <1>9 DEF a, b

\* An anchor as it is made.
LEMMA AnchorMade ==
    ASSUME NEW n, NEW key, NEW a, a = NativeAnchor(n, key)
    PROVE  /\ a.ref = <<"anchor", n>> /\ a.kind = "text" /\ a.artifact = <<"artifact", 1>>
           /\ a.execution = <<"exec", key[1]>> /\ a.mapping = NativeMapping /\ a.segment = 1
           /\ a.spans = key[2] /\ a.digest = key[2]
  BY DEF NativeAnchor

\* The anchors of a report that is made.
LEMMA AnchorsMade ==
    ASSUME NEW o, Observed(o), report = MadeOf(o)
    PROVE  /\ DOMAIN report.anchors = 1..Len(Keys(o))
           /\ \A k \in 1..Len(Keys(o)) : report.anchors[k] = NativeAnchor(k, Keys(o)[k])
           /\ \A a \in Range(report.anchors) :
                 \E k \in 1..Len(Keys(o)) : a = NativeAnchor(k, Keys(o)[k])
           /\ Unique(report.anchors, RefOf)
           /\ \A k \in 1..Len(Keys(o)) :
                 /\ Known(report.anchors, <<"anchor", k>>)
                 /\ Named(report.anchors, <<"anchor", k>>) = NativeAnchor(k, Keys(o)[k])
<1>1. DOMAIN Keys(o) = 1..Len(Keys(o))
  BY KeysFacts
<1>2. report.anchors = [k \in DOMAIN Keys(o) |-> NativeAnchor(k, Keys(o)[k])]
  BY MadeRecords
<1>3. /\ DOMAIN report.anchors = 1..Len(Keys(o))
      /\ \A k \in 1..Len(Keys(o)) : report.anchors[k] = NativeAnchor(k, Keys(o)[k])
  BY <1>1, <1>2
<1>4. \A k \in 1..Len(Keys(o)) : report.anchors[k].ref = <<"anchor", k>>
  BY <1>3, AnchorMade
<1>5. Unique(report.anchors, RefOf)
  <2>1. \A i, j : <<"anchor", i>> = <<"anchor", j>> => i = j
    OBVIOUS
  <2> QED BY <1>3, <1>4, <2>1 DEF Unique, RefOf
<1>6. ASSUME NEW k \in 1..Len(Keys(o))
      PROVE  /\ Known(report.anchors, <<"anchor", k>>)
             /\ Named(report.anchors, <<"anchor", k>>) = NativeAnchor(k, Keys(o)[k])
  BY <1>3, <1>4, <1>5, NamedOne
<1>7. \A a \in Range(report.anchors) :
        \E k \in 1..Len(Keys(o)) : a = NativeAnchor(k, Keys(o)[k])
  BY <1>3 DEF Range
<1> QED BY <1>3, <1>5, <1>6, <1>7

\* A result names its execution and that execution's anchors, each of them once.
IsResult(o, n, r) ==
    /\ r.ref = <<"result", n>> /\ r.execution = <<"exec", n + 1>>
    /\ r.operation = Catalog[n + 2].id /\ r.scope = WholeOf(1)
    /\ r.outcome \in {"observations_present", "no_observations"}
    /\ (\E f \in Range(o.findings) : f.by = n + 1) => r.outcome = "observations_present"
    /\ Distinct(r.anchors)
    /\ \A a \in Range(r.anchors) :
          \E k \in 1..Len(Keys(o)) :
             a = <<"anchor", k>> /\ NativeAnchor(k, Keys(o)[k]).execution = <<"exec", n + 1>>

\* A result as it is made.
LEMMA ResultMade ==
    ASSUME NEW o, Observed(o), report = MadeOf(o), NEW n \in 1..o.analyzers,
           NEW r, r = NativeResult(o, report.anchors, n)
    PROVE  IsResult(o, n, r)
<1> DEFINE R == {a.ref : a \in {x \in Range(report.anchors) : x.execution = <<"exec", n + 1>>}}
           K == Len(Keys(o))
<1>1. /\ r.ref = <<"result", n>> /\ r.execution = <<"exec", n + 1>>
      /\ r.operation = Catalog[n + 2].id /\ r.scope = WholeOf(1)
      /\ r.outcome = IF \E f \in Range(o.findings) : f.by = n + 1
                     THEN "observations_present" ELSE "no_observations"
  BY DEF NativeResult
<1>2. r.anchors = SetToSeq(R)
  <2> HIDE DEF R
  <2>1. r.anchors = SetToSeq({a.ref : a \in {x \in Range(report.anchors) : x.execution = <<"exec", n + 1>>}})
    BY DEF NativeResult
  <2> QED BY <2>1 DEF R
<1>3. \A a \in R : \E k \in 1..K :
         a = <<"anchor", k>> /\ NativeAnchor(k, Keys(o)[k]).execution = <<"exec", n + 1>>
  <2> SUFFICES ASSUME NEW x \in Range(report.anchors), x.execution = <<"exec", n + 1>>
               PROVE  \E k \in 1..K :
         x.ref = <<"anchor", k>> /\ NativeAnchor(k, Keys(o)[k]).execution = <<"exec", n + 1>>
    OBVIOUS
  <2>1. PICK k \in 1..K : x = NativeAnchor(k, Keys(o)[k])
    BY AnchorsMade
  <2>2. x.ref = <<"anchor", k>>
    BY <2>1, AnchorMade
  <2> QED BY <2>1, <2>2
<1>4. IsFiniteSet(R)
  <2>1. K \in Nat
    BY KeysFacts
  <2>2. IsFiniteSet(1..K) /\ IsFiniteSet({"anchor"})
    <3>1. 1 \in Int /\ K \in Int
      <4> HIDE DEF K
      <4> QED BY <2>1
    <3> HIDE DEF K
    <3>2. IsFiniteSet(1..K)
      BY <3>1, FS_Interval
    <3>3. IsFiniteSet({"anchor"})
      BY FS_Singleton
    <3> QED BY <3>2, <3>3
  <2>3. IsFiniteSet({"anchor"} \X (1..K))
    BY <2>2, FS_Product
  <2>4. R \in SUBSET ({"anchor"} \X (1..K))
    <3> HIDE DEF R, K
    <3> QED BY <1>3
  <2> HIDE DEF R
  <2> QED BY <2>3, <2>4, FS_Subset
<1>5. IsInjective(r.anchors) /\ Range(r.anchors) = R
  <2> HIDE DEF R
  <2> QED BY <1>2, <1>4, SetToSeqFacts
<1>6. Distinct(r.anchors)
  BY <1>5 DEF Distinct
<1> HIDE DEF R, K
<1> QED BY <1>1, <1>3, <1>5, <1>6 DEF K, IsResult

\* Results and the executions they are of.
LEMMA ResultsMade ==
    ASSUME NEW o, Observed(o), report = MadeOf(o)
    PROVE  /\ DOMAIN report.results = 1..o.analyzers
           /\ \A n \in 1..o.analyzers :
                 /\ report.results[n] = NativeResult(o, report.anchors, n)
                 /\ report.results[n] \in Range(report.results)
                 /\ n + 2 \in 1..4 /\ n + 2 > 2 /\ Ran(o, n + 2)
           /\ \A r \in Range(report.results) :
                 \E n \in 1..o.analyzers : r = NativeResult(o, report.anchors, n)
<1>1. report.results = [n \in 1..o.analyzers |-> NativeResult(o, report.anchors, n)]
  BY MadeRecords
<1>2. o.analyzers \in {0, 1, 2}
  BY ObservationFacts
<1>3. /\ DOMAIN report.results = 1..o.analyzers
      /\ \A n \in 1..o.analyzers : report.results[n] = NativeResult(o, report.anchors, n)
  BY <1>1
<1>4. \A n \in 1..o.analyzers : n + 2 \in 1..4 /\ n + 2 > 2 /\ Ran(o, n + 2)
  BY <1>2 DEF Ran
<1> QED BY <1>3, <1>4 DEF Range

\* A finding names the anchors of its groups, each of them once.
IsFinding(o, n, f, d) ==
    /\ d.ref = <<"finding", n>> /\ d.id = f.id /\ d.execution = <<"exec", f.by>>
    /\ d.mechanism = "structural" /\ d.source = "file" /\ d.positions = f.positions
    /\ d.offsets = (IF f.positions = None THEN None
                    ELSE [i \in DOMAIN f.positions |-> o.text.offsets[f.positions[i] + 1]])
    /\ d.count = (IF f.positions = None THEN None ELSE Len(f.positions))
    /\ Distinct(d.anchors)
    /\ \A a \in Range(d.anchors) :
          \E k \in 1..Len(Keys(o)) : \E g \in Range(AnchorGroups(f, o.text)) :
             a = <<"anchor", k>> /\ Keys(o)[k] = <<f.by, g>>
    /\ \A g \in Range(AnchorGroups(f, o.text)) :
          \E k \in 1..Len(Keys(o)) :
             <<"anchor", k>> \in Range(d.anchors) /\ Keys(o)[k] = <<f.by, g>>

\* A finding as it is made.
LEMMA FindingMade ==
    ASSUME NEW o, Observed(o), NEW n \in 1..Len(o.findings),
           NEW f, f = o.findings[n], NEW d, d = NativeFinding(o, Keys(o), n)
    PROVE  f \in Range(o.findings) /\ IsFinding(o, n, f, d)
<1> DEFINE G == AnchorGroups(f, o.text)
           A == d.anchors
<1>1. f \in Range(o.findings)
  BY ObservationFacts DEF Range
<1>2. /\ d.ref = <<"finding", n>> /\ d.id = f.id /\ d.execution = <<"exec", f.by>>
      /\ d.mechanism = "structural" /\ d.source = "file" /\ d.positions = f.positions
      /\ d.offsets = (IF f.positions = None THEN None
                      ELSE [i \in DOMAIN f.positions |-> o.text.offsets[f.positions[i] + 1]])
      /\ d.count = (IF f.positions = None THEN None ELSE Len(f.positions))
  BY DEF NativeFinding
<1>3. A = [i \in DOMAIN G |-> <<"anchor", CHOOSE k \in DOMAIN Keys(o) : Keys(o)[k] = <<f.by, G[i]>>>>]
  <2> HIDE DEF G
  <2>1. A = [i \in DOMAIN AnchorGroups(f, o.text) |->
              <<"anchor", CHOOSE k \in DOMAIN Keys(o) : Keys(o)[k] = <<f.by, AnchorGroups(f, o.text)[i]>>>>]
    BY DEF NativeFinding
  <2> QED BY <2>1, Zenon DEF G
<1>4. Found(f, o.text) /\ Decoded(o.text)
  BY <1>1, ObservationFacts
<1>5. G \in Seq(GroupsOf(o.text)) /\ IsInjective(G)
  BY <1>4, AnchorGroupsFacts
<1>6. \A g \in Range(G) : KeyOf(o, f, g) \in 1..Len(Keys(o)) /\ Keys(o)[KeyOf(o, f, g)] = <<f.by, g>>
  BY <1>1, KeysFacts
<1> HIDE DEF G, A
<1>7. DOMAIN A = DOMAIN G /\ \A i \in DOMAIN G : A[i] = <<"anchor", KeyOf(o, f, G[i])>>
  BY <1>3, Zenon DEF KeyOf
<1>8. \A i \in DOMAIN G : G[i] \in Range(G)
  BY DEF Range
<1>9. ASSUME NEW i \in DOMAIN G, NEW j \in DOMAIN G, A[i] = A[j]
      PROVE  i = j
  <2>1. KeyOf(o, f, G[i]) = KeyOf(o, f, G[j])
    BY <1>7, <1>9
  <2>2. <<f.by, G[i]>> = <<f.by, G[j]>>
    BY <1>6, <1>8, <2>1
  <2>3. G[i] = G[j]
    BY <2>2
  <2> QED BY <1>5, <2>3 DEF IsInjective
<1>10. Distinct(A)
  BY <1>7, <1>9 DEF Distinct, IsInjective
<1>11. ASSUME NEW a \in Range(A)
       PROVE  \E k \in 1..Len(Keys(o)) : \E g \in Range(G) :
                 a = <<"anchor", k>> /\ Keys(o)[k] = <<f.by, g>>
  <2>1. PICK i \in DOMAIN G : a = A[i]
    BY <1>7 DEF Range
  <2> QED BY <1>6, <1>7, <1>8, <2>1
<1>12. ASSUME NEW g \in Range(G)
       PROVE  \E k \in 1..Len(Keys(o)) : <<"anchor", k>> \in Range(A) /\ Keys(o)[k] = <<f.by, g>>
  <2>1. PICK i \in DOMAIN G : g = G[i]
    BY DEF Range
  <2>2. A[i] \in Range(A) /\ A[i] = <<"anchor", KeyOf(o, f, g)>>
    BY <1>7, <2>1 DEF Range
  <2> QED BY <1>6, <2>2
<1> QED BY <1>1, <1>2, <1>10, <1>11, <1>12 DEF A, G, IsFinding

\* Findings and the observations they are made of.
LEMMA FindingsMade ==
    ASSUME NEW o, Observed(o), report = MadeOf(o)
    PROVE  /\ DOMAIN report.findings = 1..Len(o.findings)
           /\ \A n \in 1..Len(o.findings) : report.findings[n] = NativeFinding(o, Keys(o), n)
           /\ \A d \in Range(report.findings) :
                 \E n \in 1..Len(o.findings) : d = NativeFinding(o, Keys(o), n)
<1>1. report.findings = [n \in DOMAIN o.findings |-> NativeFinding(o, Keys(o), n)]
  BY MadeRecords
<1>2. DOMAIN o.findings = 1..Len(o.findings)
  BY ObservationFacts
<1> QED BY <1>1, <1>2 DEF Range

\* The places of an observation lie in its text.
LEMMA PlacesFacts ==
    ASSUME NEW t, Decoded(t), NEW f, Found(f, t), f.positions # None, NEW i \in DOMAIN f.positions
    PROVE  /\ f.positions \in Seq(Nat) /\ f.positions[i] \in Nat
           /\ f.positions[i] + 1 \in 1..Len(t.offsets) /\ f.positions[i] + 1 < Len(t.offsets)
           /\ t.offsets[f.positions[i] + 1] \in Nat
<1>1. Positions(f) = f.positions
  BY DEF Positions
<1>2. f.positions \in Seq(Nat)
  BY DEF Found
<1>3. i \in 1..Len(f.positions) /\ f.positions[i] \in Nat
  BY <1>2
<1>4. Occurrences(f) \in Seq(Extents(t)) /\ Len(Occurrences(f)) = Len(f.positions)
      /\ \A j \in 1..Len(Occurrences(f)) : Occurrences(f)[j].start = f.positions[j]
  BY <1>1, OccurrencesFacts
<1>5. Occurrences(f)[i] \in Extents(t) /\ Occurrences(f)[i].start = f.positions[i]
  BY <1>3, <1>4
<1>6. /\ Occurrences(f)[i].end \in Nat /\ f.positions[i] < Occurrences(f)[i].end
      /\ Occurrences(f)[i].end <= Len(t.scalars)
  BY <1>5 DEF Extents, Regions
<1>7. /\ Len(t.offsets) \in Nat /\ Len(t.offsets) = Len(t.scalars) + 1 /\ Len(t.scalars) \in Nat
      /\ \A k \in 1..Len(t.offsets) : t.offsets[k] \in Nat
  <2>1. t.offsets \in Seq(Nat) /\ t.scalars \in Seq(1..4) /\ Len(t.offsets) = Len(t.scalars) + 1
    BY DEF Decoded
  <2>2. \A q \in Seq(Nat) : Len(q) \in Nat /\ \A k \in 1..Len(q) : q[k] \in Nat
    OBVIOUS
  <2>3. \A q \in Seq(1..4) : Len(q) \in Nat
    OBVIOUS
  <2> QED BY <2>1, <2>2, <2>3
<1>8. f.positions[i] + 1 \in 1..Len(t.offsets) /\ f.positions[i] + 1 < Len(t.offsets)
  BY <1>3, <1>6, <1>7
<1> QED BY <1>2, <1>3, <1>7, <1>8

----------------------------------------------------------------------------
(* The stages of the validation, of a report that is made.                 *)

\* A scope of a whole artifact is as it must be.
LEMMA WholeFacts ==
    ASSUME NEW n \in {0, 1}
    PROVE  /\ ScopeRead(WholeOf(n)) /\ ScopeValid(WholeOf(n)) /\ Within(WholeOf(n), WholeOf(n))
           /\ WholeOf(n).unit = "whole_artifact" /\ WholeOf(n).regions = <<>>
           /\ WholeOf(n).artifact = <<"artifact", n>>
  BY DEF ScopeRead, ScopeValid, Within, WholeOf

\* What a made execution accounts for is what it analyzed.
LEMMA ExecutionMadeRead ==
    ASSUME NEW o, NEW i \in 1..4, NEW e, e = NativeExecution(o, i)
    PROVE  ExecutionRead(e) /\ Parts(e) = e.analyzed
           /\ (e.analyzed = <<>> \/ e.analyzed = <<e.requested>>)
           /\ \E n \in {0, 1} : e.requested = WholeOf(n)
<1>1. /\ e.requested = WholeOf(IF i > 2 THEN 1 ELSE 0) /\ e.exclusions = <<>>
      /\ (e.analyzed = <<>> \/ e.analyzed = <<e.requested>>)
  BY ExecutionMade
<1>2. PICK n \in {0, 1} : e.requested = WholeOf(n)
  BY <1>1
<1>3. ScopeRead(e.requested)
  BY <1>2, WholeFacts
<1>4. \A x : List(<<x>>) /\ Range(<<x>>) = {x}
  BY DEF List, Range
<1>5. List(<<>>) /\ Range(<<>>) = {}
  BY DEF List, Range
<1>6. ExecutionRead(e)
  <2>1. List(e.analyzed) /\ \A s \in Range(e.analyzed) : ScopeRead(s)
    <3>1. CASE e.analyzed = <<>>
      BY <1>5, <3>1
    <3>2. CASE e.analyzed = <<e.requested>>
      <4>1. List(<<e.requested>>) /\ Range(<<e.requested>>) = {e.requested}
        BY <1>4
      <4>2. List(e.analyzed) /\ Range(e.analyzed) = {e.requested}
        BY <3>2, <4>1
      <4> QED BY <1>3, <4>2
    <3> QED BY <1>1, <3>1, <3>2
  <2>2. List(e.exclusions) /\ Range(e.exclusions) = {}
    BY <1>1, <1>5
  <2> QED BY <1>3, <2>1, <2>2 DEF ExecutionRead
<1>7. Parts(e) = e.analyzed
  BY <1>1, <1>6, PartsFacts
<1> QED BY <1>1, <1>2, <1>6, <1>7

\* The made report can be read.
LEMMA ReadMade ==
    ASSUME NEW o, Observed(o), report = MadeOf(o)
    PROVE  Read(report)
<1>1. report.file = o.file /\ o.file.size \in Nat
  BY MadeRecords, ObservationFacts
<1>2. List(report.texts) /\ \A t \in Range(report.texts) : TextRead(t)
  <2>1. report.texts = <<o.text>> /\ TextRead(o.text)
    BY MadeRecords, ObservationFacts
  <2>2. \A x : List(<<x>>) /\ Range(<<x>>) = {x}
    BY DEF List, Range
  <2> QED BY <2>1, <2>2
<1>3. \A a \in Range(report.artifacts) : a.length \in Nat \cup {None}
  <2>1. Range(report.artifacts) = {SourceArtifact(o.file), TextArtifact(o.text)}
    BY ArtifactsMade
  <2>2. SourceArtifact(o.file).length = o.file.size
    BY DEF SourceArtifact
  <2>3. TextArtifact(o.text).length = Sum(o.text.scalars)
    BY DEF TextArtifact
  <2>4. Sum(o.text.scalars) \in Nat
    BY ObservationFacts, SumFacts
  <2> QED BY <1>1, <2>1, <2>2, <2>3, <2>4
<1>4. \A e \in Range(report.executions) : ExecutionRead(e)
  BY ExecutionsMade, ExecutionMadeRead
<1>5. \A a \in Range(report.anchors) : AnchorRead(a)
  <2> SUFFICES ASSUME NEW a \in Range(report.anchors) PROVE AnchorRead(a)
    OBVIOUS
  <2>1. PICK k \in 1..Len(Keys(o)) : a = NativeAnchor(k, Keys(o)[k])
    BY AnchorsMade
  <2>2. a.spans = Keys(o)[k][2]
    BY <2>1, AnchorMade
  <2>3. Keys(o)[k][2] \in Seq(TextSpans(o.text))
    BY GroupFacts DEF GroupsOf
  <2>4. \A s \in TextSpans(o.text) : s \in SpanRecords
    BY ObservationFacts, SpanFacts
  <2>5. Keys(o)[k][2] \in Seq(SpanRecords)
    BY <2>3, <2>4, SeqMonotonic
  <2> QED BY <2>2, <2>5 DEF AnchorRead, SpanRecords
<1>6. \A f \in Range(report.findings) : FindingRead(f)
  <2> SUFFICES ASSUME NEW d \in Range(report.findings), d.positions # None
               PROVE  d.positions \in Seq(Nat) /\ d.offsets \in Seq(Nat)
    BY DEF FindingRead
  <2>1. PICK n \in 1..Len(o.findings) : d = NativeFinding(o, Keys(o), n)
    BY FindingsMade
  <2> DEFINE f == o.findings[n]
             P == f.positions
             O == o.text.offsets
  <2>2. /\ f \in Range(o.findings) /\ d.positions = P
        /\ d.offsets = (IF P = None THEN None ELSE [i \in DOMAIN P |-> O[P[i] + 1]])
    <3>1. f \in Range(o.findings) /\ IsFinding(o, n, f, d)
      BY <2>1, FindingMade
    <3> QED BY <3>1 DEF IsFinding
  <2>3. Found(f, o.text) /\ Decoded(o.text)
    BY <2>2, ObservationFacts
  <2>4. P \in Seq(Nat)
    BY <2>2, <2>3 DEF Found
  <2>5. \A i \in DOMAIN P : O[P[i] + 1] \in Nat
    BY <2>2, <2>3, PlacesFacts
  <2>6. d.offsets = [i \in DOMAIN P |-> O[P[i] + 1]]
    BY <2>2
  <2> HIDE DEF f, P, O
  <2>7. d.offsets \in Seq(Nat)
    <3>1. DOMAIN P = 1..Len(P) /\ Len(P) \in Nat
      BY <2>4
    <3>2. d.offsets \in [1..Len(P) -> Nat]
      BY <2>5, <2>6, <3>1
    <3> QED BY <3>1, <3>2
  <2> QED BY <2>2, <2>4, <2>7
<1> QED BY <1>1, <1>2, <1>3, <1>4, <1>5, <1>6 DEF Read

\* Its records are valid and their references their own.
LEMMA IndexedMade ==
    ASSUME NEW o, Observed(o), report = MadeOf(o)
    PROVE  Indexed
<1>1. AllOf(report.capabilities, CapabilityValid) /\ Unique(report.capabilities, LAMBDA c : c.id)
  <2>1. report.capabilities = Catalog
    BY MadeRecords
  <2>2. \A i \in 1..4 : CapabilityValid(Catalog[i])
    <3> SUFFICES ASSUME NEW i \in 1..4, NEW c, c = Catalog[i] PROVE CapabilityValid(c)
      OBVIOUS
    <3>1. "structural" # None /\ "statistical" # None
      BY NullAssumption
    <3>2. i > 2 \/ i <= 2
      OBVIOUS
    <3>3. /\ c.available = TRUE /\ c.implementation # None /\ c.reason = None /\ c.purpose = None
          /\ \/ c.role = "analyzer" /\ c.mechanism = "structural"
             \/ c.role \in {"acquisition", "parser"} /\ c.mechanism = None
      BY <3>2, CatalogFacts
    <3> QED BY <3>1, <3>3 DEF CapabilityValid
  <2>3. AllOf(Catalog, CapabilityValid)
    BY <2>2, CatalogFacts DEF AllOf
  <2>4. Unique(Catalog, LAMBDA c : c.id)
    BY CatalogFacts DEF Unique
  <2> QED BY <2>1, <2>3, <2>4
<1>2. AllOf(report.executions, ExecutionValid)
  <2> SUFFICES ASSUME NEW i \in 1..4, NEW e, e = NativeExecution(o, i) PROVE ExecutionValid(e)
    BY ExecutionsMade DEF AllOf
  <2>1. /\ e.ref = <<"exec", i - 1>> /\ e.exclusions = <<>> /\ e.diagnostics = <<>>
        /\ (Ran(o, i) => e.analyzed = <<e.requested>> /\ e.state = "completed" /\ e.reason = None)
        /\ (~Ran(o, i) => e.analyzed = <<>> /\ e.state = "not_run" /\ e.reason = "prerequisite")
    BY ExecutionMade
  <2>2. Ref(e.ref, "exec")
    <3>1. i - 1 \in Nat
      OBVIOUS
    <3> QED BY <2>1, <3>1, RefFacts
  <2>3. /\ Parts(e) = e.analyzed /\ (e.analyzed = <<>> \/ e.analyzed = <<e.requested>>)
        /\ ScopeValid(e.requested) /\ Within(e.requested, e.requested)
    <3>1. /\ Parts(e) = e.analyzed /\ (e.analyzed = <<>> \/ e.analyzed = <<e.requested>>)
          /\ \E n \in {0, 1} : e.requested = WholeOf(n)
      BY ExecutionMadeRead
    <3> QED BY <3>1, WholeFacts
  <2>4. \A s \in Range(Parts(e)) : ScopeValid(s) /\ Within(s, e.requested)
    <3>1. Range(<<e.requested>>) = {e.requested} /\ Range(<<>>) = {}
      BY DEF Range
    <3> QED BY <2>3, <3>1
  <2>5. \A j, k \in DOMAIN Parts(e) : j < k => ~Overlap(Parts(e)[j], Parts(e)[k])
    <3>1. DOMAIN <<e.requested>> = {1}
      OBVIOUS
    <3>2. \A x : ~(x \in DOMAIN <<>>)
      OBVIOUS
    <3>3. ASSUME NEW j \in DOMAIN Parts(e), NEW k \in DOMAIN Parts(e), j < k
          PROVE  FALSE
      <4>1. j = 1 /\ k = 1
        BY <2>3, <3>1, <3>2
      <4> QED BY <3>3, <4>1
    <3> QED BY <3>3
  <2>6. Range(e.exclusions) = {} /\ Range(e.diagnostics) = {}
    BY <2>1 DEF Range
  <2>7. StateFits(e)
    <3>1. "prerequisite" # None
      BY NullAssumption
    <3> QED BY <2>1, <3>1 DEF StateFits
  <2> QED BY <2>2, <2>3, <2>4, <2>5, <2>6, <2>7 DEF ExecutionValid
<1>3. AllOf(report.artifacts, ArtifactValid)
  <2> DEFINE a == SourceArtifact(o.file)
             b == TextArtifact(o.text)
  <2>1. Range(report.artifacts) = {a, b}
    BY ArtifactsMade
  <2>2. /\ Ref(<<"artifact", 0>>, "artifact") /\ Ref(<<"artifact", 1>>, "artifact")
        /\ <<"artifact", 0>> # <<"artifact", 1>>
    BY RefFacts
  <2>3. /\ o.file.sha # None /\ o.file.size \in Nat /\ o.text.digest # None
        /\ Sum(o.text.scalars) \in Nat /\ None \notin Nat
    BY ObservationFacts, SumFacts, NoneAssumption
  <2>4. "not_retained" # None
    BY NullAssumption
  <2>5. MappingValid(Unavailable) /\ MappingValid(NativeMapping)
    BY <2>2 DEF MappingValid, Unavailable, NativeMapping
  <2>6. /\ Range(<<>>) = {} /\ \A x : Range(<<x>>) = {x} /\ Distinct(<<x>>)
        /\ Distinct(<<>>)
    BY DEF Range, Distinct, IsInjective
  <2>7. ArtifactValid(a)
    <3>1. /\ a.ref = <<"artifact", 0>> /\ a.kind = "source" /\ a.sha = o.file.sha
          /\ a.length = o.file.size /\ a.content = None /\ a.unavailable = "not_retained"
          /\ a.parents = <<>> /\ a.transform = None /\ a.mapping = Unavailable
      BY DEF SourceArtifact
    <3> HIDE DEF a
    <3> QED BY <2>2, <2>3, <2>4, <2>5, <2>6, <3>1 DEF ArtifactValid, Kinds
  <2>8. ArtifactValid(b)
    <3>1. /\ b.ref = <<"artifact", 1>> /\ b.kind = "text" /\ b.sha = o.text.digest
          /\ b.length = Sum(o.text.scalars) /\ b.content = 1 /\ b.unavailable = None
          /\ b.parents = <<<<"artifact", 0>>>> /\ b.mapping = NativeMapping
          /\ b.transform.inputs = b.parents /\ b.transform.exclusions = <<>>
      BY DEF TextArtifact
    <3>2. 1 \in Nat
      OBVIOUS
    <3> HIDE DEF b
    <3> QED BY <2>2, <2>3, <2>5, <2>6, <3>1, <3>2 DEF ArtifactValid, Kinds
  <2> HIDE DEF a, b
  <2> QED BY <2>1, <2>7, <2>8 DEF AllOf
<1>4. AllOf(report.anchors, AnchorValid)
  <2> SUFFICES ASSUME NEW k \in 1..Len(Keys(o)), NEW a, a = NativeAnchor(k, Keys(o)[k])
               PROVE  AnchorValid(a)
    BY AnchorsMade DEF AllOf
  <2> DEFINE g == Keys(o)[k][2]
             x == Keys(o)[k][1]
  <2>1. /\ a.ref = <<"anchor", k>> /\ a.kind = "text" /\ a.artifact = <<"artifact", 1>>
        /\ a.execution = <<"exec", x>> /\ a.mapping = NativeMapping /\ a.spans = g
    BY AnchorMade
  <2>2. /\ x \in {2, 3} /\ g \in GroupsOf(o.text) /\ Decoded(o.text)
        /\ \A i, j \in 1..Len(g) : i < j => Before(g[i], g[j])
    BY GroupFacts, ObservationFacts
  <2> HIDE DEF g, x
  <2>3. /\ Ref(a.ref, "anchor") /\ RefOrNull(a.artifact, "artifact")
        /\ RefOrNull(a.execution, "exec") /\ a.artifact # None /\ a.execution # None
    <3>1. k \in Nat /\ x \in Nat /\ 1 \in Nat
      BY <2>2
    <3> QED BY <2>1, <3>1, RefFacts
  <2>4. MappingValid(a.mapping)
    <3>1. Ref(<<"artifact", 0>>, "artifact") /\ Ref(<<"artifact", 1>>, "artifact")
      BY RefFacts
    <3> QED BY <2>1, <3>1 DEF MappingValid, NativeMapping
  <2>5. g # <<>> /\ g \in Seq(TextSpans(o.text))
    BY <2>2 DEF GroupsOf
  <2>6. DOMAIN g = 1..Len(g) /\ Len(g) \in Nat /\ \A i \in 1..Len(g) : g[i] \in TextSpans(o.text)
    BY <2>5
  <2>7. \A i \in 1..Len(g) :
           /\ g[i].scalar.start \in Nat /\ g[i].scalar.start < g[i].scalar.end
           /\ g[i].byte.start \in Nat /\ g[i].byte.start < g[i].byte.end
    <3>1. \A s \in TextSpans(o.text) :
             /\ s.scalar.start \in Nat /\ s.scalar.start < s.scalar.end
             /\ s.byte.start < s.byte.end /\ s \in SpanRecords
      BY <2>2, SpanFacts
    <3>2. \A s \in SpanRecords : s.byte.start \in Nat
      BY DEF SpanRecords, Regions
    <3> QED BY <2>6, <3>1, <3>2
  <2>8. \A i \in 1..Len(g) : i # 1 => i - 1 \in 1..Len(g) /\ i - 1 < i
    BY <2>6
  <2>9. \A i \in 1..Len(g) : i # 1 => g[i - 1].scalar.end <= g[i].scalar.start
                                    /\ g[i - 1].byte.end <= g[i].byte.start
    <3> SUFFICES ASSUME NEW i \in 1..Len(g), i # 1
                 PROVE  g[i - 1].scalar.end <= g[i].scalar.start
                        /\ g[i - 1].byte.end <= g[i].byte.start
      OBVIOUS
    <3>1. Before(g[i - 1], g[i])
      BY <2>2, <2>8
    <3>2. g[i - 1].byte.end <= g[i].byte.start
      BY <2>2, <2>6, <2>8, <3>1, BytesFollow
    <3> QED BY <3>1, <3>2 DEF Before
  <2>10. Increasing([i \in DOMAIN g |-> g[i].scalar])
    <3> DEFINE S == [i \in DOMAIN g |-> g[i].scalar]
    <3>1. DOMAIN S = 1..Len(g) /\ \A i \in 1..Len(g) : S[i] = g[i].scalar
      BY <2>6
    <3> HIDE DEF S
    <3> QED BY <2>7, <2>8, <2>9, <3>1 DEF Increasing, EndBefore, S
  <2>11. Increasing([i \in DOMAIN g |-> g[i].byte])
    <3> DEFINE S == [i \in DOMAIN g |-> g[i].byte]
    <3>1. DOMAIN S = 1..Len(g) /\ \A i \in 1..Len(g) : S[i] = g[i].byte
      BY <2>6
    <3> HIDE DEF S
    <3> QED BY <2>7, <2>8, <2>9, <3>1 DEF Increasing, EndBefore, S
  <2>12. LocatorValid(a)
    BY <2>1, <2>5, <2>10, <2>11 DEF LocatorValid
  <2> QED BY <2>3, <2>4, <2>12 DEF AnchorValid
<1>5. AllOf(report.results, ResultValid) /\ Unique(report.results, RefOf)
  <2>1. ASSUME NEW n \in 1..o.analyzers, NEW r, r = NativeResult(o, report.anchors, n)
        PROVE  ResultValid(r) /\ r.ref = <<"result", n>>
    <3>1. /\ r.ref = <<"result", n>> /\ r.execution = <<"exec", n + 1>> /\ r.scope = WholeOf(1)
          /\ r.outcome \in {"observations_present", "no_observations"} /\ Distinct(r.anchors)
          /\ \A a \in Range(r.anchors) : \E k \in 1..Len(Keys(o)) : a = <<"anchor", k>>
      <4>1. IsResult(o, n, r)
        BY <2>1, ResultMade
      <4> QED BY <4>1 DEF IsResult
    <3>2. n \in Nat /\ n + 1 \in Nat
      OBVIOUS
    <3>3. \A a \in Range(r.anchors) : Ref(a, "anchor")
      <4>1. \A k \in 1..Len(Keys(o)) : k \in Nat
        OBVIOUS
      <4> QED BY <3>1, <4>1, RefFacts
    <3>4. Ref(r.ref, "result") /\ Ref(r.execution, "exec")
      BY <3>1, <3>2, RefFacts
    <3> QED BY <3>1, <3>3, <3>4, WholeFacts DEF ResultValid
  <2>2. AllOf(report.results, ResultValid)
    BY <2>1, ResultsMade DEF AllOf
  <2>3. \A n \in 1..o.analyzers : report.results[n].ref = <<"result", n>>
    BY <2>1, ResultsMade
  <2>4. \A i, j : <<"result", i>> = <<"result", j>> => i = j
    OBVIOUS
  <2>5. Unique(report.results, RefOf)
    <3>1. DOMAIN report.results = 1..o.analyzers
      BY ResultsMade
    <3> QED BY <2>3, <2>4, <3>1 DEF Unique, RefOf
  <2> QED BY <2>2, <2>5
<1>6. AllOf(report.diagnostics, DiagnosticValid) /\ Unique(report.diagnostics, RefOf)
  <2>1. report.diagnostics = <<>>
    BY MadeRecords
  <2> QED BY <2>1 DEF AllOf, Unique, Range
<1> QED BY <1>1, <1>2, <1>3, <1>4, <1>5, <1>6, ExecutionsMade, ArtifactsMade, AnchorsMade
        DEF Indexed

\* The mappings of a made report resolve.
LEMMA MappingsMade ==
    ASSUME NEW o, Observed(o), report = MadeOf(o)
    PROVE  MappingResolved(NativeMapping) /\ MappingResolved(Unavailable)
<1>1. /\ Known(report.artifacts, <<"artifact", 0>>) /\ Known(report.artifacts, <<"artifact", 1>>)
      /\ 1 \in DOMAIN report.texts
  BY ArtifactsMade
<1>2. NativeMapping.from = <<"artifact", 1>> /\ NativeMapping.to = <<"artifact", 0>>
      /\ NativeMapping.data = 1 /\ Unavailable.quality = "unavailable"
  BY DEF NativeMapping, Unavailable
<1> QED BY <1>1, <1>2 DEF MappingResolved

\* The scopes of a made report are measured.
LEMMA WholeMeasured ==
    ASSUME NEW o, Observed(o), report = MadeOf(o), NEW n \in {0, 1}, NEW known
    PROVE  Measured(WholeOf(n), known)
<1> DEFINE s == WholeOf(n)
<1>1. /\ s.unit = "whole_artifact" /\ s.regions = <<>> /\ s.artifact = <<"artifact", n>>
  BY WholeFacts
<1>2. Known(report.artifacts, s.artifact)
  BY <1>1, ArtifactsMade
<1>3. ArtifactAt(s.artifact).length \in Nat
  <2>1. /\ ArtifactAt(<<"artifact", 0>>) = SourceArtifact(o.file)
        /\ ArtifactAt(<<"artifact", 1>>) = TextArtifact(o.text)
    BY ArtifactsMade
  <2>2. SourceArtifact(o.file).length = o.file.size /\ TextArtifact(o.text).length = Sum(o.text.scalars)
    BY DEF SourceArtifact, TextArtifact
  <2>3. o.file.size \in Nat /\ Sum(o.text.scalars) \in Nat
    BY ObservationFacts, SumFacts
  <2> QED BY <1>1, <2>1, <2>2, <2>3
<1>4. Extent(s) # None
  BY <1>1, <1>3, NoneAssumption DEF Extent
<1>5. Range(s.regions) = {}
  BY <1>1 DEF Range
<1> HIDE DEF s
<1>6. Measured(s, known)
  BY <1>1, <1>2, <1>4, <1>5 DEF Measured
<1> QED BY <1>6 DEF s

\* The made report's artifacts stand.
LEMMA ArtifactsStandMade ==
    ASSUME NEW o, Observed(o), report = MadeOf(o)
    PROVE  ArtifactsStand
<1> DEFINE a == SourceArtifact(o.file)
           b == TextArtifact(o.text)
           A == report.artifacts
<1>1. /\ DOMAIN A = {1, 2} /\ A[1] = a /\ A[2] = b
      /\ report.texts = <<o.text>> /\ DOMAIN report.texts = {1}
  <2>1. 1..2 = {1, 2}
    OBVIOUS
  <2> QED BY <2>1, ArtifactsMade
<1>2. /\ a.ref = <<"artifact", 0>> /\ a.kind = "source" /\ a.sha = o.file.sha
      /\ a.length = o.file.size /\ a.content = None /\ a.parents = <<>>
      /\ a.transform = None /\ a.mapping = Unavailable
  BY DEF SourceArtifact
<1>3. /\ b.ref = <<"artifact", 1>> /\ b.kind = "text" /\ b.sha = o.text.digest
      /\ b.length = Sum(o.text.scalars) /\ b.content = 1 /\ b.encoding = "utf-8"
      /\ b.parents = <<<<"artifact", 0>>>> /\ b.transform.exclusions = <<>>
      /\ b.mapping = NativeMapping
  BY DEF TextArtifact
<1>4. {"acquisition", "parser"} \subseteq {c.role : c \in Range(report.capabilities)}
  <2>1. report.capabilities = Catalog
    BY MadeRecords
  <2>2. Catalog[1] \in Range(Catalog) /\ Catalog[2] \in Range(Catalog)
        /\ Catalog[1].role = "acquisition" /\ Catalog[2].role = "parser"
    BY CatalogFacts
  <2> QED BY <2>1, <2>2
<1>5. MappingResolved(a.mapping) /\ MappingResolved(b.mapping)
  BY <1>2, <1>3, MappingsMade
<1>6. Range(<<>>) = {} /\ \A x : Range(<<x>>) = {x}
  BY DEF Range
<1> HIDE DEF a, b
<1>7. Parented(1) /\ Parented(2)
  <2>1. Range(A[1].parents) = {} /\ Range(A[2].parents) = {<<"artifact", 0>>}
    BY <1>1, <1>2, <1>3, <1>6
  <2>2. 1 \in 1..(2 - 1)
    OBVIOUS
  <2> HIDE DEF A
  <2>3. A[1].ref = <<"artifact", 0>>
    BY <1>1, <1>2
  <2> QED BY <2>1, <2>2, <2>3 DEF Parented, A
<1>8. SourceAgrees(a) /\ SourceAgrees(b)
  <2>1. report.file = o.file
    BY MadeRecords
  <2> QED BY <1>2, <1>3, <2>1 DEF SourceAgrees
<1>9. TextAgrees(a) /\ TextAgrees(b)
  <2>1. TextOf(b) = o.text
    BY <1>1, <1>3 DEF TextOf
  <2> QED BY <1>1, <1>2, <1>3, <2>1 DEF TextAgrees, Retained
<1>10. /\ (a.transform # None => \A x \in Range(a.transform.exclusions) :
               x.scope # None => Measured(x.scope, FALSE))
       /\ (b.transform # None => \A x \in Range(b.transform.exclusions) :
               x.scope # None => Measured(x.scope, FALSE))
  BY <1>2, <1>3, <1>6
<1>11. Cardinality({i \in DOMAIN A : A[i].kind = "source"}) = 1
  <2>1. {i \in DOMAIN A : A[i].kind = "source"} = {1}
    <3> HIDE DEF A
    <3> QED BY <1>1, <1>2, <1>3
  <2> QED BY <2>1, FS_Singleton
<1>12. \A i \in DOMAIN A : LET x == A[i] IN
          /\ Parented(i) /\ MappingResolved(x.mapping) /\ SourceAgrees(x) /\ TextAgrees(x)
          /\ x.transform # None => \A y \in Range(x.transform.exclusions) :
                y.scope # None => Measured(y.scope, FALSE)
  <2> HIDE DEF A
  <2> QED BY <1>1, <1>5, <1>7, <1>8, <1>9, <1>10
<1> QED BY <1>4, <1>11, <1>12 DEF ArtifactsStand

\* Its text stands.
LEMMA TextsStandMade ==
    ASSUME NEW o, Observed(o), report = MadeOf(o)
    PROVE  TextsStand
<1>1. report.texts = <<o.text>> /\ report.file = o.file /\ TextStands(o.text, o.file)
  BY MadeRecords, ObservationFacts
<1>2. Range(report.texts) = {o.text}
  <2>1. \A x : Range(<<x>>) = {x}
    BY DEF Range
  <2> QED BY <1>1, <2>1
<1> QED BY <1>1, <1>2 DEF TextsStand

\* Its executions stand.
LEMMA ExecutionsStandMade ==
    ASSUME NEW o, Observed(o), report = MadeOf(o)
    PROVE  ExecutionsStand
<1>1. ASSUME NEW i \in 1..4, NEW e, e = NativeExecution(o, i)
      PROVE  /\ e.capability \in CapabilityIds
             /\ Runnable(e, CapabilityOf(e))
             /\ Measured(e.requested, FALSE)
             /\ \A s \in Range(Parts(e)) : Measured(s, TRUE)
             /\ Accounted(e)
             /\ Range(e.diagnostics) = {}
  <2>1. /\ e.capability = Catalog[i].id /\ e.diagnostics = <<>>
        /\ e.state \in {"completed", "not_run"}
    BY <1>1, ExecutionMade
  <2>2. e.capability \in CapabilityIds
    BY <2>1, ExecutionsMade
  <2>3. CapabilityOf(e) = Catalog[i]
    BY <1>1, ExecutionsMade
  <2>4. Runnable(e, CapabilityOf(e))
    <3>1. CapabilityOf(e).participation = "required" /\ CapabilityOf(e).available = TRUE
      BY <2>3, CatalogFacts
    <3> QED BY <3>1 DEF Runnable
  <2>5. /\ Parts(e) = e.analyzed /\ (e.analyzed = <<>> \/ e.analyzed = <<e.requested>>)
        /\ \E n \in {0, 1} : e.requested = WholeOf(n)
    BY <1>1, ExecutionMadeRead
  <2>6. Measured(e.requested, FALSE) /\ Measured(e.requested, TRUE)
    BY <2>5, WholeMeasured
  <2>7. Range(Parts(e)) \subseteq {e.requested}
    <3>1. Range(<<>>) = {} /\ Range(<<e.requested>>) = {e.requested}
      BY DEF Range
    <3> QED BY <2>5, <3>1
  <2>8. Accounted(e)
    BY <2>1 DEF Accounted
  <2>9. Range(e.diagnostics) = {}
    BY <2>1 DEF Range
  <2> QED BY <2>2, <2>4, <2>6, <2>7, <2>8, <2>9
<1>2. CapabilityIds = {e.capability : e \in Range(report.executions)}
  <2>1. \A i \in 1..4 : /\ report.executions[i] \in Range(report.executions)
                        /\ report.executions[i].capability = Catalog[i].id
    <3>1. \A i \in 1..4 : report.executions[i] = NativeExecution(o, i)
      BY ExecutionsMade
    <3>2. \A i \in 1..4 : report.executions[i].capability = Catalog[i].id
      BY <3>1, ExecutionMade
    <3>3. \A i \in 1..4 : report.executions[i] \in Range(report.executions)
      BY ExecutionsMade DEF Range
    <3> QED BY <3>2, <3>3
  <2>2. \A e \in Range(report.executions) : e.capability \in CapabilityIds
    BY <1>1, ExecutionsMade
  <2>3. CapabilityIds = {Catalog[i].id : i \in 1..4}
    BY ExecutionsMade
  <2> QED BY <2>1, <2>2, <2>3
<1>3. \A e \in Range(report.executions) : \E i \in 1..4 : e = NativeExecution(o, i)
  BY ExecutionsMade
<1>4. \A e \in Range(report.executions) :
         /\ e.capability \in CapabilityIds
         /\ Runnable(e, CapabilityOf(e))
         /\ Measured(e.requested, FALSE)
         /\ \A s \in Range(Parts(e)) : Measured(s, TRUE)
         /\ Accounted(e)
         /\ Range(e.diagnostics) = {}
  BY <1>1, <1>3
<1> QED BY <1>2, <1>4 DEF ExecutionsStand

\* The execution that an anchor or a finding of a made report names has analyzed the text.
LEMMA AnalyzerMade ==
    ASSUME NEW o, Observed(o), report = MadeOf(o), NEW x \in 2..(o.analyzers + 1)
    PROVE  LET e == ExecutionAt(<<"exec", x>>) IN
           /\ Known(report.executions, <<"exec", x>>) /\ e.ref = <<"exec", x>>
           /\ e.analyzed = <<WholeOf(1)>> /\ Range(e.analyzed) = {WholeOf(1)}
           /\ e.state = "completed"
           /\ CapabilityOf(e) = Catalog[x + 1] /\ e.capability = Catalog[x + 1].id
           /\ x + 1 \in 1..4 /\ x + 1 > 2
<1> DEFINE e == ExecutionAt(<<"exec", x>>)
           i == x + 1
<1>1. i \in 1..4 /\ i > 2 /\ i <= 2 + o.analyzers /\ i - 1 = x
  BY ObservationFacts
<1> HIDE DEF i
<1>2. Known(report.executions, <<"exec", x>>) /\ e = NativeExecution(o, i) /\ CapabilityOf(e) = Catalog[i]
  <2>1. /\ Known(report.executions, <<"exec", i - 1>>)
        /\ ExecutionAt(<<"exec", i - 1>>) = NativeExecution(o, i)
        /\ CapabilityOf(NativeExecution(o, i)) = Catalog[i]
    BY <1>1, ExecutionsMade
  <2> QED BY <1>1, <2>1
<1> HIDE DEF e
<1>3. Ran(o, i)
  BY <1>1 DEF Ran
<1>4. /\ e.ref = <<"exec", i - 1>> /\ e.capability = Catalog[i].id /\ e.requested = WholeOf(1)
      /\ e.analyzed = <<e.requested>> /\ e.state = "completed"
  BY <1>1, <1>2, <1>3, ExecutionMade
<1>5. Range(e.analyzed) = {WholeOf(1)}
  BY <1>4 DEF Range
<1> QED BY <1>1, <1>2, <1>4, <1>5 DEF e, i

\* Its anchors stand.
LEMMA AnchorsStandMade ==
    ASSUME NEW o, Observed(o), report = MadeOf(o)
    PROVE  AnchorsStand
<1> SUFFICES ASSUME NEW a \in Range(report.anchors)
             PROVE  /\ a.artifact # None => Known(report.artifacts, a.artifact)
                    /\ a.execution # None => Known(report.executions, a.execution)
                    /\ MappingResolved(a.mapping)
                    /\ LocatorStands(a)
  BY DEF AnchorsStand
<1>1. PICK k \in 1..Len(Keys(o)) : a = NativeAnchor(k, Keys(o)[k])
  BY AnchorsMade
<1> DEFINE g == Keys(o)[k][2]
           x == Keys(o)[k][1]
           t == o.text
<1>2. /\ a.kind = "text" /\ a.artifact = <<"artifact", 1>> /\ a.execution = <<"exec", x>>
      /\ a.mapping = NativeMapping /\ a.segment = 1 /\ a.spans = g /\ a.digest = g
  BY <1>1, AnchorMade
<1>3. x \in 2..(o.analyzers + 1) /\ g \in GroupsOf(t) /\ Decoded(t)
  BY GroupFacts, ObservationFacts
<1> HIDE DEF g, x
<1>4. /\ Known(report.artifacts, a.artifact)
      /\ ArtifactAt(a.artifact) = TextArtifact(t) /\ report.texts = <<t>> /\ DOMAIN report.texts = {1}
  BY <1>2, ArtifactsMade
<1>5. /\ Known(report.executions, a.execution)
      /\ Range(ExecutionAt(a.execution).analyzed) = {WholeOf(1)}
  BY <1>2, <1>3, AnalyzerMade
<1>6. ASSUME NEW span \in Range(g)
      PROVE  SpanStands(t, a, span)
  <2>1. span \in TextSpans(t)
    <3>1. g \in Seq(TextSpans(t))
      BY <1>3 DEF GroupsOf
    <3> QED BY <3>1 DEF Range
  <2>2. span.scalar \in Extents(t) /\ span = SpanOf(t, span.scalar)
    BY <1>3, <2>1, SpanFacts
  <2>3. span.scalar.end <= Len(t.scalars)
    BY <2>2 DEF Extents
  <2>4. span.byte = Region(t.offsets[span.scalar.start + 1], t.offsets[span.scalar.end + 1])
    <3>1. SpanOf(t, span.scalar).byte
             = Region(t.offsets[span.scalar.start + 1], t.offsets[span.scalar.end + 1])
      BY DEF SpanOf
    <3> QED BY <2>2, <3>1
  <2>5. WholeOf(1).artifact = a.artifact /\ Covered(t, WholeOf(1), span.scalar)
    <3>1. WholeOf(1).unit = "whole_artifact" /\ WholeOf(1).artifact = <<"artifact", 1>>
      BY WholeFacts
    <3> QED BY <1>2, <3>1 DEF Covered
  <2> QED BY <1>5, <2>3, <2>4, <2>5 DEF SpanStands
<1>7. LocatorStands(a)
  <2>1. TextArtifact(t).kind = "text" /\ TextArtifact(t).content = 1
    BY DEF TextArtifact
  <2>2. report.texts[a.segment] = t /\ a.segment \in DOMAIN report.texts
    BY <1>2, <1>4
  <2> HIDE DEF t
  <2> QED BY <1>2, <1>4, <1>6, <2>1, <2>2 DEF LocatorStands
<1>8. MappingResolved(a.mapping)
  BY <1>2, MappingsMade
<1> QED BY <1>4, <1>5, <1>7, <1>8

\* Its results stand.
LEMMA ResultsStandMade ==
    ASSUME NEW o, Observed(o), report = MadeOf(o)
    PROVE  ResultsStand
<1>1. ASSUME NEW n \in 1..o.analyzers, NEW r, r = NativeResult(o, report.anchors, n)
      PROVE  /\ Known(report.executions, r.execution)
             /\ r.execution = <<"exec", n + 1>> /\ r.scope = WholeOf(1)
             /\ LET e == ExecutionAt(r.execution) IN
                   /\ Usable(e) /\ Structural(CapabilityOf(e))
                   /\ r.operation = e.capability
                   /\ r.scope \in Range(e.analyzed)
                   /\ \A a \in Range(r.anchors) : BelongsTo(a, e)
  <2> DEFINE e == ExecutionAt(<<"exec", n + 1>>)
  <2>1. /\ r.execution = <<"exec", n + 1>> /\ r.operation = Catalog[n + 2].id /\ r.scope = WholeOf(1)
        /\ \A a \in Range(r.anchors) : \E k \in 1..Len(Keys(o)) :
              a = <<"anchor", k>> /\ NativeAnchor(k, Keys(o)[k]).execution = <<"exec", n + 1>>
    <3>1. IsResult(o, n, r)
      BY <1>1, ResultMade
    <3> QED BY <3>1 DEF IsResult
  <2>2. n + 1 \in 2..(o.analyzers + 1) /\ (n + 1) + 1 = n + 2
    BY ObservationFacts
  <2>3. /\ Known(report.executions, <<"exec", n + 1>>) /\ e.ref = <<"exec", n + 1>>
        /\ Range(e.analyzed) = {WholeOf(1)} /\ e.state = "completed"
        /\ CapabilityOf(e) = Catalog[n + 2] /\ e.capability = Catalog[n + 2].id
        /\ n + 2 \in 1..4 /\ n + 2 > 2
    BY <2>2, AnalyzerMade
  <2> HIDE DEF e
  <2>4. Usable(e) /\ Structural(CapabilityOf(e))
    BY <2>3, CatalogFacts DEF Usable, Structural
  <2>5. \A a \in Range(r.anchors) : BelongsTo(a, e)
    <3> SUFFICES ASSUME NEW a \in Range(r.anchors) PROVE BelongsTo(a, e)
      OBVIOUS
    <3>1. PICK k \in 1..Len(Keys(o)) :
             a = <<"anchor", k>> /\ NativeAnchor(k, Keys(o)[k]).execution = <<"exec", n + 1>>
      BY <2>1
    <3>2. /\ Known(report.anchors, <<"anchor", k>>)
          /\ Named(report.anchors, <<"anchor", k>>) = NativeAnchor(k, Keys(o)[k])
      BY AnchorsMade
    <3> QED BY <2>3, <3>1, <3>2 DEF BelongsTo
  <2> QED BY <2>1, <2>3, <2>4, <2>5 DEF e
<1>2. \A r \in Range(report.results) :
         /\ Known(report.executions, r.execution)
         /\ LET e == ExecutionAt(r.execution) IN
               /\ Usable(e) /\ Structural(CapabilityOf(e))
               /\ r.operation = e.capability
               /\ r.scope \in Range(e.analyzed)
               /\ \A a \in Range(r.anchors) : BelongsTo(a, e)
  <2>1. \A r \in Range(report.results) :
           \E n \in 1..o.analyzers : r = NativeResult(o, report.anchors, n)
    BY ResultsMade
  <2> QED BY <1>1, <2>1
<1>3. ASSUME NEW e \in Range(report.executions)
      PROVE  /\ e.state = "partial" => ResultScopes(e) # {}
             /\ Usable(e) /\ Structural(CapabilityOf(e)) => Range(e.analyzed) \subseteq ResultScopes(e)
  <2>1. PICK i \in 1..4 : e = NativeExecution(o, i)
    BY ExecutionsMade
  <2>2. /\ e.ref = <<"exec", i - 1>> /\ e.requested = WholeOf(IF i > 2 THEN 1 ELSE 0)
        /\ (Ran(o, i) => e.analyzed = <<e.requested>> /\ e.state = "completed")
        /\ (~Ran(o, i) => e.state = "not_run")
    BY <2>1, ExecutionMade
  <2>3. e.state # "partial"
    BY <2>2
  <2>4. ASSUME Usable(e), Structural(CapabilityOf(e))
        PROVE  Range(e.analyzed) \subseteq ResultScopes(e)
    <3>1. Ran(o, i)
      BY <2>2, <2>4 DEF Usable
    <3>2. i > 2
      <4>1. CapabilityOf(e) = Catalog[i]
        BY <2>1, ExecutionsMade
      <4>2. Catalog[i].role = "analyzer"
        BY <2>4, <4>1 DEF Structural
      <4> QED BY <4>2, CatalogFacts
    <3> DEFINE n == i - 2
    <3>3. n \in 1..o.analyzers /\ n + 1 = i - 1
      BY <3>1, <3>2, ObservationFacts DEF Ran
    <3>4. Range(e.analyzed) = {WholeOf(1)}
      <4>1. e.requested = WholeOf(1)
        BY <2>2, <3>2
      <4>2. e.analyzed = <<WholeOf(1)>>
        BY <2>2, <3>1, <4>1
      <4>3. Range(<<WholeOf(1)>>) = {WholeOf(1)}
        BY DEF Range
      <4> QED BY <4>2, <4>3
    <3> HIDE DEF n
    <3> DEFINE r == report.results[n]
    <3>5. r = NativeResult(o, report.anchors, n) /\ r \in Range(report.results)
      BY <3>3, ResultsMade
    <3> HIDE DEF r
    <3>6. r.execution = e.ref /\ r.scope = WholeOf(1)
      BY <1>1, <2>2, <3>3, <3>5
    <3> QED BY <3>4, <3>5, <3>6 DEF ResultScopes
  <2> QED BY <2>3, <2>4
<1> QED BY <1>2, <1>3 DEF ResultsStand

\* It has no diagnostics.
LEMMA DiagnosticsStandMade ==
    ASSUME NEW o, Observed(o), report = MadeOf(o)
    PROVE  DiagnosticsStand
<1>1. report.diagnostics = <<>>
  BY MadeRecords
<1>2. Range(<<>>) = {}
  BY DEF Range
<1> QED BY <1>1, <1>2 DEF DiagnosticsStand

\* Its status is the one that its executions have.
LEMMA StatusStandsMade ==
    ASSUME NEW o, Observed(o), report = MadeOf(o)
    PROVE  StatusStands
<1> DEFINE runs == report.executions
<1>1. DOMAIN runs = 1..4 /\ DOMAIN Catalog = 1..4 /\ \A i \in 1..4 : CapabilityOf(runs[i]) = Catalog[i]
  <2>1. \A i \in 1..4 : CapabilityOf(runs[i]) = Catalog[i]
    BY ExecutionsMade
  <2> QED BY <2>1, ExecutionsMade, CatalogFacts
<1>2. report.status = Status(Catalog, [i \in DOMAIN Catalog |-> runs[i].state], report.results # <<>>)
  BY MadeRecords, Zenon
<1>3. Catalog = [i \in 1..4 |-> Catalog[i]]
  BY DEF Catalog
<1>4. [i \in DOMAIN runs |-> CapabilityOf(runs[i])] = Catalog
  <2> HIDE DEF runs
  <2>1. [i \in DOMAIN runs |-> CapabilityOf(runs[i])] = [i \in 1..4 |-> Catalog[i]]
    BY <1>1
  <2> QED BY <1>3, <2>1, Zenon
<1>5. DOMAIN runs = DOMAIN Catalog
  BY <1>1
<1>6. report.status = Status([i \in DOMAIN runs |-> CapabilityOf(runs[i])],
                             [i \in DOMAIN runs |-> runs[i].state], report.results # <<>>)
  BY <1>2, <1>4, <1>5, Zenon
<1> QED BY <1>6, Zenon DEF StatusStands

\* Its findings stand: no occurrence is without a span, and none is refused for a span
\* too many.
LEMMA FindingsStandMade ==
    ASSUME NEW o, Observed(o), report = MadeOf(o)
    PROVE  FindingsStand
<1> DEFINE t == o.text
<1>1. Unique(report.findings, RefOf)
  <2>1. \A n \in 1..Len(o.findings) : report.findings[n].ref = <<"finding", n>>
    <3> SUFFICES ASSUME NEW n \in 1..Len(o.findings)
                 PROVE  report.findings[n].ref = <<"finding", n>>
      OBVIOUS
    <3>1. report.findings[n] = NativeFinding(o, Keys(o), n)
      BY FindingsMade
    <3>2. NativeFinding(o, Keys(o), n).ref = <<"finding", n>>
      <4>1. IsFinding(o, n, o.findings[n], NativeFinding(o, Keys(o), n))
        BY FindingMade
      <4> QED BY <4>1 DEF IsFinding
    <3> QED BY <3>1, <3>2
  <2>2. \A i, j : <<"finding", i>> = <<"finding", j>> => i = j
    OBVIOUS
  <2>3. DOMAIN report.findings = 1..Len(o.findings)
    BY FindingsMade
  <2> QED BY <2>1, <2>2, <2>3 DEF Unique, RefOf
<1>2. report.texts = <<t>> /\ t.source = "file" /\ report.texts[1] = t
      /\ DOMAIN report.texts = {1}
  <2>1. report.texts = <<t>> /\ DOMAIN report.texts = {1}
    BY ArtifactsMade
  <2>2. t.source = "file"
    BY DEF Observed
  <2>3. <<t>>[1] = t
    OBVIOUS
  <2> QED BY <2>1, <2>2, <2>3
<1>3. Decoded(t)
  BY ObservationFacts
<1> SUFFICES ASSUME NEW d \in Range(report.findings)
             PROVE  /\ Ref(d.ref, "finding") /\ Known(report.executions, d.execution)
                    /\ LET e == ExecutionAt(d.execution) IN OriginStands(d, e, CapabilityOf(e))
                    /\ CoordinatesStand(d) /\ AnchorsOf(d)
  BY <1>1 DEF FindingsStand
<1>4. PICK n \in 1..Len(o.findings) : d = NativeFinding(o, Keys(o), n)
  BY FindingsMade
<1> DEFINE f == o.findings[n]
           G == AnchorGroups(f, t)
           K == Len(Keys(o))
<1>5. /\ f \in Range(o.findings)
      /\ d.ref = <<"finding", n>> /\ d.id = f.id /\ d.execution = <<"exec", f.by>>
      /\ d.mechanism = "structural" /\ d.source = "file" /\ d.positions = f.positions
      /\ d.offsets = (IF f.positions = None THEN None
                      ELSE [i \in DOMAIN f.positions |-> t.offsets[f.positions[i] + 1]])
      /\ d.count = (IF f.positions = None THEN None ELSE Len(f.positions))
      /\ Distinct(d.anchors)
      /\ \A a \in Range(d.anchors) : \E k \in 1..K : \E g \in Range(G) :
            a = <<"anchor", k>> /\ Keys(o)[k] = <<f.by, g>>
      /\ \A g \in Range(G) : \E k \in 1..K :
            <<"anchor", k>> \in Range(d.anchors) /\ Keys(o)[k] = <<f.by, g>>
  <2>1. f \in Range(o.findings) /\ IsFinding(o, n, f, d)
    BY <1>4, FindingMade
  <2> HIDE DEF f
  <2> QED BY <2>1 DEF IsFinding
<1>6. Found(f, t) /\ f.by \in 2..(o.analyzers + 1) /\ f.id # "parser.failure"
  BY <1>5, ObservationFacts
<1>7. /\ \A g \in Range(G) : \A s \in Range(g) : \E p \in Range(Positions(f)) : At(p, s)
      /\ \A p \in Range(Positions(f)) : \E g \in Range(G) : \E s \in Range(g) : At(p, s)
  BY <1>3, <1>6, AnchorGroupsFacts
<1> HIDE DEF f, G, K, t
<1>8. \A k \in 1..K :
         /\ Known(report.anchors, <<"anchor", k>>)
         /\ Named(report.anchors, <<"anchor", k>>).execution = <<"exec", Keys(o)[k][1]>>
         /\ Named(report.anchors, <<"anchor", k>>).kind = "text"
         /\ Named(report.anchors, <<"anchor", k>>).segment = 1
         /\ Named(report.anchors, <<"anchor", k>>).spans = Keys(o)[k][2]
  <2> SUFFICES ASSUME NEW k \in 1..Len(Keys(o)), NEW x, x = Named(report.anchors, <<"anchor", k>>)
               PROVE  /\ Known(report.anchors, <<"anchor", k>>)
                      /\ x.execution = <<"exec", Keys(o)[k][1]>> /\ x.kind = "text"
                      /\ x.segment = 1 /\ x.spans = Keys(o)[k][2]
    BY DEF K
  <2>1. Known(report.anchors, <<"anchor", k>>) /\ x = NativeAnchor(k, Keys(o)[k])
    BY AnchorsMade
  <2> QED BY <2>1, AnchorMade
<1> DEFINE e == ExecutionAt(<<"exec", f.by>>)
<1>9. /\ Known(report.executions, <<"exec", f.by>>) /\ e.ref = <<"exec", f.by>>
      /\ e.state = "completed" /\ CapabilityOf(e) = Catalog[f.by + 1]
      /\ f.by + 1 \in 1..4 /\ f.by + 1 > 2
  BY <1>6, AnalyzerMade
<1> HIDE DEF e
<1>10. Ref(d.ref, "finding")
  <2>1. n \in Nat
    OBVIOUS
  <2> QED BY <1>5, <2>1, RefFacts
<1>11. OriginStands(d, e, CapabilityOf(e))
  <2>1. CapabilityOf(e).mechanism = "structural" /\ CapabilityOf(e).role = "analyzer"
    BY <1>9, CatalogFacts
  <2>2. \A a \in Range(d.anchors) : BelongsTo(a, e)
    <3> SUFFICES ASSUME NEW a \in Range(d.anchors) PROVE BelongsTo(a, e)
      OBVIOUS
    <3>1. PICK k \in 1..K : \E g \in Range(G) : a = <<"anchor", k>> /\ Keys(o)[k] = <<f.by, g>>
      BY <1>5
    <3>2. Keys(o)[k][1] = f.by
      BY <3>1
    <3> QED BY <1>8, <1>9, <3>1, <3>2 DEF BelongsTo
  <2>3. Positive(e)
    <3> DEFINE m == f.by - 1
    <3>1. m \in 1..o.analyzers /\ f.by = m + 1
      BY <1>6, ObservationFacts
    <3> HIDE DEF m
    <3> DEFINE r == report.results[m]
    <3>2. r = NativeResult(o, report.anchors, m) /\ r \in Range(report.results)
      BY <3>1, ResultsMade
    <3> HIDE DEF r
    <3>3. r.execution = <<"exec", m + 1>> /\ r.outcome = "observations_present"
      <4>1. IsResult(o, m, r)
        BY <3>1, <3>2, ResultMade
      <4>2. f \in Range(o.findings) /\ f.by = m + 1
        BY <1>5, <3>1
      <4> QED BY <4>1, <4>2 DEF IsResult
    <3> QED BY <1>9, <3>1, <3>2, <3>3 DEF Positive
  <2>4. Usable(e)
    BY <1>9 DEF Usable
  <2> QED BY <1>5, <1>6, <2>1, <2>2, <2>3, <2>4 DEF OriginStands
<1>12. Segments("file") = {1}
  BY <1>2 DEF Segments
<1>13. Cardinality(Segments(d.source)) = 1 /\ Segment(d) = 1 /\ report.texts[Segment(d)] = t
  <2>1. Cardinality(Segments(d.source)) = 1
    BY <1>5, <1>12, FS_Singleton
  <2>2. Segment(d) = 1
    BY <1>2, <1>5 DEF Segment
  <2> QED BY <1>2, <2>1, <2>2
<1>14. CoordinatesStand(d)
  <2> SUFFICES ASSUME f.positions # None
               PROVE  /\ Len(d.positions) = Len(d.offsets) /\ d.count \in {None, Len(d.positions)}
                      /\ d.source # None /\ Cardinality(Segments(d.source)) = 1
                      /\ \A i \in DOMAIN d.positions :
                            /\ d.positions[i] + 1 < Len(t.offsets)
                            /\ t.offsets[d.positions[i] + 1] = d.offsets[i]
    BY <1>5, <1>13 DEF CoordinatesStand
  <2>1. d.offsets = [i \in DOMAIN f.positions |-> t.offsets[f.positions[i] + 1]]
    BY <1>5
  <2>2. f.positions \in Seq(Nat)
    BY <1>6 DEF Found
  <2>3. DOMAIN f.positions = 1..Len(f.positions) /\ Len(f.positions) \in Nat
    BY <2>2
  <2>4. Len(d.offsets) = Len(f.positions)
    BY <2>1, <2>3
  <2>5. \A i \in DOMAIN f.positions :
           f.positions[i] + 1 < Len(t.offsets) /\ t.offsets[f.positions[i] + 1] = d.offsets[i]
    BY <1>3, <1>6, <2>1, PlacesFacts
  <2>6. "file" # None
    BY NullAssumption
  <2>7. Len(d.positions) = Len(d.offsets) /\ d.count \in {None, Len(d.positions)}
    BY <1>5, <2>4
  <2>8. d.source # None /\ Cardinality(Segments(d.source)) = 1
    BY <1>5, <1>13, <2>6
  <2>9. \A i \in DOMAIN d.positions :
           d.positions[i] + 1 < Len(t.offsets) /\ t.offsets[d.positions[i] + 1] = d.offsets[i]
    BY <1>5, <2>5
  <2> QED BY <2>7, <2>8, <2>9
<1>15. AnchorsOf(d)
  <2> SUFFICES ASSUME f.positions # None
               PROVE  /\ \A a \in Range(d.anchors) : LET x == Named(report.anchors, a) IN
                            x.kind = "text" /\ x.segment = 1
                      /\ \A s \in Spans(d) : \E p \in Range(f.positions) : At(p, s)
                      /\ \A p \in Range(f.positions) : \E s \in Spans(d) : At(p, s)
    BY <1>5, <1>13 DEF AnchorsOf
  <2>1. Positions(f) = f.positions
    BY DEF Positions
  <2>2. \A a \in Range(d.anchors) : Named(report.anchors, a).kind = "text" /\ Named(report.anchors, a).segment = 1
    BY <1>5, <1>8
  <2>3. ASSUME NEW s \in Spans(d)
        PROVE  \E p \in Range(f.positions) : At(p, s)
    <3>1. PICK a \in Range(d.anchors) : s \in Range(Named(report.anchors, a).spans)
      BY DEF Spans
    <3>2. PICK k \in 1..K : \E g \in Range(G) : a = <<"anchor", k>> /\ Keys(o)[k] = <<f.by, g>>
      BY <1>5
    <3>3. PICK g \in Range(G) : a = <<"anchor", k>> /\ Keys(o)[k] = <<f.by, g>>
      BY <3>2
    <3>4. Named(report.anchors, a).spans = g
      <4>1. Keys(o)[k][2] = g
        BY <3>3
      <4> QED BY <1>8, <3>3, <4>1
    <3> QED BY <1>7, <2>1, <3>1, <3>4
  <2>4. ASSUME NEW p \in Range(f.positions)
        PROVE  \E s \in Spans(d) : At(p, s)
    <3>1. PICK g \in Range(G) : \E s \in Range(g) : At(p, s)
      BY <1>7, <2>1
    <3>2. PICK s \in Range(g) : At(p, s)
      BY <3>1
    <3>3. PICK k \in 1..K : <<"anchor", k>> \in Range(d.anchors) /\ Keys(o)[k] = <<f.by, g>>
      BY <1>5
    <3>4. Named(report.anchors, <<"anchor", k>>).spans = g
      <4>1. Keys(o)[k][2] = g
        BY <3>3
      <4> QED BY <1>8, <4>1
    <3>5. s \in Spans(d)
      BY <3>2, <3>3, <3>4 DEF Spans
    <3> QED BY <3>2, <3>5
  <2> QED BY <2>2, <2>3, <2>4
<1> QED BY <1>5, <1>9, <1>10, <1>11, <1>14, <1>15 DEF e

----------------------------------------------------------------------------
(* The theorems.                                                           *)

\* A report that is made of an observation is never refused.
NativeInv ==
    /\ pc # "assemble" => EvidenceInv
    /\ observed # None =>
          /\ observed \in Observations /\ pc # "refused"
          /\ pc # "assemble" => report = MadeOf(observed)
    /\ pc = "assemble" => observed # None

\* The invariant holds at first.
LEMMA NativeInitInv == NativeInit => NativeInv
<1> SUFFICES ASSUME NativeInit PROVE NativeInv
  OBVIOUS
<1>1. CASE Init /\ observed = None
  <2>1. EvidenceInv /\ pc = "index"
    BY <1>1, EvidenceInitInv DEF Init
  <2> QED BY <1>1, <2>1 DEF NativeInv
<1>2. CASE observed \in Observations /\ pc = "assemble" /\ report = None
  BY <1>2, ObservationsAssumption DEF NativeInv
<1> QED BY <1>1, <1>2 DEF NativeInit

\* Every stage finds that what was made stands.
LEMMA MadeStands ==
    ASSUME NEW o \in Observations, report = MadeOf(o)
    PROVE  /\ Indexed /\ ArtifactsStand /\ TextsStand /\ ExecutionsStand /\ AnchorsStand
           /\ ResultsStand /\ DiagnosticsStand /\ StatusStands /\ FindingsStand
<1>1. Observed(o)
  BY ObservationsAssumption
<1> QED BY <1>1, IndexedMade, ArtifactsStandMade, TextsStandMade, ExecutionsStandMade,
           AnchorsStandMade, ResultsStandMade, DiagnosticsStandMade, StatusStandsMade,
           FindingsStandMade

\* What is made of an observation can be read.
LEMMA MadeReadNow == observed \in Observations /\ report = MadeOf(observed) => Read(report)
  BY ObservationsAssumption, ReadMade

\* And in the next state.
LEMMA MadeReadNext == (observed \in Observations /\ report = MadeOf(observed) => Read(report))'
  BY MadeReadNow, PTL

\* Assembling and validating keep the invariant.
LEMMA NativeStepInv ==
    ASSUME NativeInv, [NativeNext]_nativeVars
    PROVE  NativeInv'
<1>1. CASE Assemble
  <2>1. observed \in Observations /\ observed # None /\ Observed(observed) /\ observed' = observed
    BY <1>1, ObservationsAssumption DEF NativeInv, Assemble
  <2>2. \A f \in Range(observed.findings) : Spannable(f, observed.text)
    BY <2>1 DEF Observed
  <2>3. report' = MadeOf(observed) /\ pc' = "index"
    BY <1>1, <2>2 DEF Assemble
  <2>4. Read(report')
    BY <2>1, <2>3, MadeReadNext
  <2>5. EvidenceInv'
    BY <2>3, <2>4 DEF EvidenceInv
  <2> QED BY <2>1, <2>3, <2>5 DEF NativeInv
<1>2. CASE Next /\ UNCHANGED observed
  <2>1. pc # "assemble" /\ pc' # "assemble" /\ report' = report /\ observed' = observed
    BY <1>2 DEF Next, Step
  <2>2. EvidenceInv'
    BY <1>2, <2>1, EvidenceStepInv DEF NativeInv
  <2>3. ASSUME observed # None PROVE pc' # "refused"
    <3>1. observed \in Observations /\ report = MadeOf(observed)
      BY <2>1, <2>3 DEF NativeInv
    <3> QED BY <1>2, <3>1, MadeStands DEF Next, Step
  <2> QED BY <2>1, <2>2, <2>3 DEF NativeInv
<1>3. CASE UNCHANGED nativeVars
  <2>1. report' = report /\ pc' = pc /\ observed' = observed /\ UNCHANGED vars
    BY <1>3 DEF nativeVars, vars
  <2>2. EvidenceInv => EvidenceInv'
    BY <2>1, EvidenceStepInv
  <2> QED BY <2>1, <2>2, Zenon DEF NativeInv
<1> QED BY <1>1, <1>2, <1>3 DEF NativeNext

\* The invariant holds of every report that is offered or made, at every stage.
LEMMA NativeInvariant == NativeSpec => []NativeInv
<1>1. NativeInit => NativeInv
  BY NativeInitInv
<1>2. NativeInv /\ [NativeNext]_nativeVars => NativeInv'
  BY NativeStepInv
<1> QED BY <1>1, <1>2, PTL DEF NativeSpec

\* Whatever report is offered or made, if it is accepted then no unit of an artifact is
\* analysed twice or both analysed and left out, and a partial execution accounts for all
\* that was asked of it (Execution.Validate, intervals, mergeRegions).
THEOREM CoverageIsAccounted == NativeSpec => []AccountedOnce
<1>1. NativeInv => AccountedOnce
  <2>1. pc = "accepted" /\ NativeInv => EvidenceInv
    BY DEF NativeInv
  <2>2. pc # "accepted" => AccountedOnce
    BY DEF AccountedOnce, Accepted
  <2> QED BY <2>1, <2>2, AllAccounted
<1> QED BY <1>1, NativeInvariant, PTL

\* Whatever report is offered or made, if it is accepted then every occurrence of its
\* findings is a scalar that the finding's own execution analysed, and lies in the source
\* (Graph.Validate, findingCoordinates, findingAnchors).
THEOREM FindingsRestOnAnalysis == NativeSpec => []OccurrencesAnalyzed
<1>1. NativeInv => OccurrencesAnalyzed
  <2>1. pc = "accepted" /\ NativeInv => EvidenceInv
    BY DEF NativeInv
  <2>2. pc # "accepted" => OccurrencesAnalyzed
    BY DEF OccurrencesAnalyzed, Accepted
  <2> QED BY <2>1, <2>2, AllAnalyzed
<1> QED BY <1>1, NativeInvariant, PTL

\* Whatever the analyzers observe, of whatever text, and whatever the bounds on extents and
\* groups, the report made of it passes every stage of the validation (nativeSpans,
\* anchorGroups, assembleV2, assembleFindings against Graph.Validate).
THEOREM WhatIsMadeIsAccepted == NativeSpec => []NativeAccepted
<1>1. NativeInv => NativeAccepted
  BY DEF NativeInv, NativeAccepted, Refused
<1> QED BY <1>1, NativeInvariant, PTL
=============================================================================
