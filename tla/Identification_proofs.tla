----------------------- MODULE Identification_proofs -----------------------
(***************************************************************************)
(* Proofs about a package as it is read and as it is identified, for any   *)
(* file, any package and any limits and budgets: a package that is         *)
(* returned accounts for every byte once (PackageParts); the relationship  *)
(* inventory is honest, and a format is claimed only where every reading   *)
(* of the package agrees (Identification).  What folding and target        *)
(* resolution compute is left open.                                        *)
(***************************************************************************)
EXTENDS PackageParts, Identification, FiniteSetTheorems, SequenceTheorems,
        WellFoundedInduction, TLAPS

----------------------------------------------------------------------------
(* Numbers, sequences and functions.                                       *)

\* A set of natural numbers that is not empty has a least element.
LEMMA LeastNumber ==
    ASSUME NEW S \in SUBSET Nat, S # {}
    PROVE  \E n \in S : \A m \in S : n <= m
<1> DEFINE R == {ss \in Nat \X Nat : ss[1] < ss[2]}
<1>1. IsWellFoundedOn(R, Nat)
  BY NatLessThanWellFounded DEF OpToRel
<1>2. PICK n \in S : \A m \in S : <<m, n>> \notin R
  BY <1>1, WFMin, Zenon
<1>3. ASSUME NEW m \in S PROVE n <= m
  <2>1. <<m, n>> \in Nat \X Nat /\ <<m, n>>[1] = m /\ <<m, n>>[2] = n
    OBVIOUS
  <2>2. ~(m < n)
    BY <1>2, <2>1
  <2> QED BY <2>2
<1> QED BY <1>3

----------------------------------------------------------------------------
(***************************************************************************)
(* PackageParts: every byte of a package is claimed once.                  *)
(***************************************************************************)
Typed(e) == e.at \in Nat /\ e.compressed \in Nat /\ e.size \in Nat
SpanOf(e) == [start |-> e.at, end |-> End(e)]
PartOf(e) == [name |-> e.name, directory |-> e.directory,
              from |-> DataOffset(e), until |-> DataEnd(e), size |-> e.yields]

ArchiveInv ==
    /\ Len(Entries) \in Nat /\ DOMAIN Entries = 1..Len(Entries)
    /\ \A i \in DOMAIN Entries : Typed(Entries[i])
    /\ archive.central \in Nat

\* The first n entries have been read: their names differ and their sizes add up.
Summed(n) ==
    \E sums \in [0..n -> 0..MaxTotal] :
        /\ sums[0] = 0 /\ sums[n] = total
        /\ \A i \in 1..n : sums[i] = sums[i - 1] + Entries[i].size
ReadInv(n) ==
    /\ n <= Len(Entries)
    /\ spans \in Seq([start : Nat, end : Nat]) /\ Len(spans) = n
    /\ \A i \in 1..n : spans[i] = SpanOf(Entries[i])
    /\ \A i, j \in 1..n : i # j => Entries[i].name # Entries[j].name
    /\ Summed(n)

\* The first n entries have been inflated.
InflatedInv(n) ==
    /\ n <= Len(Entries)
    /\ ReadInv(Len(Entries)) /\ NamesStand /\ Contiguous
    /\ parts = {PartOf(Entries[i]) : i \in 1..n}
    /\ \A i \in 1..n : Entries[i].yields = Entries[i].size

ReaderInv ==
    /\ ArchiveInv
    /\ index \in Nat \ {0}
    /\ stage = "directory" => index = 1 /\ total = 0 /\ spans = <<>> /\ parts = {}
    /\ stage = "headers" => ReadInv(index - 1) /\ parts = {}
    /\ stage = "contents" => InflatedInv(index - 1)
    /\ stage = "returned" => InflatedInv(Len(Entries))
    /\ stage \in {"directory", "headers", "contents", "returned", "refused", "canceled"}

----------------------------------------------------------------------------
(* Where an entry lies.                                                    *)

\* An entry's header and data come first, and its descriptor, if it has one, after.
LEMMA EndAfterData ==
    ASSUME NEW e, Typed(e)
    PROVE  /\ DataOffset(e) = e.at + 1 /\ DataEnd(e) \in Nat
           /\ End(e) \in Nat /\ DataOffset(e) <= DataEnd(e) /\ DataEnd(e) <= End(e)
           /\ e.streamed => DescriptorAt(e) \in Nat /\ DataEnd(e) <= DescriptorAt(e)
                            /\ End(e) = DescriptorAt(e) + 1
           /\ ~e.streamed => End(e) = DataEnd(e)
  BY DEF Typed, DataOffset, DataEnd, End, DescriptorAt

\* The bytes an entry occupies are those from its header up to its end.
LEMMA OccupiedIsSpan ==
    ASSUME NEW e, Typed(e)
    PROVE  \A b \in Nat : b \in Occupied(e) <=> e.at <= b /\ b < End(e)
<1>1. CASE e.streamed
  BY <1>1, EndAfterData DEF Occupied, Typed
<1>2. CASE ~e.streamed
  BY <1>2, EndAfterData DEF Occupied, Typed
<1> QED BY <1>1, <1>2

\* A span that was recorded is that of a typed entry.
LEMMA SpanFacts ==
    ASSUME ArchiveInv, ReadInv(Len(Entries)), NEW i \in DOMAIN Entries
    PROVE  /\ spans[i].start = Entries[i].at /\ spans[i].end = End(Entries[i])
           /\ spans[i].start \in Nat /\ spans[i].end \in Nat /\ spans[i].start < spans[i].end
<1>1. Typed(Entries[i]) /\ i \in 1..Len(Entries)
  BY DEF ArchiveInv
<1>2. spans[i] = SpanOf(Entries[i])
  BY <1>1 DEF ReadInv
<1> QED BY <1>1, <1>2, EndAfterData DEF SpanOf, Typed

----------------------------------------------------------------------------
(* What contiguous spans imply.                                            *)

\* The order of the spans, as a bijection of 1..n.
Follows(order, n) ==
    /\ order \in Bijection(1..n, 1..n)
    /\ \A i \in 1..n : spans[order[i]].start = Before(order, i)
    /\ Before(order, n + 1) = archive.central

\* In that order a span ends before any later one starts: otherwise take the first
\* later one for which it does not.
LEMMA InOrder ==
    ASSUME ArchiveInv, ReadInv(Len(Entries)), NEW order, Follows(order, Len(Entries)),
           NEW i \in 1..Len(Entries), NEW j \in 1..Len(Entries), i < j
    PROVE  spans[order[i]].end <= spans[order[j]].start
<1> DEFINE n == Len(Entries)
           Bad == {k \in 1..n : i < k /\ ~(spans[order[i]].end <= spans[order[k]].start)}
<1>1. n \in Nat /\ DOMAIN Entries = 1..n
  BY DEF ArchiveInv
<1>2. \A k \in 1..n : order[k] \in 1..n
  BY DEF Follows, Bijection, Injection, Surjection
<1>3. \A k \in 1..n : /\ spans[order[k]].start \in Nat /\ spans[order[k]].end \in Nat
                      /\ spans[order[k]].start < spans[order[k]].end
  BY <1>1, <1>2, SpanFacts
<1>4. SUFFICES ASSUME j \in Bad PROVE FALSE
  OBVIOUS
<1>5. Bad \in SUBSET Nat /\ Bad # {}
  BY <1>1, <1>4
<1>6. PICK k \in Bad : \A l \in Bad : k <= l
  <2> HIDE DEF Bad
  <2> QED BY <1>5, LeastNumber
<1>7. k \in 2..n /\ i < k /\ k - 1 \in 1..n
  BY <1>1
<1>8. spans[order[k]].start = spans[order[k - 1]].end
  BY <1>7 DEF Follows, Before
<1>9. CASE i = k - 1
  BY <1>8, <1>9, <1>7, <1>3
<1>10. CASE i # k - 1
  <2>1. k - 1 \notin Bad
    BY <1>6, <1>7
  <2>2. spans[order[i]].end <= spans[order[k - 1]].start
    BY <2>1, <1>10, <1>7
  <2> QED BY <2>2, <1>8, <1>3, <1>7
<1> QED BY <1>9, <1>10

\* Every byte before the directory lies in a span: in the first that ends after it.
LEMMA EveryByte ==
    ASSUME ArchiveInv, ReadInv(Len(Entries)), NEW order, Follows(order, Len(Entries)),
           NEW b \in 0..(archive.central - 1)
    PROVE  \E i \in 1..Len(Entries) : spans[order[i]].start <= b /\ b < spans[order[i]].end
<1> DEFINE n == Len(Entries)
           Past == {k \in 1..n : b < spans[order[k]].end}
<1>1. n \in Nat /\ DOMAIN Entries = 1..n /\ archive.central \in Nat
  BY DEF ArchiveInv
<1>2. \A k \in 1..n : order[k] \in 1..n
  BY DEF Follows, Bijection, Injection, Surjection
<1>3. \A k \in 1..n : /\ spans[order[k]].start \in Nat /\ spans[order[k]].end \in Nat
                      /\ spans[order[k]].start < spans[order[k]].end
  BY <1>1, <1>2, SpanFacts
<1>4. n \in Past
  <2>1. n # 0
    BY <1>1 DEF Follows, Before
  <2>2. spans[order[n]].end = archive.central
    BY <2>1, <1>1 DEF Follows, Before
  <2> QED BY <2>1, <2>2, <1>1
<1>5. Past \in SUBSET Nat /\ Past # {}
  BY <1>1, <1>4
<1>6. PICK k \in Past : \A l \in Past : k <= l
  <2> HIDE DEF Past
  <2> QED BY <1>5, LeastNumber
<1>7. CASE k = 1
  <2>1. spans[order[k]].start = 0
    BY <1>7 DEF Follows, Before
  <2> QED BY <2>1, <1>1
<1>8. CASE k # 1
  <2>1. k - 1 \in 1..n /\ k - 1 \notin Past
    BY <1>6, <1>8, <1>1
  <2>2. spans[order[k]].start = spans[order[k - 1]].end
    BY <1>8 DEF Follows, Before
  <2> QED BY <2>1, <2>2, <1>3, <1>1
<1> QED BY <1>7, <1>8

\* Two entries never overlap.
LEMMA EntriesApart ==
    ASSUME ArchiveInv, ReadInv(Len(Entries)), NEW order, Follows(order, Len(Entries)),
           NEW i \in DOMAIN Entries, NEW j \in DOMAIN Entries, i # j
    PROVE  End(Entries[i]) <= Entries[j].at \/ End(Entries[j]) <= Entries[i].at
<1>1. DOMAIN Entries = 1..Len(Entries) /\ Len(Entries) \in Nat
  BY DEF ArchiveInv
<1>2. PICK k \in 1..Len(Entries), l \in 1..Len(Entries) : order[k] = i /\ order[l] = j
  BY <1>1 DEF Follows, Bijection, Surjection
<1>3. k < l \/ l < k
  BY <1>1, <1>2
<1>4. spans[i].end <= spans[j].start \/ spans[j].end <= spans[i].start
  BY <1>2, <1>3, InOrder
<1> QED BY <1>4, SpanFacts

----------------------------------------------------------------------------
(* Every step keeps the invariant.                                         *)

\* An acquired file has been read to no extent.
LEMMA ReaderInit == ReadInit => ReaderInv
<1> SUFFICES ASSUME ReadInit PROVE ReaderInv
  OBVIOUS
<1>1. ArchiveInv
  BY DEF ReadInit, Archive, ArchiveInv, Entries, Typed, Range
<1> QED BY <1>1 DEF ReadInit, ReaderInv

\* What was gathered is kept with the archive.
LEMMA Kept ==
    ASSUME UNCHANGED <<archive, spans, total>>, NEW n
    PROVE  /\ ArchiveInv => ArchiveInv' /\ Len(Entries)' = Len(Entries)
           /\ ReadInv(n) => ReadInv(n)'
           /\ (ReadInv(n) /\ NamesStand /\ Contiguous) =>
                 (ReadInv(n) /\ NamesStand /\ Contiguous)'
<1>1. ArchiveInv => ArchiveInv' /\ Len(Entries)' = Len(Entries)
  BY DEF ArchiveInv, Entries, Typed
<1>2. ReadInv(n) => ReadInv(n)'
  BY DEF ReadInv, Summed, Entries, SpanOf, End, DataEnd, DataOffset, DescriptorAt, Signed
<1>3. NamesStand => NamesStand'
  BY DEF NamesStand, Entries
<1>4. Contiguous => Contiguous'
  BY DEF Contiguous, Before
<1> QED BY <1>1, <1>2, <1>3, <1>4

\* A header that stands adds an entry to those read.
LEMMA HeaderStep ==
    ASSUME ReaderInv, ReadHeader
    PROVE  ReaderInv'
<1> DEFINE e == Entries[index]
<1>1. ArchiveInv /\ index \in 1..Len(Entries) /\ Typed(e) /\ ReadInv(index - 1) /\ parts = {}
  BY DEF ReaderInv, ReadHeader, ArchiveInv
<1>2. CASE Refuse
  <2>1. ArchiveInv' /\ index' = index /\ stage' = "refused"
    BY <1>1, <1>2, Kept DEF Refuse
  <2> QED BY <2>1 DEF ReaderInv
<1>3. CASE CentralStands(e) /\ LocalStands(e) /\ DescriptorStands(e)
           /\ total' = total + e.size
           /\ spans' = Append(spans, [start |-> e.at, end |-> End(e)])
           /\ index' = index + 1 /\ UNCHANGED <<archive, parts, stage>>
  <2>1. PICK n : n = index
    OBVIOUS
  <2>2. n \in 1..Len(Entries) /\ e = Entries[n] /\ ReadInv(n - 1) /\ n \in Nat /\ n - 1 \in Nat
    BY <1>1, <2>1 DEF ArchiveInv
  <2>3. ArchiveInv' /\ Entries' = Entries
    BY <1>1, <1>3 DEF ArchiveInv, Entries, Typed
  <2>4. SpanOf(e) \in [start : Nat, end : Nat]
    BY <1>1, EndAfterData DEF SpanOf, Typed
  <2>5. /\ spans' \in Seq([start : Nat, end : Nat]) /\ Len(spans') = n
        /\ spans'[n] = SpanOf(Entries[n])
        /\ \A i \in 1..(n - 1) : spans'[i] = spans[i]
    BY <2>2, <1>3, <2>4 DEF ReadInv, SpanOf
  <2>6. ASSUME NEW i \in 1..n PROVE (spans[i] = SpanOf(Entries[i]))'
    <3>1. spans'[i] = SpanOf(Entries[i])
      <4>1. CASE i = n BY <4>1, <2>5
      <4>2. CASE i # n
        <5>1. i \in 1..(n - 1)
          BY <4>2, <2>2
        <5> QED BY <5>1, <2>5, <2>2 DEF ReadInv
      <4> QED BY <4>1, <4>2
    <3> QED BY <3>1, <1>3, <2>3 DEF SpanOf, End, DataEnd, DataOffset, DescriptorAt, Signed
  <2>7. ASSUME NEW i \in 1..n, NEW j \in 1..n, i # j PROVE Entries[i].name # Entries[j].name
    <3>1. \A k \in 1..(n - 1) : Entries[k].name # Entries[n].name
      BY <1>3, <2>1 DEF CentralStands, NewName
    <3>2. \A k, l \in 1..(n - 1) : k # l => Entries[k].name # Entries[l].name
      BY <2>2 DEF ReadInv
    <3>3. (i = n \/ i \in 1..(n - 1)) /\ (j = n \/ j \in 1..(n - 1))
      BY <2>2
    <3> QED BY <3>1, <3>2, <3>3, <2>7
  <2>8. \E sums \in [0..n -> 0..MaxTotal] :
          /\ sums[0] = 0 /\ sums[n] = total + e.size
          /\ \A i \in 1..n : sums[i] = sums[i - 1] + Entries[i].size
    <3>1. PICK sums \in [0..(n - 1) -> 0..MaxTotal] :
            /\ sums[0] = 0 /\ sums[n - 1] = total
            /\ \A i \in 1..(n - 1) : sums[i] = sums[i - 1] + Entries[i].size
      BY <2>2 DEF ReadInv, Summed
    <3>2. total \in 0..MaxTotal /\ total + e.size \in 0..MaxTotal
      <4>1. n - 1 \in 0..(n - 1)
        BY <2>2
      <4>2. total \in 0..MaxTotal
        BY <3>1, <4>1
      <4>3. e.size \in Nat
        BY <1>1 DEF Typed
      <4>4. e.size <= MaxTotal - total
        BY <1>3 DEF CentralStands, Affordable
      <4> QED BY <4>2, <4>3, <4>4, LimitsAssumption
    <3> DEFINE more == [i \in 0..n |-> IF i = n THEN total + e.size ELSE sums[i]]
    <3>3. more \in [0..n -> 0..MaxTotal]
      BY <2>2, <3>1, <3>2
    <3>4. more[0] = 0 /\ more[n] = total + e.size
      BY <2>2, <3>1
    <3>5. ASSUME NEW i \in 1..n PROVE more[i] = more[i - 1] + Entries[i].size
      BY <2>2, <3>1
    <3> QED BY <3>3, <3>4, <3>5
  <2>9. Summed(n)'
    BY <2>8, <2>3, <1>3 DEF Summed
  <2>10. Len(Entries)' = Len(Entries) /\ n <= Len(Entries)
    BY <2>2, <2>3
  <2>11. \A i, j \in 1..n : i # j => (Entries[i].name # Entries[j].name)'
    BY <2>7, <2>3
  <2>12. ReadInv(n)'
    BY <2>10, <2>5, <2>6, <2>11, <2>9 DEF ReadInv
  <2>13. (index - 1)' = n /\ index' \in Nat \ {0} /\ stage' = "headers" /\ parts' = {}
    BY <1>1, <1>3, <2>1, <2>2 DEF ReadHeader
  <2>14. ReadInv(index - 1)'
    BY <2>12, <2>13 DEF ReadInv, Summed
  <2> QED BY <2>3, <2>13, <2>14 DEF ReaderInv
<1> QED BY <1>2, <1>3 DEF ReadHeader

\* An entry that yields what it says is inflated.
LEMMA PartStep ==
    ASSUME ReaderInv, ReadPart
    PROVE  ReaderInv'
<1> DEFINE e == Entries[index]
<1>1. ArchiveInv /\ index \in 1..Len(Entries) /\ InflatedInv(index - 1)
  BY DEF ReaderInv, ReadPart, ArchiveInv
<1>2. CASE Refuse
  <2>1. ArchiveInv' /\ index' = index /\ stage' = "refused"
    BY <1>1, <1>2, Kept DEF Refuse
  <2> QED BY <2>1, <1>1 DEF ReaderInv
<1>3. CASE e.yields = e.size /\ parts' = parts \cup {PartOf(e)} /\ index' = index + 1
           /\ UNCHANGED <<archive, total, spans, stage>>
  <2>1. ArchiveInv' /\ Entries' = Entries /\ Len(Entries)' = Len(Entries)
    BY <1>1, <1>3, Kept DEF Entries
  <2>2. (ReadInv(Len(Entries)) /\ NamesStand /\ Contiguous)'
    <3>1. (\A n : ReadInv(n) /\ NamesStand /\ Contiguous =>
                  (ReadInv(n) /\ NamesStand /\ Contiguous)')
      BY <1>3, Kept
    <3>2. PICK n : n = Len(Entries)
      OBVIOUS
    <3>3. (ReadInv(n) /\ NamesStand /\ Contiguous)' /\ n = Len(Entries)'
      BY <3>1, <3>2, <2>1, <1>1 DEF InflatedInv
    <3> QED BY <3>3
  <2>3. PICK n : n = index
    OBVIOUS
  <2>4. n \in 1..Len(Entries) /\ e = Entries[n] /\ InflatedInv(n - 1) /\ n \in Nat
    BY <1>1, <2>3 DEF ArchiveInv
  <2>5. parts' = {PartOf(Entries[i]) : i \in 1..n}
    <3>1. parts = {PartOf(Entries[i]) : i \in 1..(n - 1)}
      BY <2>4 DEF InflatedInv
    <3>2. 1..n = 1..(n - 1) \cup {n}
      BY <2>4
    <3>3. parts' = parts \cup {PartOf(Entries[n])}
      BY <1>3, <2>4
    <3> HIDE DEF e
    <3> QED BY <3>1, <3>2, <3>3, Zenon
  <2>6. {PartOf(Entries[i]) : i \in 1..n}' = {PartOf(Entries[i]) : i \in 1..n}
    <3>1. \A i : PartOf(Entries[i])' = PartOf(Entries[i])
      BY <2>1 DEF PartOf, DataOffset, DataEnd
    <3> QED BY <3>1, Zenon
  <2>7. \A i \in 1..n : (Entries[i].yields = Entries[i].size)'
    <3>1. \A i \in 1..(n - 1) : Entries[i].yields = Entries[i].size
      BY <2>4 DEF InflatedInv
    <3> QED BY <3>1, <1>3, <2>1, <2>4
  <2>8. InflatedInv(n)'
    BY <2>1, <2>2, <2>4, <2>5, <2>6, <2>7 DEF InflatedInv
  <2>9. (index - 1)' = n /\ index' \in Nat \ {0} /\ stage' = "contents"
    BY <1>3, <2>3, <2>4 DEF ReadPart
  <2>10. InflatedInv(index - 1)'
    BY <2>8, <2>9 DEF InflatedInv
  <2> QED BY <2>1, <2>9, <2>10 DEF ReaderInv
<1> QED BY <1>2, <1>3 DEF ReadPart, PartOf

\* What has been read stays when neither the file nor the spans change.
LEMMA KeptWhole ==
    ASSUME ArchiveInv, ReadInv(Len(Entries)), NamesStand, Contiguous,
           UNCHANGED <<archive, spans, total>>
    PROVE  (ReadInv(Len(Entries)) /\ NamesStand /\ Contiguous)'
<1>1. \A n : ReadInv(n) /\ NamesStand /\ Contiguous => (ReadInv(n) /\ NamesStand /\ Contiguous)'
  BY Kept
<1>2. PICK n : n = Len(Entries)
  OBVIOUS
<1>3. (ReadInv(n) /\ NamesStand /\ Contiguous)' /\ n = Len(Entries)'
  BY <1>1, <1>2, Kept
<1> QED BY <1>3 DEF ReadInv, Summed

\* The directory is counted before anything is read.
LEMMA DirectoryStep ==
    ASSUME ReaderInv, Directory
    PROVE  ReaderInv'
<1>1. ArchiveInv /\ total = 0 /\ spans = <<>> /\ parts = {} /\ index = 1
  BY DEF ReaderInv, Directory
<1>2. UNCHANGED <<archive, total, spans, parts>> /\ index' = 1
  BY <1>1 DEF Directory, Goto, Refuse
<1>3. ArchiveInv'
  BY <1>1, <1>2, Kept
<1>4. ReadInv(0)
  <2> DEFINE none == [i \in 0..0 |-> 0]
  <2>1. none \in [0..0 -> 0..MaxTotal] /\ none[0] = 0
    BY LimitsAssumption
  <2>2. none[0] = total /\ \A i \in 1..0 : none[i] = none[i - 1] + Entries[i].size
    BY <1>1, <2>1
  <2>3. Summed(0)
    <3> HIDE DEF none
    <3> QED BY <2>1, <2>2 DEF Summed
  <2> QED BY <1>1, <2>3 DEF ReadInv, ArchiveInv
<1>5. (\A n : ReadInv(n) => ReadInv(n)')
  BY <1>2, Kept
<1>6. ReadInv(0)'
  BY <1>4, <1>5
<1>7. ReadInv(index - 1)'
  BY <1>6, <1>2 DEF ReadInv, Summed
<1>8. stage' \in {"headers", "refused"}
  BY DEF Directory, Goto, Refuse
<1> QED BY <1>1, <1>2, <1>3, <1>7, <1>8 DEF ReaderInv

\* Names and spans are compared when all headers have been read.
LEMMA LayoutStep ==
    ASSUME ReaderInv, Layout
    PROVE  ReaderInv'
<1>1. ArchiveInv /\ ReadInv(Len(Entries)) /\ parts = {}
  <2>1. ReadInv(index - 1) /\ index \in Nat \ {0} /\ Len(Entries) \in Nat
    BY DEF ReaderInv, Layout, ArchiveInv
  <2>2. index - 1 = Len(Entries)
    BY <2>1 DEF ReadInv, Layout
  <2> QED BY <2>1, <2>2 DEF ReaderInv, Layout
<1>2. UNCHANGED <<archive, total, spans, parts>> /\ ArchiveInv'
  BY <1>1, Kept DEF Layout, Goto, Refuse
<1>3. CASE Refuse
  BY <1>2, <1>3 DEF ReaderInv, Refuse
<1>4. CASE NamesStand /\ Contiguous /\ Goto("contents")
  <2>1. (ReadInv(Len(Entries)) /\ NamesStand /\ Contiguous)'
    BY <1>1, <1>2, <1>4, KeptWhole
  <2>2. InflatedInv(0)'
    BY <2>1, <1>1, <1>2 DEF InflatedInv, ArchiveInv, ReadInv
  <2>3. (index - 1)' = 0 /\ index' = 1 /\ stage' = "contents"
    BY <1>4 DEF Goto
  <2>4. InflatedInv(index - 1)'
    BY <2>2, <2>3 DEF InflatedInv
  <2> QED BY <1>2, <2>3, <2>4 DEF ReaderInv
<1> QED BY <1>3, <1>4 DEF Layout

\* The package is returned when all its parts are there.
LEMMA ReturnStep ==
    ASSUME ReaderInv, Return
    PROVE  ReaderInv'
<1>1. ArchiveInv /\ InflatedInv(Len(Entries))
  <2>1. InflatedInv(index - 1) /\ index \in Nat \ {0} /\ Len(Entries) \in Nat
    BY DEF ReaderInv, Return, ArchiveInv
  <2>2. index - 1 = Len(Entries)
    BY <2>1 DEF InflatedInv, Return
  <2> QED BY <2>1, <2>2 DEF ReaderInv, Return
<1>2. UNCHANGED <<archive, total, spans, parts>> /\ index' = 1 /\ stage' = "returned"
  BY DEF Return, Goto
<1>3. ArchiveInv' /\ Entries' = Entries /\ Len(Entries)' = Len(Entries)
  BY <1>1, <1>2, Kept DEF Entries
<1>4. (ReadInv(Len(Entries)) /\ NamesStand /\ Contiguous)'
  BY <1>1, <1>2, KeptWhole DEF InflatedInv
<1>5. {PartOf(Entries[i]) : i \in 1..Len(Entries)}' = {PartOf(Entries[i]) : i \in 1..Len(Entries)}
  <2>1. \A i : PartOf(Entries[i])' = PartOf(Entries[i])
    BY <1>3 DEF PartOf, DataOffset, DataEnd
  <2> QED BY <2>1, <1>3, Zenon
<1>6. InflatedInv(Len(Entries))'
  BY <1>1, <1>2, <1>3, <1>4, <1>5 DEF InflatedInv
<1> QED BY <1>2, <1>3, <1>6 DEF ReaderInv

\* The invariant is about nothing but the variables.
LEMMA UnchangedStep ==
    ASSUME ReaderInv, UNCHANGED <<archive, index, total, spans, parts, stage>>
    PROVE  ReaderInv'
<1>1. ArchiveInv' /\ Entries' = Entries /\ Len(Entries)' = Len(Entries)
  BY Kept DEF Entries, ReaderInv
<1>2. \A n : InflatedInv(n) => InflatedInv(n)'
  <2> SUFFICES ASSUME NEW n, InflatedInv(n) PROVE InflatedInv(n)'
    OBVIOUS
  <2>1. (ReadInv(Len(Entries)) /\ NamesStand /\ Contiguous)'
    BY KeptWhole DEF InflatedInv, ReaderInv
  <2>2. {PartOf(Entries[i]) : i \in 1..n}' = {PartOf(Entries[i]) : i \in 1..n}
    <3>1. \A i : PartOf(Entries[i])' = PartOf(Entries[i])
      BY <1>1 DEF PartOf, DataOffset, DataEnd
    <3> QED BY <3>1, Zenon
  <2> QED BY <1>1, <2>1, <2>2 DEF InflatedInv
<1>3. \A n : ReadInv(n) => ReadInv(n)'
  BY Kept
<1>4. PICK m, n : m = index - 1 /\ n = Len(Entries)
  OBVIOUS
<1>5. m = (index - 1)' /\ n = Len(Entries)'
  BY <1>1, <1>4
<1>6. stage = "headers" => ReadInv(index - 1)'
  <2>1. stage = "headers" => ReadInv(m)'
    BY <1>3, <1>4 DEF ReaderInv
  <2> QED BY <2>1, <1>5 DEF ReadInv, Summed
<1>7. stage = "contents" => InflatedInv(index - 1)'
  <2>1. stage = "contents" => InflatedInv(m)'
    BY <1>2, <1>4 DEF ReaderInv
  <2> QED BY <2>1, <1>5 DEF InflatedInv
<1>8. stage = "returned" => InflatedInv(Len(Entries))'
  <2>1. stage = "returned" => InflatedInv(n)'
    BY <1>2, <1>4 DEF ReaderInv
  <2> QED BY <2>1, <1>5 DEF InflatedInv
<1> QED BY <1>1, <1>6, <1>7, <1>8 DEF ReaderInv

\* Each step of Read preserves the invariant.
LEMMA ReaderStep == ReaderInv /\ [ReadNext]_readVars => ReaderInv'
<1> SUFFICES ASSUME ReaderInv, [ReadNext]_readVars PROVE ReaderInv'
  OBVIOUS
<1>1. CASE Directory BY <1>1, DirectoryStep
<1>2. CASE ReadHeader BY <1>2, HeaderStep
<1>3. CASE Layout BY <1>3, LayoutStep
<1>4. CASE ReadPart BY <1>4, PartStep
<1>5. CASE Return BY <1>5, ReturnStep
<1>6. CASE CancelRead
  <2>1. ArchiveInv'
    BY <1>6, Kept DEF CancelRead, ReaderInv
  <2> QED BY <1>6, <2>1 DEF CancelRead, ReaderInv
<1>7. CASE UNCHANGED readVars
  <2>1. UNCHANGED <<archive, index, total, spans, parts, stage>>
    BY <1>7 DEF readVars
  <2> HIDE DEF ReaderInv
  <2> QED
    BY <2>1, UnchangedStep
<1> QED BY <1>1, <1>2, <1>3, <1>4, <1>5, <1>6, <1>7 DEF ReadNext

\* The invariant holds throughout.
LEMMA ReaderInvariance == ReadSpec => []ReaderInv
  BY ReaderInit, ReaderStep, PTL DEF ReadSpec

----------------------------------------------------------------------------
(* What the invariant says of a returned package.                          *)

\* Distinct entries become distinct parts, so there are as many.
LEMMA PartsCounted ==
    ASSUME ArchiveInv, InflatedInv(Len(Entries))
    PROVE  Cardinality(parts) = Len(Entries)
<1> DEFINE n == Len(Entries)
           f == [i \in 1..n |-> PartOf(Entries[i])]
<1>1. n \in Nat /\ parts = {PartOf(Entries[i]) : i \in 1..n} /\ ReadInv(n)
  BY DEF ArchiveInv, InflatedInv
<1>2. f \in [1..n -> parts]
  BY <1>1
<1>3. ASSUME NEW i \in 1..n, NEW j \in 1..n, f[i] = f[j] PROVE i = j
  <2>1. PartOf(Entries[i]).name = PartOf(Entries[j]).name
    BY <1>3
  <2>2. Entries[i].name = Entries[j].name
    BY <2>1 DEF PartOf
  <2> QED BY <2>2, <1>1 DEF ReadInv
<1>4. \A p \in parts : \E i \in 1..n : f[i] = p
  BY <1>1
<1>5. f \in Bijection(1..n, parts)
  <2> HIDE DEF f, n
  <2> QED BY <1>2, <1>3, <1>4 DEF Bijection, Injection, Surjection, IsInjective
<1>6. ExistsBijection(1..n, parts)
  BY <1>5 DEF ExistsBijection
<1>7. IsFiniteSet(1..n) /\ Cardinality(1..n) = n
  <2>1. 1 \in Int /\ n \in Int /\ (IF 1 > n THEN 0 ELSE n - 1 + 1) = n
    BY <1>1
  <2> HIDE DEF n
  <2>2. IsFiniteSet(1..n) /\ Cardinality(1..n) = IF 1 > n THEN 0 ELSE n - 1 + 1
    BY <2>1, FS_Interval
  <2> QED BY <2>1, <2>2
<1> QED BY <1>6, <1>7, FS_Bijection

\* The parts are those of different entries: apart, and none below a file.
LEMMA PartsApart ==
    ASSUME ArchiveInv, InflatedInv(Len(Entries)), NEW p \in parts, NEW q \in parts, p # q
    PROVE  /\ p.name # q.name
           /\ p.until <= q.from \/ q.until <= p.from
           /\ IsStrictPrefix(p.name, q.name) => p.directory
<1>1. ReadInv(Len(Entries)) /\ NamesStand /\ Contiguous /\ DOMAIN Entries = 1..Len(Entries)
  BY DEF InflatedInv, ArchiveInv
<1>2. PICK i \in DOMAIN Entries, j \in DOMAIN Entries :
        p = PartOf(Entries[i]) /\ q = PartOf(Entries[j])
  BY <1>1 DEF InflatedInv
<1>3. i # j
  BY <1>2
<1>4. PICK order : Follows(order, Len(Entries))
  BY <1>1 DEF Contiguous, Follows, ReadInv
<1>5. End(Entries[i]) <= Entries[j].at \/ End(Entries[j]) <= Entries[i].at
  BY <1>1, <1>3, <1>4, EntriesApart
<1>6. /\ p.name = Entries[i].name /\ q.name = Entries[j].name /\ p.directory = Entries[i].directory
      /\ p.from = DataOffset(Entries[i]) /\ p.until = DataEnd(Entries[i])
      /\ q.from = DataOffset(Entries[j]) /\ q.until = DataEnd(Entries[j])
  BY <1>2 DEF PartOf
<1>7. p.name # q.name
  BY <1>1, <1>3, <1>6 DEF ReadInv
<1>8. p.until <= q.from \/ q.until <= p.from
  <2>1. Typed(Entries[i]) /\ Typed(Entries[j])
    BY DEF ArchiveInv
  <2>2. /\ DataOffset(Entries[i]) = Entries[i].at + 1 /\ DataOffset(Entries[j]) = Entries[j].at + 1
        /\ DataEnd(Entries[i]) \in Nat /\ DataEnd(Entries[j]) \in Nat
        /\ DataEnd(Entries[i]) <= End(Entries[i]) /\ DataEnd(Entries[j]) <= End(Entries[j])
        /\ End(Entries[i]) \in Nat /\ End(Entries[j]) \in Nat
    BY <2>1, EndAfterData
  <2> QED BY <2>1, <2>2, <1>5, <1>6, SMTT(30) DEF Typed
<1>9. Entries[i] \in Range(Entries) /\ Entries[j] \in Range(Entries)
  BY DEF Range
<1> QED BY <1>1, <1>6, <1>7, <1>8, <1>9 DEF NamesStand

\* A returned package accounts for every byte before the central directory by one
\* entry; its parts are apart and have names of their own, no file has parts below it,
\* and what was inflated stays within the limit (packageparts.Read).
THEOREM BytesAreClaimedOnce == ReadSpec => []BytesClaimedOnce
<1>1. ReaderInv => BytesClaimedOnce
  <2> SUFFICES ASSUME ReaderInv, stage = "returned" PROVE BytesClaimedOnce
    BY DEF BytesClaimedOnce
  <2> DEFINE n == Len(Entries)
  <2>1. /\ ArchiveInv /\ InflatedInv(n) /\ ReadInv(n) /\ Contiguous
        /\ DOMAIN Entries = 1..n /\ n \in Nat /\ archive.central \in Nat
    BY DEF ReaderInv, InflatedInv, ArchiveInv
  <2>2. PICK order : Follows(order, n)
    BY <2>1 DEF Contiguous, Follows, ReadInv
  <2>3. ASSUME NEW b \in 0..(archive.central - 1)
        PROVE  \E i \in DOMAIN Entries : \A j \in DOMAIN Entries :
                  b \in Occupied(Entries[j]) <=> j = i
    <3>1. PICK k \in 1..n : spans[order[k]].start <= b /\ b < spans[order[k]].end
      BY <2>1, <2>2, EveryByte
    <3>2. PICK i \in DOMAIN Entries : i = order[k]
      BY <2>1, <2>2 DEF Follows, Bijection, Injection
    <3>3. Entries[i].at <= b /\ b < End(Entries[i]) /\ b \in Nat
      BY <2>1, <3>1, <3>2, SpanFacts
    <3>4. \A j \in DOMAIN Entries : b \in Occupied(Entries[j]) <=> Entries[j].at <= b /\ b < End(Entries[j])
      BY <2>1, <3>3, OccupiedIsSpan DEF ArchiveInv
    <3>5. ASSUME NEW j \in DOMAIN Entries, j # i
          PROVE  ~(Entries[j].at <= b /\ b < End(Entries[j]))
      <4>1. End(Entries[i]) <= Entries[j].at \/ End(Entries[j]) <= Entries[i].at
        BY <2>1, <2>2, <3>5, EntriesApart
      <4>2. Typed(Entries[i]) /\ Typed(Entries[j])
        BY <2>1 DEF ArchiveInv
      <4>3. /\ End(Entries[i]) \in Nat /\ End(Entries[j]) \in Nat
            /\ Entries[i].at \in Nat /\ Entries[j].at \in Nat
        BY <4>2, EndAfterData DEF Typed
      <4> QED BY <4>1, <4>3, <3>3, SMTT(30)
    <3> QED BY <3>3, <3>4, <3>5
  <2>4. Cardinality(parts) = n
    BY <2>1, PartsCounted
  <2>5. \A p, q \in parts : p # q =>
              /\ p.name # q.name
              /\ p.until <= q.from \/ q.until <= p.from
              /\ IsStrictPrefix(p.name, q.name) => p.directory
    BY <2>1, PartsApart
  <2>6. \E sums \in [0..n -> 0..MaxTotal] : sums[0] = 0 /\
          \A i \in DOMAIN Entries : sums[i] = sums[i - 1] + Entries[i].yields
    <3>1. PICK sums \in [0..n -> 0..MaxTotal] :
            sums[0] = 0 /\ \A i \in 1..n : sums[i] = sums[i - 1] + Entries[i].size
      BY <2>1 DEF ReadInv, Summed
    <3>2. \A i \in 1..n : Entries[i].yields = Entries[i].size
      BY <2>1 DEF InflatedInv
    <3> QED BY <3>1, <3>2, <2>1
  <2> QED BY <2>3, <2>4, <2>5, <2>6 DEF BytesClaimedOnce
<1> QED BY ReaderInvariance, <1>1, PTL

----------------------------------------------------------------------------
(***************************************************************************)
(* Identification: sequences and functions.                                *)
(***************************************************************************)

\* A finite set of natural numbers that is not empty has its maximum among its
\* elements: of the bounds on it, take the least.
LEMMA MaxInSet ==
    ASSUME NEW n \in Nat, NEW S \in SUBSET (0..n), S # {}
    PROVE  Max(S) \in S
<1> DEFINE Bounds == {b \in Nat : \A x \in S : x <= b}
<1>1. Bounds \in SUBSET Nat /\ n \in Bounds
  OBVIOUS
<1>2. PICK b \in Bounds : \A c \in Bounds : b <= c
  <2> HIDE DEF Bounds
  <2> QED BY <1>1, LeastNumber
<1>3. b \in S
  <2> SUFFICES ASSUME b \notin S PROVE FALSE
    OBVIOUS
  <2>1. \A x \in S : x \in Nat /\ x <= b /\ x # b
    OBVIOUS
  <2>2. PICK x \in S : x \in Nat /\ x <= b /\ x # b
    BY <2>1
  <2>3. b - 1 \in Bounds
    BY <2>1, <2>2
  <2> QED BY <2>2, <2>3, <1>2
<1>4. \A x \in S : b >= x
  OBVIOUS
<1> QED BY <1>3, <1>4, Zenon DEF Max

\* A sequence is one of its own elements.
LEMMA InOwnRange ==
    ASSUME NEW S, NEW s \in Seq(S)
    PROVE  s \in Seq(Range(s))
<1>1. \A i \in 1..Len(s) : s[i] \in Range(s)
  BY DEF Range
<1>2. s \in [1..Len(s) -> Range(s)] /\ Len(s) \in Nat
  BY <1>1
<1> QED BY <1>2

\* A sequence of its own elements stays one when something is appended.
LEMMA Appended ==
    ASSUME NEW s, s \in Seq(Range(s)), NEW e
    PROVE  /\ Append(s, e) \in Seq(Range(Append(s, e)))
           /\ Len(Append(s, e)) = Len(s) + 1 /\ Append(s, e)[Len(s) + 1] = e
           /\ Len(s) \in Nat /\ DOMAIN s = 1..Len(s)
           /\ \A i \in 1..Len(s) : Append(s, e)[i] = s[i]
<1> DEFINE S == Range(s) \cup {e}
           t == Append(s, e)
<1>1. s \in Seq(S) /\ e \in S
  BY SeqMonotonic
<1>2. t \in Seq(S) /\ Len(t) = Len(s) + 1 /\ t[Len(s) + 1] = e /\ \A i \in 1..Len(s) : t[i] = s[i]
  BY <1>1
<1>3. t \in Seq(Range(t))
  <2> HIDE DEF t
  <2> QED BY <1>2, InOwnRange
<1> QED BY <1>2, <1>3

\* Two of them, one after the other, are one.
LEMMA Concatenated ==
    ASSUME NEW s, s \in Seq(Range(s)), NEW t, t \in Seq(Range(t))
    PROVE  /\ s \o t \in Seq(Range(s \o t))
           /\ Len(s \o t) = Len(s) + Len(t) /\ Len(s) \in Nat /\ Len(t) \in Nat
           /\ \A i \in 1..Len(s) : (s \o t)[i] = s[i]
           /\ \A i \in 1..Len(t) : (s \o t)[Len(s) + i] = t[i]
<1> DEFINE S == Range(s) \cup Range(t)
           u == s \o t
<1>1. s \in Seq(S) /\ t \in Seq(S)
  BY SeqMonotonic
<1>2. /\ u \in Seq(S) /\ Len(u) = Len(s) + Len(t) /\ Len(s) \in Nat /\ Len(t) \in Nat
      /\ \A i \in 1..Len(s) : u[i] = s[i]
      /\ \A i \in 1..Len(t) : u[Len(s) + i] = t[i]
  BY <1>1
<1>3. u \in Seq(Range(u))
  <2> HIDE DEF u
  <2> QED BY <1>2, InOwnRange
<1> QED BY <1>2, <1>3

\* A function of 0..N that is defined from its predecessor.
Unrolls(f, N, S, base, step) ==
    f \in [0..N -> S] /\ f[0] = base /\ \A n \in 1..N : f[n] = step[n][f[n - 1]]

\* Such a function exists.
LEMMA Unrolled ==
    ASSUME NEW N \in Nat, NEW S, NEW base \in S, NEW step \in [1..N -> [S -> S]]
    PROVE  \E f : Unrolls(f, N, S, base, step)
<1> DEFINE Q(m) == \E f : Unrolls(f, m, S, base, step)
           Bad == {m \in 0..N : ~Q(m)}
<1>1. SUFFICES ASSUME N \in Bad PROVE FALSE
  OBVIOUS
<1>2. Bad \in SUBSET Nat /\ Bad # {}
  <2> HIDE DEF Q
  <2> QED BY <1>1
<1>3. PICK m \in Bad : \A l \in Bad : m <= l
  <2> HIDE DEF Bad
  <2> QED BY <1>2, LeastNumber
<1>4. m \in 0..N /\ ~Q(m)
  OBVIOUS
<1>5. m # 0
  <2> DEFINE g == [i \in 0..0 |-> base]
  <2>1. g \in [0..0 -> S] /\ g[0] = base /\ \A n \in 1..0 : g[n] = step[n][g[n - 1]]
    OBVIOUS
  <2>2. Q(0)
    <3> HIDE DEF g
    <3> QED BY <2>1 DEF Unrolls
  <2> HIDE DEF Q
  <2> QED BY <2>2, <1>4
<1>6. Q(m - 1)
  <2> HIDE DEF Q
  <2>1. m - 1 \notin Bad /\ m - 1 \in 0..N
    BY <1>3, <1>4, <1>5
  <2> QED BY <2>1
<1>7. PICK f \in [0..(m - 1) -> S] : f[0] = base /\ \A n \in 1..(m - 1) : f[n] = step[n][f[n - 1]]
  BY <1>6 DEF Unrolls
<1> DEFINE g == [i \in 0..m |-> IF i = m THEN step[m][f[m - 1]] ELSE f[i]]
<1>8. step[m][f[m - 1]] \in S
  BY <1>4, <1>5, <1>7
<1>9. g \in [0..m -> S] /\ g[0] = base
  BY <1>4, <1>5, <1>7, <1>8
<1>10. ASSUME NEW n \in 1..m PROVE g[n] = step[n][g[n - 1]]
  <2>1. CASE n = m
    BY <1>4, <1>5, <1>7, <2>1
  <2>2. CASE n # m
    <3>1. n \in 1..(m - 1) /\ n \in 0..m /\ n - 1 \in 0..m /\ n - 1 # m
      BY <1>4, <2>2
    <3>2. g[n] = f[n] /\ g[n - 1] = f[n - 1]
      BY <3>1, <2>2
    <3> QED BY <3>1, <3>2, <1>7
  <2> QED BY <2>1, <2>2
<1>11. Q(m)
  <2> HIDE DEF g
  <2> QED BY <1>9, <1>10 DEF Unrolls
<1> QED BY <1>11, <1>4

----------------------------------------------------------------------------
(* The relationships of a document.                                        *)

\* What has been picked of a document's elements grows by one element at a time.
LEMMA RecordsUnfold ==
    ASSUME NEW xml, Len(xml.elements) \in Nat
    PROVE  LET f == RecordsTo(xml) IN
           /\ f \in [0..Len(xml.elements) -> Seq(Nat)] /\ f[0] = <<>>
           /\ \A n \in 1..Len(xml.elements) :
                f[n] = IF IsRelationship(xml, n) THEN Append(f[n - 1], n) ELSE f[n - 1]
<1> DEFINE N == Len(xml.elements)
           pick == [n \in 1..N |-> [s \in Seq(Nat) |->
                      IF IsRelationship(xml, n) THEN Append(s, n) ELSE s]]
           Unfolds(f) == f = [n \in 0..N |->
              IF n = 0 THEN <<>>
              ELSE IF IsRelationship(xml, n) THEN Append(f[n - 1], n) ELSE f[n - 1]]
<1>1. pick \in [1..N -> [Seq(Nat) -> Seq(Nat)]] /\ N \in Nat /\ <<>> \in Seq(Nat)
  OBVIOUS
<1>2. PICK f \in [0..N -> Seq(Nat)] : f[0] = <<>> /\ \A n \in 1..N : f[n] = pick[n][f[n - 1]]
  <2> HIDE DEF pick, N
  <2>1. \E f : Unrolls(f, N, Seq(Nat), <<>>, pick)
    BY <1>1, Unrolled
  <2> QED BY <2>1 DEF Unrolls
<1>3. ASSUME NEW n \in 1..N
      PROVE  f[n] = IF IsRelationship(xml, n) THEN Append(f[n - 1], n) ELSE f[n - 1]
  <2>1. f[n - 1] \in Seq(Nat)
    BY <1>1
  <2>2. \A t \in Seq(Nat) : pick[n][t] = IF IsRelationship(xml, n) THEN Append(t, n) ELSE t
    OBVIOUS
  <2> HIDE DEF pick
  <2> QED BY <1>2, <2>1, <2>2
<1>4. Unfolds(f)
  <2>1. \A n \in 0..N : f[n] = IF n = 0 THEN <<>>
              ELSE IF IsRelationship(xml, n) THEN Append(f[n - 1], n) ELSE f[n - 1]
    BY <1>2, <1>3
  <2> QED BY <2>1, <1>2
<1>5. RecordsTo(xml) = CHOOSE g : Unfolds(g)
  BY Zenon DEF RecordsTo
<1>6. PICK g : g = RecordsTo(xml) /\ Unfolds(g)
  <2> HIDE DEF Unfolds
  <2> QED BY <1>4, <1>5
<1>7. g = f
  <2> DEFINE Bad == {n \in 0..N : g[n] # f[n]}
  <2>1. Bad = {}
    <3> SUFFICES ASSUME Bad # {} PROVE FALSE
      OBVIOUS
    <3>1. PICK n \in Bad : \A m \in Bad : n <= m
      <4>1. Bad \in SUBSET Nat /\ Bad # {}
        OBVIOUS
      <4> HIDE DEF Bad
      <4> QED BY <4>1, LeastNumber
    <3>2. n \in 0..N /\ g[n] # f[n]
      OBVIOUS
    <3>3. n # 0
      BY <3>2, <1>6, <1>2
    <3>4. n - 1 \in 0..N /\ n \in 1..N /\ ~(n <= n - 1)
      BY <3>2, <3>3, <1>1
    <3>5. g[n - 1] = f[n - 1]
      BY <3>1, <3>4
    <3>6. g[n] = IF IsRelationship(xml, n) THEN Append(g[n - 1], n) ELSE g[n - 1]
      <4>1. \A m \in 0..N : g[m] = IF m = 0 THEN <<>>
              ELSE IF IsRelationship(xml, m) THEN Append(g[m - 1], m) ELSE g[m - 1]
        BY <1>6, Zenon
      <4> QED BY <4>1, <3>2, <3>3
    <3> QED BY <3>2, <3>4, <3>5, <3>6, <1>3
  <2>2. \A n \in 0..N : g[n] = f[n]
    BY <2>1
  <2>3. g = [n \in 0..N |-> g[n]]
    BY <1>6
  <2> QED BY <2>2, <2>3, <1>2
<1> QED BY <1>2, <1>3, <1>6, <1>7

\* s picks each of the first n elements that is a relationship once.
PickedAll(xml, s, n) ==
    /\ s \in Seq(1..n)
    /\ \A i \in 1..n : IsRelationship(xml, i) <=> \E k \in 1..Len(s) : s[k] = i
    /\ \A k, l \in 1..Len(s) : s[k] = s[l] => k = l

\* The records of a relationships part are its relationship elements, each once.
LEMMA PickedOnce ==
    ASSUME NEW xml, Len(xml.elements) \in Nat
    PROVE  PickedAll(xml, Records(xml), Len(xml.elements))
<1> DEFINE N == Len(xml.elements)
           f == RecordsTo(xml)
           Bad == {n \in 0..N : ~PickedAll(xml, f[n], n)}
<1>1. /\ f \in [0..N -> Seq(Nat)] /\ f[0] = <<>>
      /\ \A n \in 1..N : f[n] = IF IsRelationship(xml, n) THEN Append(f[n - 1], n) ELSE f[n - 1]
  BY RecordsUnfold
<1> HIDE DEF f
<1>2. SUFFICES ASSUME N \in Bad PROVE FALSE
  BY DEF Records, f
<1>3. PICK n \in Bad : \A m \in Bad : n <= m
  <2>1. Bad \in SUBSET Nat /\ Bad # {}
    BY <1>2
  <2> HIDE DEF Bad
  <2> QED BY <2>1, LeastNumber
<1>4. n # 0
  <2>1. PickedAll(xml, f[0], 0)
    BY <1>1 DEF PickedAll
  <2> QED BY <2>1
<1>5. n \in 1..N /\ n - 1 \in 0..N /\ PickedAll(xml, f[n - 1], n - 1)
  BY <1>3, <1>4
<1>6. PICK s : s = f[n - 1]
  OBVIOUS
<1>7. /\ s \in Seq(1..(n - 1)) /\ Len(s) \in Nat
      /\ \A i \in 1..(n - 1) : IsRelationship(xml, i) <=> \E k \in 1..Len(s) : s[k] = i
      /\ \A k, l \in 1..Len(s) : s[k] = s[l] => k = l
      /\ \A k \in 1..Len(s) : s[k] \in 1..(n - 1)
  BY <1>5, <1>6 DEF PickedAll
<1>8. s \in Seq(1..n)
  BY <1>5, <1>7, SeqMonotonic
<1>9. CASE ~IsRelationship(xml, n)
  <2>1. f[n] = s
    BY <1>1, <1>5, <1>6, <1>9
  <2>2. \A i \in 1..n : i = n \/ i \in 1..(n - 1)
    BY <1>5
  <2>3. \A i \in 1..n : IsRelationship(xml, i) <=> \E k \in 1..Len(s) : s[k] = i
    BY <1>5, <1>7, <1>9, <2>2
  <2> QED BY <1>7, <1>8, <2>1, <2>3 DEF PickedAll
<1>10. CASE IsRelationship(xml, n)
  <2> DEFINE t == Append(s, n)
  <2>1. f[n] = t
    BY <1>1, <1>5, <1>6, <1>10
  <2>2. /\ t \in Seq(1..n) /\ Len(t) = Len(s) + 1 /\ t[Len(s) + 1] = n
        /\ \A k \in 1..Len(s) : t[k] = s[k]
    BY <1>5, <1>8
  <2>3. \A k \in 1..Len(t) : k = Len(s) + 1 \/ k \in 1..Len(s)
    BY <2>2, <1>7
  <2> HIDE DEF t
  <2>4. ASSUME NEW i \in 1..n PROVE IsRelationship(xml, i) <=> \E k \in 1..Len(t) : t[k] = i
    <3>1. CASE i = n
      BY <3>1, <1>10, <2>2, <1>7
    <3>2. CASE i \in 1..(n - 1)
      <4>1. \A k \in 1..Len(s) : k \in 1..Len(t)
        BY <2>2, <1>7
      <4>2. n # i
        BY <3>2, <1>5
      <4>3. (\E k \in 1..Len(t) : t[k] = i) <=> \E k \in 1..Len(s) : s[k] = i
        BY <2>2, <2>3, <4>1, <4>2
      <4> QED BY <4>3, <3>2, <1>7
    <3> QED BY <3>1, <3>2, <1>5
  <2>5. ASSUME NEW k \in 1..Len(t), NEW l \in 1..Len(t), t[k] = t[l] PROVE k = l
    <3>1. \A x \in 1..Len(s) : t[x] = s[x] /\ t[x] # n
      BY <2>2, <1>7, <1>5
    <3>2. CASE k \in 1..Len(s) /\ l \in 1..Len(s)
      BY <3>1, <3>2, <2>5, <1>7
    <3>3. CASE k = Len(s) + 1 \/ l = Len(s) + 1
      BY <3>1, <3>3, <2>2, <2>3, <2>5
    <3> QED BY <3>2, <3>3, <2>3
  <2>6. PickedAll(xml, t, n)
    BY <2>2, <2>4, <2>5 DEF PickedAll
  <2> QED BY <2>1, <2>6
<1> QED BY <1>9, <1>10

\* Each relationship of a document is among its records once, and nothing else is.
LEMMA RecordsAreRelationships ==
    ASSUME NEW xml, Parsed(xml)
    PROVE  /\ Records(xml) \in Seq(Nat) /\ Len(Records(xml)) \in Nat
           /\ DOMAIN Records(xml) = 1..Len(Records(xml))
           /\ Range(Records(xml)) = {i \in DOMAIN xml.elements : IsRelationship(xml, i)}
           /\ \A k, l \in DOMAIN Records(xml) : Records(xml)[k] = Records(xml)[l] => k = l
<1>1. Len(xml.elements) \in Nat /\ DOMAIN xml.elements = 1..Len(xml.elements)
  BY DEF Parsed
<1>2. PICK s : s = Records(xml) /\ PickedAll(xml, s, Len(xml.elements))
  BY <1>1, PickedOnce
<1>3. s \in Seq(Nat) /\ Len(s) \in Nat /\ DOMAIN s = 1..Len(s)
      /\ \A k \in 1..Len(s) : s[k] \in 1..Len(xml.elements)
  BY <1>2, <1>1 DEF PickedAll
<1>4. Range(s) = {i \in DOMAIN xml.elements : IsRelationship(xml, i)}
  <2>1. \A i : i \in Range(s) <=> \E k \in 1..Len(s) : s[k] = i
    BY <1>3 DEF Range
  <2>2. \A i \in Range(s) : i \in DOMAIN xml.elements
    BY <2>1, <1>1, <1>3
  <2>3. \A i \in DOMAIN xml.elements : IsRelationship(xml, i) <=> i \in Range(s)
    BY <2>1, <1>1, <1>2 DEF PickedAll
  <2> QED BY <2>2, <2>3
<1> QED BY <1>2, <1>3, <1>4 DEF PickedAll

\* If nothing below the root or below a relationship is unknown, there are only
\* relationships: the first element that is none would be below one or the root.
LEMMA OnlyRelationships ==
    ASSUME NEW xml, Parsed(xml), ~UnknownContent(xml, 1),
           \A i \in DOMAIN xml.elements : IsRelationship(xml, i) => ~UnknownContent(xml, i)
    PROVE  \A j \in DOMAIN xml.elements : j = 1 \/ IsRelationship(xml, j)
<1> DEFINE Bad == {j \in DOMAIN xml.elements : j # 1 /\ ~IsRelationship(xml, j)}
<1>1. DOMAIN xml.elements \in SUBSET Nat
  BY DEF Parsed
<1>2. SUFFICES ASSUME Bad # {} PROVE FALSE
  OBVIOUS
<1>3. PICK j \in Bad : \A k \in Bad : j <= k
  <2>1. Bad \in SUBSET Nat
    BY <1>1
  <2> HIDE DEF Bad
  <2> QED BY <1>2, <2>1, LeastNumber
<1>4. PICK p : p = xml.elements[j].parent
  OBVIOUS
<1>5. p \in 0..(j - 1) /\ p # 0 /\ j \in Nat
  BY <1>1, <1>4 DEF Parsed
<1>6. UnknownContent(xml, p)
  BY <1>4 DEF UnknownContent
<1>7. p \in DOMAIN xml.elements /\ p \notin Bad
  BY <1>3, <1>5 DEF Parsed
<1> QED BY <1>6, <1>7

----------------------------------------------------------------------------
(* The inductive invariant.                                                *)

\* Part i was read to its end, and each of its relationships is in the inventory.
Reading(i) ==
    /\ Candidate(i) /\ Cardinality(Find(package[i].name)) = 1
    /\ package[i].xml.elements # <<>>
    /\ RootStands(package[i].xml) /\ ~UnknownContent(package[i].xml, 1)
    /\ \A e \in Range(Records(package[i].xml)) :
          /\ Relationship(i, e).state \in {"resolved", "external"}
          /\ \E k \in DOMAIN relationships :
                relationships[k].from = i /\ relationships[k].element = e

BudgetInv ==
    /\ left.tokens \in Nat /\ left.values \in Nat
    /\ spent.tokens \in Nat /\ spent.values \in Nat
    /\ spent.tokens + left.tokens <= MaxTokens /\ spent.values + left.values <= MaxValues

RelationshipsInv ==
    /\ relationships \in Seq(Range(relationships)) /\ Len(relationships) <= MaxRelationships
    /\ \A k \in DOMAIN relationships : \A i, e :
          relationships[k].from = i /\ relationships[k].element = e =>
          /\ i \in DOMAIN package /\ i < turn /\ Candidate(i)
          /\ e \in Range(Records(package[i].xml)) /\ relationships[k] = Relationship(i, e)
    /\ \A k, l \in DOMAIN relationships :
          relationships[k].from = relationships[l].from
          /\ relationships[k].element = relationships[l].element => k = l

InventoryInv ==
    /\ inventory \in Seq(Range(inventory))
    /\ \A k \in DOMAIN inventory : \A i : inventory[k].part = i =>
          /\ i \in DOMAIN package /\ i < turn
          /\ inventory[k].state = "completed" => Reading(i)
    /\ \A k, l \in DOMAIN inventory : inventory[k].part = inventory[l].part => k = l
    /\ \A i \in DOMAIN package : Candidate(i) /\ i < turn =>
          \E k \in DOMAIN inventory : inventory[k].part = i

IInv ==
    /\ Package(package) /\ turn \in Nat \ {0}
    /\ BudgetInv /\ RelationshipsInv /\ InventoryInv
    /\ pc \in {"docx", "done"} => turn > Len(package)
    /\ pc \in {"inventory", "docx", "done", "canceled"}
    /\ FormatsUnambiguous

\* What is known of every part of a package.
LEMMA PartFacts ==
    ASSUME Package(package)
    PROVE  /\ Len(package) \in Nat /\ DOMAIN package = 1..Len(package)
           /\ \A i \in DOMAIN package : Parsed(package[i].xml)
           /\ \A i, j \in DOMAIN package : package[i].name = package[j].name => i = j
<1>1. \A i \in DOMAIN package : package[i] \in Range(package)
  BY DEF Range
<1> QED BY <1>1 DEF Package

\* What is looked up in a package does not change with the rest of the state.
LEMMA Steady ==
    ASSUME UNCHANGED package
    PROVE  /\ Files' = Files
           /\ \A name : Find(name)' = Find(name)
           /\ \A i : Candidate(i)' <=> Candidate(i)
           /\ \A i, e : Relationship(i, e)' = Relationship(i, e)
<1>1. Files' = Files
  BY DEF Files
<1>2. ASSUME NEW name PROVE Find(name)' = Find(name)
  BY <1>1 DEF Find
<1>3. \A i : Candidate(i)' <=> Candidate(i)
  BY DEF Candidate
<1>4. ASSUME NEW owner PROVE SourceCode(owner)' = SourceCode(owner)
  BY <1>2 DEF SourceCode, Unless
<1>5. ASSUME NEW owner PROVE Source(owner)' = Source(owner)
  <2>1. package' = package /\ Find(owner)' = Find(owner) /\ SourceCode(owner)' = SourceCode(owner)
    BY <1>2, <1>4
  <2>2. PICK found, code : found = Find(owner) /\ code = SourceCode(owner)
    OBVIOUS
  <2>3. Source(owner) = IF owner = <<>> \/ code # None THEN owner
                        ELSE package[CHOOSE i \in found : TRUE].name
    BY <2>2 DEF Source
  <2>4. Source(owner)' = IF owner = <<>> \/ code # None THEN owner
                         ELSE package'[CHOOSE i \in found : TRUE].name
    BY <2>1, <2>2 DEF Source
  <2> QED BY <2>1, <2>3, <2>4
<1>6. ASSUME NEW target PROVE TargetOutcome(target)' = TargetOutcome(target)
  BY <1>2 DEF TargetOutcome, Unless
<1>7. ASSUME NEW xml, NEW i, NEW owner PROVE Outcome(xml, i, owner)' = Outcome(xml, i, owner)
  BY <1>4, <1>5, <1>6, Zenon DEF Outcome
<1>8. ASSUME NEW i, NEW e PROVE Relationship(i, e)' = Relationship(i, e)
  <2>1. \A xml, owner : Outcome(xml, e, owner)' = Outcome(xml, e, owner)
    BY <1>7
  <2>2. package' = package
    OBVIOUS
  <2> QED BY <2>1, <2>2, Zenon DEF Relationship
<1> QED BY <1>1, <1>2, <1>3, <1>8

----------------------------------------------------------------------------
(* Reading one relationship part.                                          *)

\* A document that fits in its allowance is charged what it used, and one that does
\* not the allowance: never less than it used nor more than is left.
LEMMA ChargeFits ==
    ASSUME BudgetInv, NEW xml, Parsed(xml)
    PROVE  LET a == Allowance
               charge == Charge(xml, a)
               used == Used(xml, a)
           IN  /\ charge.tokens \in Nat /\ charge.values \in Nat
               /\ used.tokens \in Nat /\ used.values \in Nat
               /\ used.tokens <= charge.tokens /\ charge.tokens <= left.tokens
               /\ used.values <= charge.values /\ charge.values <= left.values
<1> DEFINE a == Allowance
           used == Used(xml, a)
<1>1. /\ a.tokens \in Nat /\ a.tokens <= left.tokens
      /\ a.values \in Nat /\ a.values <= left.values
  BY BudgetsAssumption DEF Allowance, Least, BudgetInv
<1> HIDE DEF a
<1>2. /\ used.tokens \in Nat /\ used.tokens <= a.tokens
      /\ used.values \in Nat /\ used.values <= a.values
  BY <1>1 DEF Used, Least, Parsed
<1>3. Charge(xml, a) = used \/ Charge(xml, a) = a
  BY DEF Charge
<1> HIDE DEF used
<1> QED BY <1>1, <1>2, <1>3 DEF BudgetInv, a, used

\* The relationships there is room for are the first of the part's.
LEMMA GatheredFacts ==
    ASSUME Package(package), RelationshipsInv, NEW i \in DOMAIN package
    PROVE  LET records == Records(package[i].xml) IN
           /\ Gathered(i) \in Seq(Range(Gathered(i)))
           /\ Len(Gathered(i)) \in Nat /\ DOMAIN Gathered(i) = 1..Len(Gathered(i))
           /\ Len(relationships) + Len(Gathered(i)) <= MaxRelationships
           /\ Len(Gathered(i)) <= Len(records)
           /\ \A k \in 1..Len(Gathered(i)) :
                /\ Gathered(i)[k] = Relationship(i, records[k])
                /\ k \in DOMAIN records /\ records[k] \in Range(records)
<1> DEFINE records == Records(package[i].xml)
           room == Least(MaxRelationships - Len(relationships), Len(records))
<1>1. Len(records) \in Nat /\ DOMAIN records = 1..Len(records)
  BY PartFacts, RecordsAreRelationships
<1>2. Len(relationships) \in Nat /\ Len(relationships) <= MaxRelationships /\ MaxRelationships \in Nat
  BY BudgetsAssumption DEF RelationshipsInv
<1> HIDE DEF records
<1>3. /\ room \in Nat /\ room <= Len(records)
      /\ Len(relationships) + room <= MaxRelationships
  BY <1>1, <1>2 DEF Least
<1>4. PICK g : g = Gathered(i)
  OBVIOUS
<1> HIDE DEF room
<1>5. g = [k \in 1..room |-> Relationship(i, records[k])]
  BY <1>4, Zenon DEF Gathered, room, records
<1>6. DOMAIN g = 1..room /\ \A k \in 1..room : g[k] = Relationship(i, records[k])
  BY <1>5
<1>7. g \in [1..room -> Range(g)]
  BY <1>5, <1>6 DEF Range
<1>8. g \in Seq(Range(g)) /\ Len(g) = room
  BY <1>3, <1>7
<1>9. \A k \in 1..room : k \in DOMAIN records /\ records[k] \in Range(records)
  BY <1>1, <1>3 DEF Range
<1> QED BY <1>3, <1>4, <1>6, <1>8, <1>9 DEF records

\* A part without a code has been understood whole.
LEMMA PartStands ==
    ASSUME NEW i, PartCode(i) = None
    PROVE  /\ RootStands(package[i].xml) /\ ~UnknownContent(package[i].xml, 1)
           /\ \A r \in Range(Gathered(i)) : r.state \in {"resolved", "external"}
           /\ Len(Gathered(i)) = Len(Records(package[i].xml))
<1> QED BY NoneAssumption DEF PartCode, Unless

\* A part that was read is known to be so for as long as its relationships stay.
LEMMA ReadingStays ==
    ASSUME UNCHANGED package, NEW i, Reading(i),
           \A k \in DOMAIN relationships :
              k \in DOMAIN relationships' /\ relationships'[k] = relationships[k]
    PROVE  Reading(i)'
<1>1. PICK xml : xml = package[i].xml
  OBVIOUS
<1>2. Candidate(i)' /\ Find(package[i].name)' = Find(package[i].name)
  <2>1. PICK name : name = package[i].name
    OBVIOUS
  <2>2. Find(name)' = Find(name) /\ name = package'[i].name
    BY Steady, <2>1
  <2> QED BY <2>1, <2>2, Steady DEF Reading
<1>3. \A e \in Range(Records(xml)) :
        /\ Relationship(i, e)'.state \in {"resolved", "external"}
        /\ \E k \in DOMAIN relationships' :
              relationships'[k].from = i /\ relationships'[k].element = e
  <2> SUFFICES ASSUME NEW e \in Range(Records(xml))
      PROVE  /\ Relationship(i, e)'.state \in {"resolved", "external"}
             /\ \E k \in DOMAIN relationships' :
                   relationships'[k].from = i /\ relationships'[k].element = e
    OBVIOUS
  <2>1. Relationship(i, e)' = Relationship(i, e)
    BY Steady
  <2>2. PICK k \in DOMAIN relationships :
            relationships[k].from = i /\ relationships[k].element = e
    BY <1>1 DEF Reading
  <2>3. Relationship(i, e).state \in {"resolved", "external"}
    BY <1>1 DEF Reading
  <2> QED BY <2>1, <2>2, <2>3
<1>4. package' = package
  OBVIOUS
<1> QED BY <1>1, <1>2, <1>3, <1>4 DEF Reading

\* What the inventory says of the parts before stays true as more is read.
LEMMA InventoryStays ==
    ASSUME IInv, UNCHANGED package, NEW n, n = turn, turn' = n + 1,
           \A k \in DOMAIN relationships :
              k \in DOMAIN relationships' /\ relationships'[k] = relationships[k]
    PROVE  \A k \in DOMAIN inventory : \A i : inventory[k].part = i =>
              /\ i \in DOMAIN package' /\ i < turn' /\ i < n
              /\ inventory[k].state = "completed" => Reading(i)'
<1> SUFFICES ASSUME NEW k \in DOMAIN inventory, NEW i, inventory[k].part = i
    PROVE  /\ i \in DOMAIN package' /\ i < turn' /\ i < n
           /\ inventory[k].state = "completed" => Reading(i)'
  OBVIOUS
<1>1. /\ i \in DOMAIN package /\ i < turn /\ DOMAIN package = 1..Len(package)
      /\ inventory[k].state = "completed" => Reading(i)
  BY PartFacts DEF IInv, InventoryInv
<1>2. i < turn' /\ i < n
  BY <1>1 DEF IInv
<1>3. Reading(i) => Reading(i)'
  BY ReadingStays
<1> QED BY <1>1, <1>2, <1>3

\* A part that is mentioned now was not before, and those before stay mentioned.
LEMMA MentionStep ==
    ASSUME IInv, UNCHANGED package, NEW n \in DOMAIN package, n = turn, turn' = n + 1,
           \A k \in DOMAIN relationships :
              k \in DOMAIN relationships' /\ relationships'[k] = relationships[k],
           NEW r, inventory' = Append(inventory, r), r.part = n,
           r.state = "completed" => Reading(n)'
    PROVE  InventoryInv'
<1>1. inventory \in Seq(Range(inventory)) /\ n \in Nat
  BY PartFacts DEF IInv, InventoryInv
<1>2. PICK old : old = inventory
  OBVIOUS
<1>3. /\ inventory' \in Seq(Range(inventory')) /\ Len(old) \in Nat
      /\ DOMAIN old = 1..Len(old) /\ DOMAIN inventory' = 1..(Len(old) + 1)
      /\ inventory'[Len(old) + 1] = r /\ \A k \in 1..Len(old) : inventory'[k] = old[k]
  <2>1. PICK new : new = Append(old, r)
    OBVIOUS
  <2>2. /\ new \in Seq(Range(new)) /\ Len(old) \in Nat /\ DOMAIN old = 1..Len(old)
        /\ Len(new) = Len(old) + 1 /\ new[Len(old) + 1] = r
        /\ \A k \in 1..Len(old) : new[k] = old[k]
    BY <1>1, <1>2, <2>1, Appended
  <2>3. DOMAIN new = 1..(Len(old) + 1)
    BY <2>2
  <2> QED BY <2>1, <2>2, <2>3, <1>2
<1>4. \A k \in 1..Len(old) : \A i : old[k].part = i =>
        /\ i \in DOMAIN package' /\ i < turn' /\ i < n
        /\ old[k].state = "completed" => Reading(i)'
  BY <1>2, <1>3, InventoryStays
<1>5. ASSUME NEW k \in DOMAIN inventory', NEW i, inventory'[k].part = i
      PROVE  /\ i \in DOMAIN package' /\ i < turn'
             /\ inventory'[k].state = "completed" => Reading(i)'
  <2>1. CASE k \in 1..Len(old)
    BY <1>3, <1>4, <1>5, <2>1
  <2>2. CASE k = Len(old) + 1
    BY <1>1, <1>3, <1>5, <2>2
  <2> QED BY <2>1, <2>2, <1>3
<1>6. ASSUME NEW k \in DOMAIN inventory', NEW l \in DOMAIN inventory',
             inventory'[k].part = inventory'[l].part
      PROVE  k = l
  <2>1. \A x, y \in 1..Len(old) : old[x].part = old[y].part => x = y
    BY <1>2, <1>3 DEF IInv, InventoryInv
  <2>2. \A x \in 1..Len(old) : old[x].part # n
    BY <1>1, <1>4
  <2>3. \A x \in DOMAIN inventory' : x = Len(old) + 1 \/ x \in 1..Len(old)
    BY <1>3
  <2>4. CASE k \in 1..Len(old) /\ l \in 1..Len(old)
    BY <1>3, <1>6, <2>1, <2>4
  <2>5. CASE k = Len(old) + 1 \/ l = Len(old) + 1
    BY <1>3, <1>6, <2>2, <2>3, <2>5
  <2> QED BY <2>3, <2>4, <2>5
<1>7. ASSUME NEW i \in DOMAIN package', Candidate(i)', i < turn'
      PROVE  \E k \in DOMAIN inventory' : inventory'[k].part = i
  <2>1. CASE i = n
    BY <2>1, <1>3
  <2>2. CASE i # n
    <3>1. i \in DOMAIN package /\ Candidate(i) /\ i < turn
      BY <1>7, <2>2, <1>1, Steady, PartFacts DEF IInv
    <3>2. PICK k \in 1..Len(old) : old[k].part = i
      BY <3>1, <1>2, <1>3 DEF IInv, InventoryInv
    <3> QED BY <3>2, <1>3
  <2> QED BY <2>1, <2>2
<1> QED BY <1>3, <1>5, <1>6, <1>7 DEF InventoryInv

\* A part that holds no relationships is passed over.
LEMMA PassStep ==
    ASSUME IInv, UNCHANGED <<package, inventory, relationships>>,
           NEW n \in DOMAIN package, n = turn, turn' = n + 1, ~Candidate(n)
    PROVE  InventoryInv'
<1>1. PICK old : old = inventory
  OBVIOUS
<1>2. \A k \in DOMAIN old : \A i : old[k].part = i =>
        /\ i \in DOMAIN package' /\ i < turn'
        /\ old[k].state = "completed" => Reading(i)'
  BY <1>1, InventoryStays
<1>3. \A k \in DOMAIN inventory' : \A i : inventory'[k].part = i =>
        /\ i \in DOMAIN package' /\ i < turn'
        /\ inventory'[k].state = "completed" => Reading(i)'
  BY <1>1, <1>2
<1>4. ASSUME NEW i \in DOMAIN package', Candidate(i)', i < turn'
      PROVE  \E k \in DOMAIN inventory' : inventory'[k].part = i
  <2>1. i \in DOMAIN package /\ Candidate(i) /\ i < turn
    <3>1. Candidate(i) /\ i \in DOMAIN package /\ i # n
      BY <1>4, Steady
    <3> QED BY <3>1, <1>4, PartFacts DEF IInv
  <2> QED BY <2>1 DEF IInv, InventoryInv
<1> QED BY <1>3, <1>4 DEF IInv, InventoryInv

\* The relationships of the parts before stay as they are.
LEMMA RelationshipsStay ==
    ASSUME IInv, UNCHANGED <<package, relationships>>, turn' = turn \/ turn' = turn + 1
    PROVE  RelationshipsInv'
<1>1. ASSUME NEW k \in DOMAIN relationships', NEW i, NEW e,
             relationships'[k].from = i, relationships'[k].element = e
      PROVE  /\ i \in DOMAIN package' /\ i < turn' /\ Candidate(i)'
             /\ e \in Range(Records(package'[i].xml))
             /\ relationships'[k] = Relationship(i, e)'
  <2>1. /\ i \in DOMAIN package /\ i < turn /\ Candidate(i)
        /\ e \in Range(Records(package[i].xml))
        /\ relationships[k] = Relationship(i, e)
    BY <1>1 DEF IInv, RelationshipsInv
  <2>2. i < turn'
    BY <2>1, PartFacts DEF IInv
  <2> QED BY <2>1, <2>2, Steady
<1> QED BY <1>1 DEF IInv, RelationshipsInv

\* What is gathered of a part follows what is there, and each of it is new.
LEMMA GatherStep ==
    ASSUME IInv, UNCHANGED package, NEW n \in DOMAIN package, n = turn, turn' = n + 1,
           Candidate(n), relationships' = relationships \o Gathered(n)
    PROVE  /\ RelationshipsInv'
           /\ \A k \in DOMAIN relationships :
                k \in DOMAIN relationships' /\ relationships'[k] = relationships[k]
           /\ \A k \in 1..Len(Gathered(n)) : \E l \in DOMAIN relationships' :
                relationships'[l] = Gathered(n)[k]
<1>1. PICK old, new, g, records :
        /\ old = relationships /\ new = relationships' /\ g = Gathered(n)
        /\ records = Records(package[n].xml)
  OBVIOUS
<1>2. /\ g \in Seq(Range(g)) /\ Len(g) \in Nat /\ DOMAIN g = 1..Len(g)
      /\ Len(old) + Len(g) <= MaxRelationships /\ Len(g) <= Len(records)
      /\ \A k \in 1..Len(g) : /\ g[k] = Relationship(n, records[k])
                               /\ k \in DOMAIN records /\ records[k] \in Range(records)
  BY <1>1, GatheredFacts DEF IInv
<1>3. old \in Seq(Range(old)) /\ new = old \o g
  BY <1>1 DEF IInv, RelationshipsInv
<1>4. /\ new \in Seq(Range(new)) /\ Len(new) = Len(old) + Len(g) /\ Len(old) \in Nat
      /\ \A i \in 1..Len(old) : new[i] = old[i]
      /\ \A i \in 1..Len(g) : new[Len(old) + i] = g[i]
  BY <1>2, <1>3, Concatenated
<1>5. DOMAIN old = 1..Len(old) /\ DOMAIN new = 1..(Len(old) + Len(g))
  BY <1>3, <1>4
<1>6. \A k \in DOMAIN old : k \in DOMAIN new /\ new[k] = old[k]
  BY <1>2, <1>4, <1>5
<1>7. \A k \in 1..Len(g) : Len(old) + k \in DOMAIN new /\ new[Len(old) + k] = g[k]
  BY <1>2, <1>4, <1>5
<1>8. \A k \in DOMAIN new : k \in 1..Len(old) \/ (k - Len(old) \in 1..Len(g) /\ k = Len(old) + (k - Len(old)))
  BY <1>2, <1>4, <1>5
<1>9. \A k \in 1..Len(g) : g[k].from = n /\ g[k].element = records[k]
  BY <1>2 DEF Relationship
<1>10. \A k \in 1..Len(old) : \A i, e : old[k].from = i /\ old[k].element = e =>
         /\ i \in DOMAIN package /\ i < n /\ Candidate(i)
         /\ e \in Range(Records(package[i].xml)) /\ old[k] = Relationship(i, e)
  <2>1. RelationshipsInv
    BY DEF IInv
  <2>2. \A k \in DOMAIN relationships : \A i, e :
          relationships[k].from = i /\ relationships[k].element = e =>
          /\ i \in DOMAIN package /\ i < turn /\ Candidate(i)
          /\ e \in Range(Records(package[i].xml)) /\ relationships[k] = Relationship(i, e)
    BY <2>1 DEF RelationshipsInv
  <2> QED BY <1>1, <1>5, <2>2
<1>11. ASSUME NEW k \in DOMAIN new, NEW i, NEW e, new[k].from = i, new[k].element = e
       PROVE  /\ i \in DOMAIN package' /\ i < turn' /\ Candidate(i)'
              /\ e \in Range(Records(package'[i].xml)) /\ new[k] = Relationship(i, e)'
  <2>1. /\ i \in DOMAIN package /\ (i < n \/ i = n) /\ Candidate(i)
        /\ e \in Range(Records(package[i].xml)) /\ new[k] = Relationship(i, e)
    <3>1. CASE k \in 1..Len(old)
      BY <3>1, <1>4, <1>10, <1>11
    <3>2. CASE k - Len(old) \in 1..Len(g) /\ k = Len(old) + (k - Len(old))
      <4>1. PICK l \in 1..Len(g) : new[k] = g[l]
        BY <3>2, <1>7
      <4> QED BY <4>1, <1>1, <1>2, <1>9, <1>11
    <3> QED BY <3>1, <3>2, <1>8
  <2>2. i < turn'
    BY <2>1, PartFacts DEF IInv
  <2> QED BY <2>1, <2>2, Steady
<1>12. ASSUME NEW k \in DOMAIN new, NEW l \in DOMAIN new,
              new[k].from = new[l].from, new[k].element = new[l].element
       PROVE  k = l
  <2>1. ASSUME NEW x \in 1..Len(old) PROVE new[x].from # n
    <3>1. n \in Nat
      <4>1. Package(package)
        BY DEF IInv
      <4> QED BY <4>1, PartFacts
    <3>2. PICK i, e : old[x].from = i /\ old[x].element = e
      OBVIOUS
    <3>3. i \in Nat /\ i < n
      <4>1. i \in DOMAIN package /\ i < n
        BY <3>2, <1>10
      <4>2. Package(package)
        BY DEF IInv
      <4> QED BY <4>1, <4>2, PartFacts
    <3>4. new[x] = old[x]
      BY <1>4
    <3>5. i # n
      BY <3>1, <3>3
    <3> QED BY <3>2, <3>4, <3>5
  <2>2. ASSUME NEW x \in DOMAIN new, x \notin 1..Len(old) PROVE new[x].from = n
    <3>1. PICK y \in 1..Len(g) : x = Len(old) + y
      BY <2>2, <1>8
    <3> QED BY <3>1, <1>7, <1>9
  <2>3. CASE k \in 1..Len(old) /\ l \in 1..Len(old)
    <3>1. \A x, y \in DOMAIN old :
             old[x].from = old[y].from /\ old[x].element = old[y].element => x = y
      <4>1. RelationshipsInv
        BY DEF IInv
      <4> QED BY <4>1, <1>1 DEF RelationshipsInv
    <3> QED BY <3>1, <2>3, <1>4, <1>5, <1>12
  <2>4. CASE k \notin 1..Len(old) /\ l \notin 1..Len(old)
    <3>1. PICK x \in 1..Len(g), y \in 1..Len(g) :
            k = Len(old) + x /\ l = Len(old) + y /\ new[k] = g[x] /\ new[l] = g[y]
      <4>1. PICK x \in 1..Len(g), y \in 1..Len(g) : k = Len(old) + x /\ l = Len(old) + y
        BY <2>4, <1>8
      <4> QED BY <4>1, <1>7
    <3>2. records[x] = records[y]
      BY <3>1, <1>9, <1>12
    <3>3. x = y
      <4>1. Parsed(package[n].xml)
        <5>1. Package(package)
          BY DEF IInv
        <5> QED BY <5>1, PartFacts
      <4>2. \A i, j \in DOMAIN records : records[i] = records[j] => i = j
        BY <4>1, <1>1, RecordsAreRelationships
      <4> QED BY <3>2, <4>2, <1>2
    <3> QED BY <3>1, <3>3
  <2> QED BY <2>1, <2>2, <2>3, <2>4, <1>12
<1>13. RelationshipsInv'
  <2>1. relationships' \in Seq(Range(relationships')) /\ Len(relationships') <= MaxRelationships
    BY <1>1, <1>2, <1>4
  <2>2. \A k \in DOMAIN relationships' : \A i, e :
          relationships'[k].from = i /\ relationships'[k].element = e =>
          /\ i \in DOMAIN package' /\ i < turn' /\ Candidate(i)'
          /\ e \in Range(Records(package'[i].xml)) /\ relationships'[k] = Relationship(i, e)'
    BY <1>1, <1>11
  <2>3. \A k, l \in DOMAIN relationships' :
          relationships'[k].from = relationships'[l].from
          /\ relationships'[k].element = relationships'[l].element => k = l
    BY <1>1, <1>12
  <2> QED BY <2>1, <2>2, <2>3 DEF RelationshipsInv
<1> QED BY <1>1, <1>6, <1>7, <1>13

\* A relationship part is read: it is charged, and what it holds is reported.
LEMMA ReadStep ==
    ASSUME IInv, UNCHANGED package, NEW n \in DOMAIN package, n = turn, turn' = n + 1,
           Candidate(n), Cardinality(Find(package[n].name)) = 1, ReadRelationships(n)
    PROVE  BudgetInv' /\ RelationshipsInv' /\ InventoryInv'
<1> DEFINE xml == package[n].xml
           a == Allowance
<1>1. Parsed(xml)
  BY PartFacts DEF IInv
<1>2. BudgetInv'
  <2> DEFINE charge == Charge(xml, a)
             used == Used(xml, a)
  <2>1. /\ charge.tokens \in Nat /\ charge.values \in Nat
        /\ used.tokens \in Nat /\ used.values \in Nat
        /\ used.tokens <= charge.tokens /\ charge.tokens <= left.tokens
        /\ used.values <= charge.values /\ charge.values <= left.values
    BY <1>1, ChargeFits DEF IInv
  <2>2. /\ left'.tokens = left.tokens - charge.tokens /\ left'.values = left.values - charge.values
        /\ spent'.tokens = spent.tokens + used.tokens /\ spent'.values = spent.values + used.values
    BY DEF ReadRelationships
  <2>3. MaxTokens \in Nat /\ MaxValues \in Nat
    BY BudgetsAssumption
  <2>4. PICK ct, cv, ut, uv : /\ ct = charge.tokens /\ cv = charge.values
                              /\ ut = used.tokens /\ uv = used.values
    OBVIOUS
  <2>5. PICK lt, lv, st, sv : /\ lt = left.tokens /\ lv = left.values
                              /\ st = spent.tokens /\ sv = spent.values
    OBVIOUS
  <2> HIDE DEF charge, used
  <2>6. /\ ct \in Nat /\ cv \in Nat /\ ut \in Nat /\ uv \in Nat
        /\ ut <= ct /\ ct <= lt /\ uv <= cv /\ cv <= lv
        /\ lt \in Nat /\ lv \in Nat /\ st \in Nat /\ sv \in Nat
        /\ st + lt <= MaxTokens /\ sv + lv <= MaxValues
    BY <2>1, <2>4, <2>5 DEF IInv, BudgetInv
  <2>7. /\ lt - ct \in Nat /\ lv - cv \in Nat /\ st + ut \in Nat /\ sv + uv \in Nat
        /\ (st + ut) + (lt - ct) <= MaxTokens /\ (sv + uv) + (lv - cv) <= MaxValues
    BY <2>3, <2>6
  <2>8. /\ left'.tokens = lt - ct /\ left'.values = lv - cv
        /\ spent'.tokens = st + ut /\ spent'.values = sv + uv
    BY <2>2, <2>4, <2>5
  <2> QED BY <2>7, <2>8 DEF BudgetInv
<1>3. CASE ParseCode(xml, a) # None
  <2>1. UNCHANGED relationships /\ inventory' = Report(n, "failed", ParseCode(xml, a))
    BY <1>3 DEF ReadRelationships
  <2>2. RelationshipsInv'
    BY <2>1, RelationshipsStay
  <2>3. PICK r : r = [part |-> n, state |-> "failed", code |-> ParseCode(xml, a)]
    OBVIOUS
  <2>4. inventory' = Append(inventory, r) /\ r.part = n /\ r.state # "completed"
    BY <2>1, <2>3 DEF Report
  <2>5. InventoryInv'
    BY <2>1, <2>4, MentionStep
  <2> QED BY <1>2, <2>2, <2>5
<1>4. CASE ParseCode(xml, a) = None
  <2> DEFINE state == IF PartCode(n) = None THEN "completed"
                      ELSE IF RootStands(xml) THEN "partial" ELSE "failed"
  <2>1. /\ inventory' = Report(n, state, PartCode(n))
        /\ relationships' = IF RootStands(xml) THEN relationships \o Gathered(n) ELSE relationships
    BY <1>4 DEF ReadRelationships
  <2>2. PICK r : r = [part |-> n, state |-> state, code |-> PartCode(n)]
    OBVIOUS
  <2>3. /\ inventory' = Append(inventory, r) /\ r.part = n
        /\ r.state = "completed" => PartCode(n) = None
    BY <2>1, <2>2 DEF Report
  <2>4. /\ RelationshipsInv'
        /\ \A k \in DOMAIN relationships :
              k \in DOMAIN relationships' /\ relationships'[k] = relationships[k]
    <3>1. CASE RootStands(xml)
      BY <3>1, <2>1, GatherStep
    <3>2. CASE ~RootStands(xml)
      BY <3>2, <2>1, RelationshipsStay
    <3> QED BY <3>1, <3>2
  <2>5. ASSUME PartCode(n) = None PROVE Reading(n)'
    <3>1. /\ RootStands(xml) /\ ~UnknownContent(xml, 1)
          /\ \A x \in Range(Gathered(n)) : x.state \in {"resolved", "external"}
          /\ Len(Gathered(n)) = Len(Records(xml))
      BY <2>5, PartStands
    <3>2. xml.elements # <<>>
      BY <1>1, <1>4, NoneAssumption DEF ParseCode, Parsed
    <3>3. PICK g, records, new : g = Gathered(n) /\ records = Records(xml) /\ new = relationships'
      OBVIOUS
    <3>4. /\ DOMAIN g = 1..Len(g) /\ DOMAIN records = 1..Len(g) /\ Len(g) \in Nat
          /\ \A k \in 1..Len(g) : g[k] = Relationship(n, records[k])
      BY <3>1, <3>3, <1>1, GatheredFacts, RecordsAreRelationships DEF IInv
    <3>5. \A k \in 1..Len(g) : \E l \in DOMAIN new : new[l] = g[k]
      BY <2>1, <3>1, <3>3, GatherStep
    <3>6. ASSUME NEW e \in Range(records)
          PROVE  /\ Relationship(n, e).state \in {"resolved", "external"}
                 /\ \E l \in DOMAIN new : new[l].from = n /\ new[l].element = e
      <4>1. PICK k \in 1..Len(g) : g[k] = Relationship(n, e)
        BY <3>4 DEF Range
      <4>2. g[k] \in Range(g) /\ \E l \in DOMAIN new : new[l] = g[k]
        BY <3>4, <3>5 DEF Range
      <4>3. g[k].from = n /\ g[k].element = e
        BY <4>1 DEF Relationship
      <4> QED BY <3>1, <3>3, <4>1, <4>2, <4>3
    <3>7. PICK name : name = package[n].name
      OBVIOUS
    <3>8. Candidate(n)' /\ Find(name)' = Find(name) /\ package' = package
          /\ \A e : Relationship(n, e)' = Relationship(n, e)
      BY Steady
    <3>9. Cardinality(Find(package[n].name))' = 1
      BY <3>7, <3>8
    <3> QED BY <3>1, <3>2, <3>3, <3>6, <3>8, <3>9 DEF Reading
  <2>6. InventoryInv'
    <3> HIDE DEF state, xml
    <3> QED BY <2>3, <2>4, <2>5, MentionStep
  <2> QED BY <1>2, <2>4, <2>6
<1> QED BY <1>3, <1>4

\* A turn of the inventory looks at one part, and leaves out those it cannot read.
LEMMA InspectStep ==
    ASSUME IInv, InspectPart
    PROVE  BudgetInv' /\ RelationshipsInv' /\ InventoryInv' /\ turn' \in Nat \ {0}
<1>1. PICK n : n = turn
  OBVIOUS
<1>2. n \in DOMAIN package /\ turn' = n + 1 /\ UNCHANGED package /\ turn' \in Nat \ {0}
  BY <1>1, PartFacts DEF InspectPart, IInv
<1>3. CASE ~Candidate(n)
  <2>1. UNCHANGED <<package, left, spent, inventory, relationships>>
    BY <1>1, <1>2, <1>3 DEF InspectPart
  <2>2. BudgetInv'
    BY <2>1 DEF IInv, BudgetInv
  <2> QED BY <2>1, <2>2, <1>1, <1>2, <1>3, PassStep, RelationshipsStay
<1>4. ASSUME Candidate(n), NEW state \in {"unsupported", "failed", "not_run"}, NEW code,
             LeaveOut(n, state, code)
      PROVE  BudgetInv' /\ RelationshipsInv' /\ InventoryInv'
  <2>1. UNCHANGED <<left, spent, relationships>>
    BY <1>4 DEF LeaveOut
  <2>2. PICK r : r = [part |-> n, state |-> state, code |-> code]
    OBVIOUS
  <2>3. inventory' = Append(inventory, r) /\ r.part = n /\ r.state # "completed"
    BY <1>4, <2>2 DEF LeaveOut, Report
  <2>4. BudgetInv'
    BY <2>1 DEF IInv, BudgetInv
  <2>5. InventoryInv'
    BY <2>1, <2>3, <1>1, <1>2, MentionStep
  <2> QED BY <2>1, <2>4, <2>5, <1>1, <1>2, RelationshipsStay
<1>5. CASE Candidate(n) /\ Cardinality(Find(package[n].name)) = 1 /\ ReadRelationships(n)
  BY <1>1, <1>2, <1>5, ReadStep
<1>6. \/ ~Candidate(n)
      \/ /\ Candidate(n)
         /\ \/ LeaveOut(n, "unsupported", "opc.relationship_name_unsupported")
            \/ LeaveOut(n, "failed", "opc.relationship_part_ambiguous")
            \/ LeaveOut(n, "not_run", "opc.resource_limit")
            \/ Cardinality(Find(package[n].name)) = 1 /\ ReadRelationships(n)
  BY <1>1 DEF InspectPart
<1> QED BY <1>2, <1>3, <1>4, <1>5, <1>6

----------------------------------------------------------------------------
(* What the inventory promises.                                            *)

\* A relationship with an outcome points out of the package, or at one part.
LEMMA OutcomeFacts ==
    ASSUME NEW xml, NEW e, NEW owner,
           Outcome(xml, e, owner).state \in {"resolved", "external"}
    PROVE  /\ ~UnknownContent(xml, e)
           /\ \/ xml.elements[e].mode = "External" /\ Outcome(xml, e, owner).state = "external"
              \/ LET to == ResolveInternalTarget(Source(owner), xml.elements[e].target)
                 IN  Outcome(xml, e, owner).state = "resolved"
                     /\ Cardinality(Find(to.name)) = 1 /\ Outcome(xml, e, owner).part \in Find(to.name)
<1> DEFINE target == [source |-> Source(owner), to |-> xml.elements[e].target]
           out == Outcome(xml, e, owner)
<1>1. \A state, code : As(state, code).state = state
  BY DEF As
<1>2. \/ out.state \in {"invalid", "unsupported", "unresolved"}
      \/ ~UnknownContent(xml, e) /\ xml.elements[e].mode = "External" /\ out.state = "external"
      \/ ~UnknownContent(xml, e) /\ out = TargetOutcome(target)
  <2> HIDE DEF target
  <2> QED BY <1>1 DEF Outcome, Unless, target
<1>3. CASE out = TargetOutcome(target)
  <2>1. PICK to : to = ResolveInternalTarget(target.source, target.to)
    OBVIOUS
  <2>2. PICK found : found = Find(to.name)
    OBVIOUS
  <2>3. \/ out.state \in {"unresolved", "missing", "ambiguous"}
        \/ /\ found # {} /\ Cardinality(found) = 1
           /\ out = [state |-> "resolved", code |-> None, part |-> CHOOSE i \in found : TRUE]
    BY <1>1, <1>3, <2>1, <2>2 DEF TargetOutcome, Unless
  <2>4. target.source = Source(owner) /\ target.to = xml.elements[e].target
    OBVIOUS
  <2> HIDE DEF target, out
  <2>5. /\ Cardinality(found) = 1 /\ out.state = "resolved" /\ out.part \in found
    <3>1. out.state \in {"resolved", "external"}
      BY DEF out
    <3> QED BY <3>1, <2>3
  <2> QED BY <2>1, <2>2, <2>4, <2>5, <1>2, <1>3 DEF out
<1> QED BY <1>2, <1>3

\* Of a set with one element, each element is all of it.
LEMMA OneElement ==
    ASSUME NEW S, IsFiniteSet(S), Cardinality(S) = 1, NEW x \in S
    PROVE  S = {x}
  BY FS_Singleton

\* The parts of a name are among finitely many.
LEMMA FoundIsFinite ==
    ASSUME Package(package), NEW S, S \subseteq DOMAIN package
    PROVE  IsFiniteSet(S)
<1>1. DOMAIN package = 1..Len(package) /\ Len(package) \in Int /\ 1 \in Int
  BY PartFacts
<1>2. IsFiniteSet(DOMAIN package)
  BY <1>1, FS_Interval
<1> QED BY <1>2, FS_Subset

\* A part that was read to its end holds nothing but relationships, each of which is in
\* the inventory once, pointing out of the package or at the one part it names.
LEMMA ReadingFacts ==
    ASSUME IInv, NEW i \in DOMAIN package, Reading(i),
           NEW e \in DOMAIN package[i].xml.elements,
           package[i].xml.elements[e].name = "Relationship"
    PROVE  /\ IsRelationship(package[i].xml, e)
           /\ \E k \in DOMAIN relationships :
              /\ relationships[k] = Relationship(i, e)
              /\ \A l \in DOMAIN relationships :
                    (relationships[l].from = i /\ relationships[l].element = e) <=> l = k
              /\ \/ /\ package[i].xml.elements[e].mode = "External"
                    /\ relationships[k].state = "external"
                 \/ /\ relationships[k].state = "resolved"
                    /\ Find(ResolveInternalTarget(Source(OwnerOf(package[i].name)),
                               package[i].xml.elements[e].target).name) = {relationships[k].part}
<1> DEFINE xml == package[i].xml
           owner == OwnerOf(package[i].name)
<1>1. Parsed(xml)
  BY PartFacts DEF IInv
<1>2. \A j : Relationship(i, j).state = Outcome(xml, j, owner).state
              /\ Relationship(i, j).part = Outcome(xml, j, owner).part
              /\ Relationship(i, j).from = i /\ Relationship(i, j).element = j
  BY DEF Relationship
<1>3. Range(Records(xml)) = {j \in DOMAIN xml.elements : IsRelationship(xml, j)}
  BY <1>1, RecordsAreRelationships
<1>4. \A j \in DOMAIN xml.elements : IsRelationship(xml, j) => ~UnknownContent(xml, j)
  <2> SUFFICES ASSUME NEW j \in DOMAIN xml.elements, IsRelationship(xml, j)
      PROVE  ~UnknownContent(xml, j)
    OBVIOUS
  <2>1. Relationship(i, j).state \in {"resolved", "external"}
    BY <1>3 DEF Reading
  <2> QED BY <2>1, <1>2, OutcomeFacts
<1>5. e # 1
  BY DEF Reading, RootStands
<1>6. IsRelationship(xml, e)
  <2>1. ~UnknownContent(xml, 1)
    BY DEF Reading
  <2> HIDE DEF xml
  <2>2. \A j \in DOMAIN xml.elements : j = 1 \/ IsRelationship(xml, j)
    BY <1>1, <1>4, <2>1, OnlyRelationships
  <2> QED BY <2>2, <1>5 DEF xml
<1>7. e \in Range(Records(xml))
  BY <1>3, <1>6
<1>8. PICK k \in DOMAIN relationships : relationships[k].from = i /\ relationships[k].element = e
  BY <1>7 DEF Reading
<1>9. relationships[k] = Relationship(i, e)
  BY <1>8 DEF IInv, RelationshipsInv
<1>10. \A l \in DOMAIN relationships :
         (relationships[l].from = i /\ relationships[l].element = e) <=> l = k
  BY <1>8 DEF IInv, RelationshipsInv
<1>11. PICK to : to = ResolveInternalTarget(Source(owner), xml.elements[e].target)
  OBVIOUS
<1>12. Outcome(xml, e, owner).state \in {"resolved", "external"}
  BY <1>2, <1>7 DEF Reading
<1>13. \/ xml.elements[e].mode = "External" /\ relationships[k].state = "external"
       \/ relationships[k].state = "resolved" /\ Cardinality(Find(to.name)) = 1 /\ relationships[k].part \in Find(to.name)
  <2> HIDE DEF xml, owner
  <2> QED BY <1>2, <1>9, <1>11, <1>12, OutcomeFacts
<1>14. IsFiniteSet(Find(to.name))
  BY FoundIsFinite DEF Find, Files, IInv
<1>15. \/ xml.elements[e].mode = "External" /\ relationships[k].state = "external"
       \/ relationships[k].state = "resolved" /\ Find(to.name) = {relationships[k].part}
  BY <1>13, <1>14, OneElement
<1> QED BY <1>6, <1>9, <1>10, <1>11, <1>15

\* The promise of the inventory follows from the invariant.
LEMMA InventoryPromise == IInv => InventoryHonest
<1> SUFFICES ASSUME IInv PROVE InventoryHonest
  OBVIOUS
<1>1. spent.tokens <= MaxTokens /\ spent.values <= MaxValues /\ Len(relationships) <= MaxRelationships
  <2>1. PICK lt, lv, st, sv : /\ lt = left.tokens /\ lv = left.values
                              /\ st = spent.tokens /\ sv = spent.values
    OBVIOUS
  <2>2. /\ lt \in Nat /\ lv \in Nat /\ st \in Nat /\ sv \in Nat
        /\ st + lt <= MaxTokens /\ sv + lv <= MaxValues
    BY <2>1 DEF IInv, BudgetInv
  <2>3. MaxTokens \in Nat /\ MaxValues \in Nat
    BY BudgetsAssumption
  <2>4. st <= MaxTokens /\ sv <= MaxValues
    BY <2>2, <2>3
  <2> QED BY <2>1, <2>4 DEF IInv, RelationshipsInv
<1>2. ASSUME pc = "docx", NEW i \in DOMAIN package, Candidate(i)
      PROVE  \E k \in DOMAIN inventory : \A l \in DOMAIN inventory : inventory[l].part = i <=> l = k
  <2>1. i < turn
    BY <1>2, PartFacts DEF IInv
  <2>2. PICK k \in DOMAIN inventory : inventory[k].part = i
    BY <1>2, <2>1 DEF IInv, InventoryInv
  <2> QED BY <2>2 DEF IInv, InventoryInv
<1>3. ASSUME pc = "docx", InventoryState = "completed", NEW i \in DOMAIN package, Candidate(i)
      PROVE  Reading(i)
  <2>1. PICK k \in DOMAIN inventory : inventory[k].part = i
    BY <1>2, <1>3
  <2>2. inventory[k].state = "completed"
    BY <1>3 DEF InventoryState, Range
  <2> QED BY <2>1, <2>2 DEF IInv, InventoryInv
<1>4. ASSUME pc = "docx", InventoryState = "completed",
             NEW i \in {j \in DOMAIN package : Candidate(j)},
             NEW e \in DOMAIN package[i].xml.elements,
             package[i].xml.elements[e].name = "Relationship"
      PROVE  \E k \in DOMAIN relationships :
                /\ \A l \in DOMAIN relationships :
                      (relationships[l].from = i /\ relationships[l].element = e) <=> l = k
                /\ \/ package[i].xml.elements[e].mode = "External"
                   \/ Find(ResolveInternalTarget(Source(OwnerOf(package[i].name)),
                             package[i].xml.elements[e].target).name)
                        = {relationships[k].part}
  <2>1. i \in DOMAIN package /\ Reading(i)
    BY <1>3, <1>4
  <2> QED BY <2>1, <1>4, ReadingFacts
<1> QED BY <1>1, <1>2, <1>4, Zenon DEF InventoryHonest

----------------------------------------------------------------------------
(* Word documents.                                                         *)

\* What identification has looked at when it calls a package a docx.
LEMMA DocxSteps ==
    ASSUME NEW x, x = Docx, x.format = "docx"
    PROVE  /\ Cardinality(Find(TypesName)) = 1 /\ ParseCode(Types.xml, Limits) = None
           /\ Elements[1].name = "Types" /\ ~Malformed(1)
           /\ RootRead /\ Cardinality(ToDocument) = 1
           /\ \E k \in ToDocument :
                /\ relationships[k].state = "resolved" /\ x.main = relationships[k].part
                /\ Assigned(x.main) /\ TypeOf(x.main) = "document"
           /\ x.state = "completed" => TypesIssues = {}
<1>1. None # "docx" /\ None # "xml.resource_limit"
  BY NoneAssumption
<1>2. PICK issues : issues = TypesIssues \cup AssignIssues
  OBVIOUS
<1>3. \A code, is : Stop(code, is).format = None
  BY DEF Stop, Answer
<1>4. /\ Cardinality(Find(TypesName)) = 1 /\ ParseCode(Types.xml, Limits) = None
      /\ Elements[1].name = "Types" /\ ~Malformed(1) /\ x = Relations(issues)
  <2>1. [Answer(None, None, {}) EXCEPT !.state = "not_applicable"].format = None
    BY DEF Answer
  <2> QED BY <1>1, <1>2, <1>3, <2>1 DEF Docx, Unless
<1>5. RootRead /\ ToDocument # {} /\ Cardinality(ToDocument) = 1 /\ x = Document(issues)
  BY <1>1, <1>3, <1>4 DEF Relations, Unless
<1>6. PICK k : k = CHOOSE j \in ToDocument : TRUE
  OBVIOUS
<1>7. k \in ToDocument
  BY <1>5, <1>6
<1>8. /\ relationships[k].state = "resolved"
      /\ Assigned(relationships[k].part) /\ TypeOf(relationships[k].part) = "document"
      /\ x = Answer("docx", relationships[k].part, issues \cup
               IF InventoryState = "partial"
               THEN {Issue("opc.relationship_inventory_partial", 0)} ELSE {})
  BY <1>1, <1>3, <1>5, <1>6 DEF Document, Unless
<1>9. x.main = relationships[k].part /\ (x.state = "completed" => issues = {})
  BY <1>8 DEF Answer
<1> QED BY <1>2, <1>4, <1>5, <1>7, <1>8, <1>9

\* The relationships of the package name one target, which leads to the document alone.
LEMMA OneTarget ==
    ASSUME IInv, NEW x, x = Docx, x.format = "docx"
    PROVE  /\ Cardinality(Find(RootRels)) = 1
           /\ \E t \in MainTargets : MainTargets = {t}
                 /\ Find(ResolveInternalTarget(<<>>, t).name) = {x.main}
<1>1. PICK i \in DOMAIN package : RootPart(i) /\ Reading(i)
  <2>1. PICK r \in Range(inventory) : RootPart(r.part) /\ r.state = "completed"
    BY DocxSteps DEF RootRead
  <2>2. PICK k \in DOMAIN inventory : inventory[k] = r
    BY DEF Range
  <2> QED BY <2>1, <2>2 DEF IInv, InventoryInv
<1>2. Find(package[i].name) = Find(RootRels)
  BY <1>1 DEF RootPart, Same, Find
<1>3. i \in Find(RootRels)
  BY <1>1, <1>2 DEF Reading, Candidate, Find, Files, Same
<1>4. Find(RootRels) = {i} /\ Cardinality(Find(RootRels)) = 1
  <2>1. Cardinality(Find(RootRels)) = 1
    BY <1>1, <1>2 DEF Reading
  <2>2. IsFiniteSet(Find(RootRels))
    BY FoundIsFinite DEF IInv, Find, Files
  <2> QED BY <2>1, <2>2, <1>3, OneElement
<1>5. OwnerOf(package[i].name) = <<>> /\ Source(OwnerOf(package[i].name)) = <<>>
  BY <1>1 DEF RootPart, OwnerOf, Source
<1> DEFINE xml == package[i].xml
<1>6. RootElements = Range(xml.elements)
  BY <1>4 DEF RootElements
<1>7. PICK k \in ToDocument : relationships[k].state = "resolved" /\ x.main = relationships[k].part
  BY DocxSteps
<1>8. ToDocument = {k}
  <2>1. IsFiniteSet(ToDocument)
    <3>1. DOMAIN relationships = 1..Len(relationships) /\ Len(relationships) \in Int /\ 1 \in Int
      BY DEF IInv, RelationshipsInv
    <3>2. IsFiniteSet(DOMAIN relationships)
      BY <3>1, FS_Interval
    <3> QED BY <3>2, FS_Subset DEF ToDocument
  <2> QED BY <2>1, <1>7, DocxSteps, OneElement
<1>9. PICK from, e : from = relationships[k].from /\ e = relationships[k].element
  OBVIOUS
<1>10. /\ k \in DOMAIN relationships /\ RootPart(from) /\ from \in DOMAIN package /\ Candidate(from)
       /\ e \in Range(Records(package[from].xml)) /\ relationships[k] = Relationship(from, e)
       /\ relationships[k].type \in Variants
  BY <1>7, <1>9 DEF ToDocument, IInv, RelationshipsInv
<1>11. from = i
  <2>1. from \in Find(RootRels)
    BY <1>10 DEF Find, Files, Candidate, RootPart, Same
  <2> QED BY <2>1, <1>4
<1>12. /\ e \in DOMAIN xml.elements /\ IsRelationship(xml, e)
       /\ xml.elements[e].type \in Variants
  <2>1. Parsed(xml)
    BY PartFacts DEF IInv
  <2>2. e \in DOMAIN xml.elements /\ IsRelationship(xml, e)
    BY <2>1, <1>10, <1>11, RecordsAreRelationships
  <2>3. relationships[k].type = xml.elements[e].type
    BY <1>10, <1>11 DEF Relationship
  <2> QED BY <2>2, <2>3, <1>10
<1> DEFINE t == xml.elements[e].target
<1>13. Find(ResolveInternalTarget(<<>>, t).name) = {x.main}
  <2>1. xml.elements[e].name = "Relationship"
    BY <1>12 DEF IsRelationship
  <2>2. PICK l \in DOMAIN relationships :
          /\ \A m \in DOMAIN relationships :
                (relationships[m].from = i /\ relationships[m].element = e) <=> m = l
          /\ \/ relationships[l].state = "external"
             \/ Find(ResolveInternalTarget(Source(OwnerOf(package[i].name)), t).name)
                  = {relationships[l].part}
    BY <2>1, <1>1, <1>12, ReadingFacts
  <2>3. l = k
    BY <2>2, <1>9, <1>10, <1>11
  <2> QED BY <2>2, <2>3, <1>5, <1>7
<1>14. ASSUME NEW j \in DOMAIN xml.elements,
              xml.elements[j].name = "Relationship", xml.elements[j].type \in Variants
       PROVE  j = e
  <2>1. PICK l \in DOMAIN relationships : relationships[l] = Relationship(i, j)
    BY <1>1, <1>14, ReadingFacts
  <2>2. relationships[l].from = i /\ relationships[l].type \in Variants /\ relationships[l].element = j
    BY <2>1, <1>14 DEF Relationship
  <2>3. l \in ToDocument
    BY <2>2, <1>1 DEF ToDocument
  <2> QED BY <2>2, <2>3, <1>8, <1>9
<1>15. MainTargets = {t}
  <2>1. \A y \in RootElements : y.name = "Relationship" /\ y.type \in Variants => y = xml.elements[e]
    BY <1>6, <1>14 DEF Range
  <2>2. /\ xml.elements[e] \in RootElements /\ xml.elements[e].name = "Relationship"
        /\ xml.elements[e].type \in Variants
    BY <1>6, <1>12 DEF Range, IsRelationship
  <2>3. {y \in RootElements : y.name = "Relationship" /\ y.type \in Variants} = {xml.elements[e]}
    BY <2>1, <2>2
  <2> QED BY <2>3 DEF MainTargets
<1> QED BY <1>4, <1>13, <1>15

\* The part whose elements declare types is one of the package's.
LEMMA TypesParsed ==
    ASSUME IInv, NEW x, x = Docx, x.format = "docx"
    PROVE  Parsed(Types.xml) /\ Elements # <<>>
<1>1. Find(TypesName) # {}
  <2>1. Cardinality(Find(TypesName)) = 1
    BY DocxSteps
  <2> QED BY <2>1, FS_EmptySet
<1>2. (CHOOSE i \in Find(TypesName) : TRUE) \in DOMAIN package
  BY <1>1 DEF Find, Files
<1>3. Parsed(Types.xml)
  BY <1>2, PartFacts DEF Types, IInv
<1>4. Types.xml.error = None
  BY DocxSteps, NoneAssumption DEF ParseCode
<1> QED BY <1>3, <1>4 DEF Parsed, Elements

\* An accepted declaration that governs a part is the only one that does: another of its
\* kind for that name would have the same key, and both would be ambiguous.
LEMMA GovernsAlone ==
    ASSUME IInv, NEW name, Parsed(Types.xml), Governing(name) # {}, Accepted(Max(Governing(name)))
    PROVE  Governing(name) = {Max(Governing(name))}
<1>1. PICK top : top = Max(Governing(name))
  OBVIOUS
<1>2. DOMAIN Elements = 1..Len(Elements) /\ Len(Elements) \in Nat
  BY DEF Parsed, Elements
<1>3. Governing(name) \in SUBSET (0..Len(Elements))
  BY <1>2 DEF Governing, OverridesOf, DefaultsOf, Declared
<1>4. top \in Governing(name)
  BY <1>1, <1>2, <1>3, MaxInSet
<1>5. ~NoKey(top) /\ ~Ambiguous(top)
  <2>1. Faults(top) = <<>> /\ ~Ambiguous(top)
    BY <1>1 DEF Accepted
  <2>2. <<"opc.content_types_structure_unknown">> # <<>>
        /\ <<"opc.content_type_required_attribute">> # <<>>
    OBVIOUS
  <2> QED BY <2>1, <2>2 DEF Faults, Unless
<1>6. \A j \in Governing(name) : j \in Declared /\ IsTypeDeclaration(j) /\ KeyOf(j) = KeyOf(top)
  <2>1. CASE OverridesOf(name) # {}
    <3>1. \A j \in OverridesOf(name) :
            /\ j \in Declared /\ IsTypeDeclaration(j) /\ Elements[j].name = "Override"
            /\ Fold(Elements[j].key.segments) = Fold(name)
      BY DEF OverridesOf, Same
    <3> QED BY <2>1, <3>1, <1>4 DEF Governing, KeyOf
  <2>2. CASE OverridesOf(name) = {}
    <3>1. \A j \in DefaultsOf(name) :
            /\ j \in Declared /\ IsTypeDeclaration(j) /\ Elements[j].name = "Default"
            /\ Fold(<< <<Elements[j].key>> >>) = Fold(<< <<Extension(name)>> >>)
      BY DEF DefaultsOf, Same
    <3> QED BY <2>2, <3>1, <1>4 DEF Governing, KeyOf
  <2> QED BY <2>1, <2>2
<1>7. \A j \in Governing(name) : j = top
  BY <1>4, <1>5, <1>6 DEF Ambiguous
<1> QED BY <1>1, <1>4, <1>7

\* A reader who takes every declaration below the root for one hears one type.
LEMMA DeclaredType ==
    ASSUME IInv, NEW x, x = Docx, x.format = "docx"
    PROVE  TypesSaid(x.main, {Elements[i] : i \in {j \in Declared : Elements[j].ns = "types"}})
              = {"document"}
<1> DEFINE name == package[x.main].name
           said == {Elements[i] : i \in {j \in Declared : Elements[j].ns = "types"}}
           overrides == {d \in said : d.name = "Override" /\ Same(d.key.segments, name)}
           defaults == {d \in said : d.name = "Default"
                                     /\ Same(<< <<d.key>> >>, << <<Extension(name)>> >>)}
           chosen == IF overrides # {} THEN overrides ELSE defaults
<1>1. Assigned(x.main) /\ TypeOf(x.main) = "document"
  BY DocxSteps
<1>2. PICK top : /\ Governing(name) = {top} /\ Elements[top].type = "document"
  BY <1>1, TypesParsed, GovernsAlone DEF Assigned, TypeOf
<1>3. overrides = {Elements[i] : i \in OverridesOf(name)}
  <2>1. \A i \in Declared :
          (Elements[i].ns = "types" /\ Elements[i].name = "Override"
             /\ Same(Elements[i].key.segments, name)) <=> i \in OverridesOf(name)
    BY DEF OverridesOf, IsTypeDeclaration
  <2>2. \A i \in OverridesOf(name) : i \in Declared
    BY DEF OverridesOf
  <2> HIDE DEF name
  <2> QED BY <2>1, <2>2
<1>4. chosen = {Elements[top]}
  <2>1. CASE OverridesOf(name) # {}
    <3>1. overrides = {Elements[top]}
      BY <2>1, <1>2, <1>3 DEF Governing
    <3> QED BY <3>1
  <2>2. CASE OverridesOf(name) = {}
    <3>1. DefaultsOf(name) = {top} /\ overrides = {}
      BY <2>2, <1>2, <1>3 DEF Governing
    <3>2. Extension(name) # None
      BY <3>1 DEF DefaultsOf
    <3>3. \A i \in Declared :
            (Elements[i].ns = "types" /\ Elements[i].name = "Default"
               /\ Same(<< <<Elements[i].key>> >>, << <<Extension(name)>> >>)) <=> i \in DefaultsOf(name)
      BY <3>2 DEF DefaultsOf, IsTypeDeclaration
    <3>4. \A i \in DefaultsOf(name) : i \in Declared
      BY DEF DefaultsOf
    <3>5. defaults = {Elements[i] : i \in DefaultsOf(name)}
      <4> HIDE DEF name
      <4> QED BY <3>3, <3>4
    <3>6. defaults = {Elements[top]}
      BY <3>1, <3>5
    <3> QED BY <3>1, <3>6
  <2> QED BY <2>1, <2>2
<1>5. TypesSaid(x.main, said) = {d.type : d \in chosen}
  BY Zenon DEF TypesSaid
<1> HIDE DEF chosen, said
<1>6. {d.type : d \in chosen} = {"document"}
  BY <1>2, <1>4
<1> QED BY <1>5, <1>6 DEF said

\* If nothing is reported of the declarations, there are no others for a careless reader
\* to find: the first element that is none would be below the root or one of them.
LEMMA OnlyDeclarations ==
    ASSUME Parsed(Types.xml), ~Malformed(1), TypesIssues = {}
    PROVE  \A j \in DOMAIN Elements : j = 1 \/ (j \in Declared /\ Elements[j].ns = "types")
<1>1. ASSUME NEW i \in Declared
      PROVE  IsTypeDeclaration(i) /\ ~Malformed(i)
  <2>1. FaultsOf(Declared) = {}
    BY DEF TypesIssues
  <2>2. Range(Faults(i)) = {}
    <3>1. \A S : S \in {{Issue(c, j) : c \in Range(Faults(j))} : j \in Declared} => S = {}
      BY <2>1 DEF FaultsOf
    <3>2. {Issue(c, i) : c \in Range(Faults(i))} = {}
      BY <3>1
    <3> QED BY <3>2
  <2>3. Range(<<"opc.content_types_structure_unknown">>) # {}
    BY DEF Range
  <2> QED BY <2>2, <2>3 DEF Faults, Unless
<1> DEFINE Bad == {j \in DOMAIN Elements : j # 1 /\ j \notin Declared}
<1>2. Bad = {}
  <2> SUFFICES ASSUME Bad # {} PROVE FALSE
    OBVIOUS
  <2>1. PICK j \in Bad : \A k \in Bad : j <= k
    <3>1. Bad \in SUBSET Nat
      BY DEF Parsed, Elements
    <3> HIDE DEF Bad
    <3> QED BY <3>1, LeastNumber
  <2>2. PICK p : p = Elements[j].parent
    OBVIOUS
  <2>3. p \in 0..(j - 1) /\ p # 0 /\ j \in DOMAIN Elements /\ j \in Nat /\ p # 1
    BY <2>2 DEF Parsed, Elements, Declared
  <2>4. p \in DOMAIN Elements /\ p \notin Bad
    BY <2>1, <2>3 DEF Parsed, Elements
  <2>5. p \in Declared /\ Malformed(p)
    BY <2>2, <2>3, <2>4 DEF Malformed
  <2> QED BY <2>5, <1>1
<1> QED BY <1>1, <1>2 DEF IsTypeDeclaration

\* A reader who takes any element for a declaration then hears the same.
LEMMA AnyType ==
    ASSUME IInv, NEW x, x = Docx, x.format = "docx", x.state = "completed"
    PROVE  TypesSaid(x.main, Range(Elements)) = {"document"}
<1> DEFINE said == {Elements[i] : i \in {j \in Declared : Elements[j].ns = "types"}}
<1>1. \A j \in DOMAIN Elements : j = 1 \/ (j \in Declared /\ Elements[j].ns = "types")
  BY TypesParsed, DocxSteps, OnlyDeclarations
<1>2. said \subseteq Range(Elements)
  BY DEF Range, Declared
<1>3. \A d \in Range(Elements) : d.name \in {"Override", "Default"} => d \in said
  BY <1>1, DocxSteps DEF Range
<1> HIDE DEF said
<1>4. /\ \A name : {d \in Range(Elements) : d.name = "Override" /\ Same(d.key.segments, name)}
                    = {d \in said : d.name = "Override" /\ Same(d.key.segments, name)}
      /\ \A ext : {d \in Range(Elements) : d.name = "Default" /\ Same(<< <<d.key>> >>, << <<ext>> >>)}
                   = {d \in said : d.name = "Default" /\ Same(<< <<d.key>> >>, << <<ext>> >>)}
  BY <1>2, <1>3
<1>5. TypesSaid(x.main, Range(Elements)) = TypesSaid(x.main, said)
  BY <1>4, Zenon DEF TypesSaid
<1> QED BY <1>5, DeclaredType DEF said

----------------------------------------------------------------------------
(* OpenDocument texts.                                                     *)

\* What is opaque is an encryption description or below one.  A function that says so
\* exists: that of the least set of elements that has them all.
LEMMA OpaqueUnfolds ==
    ASSUME \A i \in DOMAIN Rows : Rows[i].parent \in Nat, DOMAIN Rows = 1..Len(Rows), Len(Rows) \in Nat
    PROVE  \A i \in Nat :
              Opaque[i] <=> (i > 1 /\ i <= Len(Rows) /\ (Encryption(i) \/ Opaque[Rows[i].parent]))
<1> DEFINE Enters(i, S) == i > 1 /\ i <= Len(Rows) /\ (Encryption(i) \/ Rows[i].parent \in S)
           Closed(S) == \A i \in Nat : Enters(i, S) => i \in S
           Inner == {i \in Nat : \A S \in SUBSET Nat : Closed(S) => i \in S}
           Unfolds(f) == f = [i \in Nat |->
              i > 1 /\ i <= Len(Rows) /\ (Encryption(i) \/ f[Rows[i].parent])]
           inner == [i \in Nat |-> i \in Inner]
<1>1. ASSUME NEW i \in Nat, Enters(i, Inner) PROVE i \in Inner
  <2> SUFFICES ASSUME NEW S \in SUBSET Nat, Closed(S) PROVE i \in S
    OBVIOUS
  <2>1. \A k \in Inner : k \in S
    OBVIOUS
  <2> HIDE DEF Inner
  <2>2. Enters(i, S)
    BY <1>1, <2>1
  <2> QED BY <2>2
<1>2. ASSUME NEW i \in Inner PROVE Enters(i, Inner)
  <2> SUFFICES ASSUME ~Enters(i, Inner) PROVE FALSE
    OBVIOUS
  <2>1. i \in Nat
    OBVIOUS
  <2>2. ASSUME NEW k \in Nat, Enters(k, Inner \ {i}) PROVE k \in Inner \ {i}
    <3> HIDE DEF Inner
    <3>1. Enters(k, Inner)
      BY <2>2
    <3>2. k \in Inner
      BY <3>1, <1>1
    <3> QED BY <3>1, <3>2
  <2>3. Closed(Inner \ {i}) /\ Inner \ {i} \in SUBSET Nat
    BY <2>2
  <2>4. i \in Inner \ {i}
    <3> HIDE DEF Closed
    <3> QED BY <2>3
  <2> QED BY <2>4
<1>3. Unfolds(inner)
  <2>1. \A i \in Nat : i \in Inner <=> Enters(i, Inner)
    BY <1>1, <1>2
  <2>2. \A i \in Nat : inner[i] = (i \in Inner)
    OBVIOUS
  <2>3. \A i \in Nat : i > 1 /\ i <= Len(Rows) => Rows[i].parent \in Nat
    OBVIOUS
  <2> HIDE DEF Inner
  <2>4. \A i \in Nat : (i \in Inner)
           = (i > 1 /\ i <= Len(Rows) /\ (Encryption(i) \/ inner[Rows[i].parent]))
    <3> SUFFICES ASSUME NEW i \in Nat
        PROVE (i \in Inner) = (i > 1 /\ i <= Len(Rows) /\ (Encryption(i) \/ inner[Rows[i].parent]))
      OBVIOUS
    <3>1. i > 1 /\ i <= Len(Rows) => inner[Rows[i].parent] = (Rows[i].parent \in Inner)
      <4> HIDE DEF inner
      <4> QED BY <2>2, <2>3
    <3>2. i \in Inner <=> Enters(i, Inner)
      BY <2>1
    <3> HIDE DEF inner, Inner
    <3>3. i > 1 /\ i <= Len(Rows) => (inner[Rows[i].parent] <=> Rows[i].parent \in Inner)
      BY <3>1
    <3>4. i \in Inner <=> (i > 1 /\ i <= Len(Rows) /\ (Encryption(i) \/ inner[Rows[i].parent]))
      BY <3>2, <3>3, Zenon
    <3> QED BY <3>4
  <2> QED BY <2>4, Zenon
<1>4. Unfolds(Opaque)
  <2>1. Opaque = CHOOSE f : Unfolds(f)
    BY Zenon DEF Opaque
  <2> HIDE DEF Unfolds
  <2> QED BY <1>3, <2>1
<1>5. \A i \in Nat : Opaque[i] = (i > 1 /\ i <= Len(Rows) /\ (Encryption(i) \/ Opaque[Rows[i].parent]))
  BY <1>4, Zenon
<1> QED BY <1>5, Zenon

\* What identification has looked at when it calls a package an odt.
LEMMA OdtSteps ==
    ASSUME NEW x, x = Odt, x.format = "odt"
    PROVE  /\ Present(ManifestName) /\ ParseCode(The(ManifestName).xml, Limits) = None
           /\ \E root \in EntriesFor(RootPath), content \in EntriesFor(Path(ContentName, FALSE)) :
                /\ Rows[root].type = "odt"
                /\ ~Encrypted(content) /\ EntryState(content) = "resolved" /\ Rows[content].type = "text/xml"
           /\ x.main = (CHOOSE i \in At(ContentName) : TRUE)
           /\ x.state = "completed" => ManifestIssues = {} /\ MembershipIssues = {}
<1>1. None # "odt"
  BY NoneAssumption
<1>2. PICK issues : issues = ManifestIssues \cup MembershipIssues
  OBVIOUS
<1>3. \A code, is : Stop(code, is).format = None
  BY DEF Stop, Answer
<1>4. /\ Present(ManifestName) /\ ParseCode(The(ManifestName).xml, Limits) = None
      /\ x = Manifest(issues)
  <2>1. [Answer(None, None, {}) EXCEPT !.state = "not_applicable"].format = None
    BY DEF Answer
  <2> QED BY <1>1, <1>2, <1>3, <2>1 DEF Odt, Unless
<1>5. PICK roots, contents : roots = EntriesFor(RootPath) /\ contents = EntriesFor(Path(ContentName, FALSE))
  OBVIOUS
<1>6. PICK root, content : root = (CHOOSE i \in roots : TRUE) /\ content = (CHOOSE i \in contents : TRUE)
  OBVIOUS
<1>7. /\ roots # {} /\ Rows[root].type = "odt" /\ contents # {}
      /\ ~Encrypted(content) /\ EntryState(content) = "resolved" /\ Rows[content].type = "text/xml"
      /\ x = Content(issues)
  BY <1>1, <1>3, <1>4, <1>5, <1>6 DEF Manifest, Unless
<1>8. root \in roots /\ content \in contents
  BY <1>6, <1>7
<1>9. x = Answer("odt", CHOOSE i \in At(ContentName) : TRUE, issues)
  BY <1>1, <1>3, <1>7 DEF Content, Unless
<1>10. x.main = (CHOOSE i \in At(ContentName) : TRUE) /\ (x.state = "completed" => issues = {})
  BY <1>9 DEF Answer
<1> QED BY <1>2, <1>4, <1>5, <1>7, <1>8, <1>10

\* The manifest is a document of the package.
LEMMA ManifestParsed ==
    ASSUME IInv, NEW x, x = Odt, x.format = "odt"
    PROVE  /\ DOMAIN Rows = 1..Len(Rows) /\ Len(Rows) \in Nat
           /\ \A j \in DOMAIN Rows : Rows[j].parent \in Nat /\ (j = 1 => Rows[j].parent = 0)
<1>1. (CHOOSE i \in At(ManifestName) : TRUE) \in DOMAIN package
  BY OdtSteps DEF Present, At, Files
<1>2. Parsed(The(ManifestName).xml)
  BY <1>1, PartFacts DEF The, IInv
<1> QED BY <1>2 DEF Parsed, Rows

\* An entry that is taken for what it declares has no rival.
LEMMA NoRivals ==
    ASSUME NEW path, path # NoPath, NEW i \in EntriesFor(path)
    PROVE  {j \in DOMAIN Rows : IsEntry(j) /\ Rows[j].parent = 1 /\ Rows[j].path = path} = {i}
<1>1. i \in Listed /\ IsEntry(i) /\ ~Contested(i) /\ Rows[i].path = path
  BY DEF EntriesFor, Declares
<1>2. Rivals(i) = {}
  BY <1>1 DEF Contested
<1>3. i \in DOMAIN Rows /\ Rows[i].parent = 1
  BY <1>1 DEF Listed
<1>4. \A j \in DOMAIN Rows : IsEntry(j) /\ Rows[j].parent = 1 /\ Rows[j].path = path => j = i
  BY <1>1, <1>2 DEF Rivals, Listed
<1> QED BY <1>1, <1>3, <1>4

\* The paths of the package and of its content are not the empty one.
LEMMA PathsDiffer == RootPath # NoPath /\ Path(ContentName, FALSE) # NoPath
<1>1. ContentName # <<>>
  BY DEF ContentName
<1> QED BY <1>1 DEF RootPath, NoPath, Path

\* No two stored parts have the name of the content.
LEMMA OneAtName ==
    ASSUME IInv, NEW name, Present(name)
    PROVE  \E k \in Files : At(name) = {k} /\ The(name) = package[k] /\ k = (CHOOSE i \in At(name) : TRUE)
<1>1. PICK k : k = (CHOOSE i \in At(name) : TRUE)
  OBVIOUS
<1>2. k \in At(name)
  BY <1>1 DEF Present
<1>3. \A j \in At(name) : j = k
  BY <1>2, PartFacts DEF At, Files, IInv
<1> QED BY <1>1, <1>2, <1>3 DEF At, The

\* The entries for the package and for its content agree on what they are, and the
\* content is stored, in the clear and of the size it is said to have.
LEMMA OdtEntries ==
    ASSUME IInv, NEW x, x = Odt, x.format = "odt",
           NEW roots, roots = {i \in DOMAIN Rows : IsEntry(i) /\ Rows[i].parent = 1 /\ Rows[i].path = RootPath},
           NEW here, here = {i \in DOMAIN Rows : IsEntry(i) /\ Rows[i].parent = 1
                                                /\ Rows[i].path = Path(ContentName, FALSE)}
    PROVE  /\ {Rows[i].type : i \in roots} = {"odt"}
           /\ {Rows[i].type : i \in here} = {"text/xml"}
           /\ \A i \in here, j \in DOMAIN Rows : Rows[j].parent = i => Rows[j].name # "encryption-data"
           /\ At(ContentName) = {x.main}
           /\ \A i \in here : Rows[i].size \in {None, package[x.main].size}
<1>1. PICK root \in EntriesFor(RootPath), content \in EntriesFor(Path(ContentName, FALSE)) :
        /\ Rows[root].type = "odt"
        /\ ~Encrypted(content) /\ EntryState(content) = "resolved" /\ Rows[content].type = "text/xml"
  BY OdtSteps
<1>2. roots = {root} /\ here = {content}
  BY NoRivals, PathsDiffer
<1>3. {Rows[i].type : i \in roots} = {"odt"} /\ {Rows[i].type : i \in here} = {"text/xml"}
  BY <1>1, <1>2
<1>4. /\ DOMAIN Rows = 1..Len(Rows) /\ Len(Rows) \in Nat
      /\ \A j \in DOMAIN Rows : Rows[j].parent \in Nat /\ (j = 1 => Rows[j].parent = 0)
  BY ManifestParsed
<1>5. content \in DOMAIN Rows /\ Rows[content].parent = 1 /\ content # 1 /\ content \in Nat
  BY <1>4 DEF EntriesFor, Listed
<1>6. ~Opaque[content]
  <2>1. ~Encryption(content)
    BY <1>5 DEF Encryption
  <2>2. ~Opaque[1] /\ (Opaque[content] => Encryption(content) \/ Opaque[1])
    BY <1>4, <1>5, OpaqueUnfolds
  <2> QED BY <2>1, <2>2
<1>7. ~Unread(content)
  <2>1. EntryFault(content) = None
    BY DEF EntriesFor, Declares
  <2> QED BY <2>1, NoneAssumption DEF EntryFault, Unless
<1>8. ASSUME NEW j \in DOMAIN Rows, Rows[j].parent = content PROVE FALSE
  <2>1. Opaque[j]
    BY <1>5, <1>7, <1>8 DEF Unread
  <2>2. Encryption(j)
    BY <2>1, <1>4, <1>6, <1>8, OpaqueUnfolds
  <2> QED BY <2>2, <1>1, <1>8 DEF Encrypted
<1>9. Rows[content].path = Path(ContentName, FALSE)
  BY DEF EntriesFor
<1>10. Stored(content) /\ SizeAgrees(content)
  <2>1. EntryState(content) = IF Reach(content) = "resolved" => SizeAgrees(content)
                              THEN Reach(content) ELSE "unresolved"
    BY <1>1 DEF EntryState, Unless
  <2>2. Reach(content) = "resolved" /\ SizeAgrees(content)
    BY <1>1, <2>1
  <2> QED BY <2>2 DEF Reach
<1>11. Present(ContentName) /\ Rows[content].size \in {None, The(ContentName).size}
  BY <1>9, <1>10 DEF Stored, SizeAgrees, Path
<1>12. At(ContentName) = {x.main} /\ The(ContentName) = package[x.main]
  <2>1. PICK k : /\ At(ContentName) = {k} /\ The(ContentName) = package[k]
                 /\ k = (CHOOSE i \in At(ContentName) : TRUE)
    BY <1>11, OneAtName
  <2>2. x.main = k
    BY <2>1, OdtSteps
  <2> QED BY <2>1, <2>2
<1> QED BY <1>2, <1>3, <1>8, <1>11, <1>12

\* If nothing is reported, each entry is taken for what it declares, no two for one
\* path, and what is an entry for a file is stored.
LEMMA OdtComplete ==
    ASSUME ManifestIssues = {}, MembershipIssues = {}, NEW i \in Members
    PROVE  /\ ValidPath(Rows[i].path) /\ ~Contested(i)
           /\ Rows[i].path.slash \/ Present(Rows[i].path.segments)
<1>1. i \in Listed /\ IsEntry(i)
  BY DEF Members
<1>2. EntryFault(i) = None
  <2>1. FaultsAmong(Listed) = {}
    BY DEF ManifestIssues
  <2>2. \A j \in Listed : EntryFault(j) # None => Issue(EntryFault(j), j) \in FaultsAmong(Listed)
    BY Zenon DEF FaultsAmong
  <2> QED BY <2>1, <2>2, <1>1
<1>3. ~Contested(i)
  <2>1. \A j \in Listed : Contested(j) => Issue("odt.manifest_path_ambiguous", j) \in ManifestIssues
    BY Zenon DEF ManifestIssues
  <2> QED BY <2>1, <1>1
<1>4. ValidPath(Rows[i].path)
  BY <1>2, NoneAssumption DEF EntryFault, Unless
<1>5. EntryState(i) \in {"package", "resolved", "directory"}
  <2>1. Declares(i)
    BY <1>1, <1>2, <1>3 DEF Declares
  <2>2. \A j \in Members : Declares(j) /\ EntryState(j) \notin {"package", "resolved", "directory"} =>
            Issue(EntryState(j), j) \in MembershipIssues
    BY Zenon DEF MembershipIssues
  <2> QED BY <2>1, <2>2
<1>6. Reach(i) \in {"package", "resolved", "directory"}
  BY <1>5 DEF EntryState, EncryptedState, Unless
<1>7. Rows[i].path.slash \/ Present(Rows[i].path.segments)
  BY <1>6 DEF Reach, Stored, RootPath, Path
<1> QED BY <1>3, <1>4, <1>7

\* If nothing is reported, every file that must be listed is, once.
LEMMA OdtMembers ==
    ASSUME ManifestIssues = {}, MembershipIssues = {}, NEW p \in Files, ~Exempt(package[p].name)
    PROVE  Cardinality({i \in Members : Rows[i].path = Path(package[p].name, FALSE)}) = 1
<1> DEFINE path == Path(package[p].name, FALSE)
<1>1. Unlisted = {}
  <2>1. {Issue("odt.part_unlisted", q) : q \in Unlisted} = {}
    BY DEF MembershipIssues
  <2> QED BY <2>1
<1>2. PICK i \in Members : Rows[i].path = path
  BY <1>1 DEF Unlisted
<1>3. path # NoPath
  <2>1. ValidPath(path)
    BY <1>2, OdtComplete
  <2>2. path.slash = FALSE /\ path.segments = package[p].name
    BY DEF Path
  <2> QED BY <2>1, <2>2 DEF ValidPath, RootPath, NoPath, Path
<1> HIDE DEF path
<1>4. Rivals(i) = {} /\ i \in Listed
  BY <1>2, <1>3, OdtComplete DEF Contested, Members
<1>5. \A j \in Members : Rows[j].path = path => j = i
  BY <1>2, <1>4 DEF Rivals, Members
<1>6. {j \in Members : Rows[j].path = path} = {i}
  BY <1>2, <1>5
<1> QED BY <1>6, FS_Singleton DEF path

----------------------------------------------------------------------------
(* Every step keeps the invariant.                                         *)

\* What a docx promises, of answer x.
DocxPromise(x) ==
    x.format = "docx" =>
         /\ Cardinality(Find(TypesName)) = 1 /\ Cardinality(Find(RootRels)) = 1
         /\ \E t \in MainTargets : MainTargets = {t}
                /\ Find(ResolveInternalTarget(<<>>, t).name) = {x.main}
         /\ TypesSaid(x.main, {Elements[i] : i \in {j \in Declared : Elements[j].ns = "types"}})
               = {"document"}
         /\ x.state = "completed" => TypesSaid(x.main, Range(Elements)) = {"document"}

\* What an odt promises, of answer x.
OdtPromise(x) ==
    x.format = "odt" =>
         LET entries(path) == {i \in DOMAIN Rows : IsEntry(i) /\ Rows[i].parent = 1
                                                     /\ Rows[i].path = path}
             here == entries(Path(ContentName, FALSE))
         IN  /\ {Rows[i].type : i \in entries(RootPath)} = {"odt"}
             /\ {Rows[i].type : i \in here} = {"text/xml"}
             /\ \A i \in here, j \in DOMAIN Rows : Rows[j].parent = i => Rows[j].name # "encryption-data"
             /\ At(ContentName) = {x.main}
             /\ \A i \in here : Rows[i].size \in {None, package[x.main].size}
             /\ x.state = "completed" =>
                  /\ \A p \in Files : Exempt(package[p].name) \/
                        Cardinality({i \in Members : Rows[i].path = Path(package[p].name, FALSE)}) = 1
                  /\ \A i \in Members : Rows[i].path.slash \/ Present(Rows[i].path.segments)

\* The answer about a Word document keeps its promise.
LEMMA DocxKept == IInv => DocxPromise(Docx)
<1> SUFFICES ASSUME IInv, NEW x, x = Docx, x.format = "docx" PROVE DocxPromise(x)
  BY DEF DocxPromise
<1> QED BY DocxSteps, OneTarget, DeclaredType, AnyType, Zenon DEF DocxPromise

\* The answer about an OpenDocument text keeps its promise.
LEMMA OdtKept == IInv => OdtPromise(Odt)
<1> SUFFICES ASSUME IInv, NEW x, x = Odt, x.format = "odt" PROVE OdtPromise(x)
  BY DEF OdtPromise
<1>1. PICK roots, here :
        /\ roots = {i \in DOMAIN Rows : IsEntry(i) /\ Rows[i].parent = 1 /\ Rows[i].path = RootPath}
        /\ here = {i \in DOMAIN Rows : IsEntry(i) /\ Rows[i].parent = 1
                                       /\ Rows[i].path = Path(ContentName, FALSE)}
  OBVIOUS
<1>2. /\ {Rows[i].type : i \in roots} = {"odt"}
      /\ {Rows[i].type : i \in here} = {"text/xml"}
      /\ \A i \in here, j \in DOMAIN Rows : Rows[j].parent = i => Rows[j].name # "encryption-data"
      /\ At(ContentName) = {x.main}
      /\ \A i \in here : Rows[i].size \in {None, package[x.main].size}
  BY <1>1, OdtEntries, ZenonT(60)
<1>3. x.state = "completed" =>
        /\ \A p \in Files : Exempt(package[p].name) \/
              Cardinality({i \in Members : Rows[i].path = Path(package[p].name, FALSE)}) = 1
        /\ \A i \in Members : Rows[i].path.slash \/ Present(Rows[i].path.segments)
  BY OdtSteps, OdtComplete, OdtMembers, Zenon
<1> QED BY <1>1, <1>2, <1>3, Zenon DEF OdtPromise

\* A package that has been offered has not been looked at.
LEMMA InitInv == Init => IInv
<1> SUFFICES ASSUME Init PROVE IInv
  OBVIOUS
<1>1. Package(package) /\ turn = 1 /\ inventory = <<>> /\ relationships = <<>> /\ pc = "inventory"
  BY DEF Init, OpcInit
<1>2. BudgetInv
  BY BudgetsAssumption DEF Init, OpcInit, BudgetInv
<1>3. RelationshipsInv
  BY <1>1, BudgetsAssumption DEF RelationshipsInv
<1>4. InventoryInv
  BY <1>1, PartFacts DEF InventoryInv
<1> QED BY <1>1, <1>2, <1>3, <1>4 DEF IInv, FormatsUnambiguous

\* What has been gathered stays when nothing is inspected.
LEMMA GatheredStays ==
    ASSUME IInv, UNCHANGED opcVars
    PROVE  BudgetInv' /\ RelationshipsInv' /\ InventoryInv' /\ Package(package)' /\ turn' = turn
<1>1. UNCHANGED <<package, turn, left, spent, inventory, relationships>>
  BY DEF opcVars
<1>2. RelationshipsInv'
  BY <1>1, RelationshipsStay
<1>3. InventoryInv'
  <2>1. \A i : Reading(i) => Reading(i)'
    BY <1>1, ReadingStays
  <2> QED BY <1>1, <2>1, Steady, Zenon DEF IInv, InventoryInv
<1>4. BudgetInv' /\ Package(package)'
  BY <1>1 DEF IInv, BudgetInv, Package
<1> QED BY <1>1, <1>2, <1>3, <1>4

\* The promise about an answer does not depend on where the call is.
LEMMA DocxPromiseStays ==
    ASSUME UNCHANGED package, NEW x, DocxPromise(x)
    PROVE  DocxPromise(x)'
<1>1. Files' = Files /\ \A name : Find(name)' = Find(name)
  BY Steady
<1>2. Types' = Types /\ Elements' = Elements
  BY <1>1, Zenon DEF Types, Elements
<1>3. Declared' = Declared
  BY <1>2 DEF Declared
<1>4. MainTargets' = MainTargets
  BY <1>1 DEF MainTargets, RootElements
<1>5. \A said : TypesSaid(x.main, said)' = TypesSaid(x.main, said)
  BY Zenon DEF TypesSaid
<1> QED BY <1>1, <1>2, <1>3, <1>4, <1>5 DEF DocxPromise

\* The same of an odt.
LEMMA OdtPromiseStays ==
    ASSUME UNCHANGED package, NEW x, OdtPromise(x)
    PROVE  OdtPromise(x)'
<1> SUFFICES ASSUME x.format = "odt" PROVE OdtPromise(x)'
  BY DEF OdtPromise
<1>1. Files' = Files /\ package' = package
  BY Steady
<1>2. \A name : At(name)' = At(name)
  BY <1>1 DEF At
<1>3. Rows' = Rows
  BY <1>1, <1>2, Zenon DEF Rows, The
<1>4. \A i : IsEntry(i)' <=> IsEntry(i)
  BY <1>3 DEF IsEntry
<1>5. Members' = Members
  BY <1>3, <1>4 DEF Members, Listed
<1>6. PICK roots, here :
        /\ roots = {i \in DOMAIN Rows : IsEntry(i) /\ Rows[i].parent = 1 /\ Rows[i].path = RootPath}
        /\ here = {i \in DOMAIN Rows : IsEntry(i) /\ Rows[i].parent = 1
                                       /\ Rows[i].path = Path(ContentName, FALSE)}
  OBVIOUS
<1>7. /\ roots = {i \in DOMAIN Rows' : IsEntry(i)' /\ Rows'[i].parent = 1 /\ Rows'[i].path = RootPath}
      /\ here = {i \in DOMAIN Rows' : IsEntry(i)' /\ Rows'[i].parent = 1
                                      /\ Rows'[i].path = Path(ContentName, FALSE)}
  BY <1>3, <1>4, <1>6
<1>8. /\ {Rows[i].type : i \in roots} = {"odt"}
      /\ {Rows[i].type : i \in here} = {"text/xml"}
      /\ \A i \in here, j \in DOMAIN Rows : Rows[j].parent = i => Rows[j].name # "encryption-data"
      /\ At(ContentName) = {x.main}
      /\ \A i \in here : Rows[i].size \in {None, package[x.main].size}
      /\ x.state = "completed" =>
           /\ \A p \in Files : Exempt(package[p].name) \/
                 Cardinality({i \in Members : Rows[i].path = Path(package[p].name, FALSE)}) = 1
           /\ \A i \in Members : Rows[i].path.slash \/ Present(Rows[i].path.segments)
  BY <1>6, Zenon DEF OdtPromise
<1>9. {Rows'[i].type : i \in roots} = {"odt"} /\ {Rows'[i].type : i \in here} = {"text/xml"}
  BY <1>3, <1>8
<1>10. x.state = "completed" =>
           /\ \A p \in Files' : Exempt(package'[p].name) \/
                 Cardinality({i \in Members' : Rows'[i].path = Path(package'[p].name, FALSE)}) = 1
           /\ \A i \in Members' : (Rows[i].path.slash \/ Present(Rows[i].path.segments))'
  <2> SUFFICES ASSUME x.state = "completed"
      PROVE /\ \A p \in Files' : Exempt(package'[p].name) \/
                 Cardinality({i \in Members' : Rows'[i].path = Path(package'[p].name, FALSE)}) = 1
            /\ \A i \in Members' : (Rows[i].path.slash \/ Present(Rows[i].path.segments))'
    OBVIOUS
  <2>1. \A p \in Files : {i \in Members' : Rows'[i].path = Path(package'[p].name, FALSE)}
                            = {i \in Members : Rows[i].path = Path(package[p].name, FALSE)}
    BY <1>1, <1>3, <1>5
  <2>2. \A i \in Members' : (Rows[i].path.slash \/ Present(Rows[i].path.segments))'
    <3> SUFFICES ASSUME NEW i \in Members' PROVE (Rows[i].path.slash \/ Present(Rows[i].path.segments))'
      OBVIOUS
    <3>1. PICK name : name = Rows[i].path.segments
      OBVIOUS
    <3>2. i \in Members /\ (Rows[i].path.slash \/ At(name) # {})
      BY <1>5, <1>8, <3>1 DEF Present
    <3>3. name = Rows'[i].path.segments /\ At(name)' = At(name) /\ Rows'[i].path.slash = Rows[i].path.slash
      BY <1>2, <1>3, <3>1
    <3> QED BY <3>2, <3>3 DEF Present, At
  <2> QED BY <1>1, <1>8, <2>1, <2>2
<1>11. /\ \A i \in here, j \in DOMAIN Rows' : Rows'[j].parent = i => Rows'[j].name # "encryption-data"
       /\ At(ContentName)' = {x.main}
       /\ \A i \in here : Rows'[i].size \in {None, package'[x.main].size}
  BY <1>1, <1>2, <1>3, <1>8
<1> QED BY <1>7, <1>9, <1>10, <1>11, Zenon DEF OdtPromise

\* A step to the next answer keeps what was found before.
LEMMA StepInv == IInv /\ [Next]_vars => IInv'
<1> SUFFICES ASSUME IInv, [Next]_vars PROVE IInv'
  OBVIOUS
<1>1. CASE Inventory
  <2>1. pc = "inventory" /\ pc' = "inventory" /\ InspectPart
    BY <1>1 DEF Inventory
  <2>2. BudgetInv' /\ RelationshipsInv' /\ InventoryInv' /\ turn' \in Nat \ {0}
    BY <2>1, InspectStep
  <2>3. Package(package)'
    BY <2>1 DEF InspectPart, IInv, Package
  <2>4. FormatsUnambiguous'
    BY <2>1 DEF FormatsUnambiguous
  <2> QED BY <2>1, <2>2, <2>3, <2>4 DEF IInv
<1>2. CASE IdentifyDocx
  <2>1. UNCHANGED opcVars /\ pc' = "docx" /\ docx' = Docx /\ turn > Len(package)
    BY <1>2 DEF IdentifyDocx, Inspected
  <2>2. BudgetInv' /\ RelationshipsInv' /\ InventoryInv' /\ Package(package)' /\ turn' = turn /\ package' = package
    BY <2>1, GatheredStays DEF opcVars
  <2>3. PICK x : x = Docx
    OBVIOUS
  <2>4. DocxPromise(x)' /\ docx' = x
    BY <2>1, <2>2, <2>3, DocxKept, DocxPromiseStays
  <2>5. FormatsUnambiguous'
    BY <2>1, <2>4, Zenon DEF FormatsUnambiguous, DocxPromise
  <2> QED BY <2>1, <2>2, <2>5 DEF IInv
<1>3. CASE IdentifyOdt
  <2>1. UNCHANGED opcVars /\ pc' = "done" /\ odt' = Odt /\ turn > Len(package)
    BY <1>3 DEF IdentifyOdt, IInv
  <2>2. BudgetInv' /\ RelationshipsInv' /\ InventoryInv' /\ Package(package)' /\ turn' = turn /\ package' = package
    BY <2>1, GatheredStays DEF opcVars
  <2>3. PICK x : x = Odt
    OBVIOUS
  <2>4. OdtPromise(x) /\ odt' = x
    BY <2>1, <2>3, OdtKept
  <2>5. OdtPromise(x)'
    BY <2>2, <2>4, OdtPromiseStays
  <2>6. FormatsUnambiguous'
    BY <2>1, <2>4, <2>5, Zenon DEF FormatsUnambiguous, OdtPromise
  <2> QED BY <2>1, <2>2, <2>6 DEF IInv
<1>4. CASE Cancel
  <2>1. UNCHANGED opcVars /\ pc' = "canceled"
    BY <1>4 DEF Cancel
  <2> QED BY <2>1, GatheredStays DEF IInv, FormatsUnambiguous
<1>5. CASE UNCHANGED vars
  <2>1. UNCHANGED opcVars /\ UNCHANGED <<docx, odt, pc, package>>
    BY <1>5 DEF vars, opcVars
  <2>2. BudgetInv' /\ RelationshipsInv' /\ InventoryInv' /\ Package(package)' /\ turn' = turn
    BY <2>1, GatheredStays
  <2>3. PICK x, y : x = docx /\ y = odt
    OBVIOUS
  <2>4. (pc = "docx" => DocxPromise(x)) /\ (pc = "done" => OdtPromise(y))
    BY <2>3, Zenon DEF IInv, FormatsUnambiguous, DocxPromise, OdtPromise
  <2>5. (pc' = "docx" => DocxPromise(x)') /\ (pc' = "done" => OdtPromise(y)') /\ x = docx' /\ y = odt'
    BY <2>1, <2>3, <2>4, DocxPromiseStays, OdtPromiseStays
  <2>6. FormatsUnambiguous'
    BY <2>5, Zenon DEF FormatsUnambiguous, DocxPromise, OdtPromise
  <2> QED BY <2>1, <2>2, <2>6 DEF IInv
<1> QED BY <1>1, <1>2, <1>3, <1>4, <1>5 DEF Next

\* The invariant holds throughout.
LEMMA Invariance == Spec => []IInv
  BY InitInv, StepInv, PTL DEF Spec

----------------------------------------------------------------------------
(* The theorems.                                                           *)

\* The parser is never asked for more than the budgets allow, no relationship part goes
\* unmentioned, and an inventory called completed has every relationship once, each
\* pointing out of the package or at the one part its target names (opcrels.Inspect).
THEOREM InventoryIsHonest == Spec => []InventoryHonest
  BY Invariance, InventoryPromise, PTL

\* A package is called a docx or an odt only if every reading of its relationships, its
\* declarations and its manifest comes to the same part of the same type
\* (docxidentify.Inspect, odtidentify.Inspect).
THEOREM FormatsAreUnambiguous == Spec => []FormatsUnambiguous
<1>1. IInv => FormatsUnambiguous
  BY DEF IInv
<1> QED BY Invariance, <1>1, PTL
=============================================================================
