-------------------------- MODULE PathPlan_proofs --------------------------
(***************************************************************************)
(* Proofs about PathPlan, for any list of sources, any node limit and any  *)
(* folding of names.  Lengths and portable characters only refuse more     *)
(* plans: nothing here depends on them.                                    *)
(***************************************************************************)
EXTENDS PathPlan, FiniteSetTheorems, SequenceTheorems, TLAPS

----------------------------------------------------------------------------
(* The inductive invariant.                                                *)

Names == Seq(Seq(STRING))
Faults == {"invalid", "limit", "unportable", "collision", "error"}

TypeInv ==
    /\ sources \in Offered
    /\ turn \in 1..(Len(sources) + 1) /\ kind \in 0..5
    /\ IsFiniteSet(files) /\ IsFiniteSet(dirs)
    /\ kind > 0 => turn <= Len(sources) /\ Source.candidate /\ Source.relative # <<>>

\* Is the kind k of the source i planned by now?
Placed(i, k) == sources[i].candidate /\ (i < turn \/ (i = turn /\ k < kind))
FileOf(i, k) == PathFor(sources[i].relative, Kinds[k])

\* The files are those of the sources so far, and the directories those above them.
MadeInv ==
    /\ \A n : n \in files <=> \E i \in 1..Len(sources), k \in 1..5 : Placed(i, k) /\ n = FileOf(i, k)
    /\ \A d : d \in dirs <=> \E n \in files : d \in Range(Parents(n))

\* Every artifact has a path of its own.
OwnInv ==
    \A i, j \in 1..Len(sources), k, l \in 1..5 :
        Placed(i, k) /\ Placed(j, l) /\ FileOf(i, k) = FileOf(j, l) => i = j /\ k = l

\* The plan is the sources so far, each of them once.
Reached == IF kind > 0 THEN turn ELSE turn - 1
PlanInv ==
    /\ \A i \in 1..Reached : sources[i].relative \in plan /\ sources[i].relative # <<>>
    /\ IsFiniteSet(plan) /\ Cardinality(plan) = Reached

\* The candidates among the first sources.
Candidates(n) == {i \in 1..n : sources[i].candidate}

\* Every source has files of its own, and all of them fit.
CountInv ==
    /\ Cardinality(files)
         = 5 * Cardinality(Candidates(turn - 1)) + (IF kind > 0 THEN kind - 1 ELSE 0)
    /\ files # {} => Cardinality(files) + Cardinality(dirs) + 2 <= MaxNodes

\* No two nodes have one key.
ApartInv ==
    /\ files \cap dirs = {}
    /\ \A m, n \in files \cup dirs : Key(m) = Key(n) => m = n

EndInv ==
    /\ outcome \in Faults \cup {None, "planned"}
    /\ outcome = "planned" => turn = Len(sources) + 1 /\ kind = 0 /\ MaxNodes >= 2

IInv == TypeInv /\ MadeInv /\ OwnInv /\ PlanInv /\ CountInv /\ ApartInv /\ EndInv

----------------------------------------------------------------------------
(* Paths and the directories above them.                                   *)

\* What a list of sources holds.
LEMMA SourceFacts ==
    ASSUME TypeInv
    PROVE  /\ Len(sources) \in Nat /\ DOMAIN sources = 1..Len(sources) /\ turn \in Nat /\ turn >= 1
           /\ \A i \in 1..Len(sources) :
                sources[i].relative \in Names /\ sources[i].candidate \in BOOLEAN
<1>1. sources \in Seq([relative : Names, candidate : BOOLEAN])
    BY PlanAssumptions DEF TypeInv, Names
<1>2. Len(sources) \in Nat /\ DOMAIN sources = 1..Len(sources)
    BY <1>1
<1> DEFINE Sources == [relative : Names, candidate : BOOLEAN]
<1>3. \A i \in 1..Len(sources) : sources[i] \in Sources
    <2> HIDE DEF Sources
    <2>1. sources \in Seq(Sources)
        BY <1>1 DEF Sources
    <2> QED
        BY <2>1
<1>4. turn \in Nat /\ turn >= 1
    BY <1>2 DEF TypeInv
<1> QED
    BY <1>2, <1>3, <1>4

\* The directories above a path are finitely many.
LEMMA ParentsFinite ==
    ASSUME NEW T, NEW path \in Seq(T)
    PROVE  IsFiniteSet(Range(Parents(path)))
<1> DEFINE S == 1..(Len(path) - 1)
<1>1. IsFiniteSet(S)
    BY FS_Interval
<1>2. DOMAIN Parents(path) = S
    BY DEF Parents
<1>3. Parents(path) \in Surjection(S, Range(Parents(path)))
    <2>1. Parents(path) = [i \in S |-> SubSeq(path, 1, Len(path) - i)]
        BY DEF Parents
    <2> QED
        BY <2>1 DEF Surjection, Range
<1> QED
    BY <1>1, <1>3, FS_Surjection

\* No two of them have one key: a key is as long as its path.
LEMMA ParentsApart ==
    ASSUME NEW T, NEW path \in Seq(T),
           NEW c \in Range(Parents(path)), NEW d \in Range(Parents(path)), Key(c) = Key(d)
    PROVE  c = d
<1>1. PICK i \in 1..(Len(path) - 1) : c = SubSeq(path, 1, Len(path) - i)
    BY DEF Parents, Range
<1>2. PICK j \in 1..(Len(path) - 1) : d = SubSeq(path, 1, Len(path) - j)
    BY DEF Parents, Range
<1>3. Len(path) \in Nat
    OBVIOUS
<1>4. DOMAIN c = 1..(Len(path) - i) /\ DOMAIN d = 1..(Len(path) - j)
    BY <1>1, <1>2, <1>3
<1>5. DOMAIN Key(c) = DOMAIN c /\ DOMAIN Key(d) = DOMAIN d
    BY DEF Key
<1>6. Len(path) - i \in 1..(Len(path) - j) /\ Len(path) - j \in 1..(Len(path) - i)
    <2>1. Len(path) - i \in DOMAIN c /\ Len(path) - j \in DOMAIN d
        BY <1>3, <1>4
    <2> QED
        BY <1>4, <1>5, <2>1
<1>7. i = j
    BY <1>3, <1>6
<1> QED
    BY <1>1, <1>2, <1>7

\* A directory above a path is a prefix of it.
LEMMA PrefixFacts ==
    ASSUME NEW T, NEW path \in Seq(T), NEW n \in 1..Len(path)
    PROVE  /\ SubSeq(path, 1, n) \in Seq(T) /\ Len(SubSeq(path, 1, n)) = n
           /\ \A i \in 1..n : SubSeq(path, 1, n)[i] = path[i]
<1>1. Len(path) \in Nat /\ n \in Int /\ 1 \in Int /\ 1 <= n /\ n <= Len(path)
    OBVIOUS
<1>2. \A i \in 1..n : path[i] \in T
    BY <1>1
<1> QED
    BY <1>1, <1>2, SubSeqProperties

LEMMA ParentIsPrefix ==
    ASSUME NEW T, NEW path \in Seq(T), NEW d \in Range(Parents(path))
    PROVE  \E n \in 1..(Len(path) - 1) :
             d = SubSeq(path, 1, n) /\ d \in Seq(T) /\ Len(d) = n /\ d[1] = path[1]
<1>1. PICK i \in 1..(Len(path) - 1) : d = SubSeq(path, 1, Len(path) - i)
    BY DEF Parents, Range
<1> DEFINE n == Len(path) - i
<1>2. /\ n \in 1..(Len(path) - 1) /\ n \in 1..Len(path) /\ 1 \in 1..n
    BY <1>1
<1> HIDE DEF n
<1>3. d = SubSeq(path, 1, n)
    BY <1>1 DEF n
<1>4. d \in Seq(T) /\ Len(d) = n /\ d[1] = path[1]
    BY <1>2, <1>3, PrefixFacts, Zenon
<1> QED
    BY <1>2, <1>3, <1>4

\* What is above a directory is above what it contains, and it is not above itself.
LEMMA ParentsNest ==
    ASSUME NEW T, NEW path \in Seq(T), NEW d \in Range(Parents(path))
    PROVE  Range(Parents(d)) \subseteq Range(Parents(path)) \ {d}
<1>1. PICK n \in 1..(Len(path) - 1) : d = SubSeq(path, 1, n) /\ d \in Seq(T) /\ Len(d) = n
    BY ParentIsPrefix
<1> SUFFICES ASSUME NEW c \in Range(Parents(d))
             PROVE  c \in Range(Parents(path)) /\ c # d
    OBVIOUS
<1>2. PICK m \in 1..(Len(d) - 1) : c = SubSeq(d, 1, m) /\ c \in Seq(T) /\ Len(c) = m
    <2>1. d \in Seq(T)
        BY <1>1
    <2> QED
        BY <2>1, ParentIsPrefix
<1>3. /\ Len(path) \in Nat /\ n \in 1..Len(path) /\ m \in 1..n /\ m \in 1..Len(path) /\ m < n
      /\ m \in 1..Len(d)
    BY <1>1, <1>2
<1>4. c # d
    BY <1>1, <1>2, <1>3
<1>5. c = SubSeq(path, 1, m)
    <2> DEFINE e == SubSeq(path, 1, m)
    <2>1. e \in Seq(T) /\ Len(e) = m /\ \A i \in 1..m : e[i] = path[i]
        BY <1>3, PrefixFacts, Zenon
    <2>2. \A i \in 1..m : c[i] = d[i]
        BY <1>1, <1>2, <1>3, PrefixFacts, Zenon
    <2>3. \A i \in 1..n : d[i] = path[i]
        BY <1>1, <1>3, PrefixFacts, Zenon
    <2> HIDE DEF e
    <2>4. \A i \in 1..m : c[i] = e[i]
        BY <1>3, <2>1, <2>2, <2>3
    <2>5. c = e
        BY <1>2, <2>1, <2>4, SeqEqual, Zenon
    <2> QED
        BY <2>5 DEF e
<1>6. c \in Range(Parents(path))
    <2> DEFINE i == Len(path) - m
    <2>1. i \in 1..(Len(path) - 1) /\ Len(path) - i = m
        BY <1>3
    <2> HIDE DEF i
    <2>2. i \in DOMAIN Parents(path) /\ Parents(path)[i] = c
        BY <1>5, <2>1 DEF Parents
    <2> QED
        BY <2>2 DEF Range
<1> QED
    BY <1>4, <1>6

\* A planned path stands in the directory of its kind.
LEMMA PathShape ==
    ASSUME NEW relative \in Names, relative # <<>>, NEW k
    PROVE  \E T : /\ PathFor(relative, k) \in Seq(T) /\ Len(PathFor(relative, k)) # 1
                  /\ PathFor(relative, k)[1] = <<Directory[k]>>
<1> DEFINE last == Last(relative) \o Suffix[k]
<1> DEFINE first == <<Directory[k]>>
<1> DEFINE T == Seq(STRING) \cup {first, last}
<1>1. Front(relative) \in Seq(Seq(STRING))
    <2>1. Len(relative) \in Nat /\ Len(relative) > 0
        BY DEF Names
    <2>2. 1 \in 1..(Len(relative) + 1) /\ Len(relative) - 1 \in 0..Len(relative)
        BY <2>1
    <2> QED
        BY <2>2, SubSeqProperties DEF Front, Names
<1> HIDE DEF last, first
<1>2. Front(relative) \in Seq(T)
    BY <1>1, SeqMonotonic
<1>3. <<last>> \in Seq(T) /\ <<first>> \in Seq(T) /\ Len(<<last>>) = 1 /\ Len(<<first>>) = 1
      /\ <<first>>[1] = first
    OBVIOUS
<1> HIDE DEF T
<1> DEFINE start == <<first>> \o Front(relative)
<1>4. start \in Seq(T) /\ Len(start) = 1 + Len(Front(relative)) /\ start[1] = first
    BY <1>2, <1>3, ConcatProperties
<1>5. Len(Front(relative)) \in Nat
    BY <1>2
<1> HIDE DEF start
<1>6. /\ start \o <<last>> \in Seq(T) /\ Len(start \o <<last>>) # 1
      /\ (start \o <<last>>)[1] = first
    BY <1>3, <1>4, <1>5, ConcatProperties
<1>7. PathFor(relative, k) = start \o <<last>>
    BY DEF PathFor, last, first, start
<1> QED
    BY <1>6, <1>7 DEF first

----------------------------------------------------------------------------
\* Before the first source nothing is planned.
LEMMA InitInv == Init => IInv
<1> SUFFICES ASSUME Init PROVE IInv
    OBVIOUS
<1>1. Len(sources) \in Nat
    BY PlanAssumptions DEF Init
<1>2. TypeInv
    BY <1>1, FS_EmptySet DEF TypeInv, Init
<1>3. MadeInv
    BY DEF MadeInv, Placed, Init
<1>4. CountInv
    <2>1. Candidates(turn - 1) = {}
        BY DEF Candidates, Init
    <2>2. Cardinality(files) = 0 /\ Cardinality(Candidates(turn - 1)) = 0
        BY <2>1, FS_EmptySet DEF Init
    <2>3. files = {} /\ kind = 0
        BY DEF Init
    <2> QED
        BY <2>2, <2>3 DEF CountInv
<1>5. ApartInv
    BY DEF ApartInv, Init
<1>6. EndInv
    BY PlanAssumptions DEF EndInv, Init
<1>7. OwnInv
    BY DEF OwnInv, Placed, Init
<1>8. PlanInv
    BY FS_EmptySet DEF PlanInv, Reached, Init
<1> QED
    BY <1>2, <1>3, <1>4, <1>5, <1>6, <1>7, <1>8 DEF IInv

\* The plan is refused, or left as it is.
LEMMA ReturnStep ==
    ASSUME IInv, NEW o \in Faults \cup {"planned"}, Return(o),
           o = "planned" => turn > Len(sources) /\ MaxNodes >= 2
    PROVE  IInv'
<1> USE DEF IInv
<1>1. outcome' = o /\ UNCHANGED <<sources, turn, kind, plan, files, dirs>>
    BY DEF Return
<1>2. Source' = Source
    BY <1>1 DEF Source
<1>3. TypeInv'
    BY <1>1, <1>2 DEF TypeInv
<1>4. MadeInv' /\ OwnInv' /\ PlanInv'
    BY <1>1 DEF MadeInv, OwnInv, PlanInv, Reached, Placed, FileOf
<1>5. CountInv' /\ ApartInv'
    BY <1>1 DEF CountInv, ApartInv, Candidates
<1>6. EndInv'
    <2>1. o = "planned" => turn = Len(sources) + 1 /\ kind = 0
        BY SourceFacts DEF TypeInv
    <2> QED
        BY <1>1, <2>1 DEF EndInv
<1> QED
    BY <1>3, <1>4, <1>5, <1>6

\* A source is admitted: nothing is planned for it yet.
LEMMA AdmitStep ==
    ASSUME IInv, outcome = None, turn <= Len(sources), kind = 0,
           SourceFault(Source.relative) = None,
           plan' = plan \cup {Source.relative},
           IF Source.candidate THEN kind' = 1 /\ UNCHANGED turn ELSE turn' = turn + 1 /\ UNCHANGED kind,
           UNCHANGED <<sources, files, dirs, outcome>>
    PROVE  IInv'
<1> USE DEF IInv
<1>1. /\ Len(sources) \in Nat /\ turn \in 1..Len(sources) /\ turn \in Nat
      /\ Source = sources[turn] /\ Source.candidate \in BOOLEAN
    BY SourceFacts DEF Source, TypeInv
<1>2. Source.relative # <<>>
    BY PlanAssumptions DEF SourceFault, ValidPath
<1>3. TypeInv'
    <2>1. CASE Source.candidate
        BY <1>1, <1>2, <2>1 DEF TypeInv, Source
    <2>2. CASE ~Source.candidate
        BY <1>1, <2>2 DEF TypeInv
    <2> QED
        BY <2>1, <2>2
<1>4. ASSUME NEW i \in 1..Len(sources), NEW k \in 1..5 PROVE Placed(i, k)' <=> Placed(i, k)
    BY <1>1 DEF Placed
<1>5. MadeInv' /\ OwnInv'
    BY <1>4 DEF MadeInv, OwnInv, FileOf
<1>6. CountInv'
    <2>1. CASE Source.candidate
        BY <2>1 DEF CountInv, Candidates
    <2>2. CASE ~Source.candidate
        <3>1. turn' - 1 = turn
            BY <1>1, <2>2
        <3>2. \A i : i \in 1..turn /\ sources[i].candidate <=> i \in 1..(turn - 1) /\ sources[i].candidate
            BY <1>1, <2>2
        <3>3. {i \in 1..(turn' - 1) : sources[i].candidate} = {i \in 1..(turn - 1) : sources[i].candidate}
            BY <3>1, <3>2
        <3> QED
            BY <2>2, <3>3 DEF CountInv, Candidates
    <2> QED
        BY <2>1, <2>2
<1>7. ApartInv'
    BY DEF ApartInv
<1>8. EndInv'
    BY PlanAssumptions DEF EndInv
<1>9. PlanInv'
    <2>1. Reached = turn - 1 /\ Reached' = turn
        BY <1>1 DEF Reached
    <2>2. Source.relative \notin plan
        BY PlanAssumptions DEF SourceFault
    <2>3. IsFiniteSet(plan') /\ Cardinality(plan') = (turn - 1) + 1
        BY <2>1, <2>2, FS_AddElement DEF PlanInv
    <2>4. ASSUME NEW i \in 1..turn 
          PROVE  sources'[i].relative \in plan' /\ sources'[i].relative # <<>>
        BY <1>1, <1>2, <2>1 DEF PlanInv
    <2> QED
        BY <1>1, <2>1, <2>3, <2>4 DEF PlanInv
<1> QED
    BY <1>3, <1>5, <1>6, <1>7, <1>8, <1>9

\* A path is planned: it and the directories above it share no key with another node.
LEMMA PlaceStep ==
    ASSUME IInv, outcome = None, kind > 0,
           NEW name, name = PathFor(Source.relative, Kinds[kind]), PathFault(name) = None,
           files' = files \cup {name}, dirs' = dirs \cup Range(Parents(name)),
           IF kind < Len(Kinds) THEN kind' = kind + 1 /\ UNCHANGED turn
           ELSE kind' = 0 /\ turn' = turn + 1,
           UNCHANGED <<sources, plan, outcome>>
    PROVE  IInv'
<1> USE DEF IInv
<1> DEFINE above == Range(Parents(name))
<1>1. /\ Len(sources) \in Nat /\ turn \in 1..Len(sources) /\ turn \in Nat /\ kind \in 1..5
      /\ Source = sources[turn] /\ Source.candidate /\ Source.relative # <<>>
      /\ Source.relative \in Names
    BY SourceFacts DEF Source, TypeInv
<1>2. PICK T : name \in Seq(T)
    BY <1>1, PathShape
<1>3. /\ FileFits(name) /\ \A d \in above : DirFits(d, files \cup {name})
      /\ ~(Cardinality(files \cup {name}) + Cardinality(dirs \cup above) + 2 > MaxNodes)
    <2>1. None # "limit" /\ None # "unportable" /\ None # "collision"
        BY PlanAssumptions
    <2> QED
        BY <2>1 DEF PathFault
<1>4. Len(Kinds) = 5
    BY DEF Kinds
<1> HIDE DEF above
<1>5. IsFiniteSet(files') /\ IsFiniteSet(dirs') /\ IsFiniteSet(above)
    <2>1. IsFiniteSet(above)
        BY <1>2, ParentsFinite DEF above
    <2>2. IsFiniteSet(files) /\ IsFiniteSet(dirs)
        BY DEF TypeInv
    <2>3. IsFiniteSet(files \cup {name})
        BY <2>2, FS_AddElement
    <2>4. IsFiniteSet(dirs \cup above)
        BY <2>1, <2>2, FS_Union
    <2> QED
        BY <2>1, <2>3, <2>4 DEF above
<1>6. name \notin files /\ name \notin dirs
    BY <1>3 DEF FileFits, KeysOf
<1>7. /\ Cardinality(files') = Cardinality(files) + 1 /\ Cardinality(files) \in Nat
      /\ Cardinality(files') + Cardinality(dirs') + 2 <= MaxNodes
    <2>1. Cardinality(files') = Cardinality(files) + 1
        BY <1>6, FS_AddElement DEF TypeInv
    <2>2. /\ Cardinality(files) \in Nat /\ Cardinality(files') \in Nat /\ Cardinality(dirs') \in Nat
        BY <1>5, FS_CardinalityType DEF TypeInv
    <2>3. dirs' = dirs \cup above
        BY DEF above
    <2>4. ~(Cardinality(files') + Cardinality(dirs') + 2 > MaxNodes)
        BY <1>3, <2>3, Zenon
    <2> QED
        BY <2>1, <2>2, <2>4, PlanAssumptions
<1>8. TypeInv'
    <2>1. CASE kind < 5
        BY <1>1, <1>4, <1>5, <2>1 DEF TypeInv, Source
    <2>2. CASE ~(kind < 5)
        BY <1>1, <1>4, <1>5, <2>2 DEF TypeInv
    <2> QED
        BY <2>1, <2>2
<1>9. MadeInv' /\ OwnInv'
    <2>1. ASSUME NEW i \in 1..Len(sources), NEW k \in 1..5
          PROVE  Placed(i, k)' <=> Placed(i, k) \/ (i = turn /\ k = kind)
        <3>1. CASE kind < 5
            BY <1>1, <1>4, <3>1 DEF Placed
        <3>2. CASE ~(kind < 5)
            BY <1>1, <1>4, <3>2 DEF Placed
        <3> QED
            BY <3>1, <3>2
    <2>2. name = FileOf(turn, kind)
        BY <1>1 DEF FileOf
    <2>3. ASSUME NEW n
          PROVE  n \in files' <=>
                   \E i \in 1..Len(sources), k \in 1..5 : Placed(i, k)' /\ n = FileOf(i, k)
        <3>1. n \in files' <=> n \in files \/ n = name
            OBVIOUS
        <3>2. n \in files <=> \E i \in 1..Len(sources), k \in 1..5 : Placed(i, k) /\ n = FileOf(i, k)
            BY DEF MadeInv
        <3> QED
            BY <1>1, <2>1, <2>2, <3>1, <3>2
    <2>4. \A i, k : FileOf(i, k)' = FileOf(i, k)
        BY DEF FileOf
    <2>5. ASSUME NEW d PROVE d \in dirs' <=> \E n \in files' : d \in Range(Parents(n))
        BY DEF MadeInv
    <2>6. MadeInv'
        BY <2>3, <2>4, <2>5 DEF MadeInv
    <2>7. ASSUME NEW i \in 1..Len(sources), NEW k \in 1..5, Placed(i, k) PROVE FileOf(i, k) # name
        BY <1>6, <2>7 DEF MadeInv
    <2>8. ASSUME NEW i \in 1..Len(sources), NEW j \in 1..Len(sources), NEW k \in 1..5, NEW l \in 1..5,
                 Placed(i, k)', Placed(j, l)', FileOf(i, k) = FileOf(j, l)
          PROVE  i = j /\ k = l
        <3>1. CASE Placed(i, k) /\ Placed(j, l)
            BY <2>8, <3>1 DEF OwnInv
        <3>2. CASE ~Placed(i, k)
            <4>1. i = turn /\ k = kind /\ FileOf(i, k) = name
                BY <2>1, <2>2, <2>8, <3>2
            <4>2. ~Placed(j, l)
                BY <2>7, <2>8, <4>1
            <4> QED
                BY <2>1, <2>8, <4>1, <4>2
        <3>3. CASE ~Placed(j, l)
            <4>1. j = turn /\ l = kind /\ FileOf(j, l) = name
                BY <2>1, <2>2, <2>8, <3>3
            <4>2. ~Placed(i, k)
                BY <2>7, <2>8, <4>1
            <4> QED
                BY <2>1, <2>8, <4>1, <4>2
        <3> QED
            BY <3>1, <3>2, <3>3
    <2>9. OwnInv'
        BY <2>4, <2>8 DEF OwnInv
    <2> QED
        BY <2>6, <2>9
<1>10. CountInv'
    <2> DEFINE before == {i \in 1..(turn - 1) : sources[i].candidate}
    <2>1. IsFiniteSet(before) /\ Cardinality(before) \in Nat
        <3>1. IsFiniteSet(1..(turn - 1))
            BY <1>1, FS_Interval
        <3>2. before \in SUBSET (1..(turn - 1))
            OBVIOUS
        <3> HIDE DEF before
        <3> QED
            BY <3>1, <3>2, FS_Subset, FS_CardinalityType
    <2>2. Cardinality(files) = 5 * Cardinality(before) + (kind - 1)
        BY <1>1 DEF CountInv, Candidates
    <2>3. CASE kind < 5
        <3>1. kind' = kind + 1 /\ turn' = turn /\ kind' > 0
            BY <1>1, <1>4, <2>3
        <3>2. {i \in 1..(turn' - 1) : sources'[i].candidate} = before
            BY <3>1
        <3> HIDE DEF before
        <3>3. Cardinality(files') = 5 * Cardinality(before) + (kind' - 1)
            BY <1>1, <1>7, <2>1, <2>2, <3>1
        <3> QED
            BY <1>7, <3>1, <3>2, <3>3 DEF CountInv, Candidates
    <2>4. CASE ~(kind < 5)
        <3>1. kind = 5 /\ kind' = 0 /\ turn' - 1 = turn
            BY <1>1, <1>4, <2>4
        <3>2. \A i : i \in 1..turn <=> i \in 1..(turn - 1) \/ i = turn
            BY <1>1
        <3>3. {i \in 1..(turn' - 1) : sources'[i].candidate} = before \cup {turn} /\ turn \notin before
            BY <1>1, <3>1, <3>2
        <3> HIDE DEF before
        <3>4. Cardinality(before \cup {turn}) = Cardinality(before) + 1
            BY <2>1, <3>3, FS_AddElement
        <3>5. Cardinality(files') = 5 * Cardinality(before \cup {turn}) + 0
            BY <1>7, <2>1, <2>2, <3>1, <3>4
        <3>6. (IF kind' > 0 THEN kind' - 1 ELSE 0) = 0
            BY <3>1
        <3>7. Candidates(turn - 1)' = before \cup {turn}
            BY <3>3, Zenon DEF Candidates
        <3>8. /\ Cardinality(files')
                   = 5 * Cardinality(Candidates(turn - 1)') + (IF kind' > 0 THEN kind' - 1 ELSE 0)
              /\ Cardinality(files') + Cardinality(dirs') + 2 <= MaxNodes
            BY <1>7, <3>5, <3>6, <3>7, Zenon
        <3> QED
            BY <3>8, Zenon DEF CountInv
    <2> QED
        BY <2>3, <2>4
<1>11. ApartInv'
    <2>1. /\ \A n \in files \cup dirs : Key(n) # Key(name)
          /\ \A d \in above : \A n \in files' : Key(n) # Key(d)
          /\ \A d \in above : \A e \in dirs : Key(e) = Key(d) => e = d
        BY <1>3 DEF FileFits, DirFits, KeysOf
    <2>2. \A c, d \in above : Key(c) = Key(d) => c = d
        BY <1>2, ParentsApart DEF above
    <2>3. dirs' = dirs \cup above
        BY DEF above
    <2>4. files' \cap dirs' = {}
        <3>1. ASSUME NEW n \in files', NEW d \in dirs' PROVE n # d
            BY <2>1, <2>3 DEF ApartInv
        <3> QED
            BY <3>1
    <2>5. ASSUME NEW m \in files' \cup dirs', NEW n \in files' \cup dirs', Key(m) = Key(n) PROVE m = n
        <3>1. CASE m \in files \cup dirs /\ n \in files \cup dirs
            BY <2>5, <3>1 DEF ApartInv
        <3>2. CASE m = name
            BY <2>1, <2>3, <2>5, <3>2
        <3>3. CASE n = name
            BY <2>1, <2>3, <2>5, <3>3
        <3>4. CASE m \in above
            BY <2>1, <2>2, <2>3, <2>5, <3>4
        <3>5. CASE n \in above
            BY <2>1, <2>2, <2>3, <2>5, <3>5
        <3> QED
            BY <2>3, <3>1, <3>2, <3>3, <3>4, <3>5
    <2> QED
        BY <2>4, <2>5 DEF ApartInv
<1>12. EndInv'
    BY PlanAssumptions DEF EndInv
<1>13. PlanInv'
    <2>1. Reached = turn /\ Reached' = turn
        BY <1>1, <1>4 DEF Reached
    <2> QED
        BY <2>1 DEF PlanInv
<1> QED
    BY <1>8, <1>9, <1>10, <1>11, <1>12, <1>13

\* Every step of the preflight keeps the invariant.
LEMMA StepInv == IInv /\ [Next]_vars => IInv'
<1> SUFFICES ASSUME IInv, [Next]_vars PROVE IInv'
    OBVIOUS
<1>1. CASE Limits
    BY <1>1, ReturnStep DEF Limits, Faults
<1>2. CASE Admit
    <2>1. CASE SourceFault(Source.relative) # None
        <3>1. SourceFault(Source.relative) \in Faults
            BY <2>1 DEF SourceFault, Faults
        <3> QED
            BY <1>2, <2>1, <3>1, PlanAssumptions, ReturnStep DEF Admit, Faults
    <2>2. CASE SourceFault(Source.relative) = None
        BY <1>2, <2>2, AdmitStep DEF Admit
    <2> QED
        BY <2>1, <2>2
<1>3. CASE Place
    <2> DEFINE name == PathFor(Source.relative, Kinds[kind])
    <2>1. CASE PathFault(name) # None
        <3>1. PathFault(name) \in Faults
            BY <2>1 DEF PathFault, Faults
        <3> QED
            BY <1>3, <2>1, <3>1, ReturnStep DEF Place, Faults
    <2>2. CASE PathFault(name) = None
        <3>1. /\ outcome = None /\ kind > 0
              /\ files' = files \cup {name} /\ dirs' = dirs \cup Range(Parents(name))
              /\ IF kind < Len(Kinds) THEN kind' = kind + 1 /\ UNCHANGED turn
                 ELSE kind' = 0 /\ turn' = turn + 1
              /\ UNCHANGED <<sources, plan, outcome>>
            BY <1>3, <2>2 DEF Place
        <3> QED
            BY <2>2, <3>1, PlaceStep
    <2> QED
        BY <2>1, <2>2
<1>4. CASE OpenRoot
    <2>1. PICK o \in {"error", "collision", "planned"} : Return(o)
        BY <1>4 DEF OpenRoot
    <2>2. turn > Len(sources) /\ MaxNodes >= 2
        BY <1>4 DEF OpenRoot
    <2> QED
        BY <2>1, <2>2, ReturnStep DEF Faults
<1>5. CASE UNCHANGED vars
    <2>1. UNCHANGED <<sources, turn, kind, plan, files, dirs, outcome>>
        BY <1>5 DEF vars
    <2>2. TypeInv'
        BY <2>1 DEF IInv, TypeInv, Source
    <2>3. MadeInv' /\ OwnInv' /\ PlanInv'
        BY <2>1 DEF IInv, MadeInv, OwnInv, PlanInv, Reached, Placed, FileOf
    <2>4. CountInv' /\ ApartInv' /\ EndInv'
        BY <2>1 DEF IInv, CountInv, Candidates, ApartInv, EndInv
    <2> QED
        BY <2>2, <2>3, <2>4 DEF IInv
<1> QED
    BY <1>1, <1>2, <1>3, <1>4, <1>5 DEF Next

----------------------------------------------------------------------------
(* The theorems.                                                           *)

\* Every reachable state satisfies the inductive invariant.
THEOREM Invariance == Spec => []IInv
BY InitInv, StepInv, PTL DEF Spec

\* What an accepted plan needs is what was planned for it, source by source.
LEMMA AcceptedPlan ==
    ASSUME IInv, outcome = "planned"
    PROVE  /\ Needed = files /\ Above = dirs
           /\ \A r \in CandidatePaths : \E i \in 1..Len(sources) :
                r = sources[i].relative /\ sources[i].candidate /\ r \in plan /\ r \in Names /\ r # <<>>
           /\ \A i \in 1..Len(sources), k \in 1..5 : sources[i].candidate => Placed(i, k)
<1>1. /\ Len(sources) \in Nat /\ DOMAIN sources = 1..Len(sources)
      /\ turn = Len(sources) + 1 /\ kind = 0
    BY SourceFacts DEF IInv, EndInv
<1>2. DOMAIN Kinds = 1..5 /\ Len(Kinds) = 5
    BY DEF Kinds
<1>3. \A i \in 1..Len(sources), k \in 1..5 : sources[i].candidate => Placed(i, k)
    BY <1>1 DEF Placed
<1>4. ASSUME NEW n \in Needed PROVE n \in files
    <2>1. PICK r \in CandidatePaths, k \in 1..5 : n = PathFor(r, Kinds[k])
        <3>1. PICK r \in CandidatePaths, x \in Range(Kinds) : n = PathFor(r, x)
            BY DEF Needed, Artifacts, PathOf
        <3>2. PICK k \in 1..5 : x = Kinds[k]
            BY <1>2 DEF Range
        <3> QED
            BY <3>1, <3>2
    <2>2. PICK i \in 1..Len(sources) : sources[i].candidate /\ r = sources[i].relative
        BY <1>1 DEF CandidatePaths, Range
    <2> QED
        BY <1>3, <2>1, <2>2 DEF IInv, MadeInv, FileOf
<1>5. ASSUME NEW n \in files PROVE n \in Needed
    <2>1. PICK i \in 1..Len(sources), k \in 1..5 : Placed(i, k) /\ n = FileOf(i, k)
        BY DEF IInv, MadeInv
    <2>2. sources[i].relative \in CandidatePaths /\ Kinds[k] \in Range(Kinds)
        BY <1>1, <1>2, <2>1 DEF CandidatePaths, Placed, Range
    <2>3. n = PathOf[sources[i].relative][Kinds[k]]
        BY <2>1, <2>2 DEF FileOf, PathOf
    <2> QED
        BY <2>2, <2>3 DEF Needed, Artifacts
<1>6. Needed = files
    BY <1>4, <1>5
<1>7. Above = dirs
    BY <1>6 DEF Above, IInv, MadeInv
<1>8. ASSUME NEW r \in CandidatePaths
      PROVE  \E i \in 1..Len(sources) :
               r = sources[i].relative /\ sources[i].candidate /\ r \in plan /\ r \in Names /\ r # <<>>
    <2>1. PICK i \in 1..Len(sources) : sources[i].candidate /\ r = sources[i].relative
        BY <1>1 DEF CandidatePaths, Range
    <2>2. r \in plan /\ r \in Names /\ r # <<>>
        BY <1>1, <2>1, SourceFacts DEF IInv, PlanInv, Reached
    <2> QED
        BY <2>1, <2>2
<1> QED
    BY <1>3, <1>6, <1>7, <1>8

\* The two closing files stand in the root, beside the directories of the kinds.
LEMMA ClosingShape ==
    ASSUME NEW c \in Closing
    PROVE  Len(c) = 1 /\ Len(c[1]) = 2 /\ Range(Parents(c)) = {}
<1>1. Len(c) = 1 /\ Len(c[1]) = 2
    BY DEF Closing
<1>2. DOMAIN Parents(c) = {}
    BY <1>1 DEF Parents
<1> QED
    BY <1>1, <1>2 DEF Range

\* The nodes of an accepted plan: a path lies in the directory of its kind, as the
\* directories above it do, and what is above those is above it.
LEMMA NodeShape ==
    ASSUME IInv, outcome = "planned", NEW n \in Needed
    PROVE  /\ Len(n) # 1 /\ Range(Parents(n)) \subseteq Above
           /\ \A d \in Range(Parents(n)) :
                Len(d[1]) = 1 /\ Range(Parents(d)) \subseteq Range(Parents(n)) \ {d}
<1>1. PICK r \in CandidatePaths, k \in Range(Kinds) : n = PathFor(r, k)
    BY DEF Needed, Artifacts, PathOf
<1>2. r \in Names /\ r # <<>>
    BY AcceptedPlan
<1>3. PICK T : n \in Seq(T) /\ Len(n) # 1 /\ n[1] = <<Directory[k]>>
    BY <1>1, <1>2, PathShape
<1>4. ASSUME NEW d \in Range(Parents(n))
      PROVE  Len(d[1]) = 1 /\ Range(Parents(d)) \subseteq Range(Parents(n)) \ {d}
    <2>1. d[1] = n[1]
        BY <1>3, ParentIsPrefix
    <2>2. Len(d[1]) = 1
        BY <1>3, <2>1
    <2>3. Range(Parents(d)) \subseteq Range(Parents(n)) \ {d}
        BY <1>3, ParentsNest
    <2> QED
        BY <2>2, <2>3
<1>5. Len(n) # 1
    BY <1>3, Zenon
<1>6. Range(Parents(n)) \subseteq Above
    BY DEF Above
<1> QED
    BY <1>4, <1>5, <1>6

\* An accepted plan is one Tree can write.
LEMMA AcceptedIsSound ==
    ASSUME IInv, outcome = "planned"
    PROVE  SoundPlan(plan, CandidatePaths, Range(Kinds), PathOf, Closing, Above, AboveOf)
<1> DEFINE nodes == Needed \cup Closing \cup Above
<1>1. CandidatePaths \subseteq plan
    BY AcceptedPlan
<1>2. PathOf \in [CandidatePaths -> [Range(Kinds) -> Needed]]
    BY DEF PathOf, Needed, Artifacts
<1>3. ASSUME NEW r \in CandidatePaths, NEW q \in CandidatePaths,
             NEW k \in Range(Kinds), NEW l \in Range(Kinds), PathOf[r][k] = PathOf[q][l]
      PROVE  r = q /\ k = l
    <2>1. DOMAIN Kinds = 1..5
        BY DEF Kinds
    <2>2. PICK a \in 1..5, b \in 1..5 : k = Kinds[a] /\ l = Kinds[b]
        BY <2>1 DEF Range
    <2>3. PICK i \in 1..Len(sources) : r = sources[i].relative /\ sources[i].candidate
        BY AcceptedPlan
    <2>4. PICK j \in 1..Len(sources) : q = sources[j].relative /\ sources[j].candidate
        BY AcceptedPlan
    <2>5. Placed(i, a) /\ Placed(j, b)
        BY <2>3, <2>4, AcceptedPlan
    <2>6. FileOf(i, a) = FileOf(j, b)
        BY <1>3, <2>2, <2>3, <2>4 DEF FileOf, PathOf
    <2> QED
        BY <2>2, <2>3, <2>4, <2>5, <2>6 DEF IInv, OwnInv
<1>4. ASSUME NEW d \in Above PROVE \E n \in Needed : d \in Range(Parents(n))
    BY DEF Above
<1>5. (Needed \cup Closing) \cap Above = {} /\ Needed \cap Closing = {}
    <2>1. Needed \cap Above = {}
        BY AcceptedPlan DEF IInv, ApartInv
    <2>2. Needed \cap Closing = {}
        BY NodeShape, ClosingShape
    <2>3. Closing \cap Above = {}
        <3>1. ASSUME NEW d \in Above, d \in Closing PROVE FALSE
            <4>1. Len(d[1]) = 1
                BY <1>4, NodeShape
            <4>2. Len(d[1]) = 2
                BY <3>1, ClosingShape
            <4> QED
                BY <4>1, <4>2
        <3> QED
            BY <3>1
    <2> QED
        BY <2>1, <2>2, <2>3
<1>6. ASSUME NEW n \in nodes
      PROVE  /\ Range(Parents(n)) \subseteq Above
             /\ \A d \in Range(Parents(n)) : Range(Parents(d)) \subseteq Range(Parents(n)) \ {d}
    <2>1. CASE n \in Needed
        BY <2>1, NodeShape
    <2>2. CASE n \in Closing
        BY <2>2, ClosingShape
    <2>3. CASE n \in Above
        <3>1. PICK m \in Needed : n \in Range(Parents(m))
            BY <1>4, <2>3
        <3>2. Range(Parents(n)) \subseteq Range(Parents(m)) /\ Range(Parents(m)) \subseteq Above
            BY <3>1, NodeShape
        <3>3. PICK r \in CandidatePaths, k \in Range(Kinds) : m = PathFor(r, k)
            BY <3>1 DEF Needed, Artifacts, PathOf
        <3>4. PICK T : m \in Seq(T)
            <4>1. r \in Names /\ r # <<>>
                BY <3>3, AcceptedPlan
            <4> QED
                BY <3>3, <4>1, PathShape
        <3>5. n \in Seq(T)
            BY <3>1, <3>4, ParentIsPrefix
        <3>6. \A d \in Range(Parents(n)) : Range(Parents(d)) \subseteq Range(Parents(n)) \ {d}
            BY <3>5, ParentsNest
        <3> QED
            BY <3>2, <3>6
    <2> QED
        BY <2>1, <2>2, <2>3
<1>7. AboveOf = [n \in nodes |-> Range(Parents(n))]
    BY DEF AboveOf
<1> HIDE DEF nodes
<1>8. AboveOf \in [nodes -> SUBSET Above]
    BY <1>6, <1>7
<1>9. \A n \in Closing : n \in nodes /\ AboveOf[n] = {}
    BY <1>7, ClosingShape DEF nodes
<1>10. ASSUME NEW n \in nodes, NEW d \in AboveOf[n] PROVE AboveOf[d] \subseteq AboveOf[n] \ {d}
    <2>1. AboveOf[n] = Range(Parents(n)) /\ d \in nodes
        BY <1>6, <1>7, <1>10 DEF nodes
    <2> QED
        BY <1>6, <1>7, <2>1
<1> QED
    BY <1>1, <1>2, <1>3, <1>5, <1>8, <1>9, <1>10 DEF SoundPlan, Needed, nodes

\* In an accepted plan no two nodes can become one on a file system that folds or
\* normalizes names, and all of them fit (NewTree): what Tree takes a plan to be.
THEOREM PlansAreApart == Spec => []PlansApart
<1>1. IInv => PlansApart
    <2> SUFFICES ASSUME IInv, outcome = "planned" PROVE PlansApart
        BY DEF PlansApart
    <2>1. /\ Len(sources) \in Nat /\ DOMAIN sources = 1..Len(sources)
          /\ turn = Len(sources) + 1 /\ kind = 0 /\ MaxNodes \in Nat /\ MaxNodes >= 2
        BY SourceFacts, PlanAssumptions DEF IInv, EndInv
    <2>3. Needed = files /\ Above = dirs
        BY AcceptedPlan
    <2>4. SoundPlan(plan, CandidatePaths, Range(Kinds), PathOf, Closing, Above, AboveOf)
        BY AcceptedIsSound
    <2>5. Cardinality(plan) = Len(sources)
        BY <2>1 DEF IInv, PlanInv, Reached
    <2>6. Cardinality(files \cup dirs) + 2 <= MaxNodes
        <3>1. IsFiniteSet(files) /\ IsFiniteSet(dirs)
            BY DEF IInv, TypeInv
        <3>2. /\ Cardinality(files \cup dirs)
                   = Cardinality(files) + Cardinality(dirs) - Cardinality(files \cap dirs)
              /\ Cardinality(files \cap dirs) = 0
              /\ Cardinality(files) \in Nat /\ Cardinality(dirs) \in Nat
            BY <3>1, FS_Union, FS_EmptySet, FS_CardinalityType DEF IInv, ApartInv
        <3>3. CASE files # {}
            BY <2>1, <3>2, <3>3 DEF IInv, CountInv
        <3>4. CASE files = {}
            <4>1. dirs = {}
                BY <3>4 DEF IInv, MadeInv
            <4> QED
                BY <2>1, <3>2, <3>4, <4>1, FS_EmptySet
        <3> QED
            BY <3>3, <3>4
    <2> QED
        BY <2>3, <2>4, <2>5, <2>6 DEF PlansApart, IInv, ApartInv
<1> QED
    BY <1>1, Invariance, PTL
=============================================================================
