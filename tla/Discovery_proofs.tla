-------------------------- MODULE Discovery_proofs --------------------------
(***************************************************************************)
(* Proofs about Discovery, for a root of any size and shape, any limits,   *)
(* any changes by other programs and any number of failing calls.          *)
(***************************************************************************)
EXTENDS Discovery, FiniteSetTheorems, SequenceTheorems, WellFoundedInduction, TLAPS

---------------------------------------------------------------------------
(* The inductive invariant.                                                *)

Stages == {"open", "list", "visit", "enter"}
Paths == Seq(Names)
Frames == [dir : Dirs, path : Paths, stage : Stages, stamp : Nat, todo : SUBSET Names, info : Dirs]
Kinds == {"file", "symlink", "special", "directory", "unknown"}
Entries == [path : Paths, kind : Kinds, state : {"candidate", "skipped", "failed"}]
Contents == [Names -> Values]
Readings == [path : Paths, dir : Dirs, saw : Contents]
Errors == {"canceled", "invalid", "limit", "changed", "failed"}

TypeInv ==
  /\ listing \in [Dirs -> Contents] /\ stamp \in [Dirs -> Nat]
  /\ clock \in Nat /\ changes \in Nat /\ faults \in Nat
  /\ recursive \in BOOLEAN /\ ctx \in {"live", "done"} /\ complete \in BOOLEAN
  /\ stack \in Seq(Frames)
  /\ listed \subseteq Paths /\ IsFiniteSet(listed) /\ paths \in Nat
  /\ entries \subseteq Entries /\ begun \subseteq Readings
  /\ blurred \subseteq Paths /\ astray \subseteq Paths
  /\ result \in Errors \cup {"none", "ok"}

\* The calls of walk that have not returned.
Calls == 1..Len(stack)

\* Each call but the innermost is in its second loop, at the name the next call is under.
ChainInv ==
  /\ Walking <=> stack # <<>>
  /\ Len(stack) <= MaxDepth + 1
  /\ \A i \in Calls :
       /\ Len(stack[i].path) = i - 1
       /\ stack[i].stage = "open" => stack[i].todo = {}
       /\ stack[i].stage = "enter" => stack[i].todo # {} /\ i <= MaxDepth /\ recursive
  /\ \A i, j \in Calls : i < j =>
       /\ stack[i].stage = "visit"
       /\ stack[i].path = SubSeq(stack[j].path, 1, i - 1)
       /\ stack[j].path[i] \notin stack[i].todo

\* A name still to be visited has nothing under it yet, and a directory whose first loop
\* runs has nothing but those names.
FreshInv ==
  \A i \in Calls :
    /\ \A b \in begun :
         /\ b.path = stack[i].path => stack[i].stage # "open"
         /\ Above(stack[i].path, b.path) =>
              stack[i].stage \notin {"open", "list"} /\ b.path[i] \notin stack[i].todo
    /\ \A path \in listed : Above(stack[i].path, path) =>
         /\ stack[i].stage # "open"
         /\ stack[i].stage = "list" => path[i] \in stack[i].todo
         /\ path[i] \in stack[i].todo => Len(path) = i

\* The directory has changed since its first Stat, in a way that shows or in its tick.
Newer(i) == stamp[stack[i].dir] # stack[i].stamp
Stale(i) == Newer(i) \/ stack[i].path \in blurred

\* What a call has seen of its directory is still there, or the directory is stale.
SawInv ==
  /\ \A d \in Dirs : stamp[d] <= clock
  /\ \A i \in Calls : stack[i].stage # "open" =>
       /\ stack[i].stamp <= stamp[stack[i].dir]
       /\ \E b \in begun : b.path = stack[i].path /\ b.dir = stack[i].dir
       /\ \A b \in begun : b.path = stack[i].path => Stale(i) \/ b.saw = listing[stack[i].dir]

\* And so is the directory that the next call was made for.
LinkInv ==
  \A i \in Calls :
    /\ i + 1 \in Calls =>
         Stale(i) \/ listing[stack[i].dir][stack[i + 1].path[i]] = stack[i + 1].dir
    /\ i = Len(stack) /\ stack[i].stage = "enter" => Stale(i) \/ Found = stack[i].info

\* A ledger is kept as long as the discovery has not failed.
Alive == result \in {"none", "ok"}

LimitInv == Cardinality(listed) <= MaxEntries /\ paths <= PathBytes

CompleteInv == Alive => (complete <=> \A e \in entries : e.state # "failed")

\* Every name charged for is accounted for, or its turn is to come.
Accounted(path) ==
  \/ \E e \in entries : e.path = path
  \/ \E b \in begun : b.path = path
  \/ \E k \in 1..(Len(path) - 1) : FailedAt(SubSeq(path, 1, k))
Awaited(path) ==
  \E i \in Calls :
    \/ path = stack[i].path
    \/ \E n \in stack[i].todo : path = Append(stack[i].path, n)
AccountInv == Alive => \A path \in listed : Accounted(path) \/ Awaited(path)

\* An entry recorded astray lies under a directory that is known to have failed or
\* changed, or that will be found changed when its call ends.
Excused(path) ==
  \E b \in begun : Above(b.path, path) /\ (b.path \in blurred \/ FailedAt(b.path))
Exposed(path) ==
  \E i \in Calls : stack[i].stage # "open" /\ Above(stack[i].path, path) /\ Newer(i)
AstrayInv == Alive => \A path \in astray : Excused(path) \/ Exposed(path)

\* What the result says of a name is true, or its turn is to come, or its directory will
\* be found changed.
Pending(b, n) ==
  \/ \E i \in Calls :
       /\ stack[i].path = b.path
       /\ stack[i].stage = "list" \/ n \in stack[i].todo \/ Newer(i)
  \/ /\ recursive /\ b.saw[n] \in Dirs
     /\ \E i \in Calls : stack[i].path = Append(b.path, n) /\ stack[i].dir = b.saw[n]
Reliable(b) == b.path \notin blurred /\ ~FailedAt(b.path)
FaithInv ==
  Alive => \A b \in begun : Reliable(b) => \A n \in Names : Settled(b, n) \/ Pending(b, n)

IInv ==
  /\ TypeInv /\ ChainInv /\ FreshInv /\ SawInv /\ LinkInv
  /\ LimitInv /\ CompleteInv /\ AccountInv /\ AstrayInv /\ FaithInv

---------------------------------------------------------------------------
(* Names, paths and the stack of calls.                                    *)

\* A set of names has a first one: what First chooses.
LEMMA LeastName ==
  ASSUME NEW todo \in SUBSET Names, todo # {}
  PROVE  \E n \in todo : \A m \in todo : n <= m
<1> DEFINE R == {ss \in Nat \X Nat : ss[1] < ss[2]}
<1>1. todo \in SUBSET Nat
  BY DiscoveryAssumptions
<1>2. IsWellFoundedOn(R, Nat)
  BY NatLessThanWellFounded DEF OpToRel
<1>3. PICK n \in todo : \A m \in todo : <<m, n>> \notin R
  BY <1>1, <1>2, WFMin, Zenon
<1>4. ASSUME NEW m \in todo PROVE n <= m
  <2>1. <<m, n>> \in Nat \X Nat /\ <<m, n>>[1] = m /\ <<m, n>>[2] = n
    BY <1>1
  <2>2. ~(m < n)
    BY <1>3, <2>1
  <2> QED
    BY <1>1, <2>2
<1> QED
  BY <1>3, <1>4

\* What lies under a path one longer: the same directories, and the path itself.
LEMMA AboveAppend ==
  ASSUME NEW p \in Paths, NEW q \in Paths, NEW m \in Names
  PROVE  Above(p, Append(q, m)) <=> p = q \/ Above(p, q)
<1> DEFINE qm == Append(q, m)
<1>1. qm \in Paths /\ Len(qm) = Len(q) + 1 /\ Len(q) \in Nat /\ Len(p) \in Nat
  BY DEF Paths
<1>2. ASSUME NEW k \in 0..Len(q) PROVE SubSeq(qm, 1, k) = SubSeq(q, 1, k)
  BY DEF Paths
<1>3. SubSeq(q, 1, Len(q)) = q
  BY DEF Paths
<1> HIDE DEF qm
<1>4. Above(p, qm) <=> Len(p) <= Len(q) /\ p = SubSeq(q, 1, Len(p))
  BY <1>1, <1>2 DEF Above
<1>5. Len(p) = Len(q) /\ p = SubSeq(q, 1, Len(p)) <=> p = q
  BY <1>3
<1> QED
  BY <1>1, <1>4, <1>5 DEF Above, qm

\* A path of a directory's entry, and the paths under that entry.
LEMMA AppendAbove ==
  ASSUME NEW p \in Paths, NEW q \in Paths, NEW m \in Names,
         p = Append(q, m) \/ Above(Append(q, m), p)
  PROVE  Above(q, p) /\ p[Len(q) + 1] = m /\ (p # Append(q, m) => Len(p) > Len(q) + 1)
<1> DEFINE qm == Append(q, m)
<1>1. qm \in Paths /\ Len(qm) = Len(q) + 1 /\ Len(q) \in Nat /\ Len(p) \in Nat
  BY DEF Paths
<1>2. qm[Len(q) + 1] = m /\ SubSeq(qm, 1, Len(q)) = q
  BY DEF Paths
<1>3. CASE p = qm
  BY <1>1, <1>2, <1>3 DEF Above
<1>4. CASE Above(qm, p)
  <2>1. Len(p) > Len(q) + 1 /\ qm = SubSeq(p, 1, Len(q) + 1)
    BY <1>1, <1>4 DEF Above
  <2>2. \A i \in 1..(Len(q) + 1) : SubSeq(p, 1, Len(q) + 1)[i] = p[i]
    BY <1>1, <2>1 DEF Paths
  <2>3. p[Len(q) + 1] = m
    BY <1>1, <1>2, <2>1, <2>2
  <2>4. SubSeq(SubSeq(p, 1, Len(q) + 1), 1, Len(q)) = SubSeq(p, 1, Len(q))
    BY <1>1, <2>1 DEF Paths
  <2>5. q = SubSeq(p, 1, Len(q))
    BY <1>2, <2>1, <2>4
  <2> QED
    BY <1>1, <2>1, <2>3, <2>5 DEF Above
<1> QED
  BY <1>3, <1>4

\* Being above is transitive.
LEMMA AboveAbove ==
  ASSUME NEW p \in Paths, NEW q \in Paths, NEW r \in Paths, Above(p, q), Above(q, r)
  PROVE  Above(p, r)
<1>1. Len(p) \in Nat /\ Len(q) \in Nat /\ Len(r) \in Nat
  BY DEF Paths
<1>2. Len(p) < Len(q) /\ Len(q) < Len(r) /\ p = SubSeq(q, 1, Len(p)) /\ q = SubSeq(r, 1, Len(q))
  BY DEF Above
<1>3. SubSeq(SubSeq(r, 1, Len(q)), 1, Len(p)) = SubSeq(r, 1, Len(p))
  BY <1>1, <1>2 DEF Paths
<1> QED
  BY <1>1, <1>2, <1>3 DEF Above

\* Sequences of calls: the innermost replaced, one added, one taken away.
LEMMA Replaced ==
  ASSUME NEW s \in Seq(Frames), s # <<>>, NEW f \in Frames
  PROVE  LET t == [s EXCEPT ![Len(s)] = f]
         IN /\ t \in Seq(Frames) /\ Len(t) = Len(s) /\ t # <<>> /\ t[Len(t)] = f
            /\ \A i \in 1..Len(s) : i # Len(s) => t[i] = s[i]
OBVIOUS

\* A call that is made stands on top of those in progress.
LEMMA Pushed ==
  ASSUME NEW s \in Seq(Frames), NEW f \in Frames
  PROVE  LET t == Append(s, f)
         IN /\ t \in Seq(Frames) /\ Len(t) = Len(s) + 1 /\ t # <<>> /\ t[Len(t)] = f
            /\ \A i \in 1..Len(s) : t[i] = s[i]
OBVIOUS

\* A call that returns leaves those below it as they were.
LEMMA Shortened ==
  ASSUME NEW s \in Seq(Frames), s # <<>>
  PROVE  LET t == SubSeq(s, 1, Len(s) - 1)
         IN /\ t \in Seq(Frames) /\ Len(t) = Len(s) - 1
            /\ \A i \in 1..Len(t) : t[i] = s[i]
<1>1. Len(s) \in Nat /\ Len(s) > 0
  OBVIOUS
<1>2. 1 \in 1..(Len(s) + 1) /\ Len(s) - 1 \in 0..Len(s)
  BY <1>1
<1> DEFINE t == SubSeq(s, 1, Len(s) - 1)
<1>3. t \in Seq(Frames)
  BY <1>1, <1>2, SubSeqProperties
<1>4. Len(t) = Len(s) - 1
  BY <1>1, <1>2, SubSeqProperties
<1>5. \A i \in 1..(Len(s) - 1) : t[i] = s[i]
  BY <1>1
<1> QED
  BY <1>3, <1>4, <1>5

---------------------------------------------------------------------------
(* The calls in progress.                                                  *)

\* While the walk runs there is an innermost call.
LEMMA CallFacts ==
  ASSUME TypeInv, ChainInv, Walking
  PROVE  /\ stack # <<>> /\ Len(stack) \in Nat /\ Len(stack) > 0 /\ Len(stack) \in Calls
         /\ Top = stack[Len(stack)] /\ Top \in Frames
         /\ Calls \subseteq Nat
         /\ \A i \in Calls : stack[i] \in Frames
<1>1. stack \in Seq(Frames) /\ stack # <<>>
  BY DEF TypeInv, ChainInv
<1> QED
  BY <1>1 DEF Top, Calls

\* What a call's frame holds.
LEMMA FrameFacts ==
  ASSUME NEW f \in Frames
  PROVE  /\ f.dir \in Dirs /\ f.path \in Paths /\ Len(f.path) \in Nat /\ f.stage \in Stages
         /\ f.stamp \in Nat /\ f.todo \in SUBSET Names /\ f.info \in Dirs
BY DEF Frames, Paths

\* The name to be visited next.
LEMMA NextName ==
  ASSUME TypeInv, ChainInv, Walking, Top.todo # {}
  PROVE  /\ First \in Top.todo /\ First \in Names /\ Here \in Paths
         /\ Len(Here) = Len(stack) /\ Found \in Values
<1>1. Top \in Frames
  BY CallFacts
<1>2. Top.todo \in SUBSET Names /\ Top.path \in Paths /\ Top.dir \in Dirs
  BY <1>1, FrameFacts
<1>3. \E n \in Top.todo : \A m \in Top.todo : n <= m
  BY <1>2, LeastName
<1>4. First \in Top.todo
  BY <1>3 DEF First
<1>5. Len(Top.path) = Len(stack) - 1 /\ Len(stack) \in Nat
  BY CallFacts DEF ChainInv
<1>6. First \in Names
  BY <1>2, <1>4
<1>7. Here \in Paths /\ Len(Here) = Len(stack)
  BY <1>2, <1>5, <1>6 DEF Here, Paths
<1>8. Found \in Values
  BY <1>2, <1>6 DEF Found, TypeInv, Contents
<1> QED
  BY <1>4, <1>6, <1>7, <1>8

\* The innermost frame is replaced by one of the same directory.
LEMMA RetopFacts ==
  ASSUME TypeInv, ChainInv, Walking,
         NEW f, f \in Frames, f.path = Top.path, f.dir = Top.dir, stack' = WithTop(f)
  PROVE  /\ stack' \in Seq(Frames) /\ stack' # <<>> /\ Len(stack') = Len(stack)
         /\ Calls' = Calls /\ Top' = f /\ stack'[Len(stack)] = f
         /\ \A i \in Calls : i # Len(stack) => stack'[i] = stack[i]
         /\ \A i \in Calls : stack'[i].path = stack[i].path /\ stack'[i].dir = stack[i].dir
<1>1. stack \in Seq(Frames) /\ stack # <<>>
  BY DEF TypeInv, ChainInv
<1>2. stack' = [stack EXCEPT ![Len(stack)] = f]
  BY DEF WithTop
<1>3. /\ stack' \in Seq(Frames) /\ Len(stack') = Len(stack) /\ stack' # <<>>
      /\ stack'[Len(stack')] = f
      /\ \A i \in 1..Len(stack) : i # Len(stack) => stack'[i] = stack[i]
  BY <1>1, <1>2, Replaced
<1>4. Top = stack[Len(stack)] /\ Top' = stack'[Len(stack')]
  BY DEF Top
<1> QED
  BY <1>3, <1>4 DEF Calls

\* What the innermost call does to its own frame leaves the chain of calls intact.
LEMMA RetopChain ==
  ASSUME TypeInv, ChainInv, Walking,
         NEW f, f \in Frames, f.path = Top.path, f.dir = Top.dir, stack' = WithTop(f),
         f.stage # "open",
         f.stage = "enter" => f.todo # {} /\ Len(stack) <= MaxDepth /\ recursive,
         UNCHANGED <<result, recursive>>
  PROVE  ChainInv'
<1>1. /\ stack' # <<>> /\ Len(stack') = Len(stack) /\ Calls' = Calls
      /\ stack'[Len(stack)] = f
      /\ \A i \in Calls : i # Len(stack) => stack'[i] = stack[i]
      /\ \A i \in Calls : stack'[i].path = stack[i].path
  BY RetopFacts
<1>2. Walking' /\ Len(stack') <= MaxDepth + 1
  BY <1>1 DEF Walking, ChainInv
<1>3. ASSUME NEW i \in Calls
      PROVE  /\ Len(stack'[i].path) = i - 1
             /\ stack'[i].stage = "open" => stack'[i].todo = {}
             /\ stack'[i].stage = "enter" => stack'[i].todo # {} /\ i <= MaxDepth /\ recursive
  BY <1>1 DEF ChainInv
<1>4. ASSUME NEW i \in Calls, NEW j \in Calls, i < j
      PROVE  /\ stack'[i].stage = "visit"
             /\ stack'[i].path = SubSeq(stack'[j].path, 1, i - 1)
             /\ stack'[j].path[i] \notin stack'[i].todo
  <2>1. i # Len(stack)
    BY <1>4, CallFacts DEF Calls
  <2> QED
    BY <1>1, <1>4, <2>1 DEF ChainInv
<1> QED
  BY <1>1, <1>2, <1>3, <1>4 DEF ChainInv

\* The innermost call goes on: what it and its callers have seen is still there, or stale.
LEMMA RetopSaw ==
  ASSUME IInv, Walking, Top.stage # "open",
         NEW f, f \in Frames, f.path = Top.path, f.dir = Top.dir, f.stamp = Top.stamp,
         f.stage # "open", stack' = WithTop(f),
         f.stage = "enter" => f.todo = Top.todo /\ f.info = Found,
         Same, UNCHANGED begun
  PROVE  SawInv' /\ LinkInv'
<1> USE DEF IInv
<1>1. /\ Len(stack') = Len(stack) /\ Calls' = Calls /\ stack'[Len(stack)] = f /\ Top' = f
      /\ \A i \in Calls : i # Len(stack) => stack'[i] = stack[i]
      /\ \A i \in Calls : stack'[i].path = stack[i].path /\ stack'[i].dir = stack[i].dir
  BY RetopFacts
<1>2. Len(stack) \in Calls /\ Top = stack[Len(stack)] /\ Calls \subseteq Nat
  BY CallFacts
<1>3. UNCHANGED <<listing, stamp, clock, blurred>>
  BY DEF Same, worldVars
<1>4. \A i \in Calls : stack'[i].stamp = stack[i].stamp
  BY <1>1, <1>2
<1>5. \A i \in Calls : (Newer(i)' <=> Newer(i)) /\ (Stale(i)' <=> Stale(i))
  BY <1>1, <1>3, <1>4 DEF Newer, Stale
<1>6. \A i \in Calls : stack'[i].stage # "open" => stack[i].stage # "open"
  BY <1>1, <1>2
<1>7. SawInv'
  BY <1>1, <1>3, <1>4, <1>5, <1>6 DEF SawInv
<1>8. ASSUME NEW i \in Calls, i + 1 \in Calls
      PROVE  Stale(i)' \/ listing[stack'[i].dir][stack'[i + 1].path[i]] = stack'[i + 1].dir
  BY <1>1, <1>5, <1>8 DEF LinkInv
<1>9. f.stage = "enter" => Found' = f.info
  <2>1. SUFFICES ASSUME f.stage = "enter" PROVE Found' = Found
    OBVIOUS
  <2>2. Top'.todo = Top.todo /\ Top'.dir = Top.dir
    BY <1>1, <2>1
  <2>3. First' = First
    BY <2>2 DEF First
  <2> QED
    BY <1>3, <2>2, <2>3 DEF Found
<1>10. LinkInv'
  BY <1>1, <1>3, <1>8, <1>9 DEF LinkInv
<1> QED
  BY <1>7, <1>10

\* And no name that waits has been looked at, if none is added to those that wait.
LEMMA RetopFresh ==
  ASSUME IInv, Walking, Top.stage # "open",
         NEW f, f \in Frames, f.path = Top.path, f.dir = Top.dir, stack' = WithTop(f),
         f.stage \in {"visit", "enter"}, f.todo \subseteq Top.todo,
         UNCHANGED <<begun, listed>>
  PROVE  FreshInv'
<1> USE DEF IInv
<1>1. /\ Calls' = Calls /\ stack'[Len(stack)] = f
      /\ \A i \in Calls : i # Len(stack) => stack'[i] = stack[i]
      /\ \A i \in Calls : stack'[i].path = stack[i].path
  BY RetopFacts
<1>2. Top = stack[Len(stack)]
  BY DEF Top
<1>3. \A i \in Calls : stack'[i].todo \subseteq stack[i].todo
  BY <1>1, <1>2
<1> QED
  BY <1>1, <1>2, <1>3 DEF FreshInv

---------------------------------------------------------------------------
(* The ledger.                                                             *)

\* A ledger that grows keeps what it says.
LEMMA LedgerGrows ==
  ASSUME entries \subseteq entries', begun \subseteq begun', blurred \subseteq blurred'
  PROVE  /\ \A path : FailedAt(path) => FailedAt(path)'
         /\ \A path : Accounted(path) => Accounted(path)'
         /\ \A path : Excused(path) => Excused(path)'
         /\ \A b : Reliable(b)' => Reliable(b)
<1>1. \A path : FailedAt(path) => FailedAt(path)'
  BY DEF FailedAt
<1>2. ASSUME NEW path, Accounted(path) PROVE Accounted(path)'
  BY <1>1, <1>2 DEF Accounted
<1>3. ASSUME NEW path, Excused(path) PROVE Excused(path)'
  BY <1>1, <1>3 DEF Excused
<1>4. ASSUME NEW b, Reliable(b)' PROVE Reliable(b)
  BY <1>1, <1>4 DEF Reliable
<1> QED
  BY <1>1, <1>2, <1>3, <1>4

\* What is settled of a name stays settled while entries and readings are added.
LEMMA SettledStays ==
  ASSUME entries \subseteq entries', begun \subseteq begun', recursive' = recursive,
         NEW b, NEW n, Settled(b, n), Append(b.path, n) \in listed' => Append(b.path, n) \in listed
  PROVE  Settled(b, n)'
<1>1. FailedAt(Append(b.path, n)) => FailedAt(Append(b.path, n))'
  BY DEF FailedAt
<1> QED
  BY <1>1 DEF Settled, EntryAt

---------------------------------------------------------------------------
(* The invariant holds initially.                                          *)

\* Before the root is opened nothing is listed, recorded or begun.
LEMMA InitInv == Init => IInv
<1> SUFFICES ASSUME Init PROVE IInv
  OBVIOUS
<1> DEFINE root == Call(Root, <<>>)
<1>1. root \in Frames /\ root.stage = "open" /\ root.todo = {} /\ root.path = <<>>
  BY DiscoveryAssumptions DEF Call, Frames, Paths, Stages
<1>2. stack = <<root>>
  BY DEF Init
<1> HIDE DEF root
<1>3. stack \in Seq(Frames) /\ Len(stack) = 1 /\ stack[1] = root /\ stack # <<>> /\ Calls = {1}
  BY <1>1, <1>2 DEF Calls
<1>4. TypeInv
  <2>1. listing \in [Dirs -> Contents]
    BY WorldAssumption DEF Init, IsTree, Contents
  <2>2. listed \subseteq Paths /\ IsFiniteSet(listed)
    BY FS_EmptySet DEF Init
  <2>3. stamp \in [Dirs -> Nat]
    BY DEF Init
  <2> QED
    BY <1>3, <2>1, <2>2, <2>3 DEF TypeInv, Init
<1>5. ChainInv
  BY <1>1, <1>3, DiscoveryAssumptions DEF ChainInv, Walking, Init
<1>6. FreshInv
  BY DEF FreshInv, Init
<1>7. SawInv /\ LinkInv
  BY <1>1, <1>3 DEF SawInv, LinkInv, Init
<1>8. LimitInv
  BY FS_EmptySet, DiscoveryAssumptions DEF LimitInv, Init
<1>9. CompleteInv /\ AccountInv /\ AstrayInv /\ FaithInv
  BY DEF CompleteInv, AccountInv, AstrayInv, FaithInv, Init
<1> QED
  BY <1>4, <1>5, <1>6, <1>7, <1>8, <1>9 DEF IInv

---------------------------------------------------------------------------
(* The steps.                                                              *)

\* A failed discovery has no calls and keeps no ledger.
LEMMA FailStep ==
  ASSUME IInv, NEW error \in Errors, Fail(error), Same, faults' \in Nat
  PROVE  IInv'
<1> USE DEF IInv
<1>1. /\ UNCHANGED <<listing, stamp, clock, changes, recursive, ctx, blurred>>
      /\ UNCHANGED <<listed, paths, complete, begun, astray>>
      /\ result' = error /\ stack' = <<>> /\ entries' = {}
  BY DEF Fail, Same, worldVars
<1>2. result' \notin {"none", "ok"} /\ result' \in Errors
  BY <1>1 DEF Errors
<1>3. Calls' = {} /\ Len(stack') = 0
  BY <1>1 DEF Calls
<1>4. TypeInv'
  BY <1>1, <1>2 DEF TypeInv
<1>5. ChainInv'
  BY <1>1, <1>2, <1>3, DiscoveryAssumptions DEF ChainInv, Walking
<1>6. FreshInv' /\ LinkInv'
  BY <1>3 DEF FreshInv, LinkInv
<1>7. SawInv'
  BY <1>1, <1>3 DEF SawInv
<1>8. LimitInv'
  BY <1>1 DEF LimitInv
<1>9. CompleteInv' /\ AccountInv' /\ AstrayInv' /\ FaithInv'
  BY <1>2 DEF CompleteInv, AccountInv, AstrayInv, FaithInv, Alive
<1> QED
  BY <1>4, <1>5, <1>6, <1>7, <1>8, <1>9

\* The clock and the context are nobody's ledger.
LEMMA RestStep ==
  ASSUME IInv, UNCHANGED <<walkVars, listing, stamp, changes, recursive, blurred, faults>>,
         clock' \in Nat, clock' >= clock, ctx' \in {"live", "done"}
  PROVE  IInv'
<1> USE DEF IInv, walkVars
<1>1. \A i : (Newer(i)' <=> Newer(i)) /\ (Stale(i)' <=> Stale(i))
  BY DEF Newer, Stale
<1>2. Calls' = Calls /\ Alive' = Alive /\ Walking' = Walking
  BY DEF Calls, Alive, Walking
<1>3. \A path : /\ FailedAt(path)' <=> FailedAt(path)
                /\ Accounted(path)' <=> Accounted(path)
                /\ Awaited(path)' <=> Awaited(path)
                /\ Excused(path)' <=> Excused(path)
                /\ Exposed(path)' <=> Exposed(path)
  BY DEF FailedAt, Accounted, Awaited, Excused, Exposed, Newer, Calls
<1>4. \A b, n : /\ Settled(b, n)' <=> Settled(b, n)
                /\ Pending(b, n)' <=> Pending(b, n)
                /\ Reliable(b)' <=> Reliable(b)
  BY DEF Settled, EntryAt, FailedAt, Pending, Reliable, Newer, Calls
<1>5. TypeInv'
  BY DEF TypeInv
<1>6. ChainInv' /\ FreshInv'
  BY <1>2 DEF ChainInv, FreshInv
<1>7. SawInv'
  <2>1. \A d \in Dirs : stamp'[d] <= clock'
    BY DEF SawInv, TypeInv
  <2> QED
    BY <1>1, <1>2, <2>1 DEF SawInv
<1>8. LinkInv'
  <2>1. Found' = Found
    BY DEF Found, First, Top
  <2> QED
    BY <1>1, <1>2, <2>1 DEF LinkInv
<1>9. LimitInv' /\ CompleteInv'
  BY <1>2 DEF LimitInv, CompleteInv
<1>10. AccountInv' /\ AstrayInv' /\ FaithInv'
  BY <1>2, <1>3, <1>4 DEF AccountInv, AstrayInv, FaithInv
<1> QED
  BY <1>5, <1>6, <1>7, <1>8, <1>9, <1>10

\* openDirectory and the first Stat.
LEMMA OpenStep == ASSUME IInv, OpenDirectory PROVE IInv'
<1> USE DEF IInv
<1> DEFINE f == [Top EXCEPT !.stage = "list", !.stamp = stamp[Top.dir]]
<1> DEFINE read == [path |-> Top.path, dir |-> Top.dir, saw |-> listing[Top.dir]]
<1>1. /\ Walking /\ Top.stage = "open" /\ stack' = WithTop(f) /\ begun' = begun \cup {read}
      /\ UNCHANGED <<listed, paths, entries, complete, result, astray>>
      /\ UNCHANGED <<listing, stamp, clock, changes, recursive, ctx, blurred, faults>>
  BY DEF OpenDirectory, Same, NoFault, worldVars
<1>2. /\ Len(stack) \in Calls /\ Top = stack[Len(stack)] /\ Top \in Frames /\ Calls \subseteq Nat
      /\ \A i \in Calls : stack[i] \in Frames
  BY <1>1, CallFacts
<1>3. Top.todo = {} /\ Len(Top.path) = Len(stack) - 1
  BY <1>1, <1>2 DEF ChainInv
<1>4. /\ f \in Frames /\ f.path = Top.path /\ f.dir = Top.dir /\ f.stage = "list"
      /\ f.stamp = stamp[f.dir] /\ f.todo = {}
  BY <1>2, <1>3 DEF Frames, Stages, TypeInv
<1>5. read \in Readings /\ read.path = Top.path /\ read.dir = Top.dir /\ read.saw = listing[Top.dir]
  BY <1>2 DEF Frames, Readings, TypeInv
<1> HIDE DEF f, read
<1>6. /\ stack' \in Seq(Frames) /\ Calls' = Calls /\ stack'[Len(stack)] = f
      /\ \A i \in Calls : i # Len(stack) => stack'[i] = stack[i]
      /\ \A i \in Calls : stack'[i].path = stack[i].path /\ stack'[i].dir = stack[i].dir
      /\ Len(stack') = Len(stack)
  BY <1>1, <1>4, RetopFacts
<1>7. Walking' /\ Alive' = Alive
  BY <1>1 DEF Walking, Alive
<1>8. TypeInv'
  BY <1>1, <1>5, <1>6 DEF TypeInv
<1>9. ChainInv'
  BY <1>1, <1>4, RetopChain
<1>10. \A i \in Calls : ~Above(stack[i].path, Top.path) \/ i # Len(stack)
  BY <1>2, <1>3 DEF Above
<1>11. ASSUME NEW i \in Calls, i # Len(stack)
       PROVE  stack[i].path # Top.path /\ stack[i].stage = "visit" /\ Top.path[i] \notin stack[i].todo
  <2>1. i < Len(stack) /\ Len(stack[i].path) = i - 1
    BY <1>2, <1>11 DEF ChainInv, Calls
  <2>2. stack[i].path # Top.path
    BY <1>2, <1>3, <2>1
  <2> QED
    BY <1>2, <2>1, <2>2 DEF ChainInv
<1>12. FreshInv'
  <2>1. ASSUME NEW i \in Calls, NEW b \in begun'
        PROVE  /\ b.path = stack'[i].path => stack'[i].stage # "open"
               /\ Above(stack'[i].path, b.path) =>
                    stack'[i].stage \notin {"open", "list"} /\ b.path[i] \notin stack'[i].todo
    <3>1. CASE b = read
      BY <1>2, <1>4, <1>5, <1>6, <1>10, <1>11, <3>1
    <3>2. CASE b \in begun /\ i = Len(stack)
      BY <1>1, <1>2, <1>4, <1>6, <3>2 DEF FreshInv
    <3>3. CASE b \in begun /\ i # Len(stack)
      BY <1>6, <3>3 DEF FreshInv
    <3> QED
      BY <1>1, <3>1, <3>2, <3>3
  <2>2. ASSUME NEW i \in Calls, NEW path \in listed, Above(stack'[i].path, path)
        PROVE  /\ stack'[i].stage # "open"
               /\ stack'[i].stage = "list" => path[i] \in stack'[i].todo
               /\ path[i] \in stack'[i].todo => Len(path) = i
    BY <1>1, <1>2, <1>6, <2>2 DEF FreshInv
  <2> QED
    BY <1>1, <1>6, <2>1, <2>2 DEF FreshInv
<1>13. \A i \in Calls : i # Len(stack) => (Newer(i)' <=> Newer(i)) /\ (Stale(i)' <=> Stale(i))
  BY <1>1, <1>6 DEF Newer, Stale
<1>14. SawInv'
  <2>1. ASSUME NEW i \in Calls, stack'[i].stage # "open"
        PROVE  /\ stack'[i].stamp <= stamp[stack'[i].dir]
               /\ \E b \in begun' : b.path = stack'[i].path /\ b.dir = stack'[i].dir
               /\ \A b \in begun' : b.path = stack'[i].path =>
                    Stale(i)' \/ b.saw = listing[stack'[i].dir]
    <3>1. CASE i # Len(stack)
      BY <1>1, <1>5, <1>6, <1>11, <1>13, <2>1, <3>1 DEF SawInv
    <3>2. CASE i = Len(stack)
      <4>1. \A b \in begun : b.path # Top.path
        BY <1>1, <1>2 DEF FreshInv
      <4>2. f.stamp <= stamp[f.dir]
        BY <1>4, FrameFacts DEF TypeInv
      <4> QED
        BY <1>1, <1>4, <1>5, <1>6, <3>2, <4>1, <4>2
    <3> QED
      BY <3>1, <3>2
  <2> QED
    BY <1>1, <1>6, <2>1 DEF SawInv
<1>15. LinkInv'
  <2>1. ASSUME NEW i \in Calls, i + 1 \in Calls
        PROVE  Stale(i)' \/ listing[stack'[i].dir][stack'[i + 1].path[i]] = stack'[i + 1].dir
    <3>1. i # Len(stack)
      BY <1>2, <2>1 DEF Calls
    <3> QED
      BY <1>6, <1>13, <2>1, <3>1 DEF LinkInv
  <2> QED
    BY <1>1, <1>4, <1>6, <2>1 DEF LinkInv
<1>16. LimitInv' /\ CompleteInv'
  BY <1>1, <1>7 DEF LimitInv, CompleteInv
<1>17. /\ \A path : Accounted(path) => Accounted(path)'
       /\ \A path : Excused(path) => Excused(path)'
       /\ \A b : Reliable(b)' => Reliable(b)
  BY <1>1, LedgerGrows
<1>18. AccountInv'
  <2>1. ASSUME NEW path, Awaited(path) PROVE Awaited(path)'
    BY <1>2, <1>3, <1>6, <2>1 DEF Awaited
  <2> QED
    BY <1>1, <1>7, <1>17, <2>1 DEF AccountInv
<1>19. AstrayInv'
  <2>1. ASSUME NEW path, Exposed(path) PROVE Exposed(path)'
    BY <1>1, <1>2, <1>6, <1>13, <2>1 DEF Exposed
  <2> QED
    BY <1>1, <1>7, <1>17, <2>1 DEF AstrayInv
<1>20. FaithInv'
  <2>1. SUFFICES ASSUME Alive, NEW b \in begun', Reliable(b)', NEW n \in Names
                 PROVE  Settled(b, n)' \/ Pending(b, n)'
    BY <1>7 DEF FaithInv
  <2>2. CASE b.path = Top.path
    BY <1>2, <1>4, <1>6, <2>2 DEF Pending
  <2>3. CASE b.path # Top.path
    <3>1. b \in begun /\ Reliable(b)
      BY <1>1, <1>5, <1>17, <2>1, <2>3
    <3>2. CASE Settled(b, n)
      BY <1>1, <3>2, SettledStays
    <3>3. CASE Pending(b, n)
      BY <1>1, <1>2, <1>6, <1>13, <2>3, <3>3 DEF Pending
    <3> QED
      BY <2>1, <3>1, <3>2, <3>3 DEF FaithInv
  <2> QED
    BY <2>2, <2>3
<1> QED
  BY <1>8, <1>9, <1>12, <1>14, <1>15, <1>16, <1>18, <1>19, <1>20

\* The innermost call goes on: what waits for a call to end still waits.
LEMMA RetopWaits ==
  ASSUME IInv, Walking, Top.stage # "open",
         NEW f, f \in Frames, f.path = Top.path, f.dir = Top.dir, f.stamp = Top.stamp,
         f.stage # "open", stack' = WithTop(f), UNCHANGED <<stamp, recursive>>
  PROVE  /\ \A path : Exposed(path) => Exposed(path)'
         /\ Top.todo \subseteq f.todo => \A path : Awaited(path) => Awaited(path)'
         /\ \A b, n :
              /\ Pending(b, n)
              /\ b.path = Top.path /\ (Top.stage = "list" \/ n \in Top.todo) =>
                   f.stage = "list" \/ n \in f.todo \/ Newer(Len(stack))
              => Pending(b, n)'
<1> USE DEF IInv
<1>1. /\ Calls' = Calls /\ stack'[Len(stack)] = f
      /\ \A i \in Calls : i # Len(stack) => stack'[i] = stack[i]
      /\ \A i \in Calls : stack'[i].path = stack[i].path /\ stack'[i].dir = stack[i].dir
  BY RetopFacts
<1>2. Len(stack) \in Calls /\ Top = stack[Len(stack)]
  BY CallFacts
<1>3. \A i \in Calls : Newer(i)' <=> Newer(i)
  BY <1>1, <1>2 DEF Newer
<1>4. ASSUME NEW path, Exposed(path) PROVE Exposed(path)'
  BY <1>1, <1>2, <1>3, <1>4 DEF Exposed
<1>5. ASSUME Top.todo \subseteq f.todo, NEW path, Awaited(path) PROVE Awaited(path)'
  <2>1. PICK i \in Calls :
          path = stack[i].path \/ \E n \in stack[i].todo : path = Append(stack[i].path, n)
    BY <1>5 DEF Awaited
  <2>2. i \in Calls' /\ stack'[i].path = stack[i].path
    BY <1>1
  <2>3. stack[i].todo \subseteq stack'[i].todo
    BY <1>1, <1>2, <1>5
  <2>4. path = stack'[i].path \/ \E n \in stack'[i].todo : path = Append(stack'[i].path, n)
    BY <2>1, <2>2, <2>3
  <2> QED
    BY <2>2, <2>4 DEF Awaited
<1>6. ASSUME NEW b, NEW n, Pending(b, n),
             b.path = Top.path /\ (Top.stage = "list" \/ n \in Top.todo) =>
               f.stage = "list" \/ n \in f.todo \/ Newer(Len(stack))
      PROVE  Pending(b, n)'
  <2>1. CASE recursive /\ b.saw[n] \in Dirs /\
             \E i \in Calls : stack[i].path = Append(b.path, n) /\ stack[i].dir = b.saw[n]
    BY <1>1, <2>1 DEF Pending
  <2>2. ASSUME NEW i \in Calls, stack[i].path = b.path,
               stack[i].stage = "list" \/ n \in stack[i].todo \/ Newer(i)
        PROVE  Pending(b, n)'
    BY <1>1, <1>2, <1>3, <1>6, <2>2 DEF Pending
  <2> QED
    BY <1>6, <2>1, <2>2 DEF Pending
<1> QED
  BY <1>4, <1>5, <1>6

\* A batch of names that are checked and charged.
LEMMA KeepStep ==
  ASSUME IInv, Walking, Top.stage = "list",
         NEW batch \in Batches, Fits(batch), Keep(batch), Same, NoFault
  PROVE  IInv'
<1> USE DEF IInv
<1> DEFINE f == [Top EXCEPT !.todo = @ \cup batch]
<1> DEFINE new == {Append(Top.path, n) : n \in batch}
<1>1. /\ stack' = WithTop(f) /\ listed' = listed \cup new /\ paths' = paths + Charge(batch)
      /\ UNCHANGED <<entries, complete, result, begun, astray>>
      /\ UNCHANGED <<listing, stamp, clock, changes, recursive, ctx, blurred, faults>>
  BY DEF Keep, Same, NoFault, worldVars
<1>2. /\ Len(stack) \in Calls /\ Top = stack[Len(stack)] /\ Top \in Frames /\ Calls \subseteq Nat
      /\ \A i \in Calls : stack[i] \in Frames
  BY CallFacts
<1>3. Top.path \in Paths /\ Len(Top.path) = Len(stack) - 1
  BY <1>2, FrameFacts DEF ChainInv
<1>4. batch \in SUBSET Names /\ IsFiniteSet(batch) /\ Cardinality(batch) \in Nat
  <2>1. batch \subseteq Names
    BY DEF Batches, Unread
  <2> QED
    BY <2>1, DiscoveryAssumptions, FS_Subset, FS_CardinalityType
<1>5. /\ f \in Frames /\ f.path = Top.path /\ f.dir = Top.dir /\ f.stage = "list"
      /\ f.stamp = Top.stamp /\ f.todo = Top.todo \cup batch
  BY <1>2, <1>4 DEF Frames
<1>6. new \subseteq Paths
  BY <1>3, <1>4 DEF Paths
<1>7. IsFiniteSet(new) /\ Cardinality(new) <= Cardinality(batch)
  <2> DEFINE name == [n \in batch |-> Append(Top.path, n)]
  <2>1. name \in Surjection(batch, new)
    BY DEF Surjection
  <2> QED
    BY <1>4, <2>1, FS_Surjection
<1> HIDE DEF f, new
<1>8. Charge(batch) \in Nat
  <2>1. Top.path \in Seq(Nat)
    BY <1>3, DiscoveryAssumptions, SeqMonotonic DEF Paths
  <2>2. Len(Append(Top.path, 0)) \in Nat /\ Len(Append(Top.path, 0)) > 0
    BY <2>1
  <2>3. Bytes(Append(Top.path, 0)) \in Nat
    BY <2>2 DEF Bytes
  <2>4. \A x, y \in Nat : x * y \in Nat
    OBVIOUS
  <2> QED
    BY <1>4, <2>3, <2>4 DEF Charge
<1>9. /\ stack' \in Seq(Frames) /\ Calls' = Calls /\ stack'[Len(stack)] = f
      /\ \A i \in Calls : i # Len(stack) => stack'[i] = stack[i]
      /\ \A i \in Calls : stack'[i].path = stack[i].path /\ stack'[i].dir = stack[i].dir
  BY <1>1, <1>5, RetopFacts
<1>10. Alive' = Alive
  BY <1>1 DEF Alive
<1>11. IsFiniteSet(listed') /\ Cardinality(listed') <= Cardinality(listed) + Cardinality(new)
  <2>1. IsFiniteSet(listed)
    BY DEF TypeInv
  <2>2. /\ IsFiniteSet(listed \cup new)
        /\ Cardinality(listed \cup new)
             = Cardinality(listed) + Cardinality(new) - Cardinality(listed \cap new)
    BY <1>7, <2>1, FS_Union
  <2>3. Cardinality(listed \cap new) \in Nat
    BY <2>1, FS_Subset, FS_CardinalityType
  <2>4. Cardinality(listed) \in Nat /\ Cardinality(new) \in Nat
    BY <1>7, <2>1, FS_CardinalityType
  <2> QED
    BY <1>1, <2>2, <2>3, <2>4
<1>12. TypeInv'
  BY <1>1, <1>6, <1>8, <1>9, <1>11 DEF TypeInv
<1>13. ChainInv'
  BY <1>1, <1>5, RetopChain
<1>14. SawInv' /\ LinkInv'
  BY <1>1, <1>5, RetopSaw
<1>15. FreshInv'
  <2>1. ASSUME NEW i \in Calls, NEW b \in begun
        PROVE  /\ b.path = stack'[i].path => stack'[i].stage # "open"
               /\ Above(stack'[i].path, b.path) =>
                    stack'[i].stage \notin {"open", "list"} /\ b.path[i] \notin stack'[i].todo
    BY <1>2, <1>5, <1>9 DEF FreshInv
  <2>2. ASSUME NEW i \in Calls, NEW path \in listed, Above(stack'[i].path, path)
        PROVE  /\ stack'[i].stage # "open"
               /\ stack'[i].stage = "list" => path[i] \in stack'[i].todo
               /\ path[i] \in stack'[i].todo => Len(path) = i
    BY <1>2, <1>5, <1>9, <2>2 DEF FreshInv
  <2>3. ASSUME NEW i \in Calls, NEW path \in new, Above(stack'[i].path, path)
        PROVE  /\ stack'[i].stage # "open"
               /\ stack'[i].stage = "list" => path[i] \in stack'[i].todo
               /\ path[i] \in stack'[i].todo => Len(path) = i
    <3>1. PICK n \in batch : path = Append(Top.path, n)
      BY DEF new
    <3>2. n \in Names /\ Len(path) = Len(stack) /\ path[Len(stack)] = n
      BY <1>2, <1>3, <1>4, <3>1 DEF Paths
    <3>3. CASE i = Len(stack)
      BY <1>5, <1>9, <3>2, <3>3
    <3>4. CASE i # Len(stack)
      <4>1. i < Len(stack)
        BY <1>2, <3>4 DEF Calls
      <4>2. path[i] = Top.path[i]
        BY <1>2, <1>3, <3>1, <3>2, <4>1 DEF Paths, Calls
      <4> QED
        BY <1>2, <1>9, <3>4, <4>1, <4>2 DEF ChainInv
    <3> QED
      BY <3>3, <3>4
  <2> QED
    BY <1>1, <1>9, <2>1, <2>2, <2>3 DEF FreshInv
<1>16. LimitInv'
  <2>1. Cardinality(listed) \in Nat /\ Cardinality(new) \in Nat /\ Cardinality(listed') \in Nat
    BY <1>7, <1>11, FS_CardinalityType DEF TypeInv
  <2> QED
    BY <1>1, <1>4, <1>7, <1>11, <2>1, DiscoveryAssumptions DEF LimitInv, Fits
<1>17. CompleteInv'
  BY <1>1, <1>10 DEF CompleteInv
<1>18. /\ \A path : Exposed(path) => Exposed(path)'
       /\ \A path : Awaited(path) => Awaited(path)'
       /\ \A b, n : Pending(b, n) => Pending(b, n)'
  BY <1>1, <1>5, RetopWaits
<1>19. /\ \A path : Accounted(path) => Accounted(path)'
       /\ \A path : Excused(path) => Excused(path)'
       /\ \A b : Reliable(b)' => Reliable(b)
  BY <1>1, LedgerGrows
<1>20. AccountInv'
  <2>1. ASSUME NEW path \in new PROVE Awaited(path)'
    BY <1>2, <1>5, <1>9, <2>1 DEF Awaited, new
  <2> QED
    BY <1>1, <1>10, <1>18, <1>19, <2>1 DEF AccountInv
<1>21. AstrayInv'
  BY <1>1, <1>10, <1>18, <1>19 DEF AstrayInv
<1>22. FaithInv'
  <2>1. SUFFICES ASSUME Alive, NEW b \in begun, Reliable(b)', NEW n \in Names
                 PROVE  Settled(b, n)' \/ Pending(b, n)'
    BY <1>1, <1>10 DEF FaithInv
  <2>2. CASE b.path = Top.path
    BY <1>2, <1>5, <1>9, <2>2 DEF Pending
  <2>3. CASE b.path # Top.path
    <3>1. ASSUME Append(b.path, n) \in new PROVE FALSE
      <4>1. PICK m \in batch : Append(b.path, n) = Append(Top.path, m)
        BY <3>1 DEF new
      <4>2. b.path \in Paths /\ m \in Names
        BY <1>4 DEF TypeInv, Readings
      <4>3. \A p, q \in Paths : \A x, y \in Names : Append(p, x) = Append(q, y) => p = q
        BY AppendProperties DEF Paths
      <4> QED
        BY <1>3, <2>3, <4>1, <4>2, <4>3
    <3>2. Settled(b, n) => Settled(b, n)'
      BY <1>1, <3>1, SettledStays
    <3> QED
      BY <1>18, <1>19, <2>1, <3>2 DEF FaithInv
  <2> QED
    BY <2>2, <2>3
<1> QED
  BY <1>12, <1>13, <1>14, <1>15, <1>16, <1>17, <1>20, <1>21, <1>22

\* The end of a listing that nothing has disturbed: the names that do not wait are not there.
LEMMA ListedStep ==
  ASSUME IInv, Walking, Top.stage = "list", Unread = {}, ~Noticed,
         stack' = WithTop([Top EXCEPT !.stage = "visit"]),
         UNCHANGED <<listed, paths, entries, complete, result, begun, astray>>, Same, NoFault
  PROVE  IInv'
<1> USE DEF IInv
<1> DEFINE f == [Top EXCEPT !.stage = "visit"]
<1>1. /\ UNCHANGED <<listing, stamp, clock, changes, recursive, ctx, blurred, faults>>
      /\ stack' = WithTop(f)
  BY DEF Same, NoFault, worldVars
<1>2. /\ Len(stack) \in Calls /\ Top = stack[Len(stack)] /\ Top \in Frames /\ Calls \subseteq Nat
  BY CallFacts
<1>3. Top.path \in Paths /\ Len(Top.path) = Len(stack) - 1 /\ Top.dir \in Dirs
  BY <1>2, FrameFacts DEF ChainInv
<1>4. /\ f \in Frames /\ f.path = Top.path /\ f.dir = Top.dir /\ f.stage = "visit"
      /\ f.stamp = Top.stamp /\ f.todo = Top.todo
  BY <1>2 DEF Frames, Stages
<1> HIDE DEF f
<1>5. stack' \in Seq(Frames) /\ Alive' = Alive
  BY <1>1, <1>4, RetopFacts DEF Alive
<1>6. TypeInv'
  BY <1>1, <1>5 DEF TypeInv
<1>7. ChainInv'
  BY <1>1, <1>4, RetopChain
<1>8. SawInv' /\ LinkInv'
  BY <1>1, <1>4, RetopSaw
<1>9. FreshInv'
  BY <1>1, <1>4, RetopFresh
<1>10. LimitInv' /\ CompleteInv'
  BY <1>5 DEF LimitInv, CompleteInv
<1>11. /\ \A path : Exposed(path) => Exposed(path)'
       /\ \A path : Awaited(path) => Awaited(path)'
       /\ \A b, n : Pending(b, n) /\ (b.path # Top.path \/ n \in Top.todo) => Pending(b, n)'
  BY <1>1, <1>4, RetopWaits
<1>12. /\ \A path : Accounted(path) => Accounted(path)'
       /\ \A path : Excused(path) => Excused(path)'
       /\ \A b : Reliable(b)' => Reliable(b)
  BY <1>1, LedgerGrows
<1>13. AccountInv' /\ AstrayInv'
  BY <1>5, <1>11, <1>12 DEF AccountInv, AstrayInv
<1>14. FaithInv'
  <2>1. SUFFICES ASSUME Alive, NEW b \in begun, Reliable(b)', NEW n \in Names
                 PROVE  Settled(b, n)' \/ Pending(b, n)'
    BY <1>5 DEF FaithInv
  <2>2. Settled(b, n) => Settled(b, n)'
    BY <1>1, SettledStays
  <2>3. CASE b.path # Top.path \/ n \in Top.todo
    BY <1>11, <1>12, <2>1, <2>2, <2>3 DEF FaithInv
  <2>4. CASE b.path = Top.path /\ n \notin Top.todo
    <3>1. b.saw = listing[Top.dir]
      <4>1. ~Stale(Len(stack))
        BY <1>2, <1>12, <2>1, <2>4 DEF Stale, Newer, Noticed, Reliable
      <4> QED
        BY <1>2, <2>4, <4>1 DEF SawInv
    <3>2. b.saw[n] = "absent"
      BY <2>1, <2>4, <3>1 DEF Unread
    <3>3. Append(b.path, n) \notin listed
      <4>1. SUFFICES ASSUME Append(b.path, n) \in listed PROVE FALSE
        OBVIOUS
      <4>2. PICK path \in listed : path = Append(Top.path, n)
        BY <2>4, <4>1
      <4>3. path \in Paths
        BY DEF TypeInv
      <4>4. Above(Top.path, path) /\ path[Len(Top.path) + 1] = n
        BY <1>3, <4>2, <4>3, AppendAbove
      <4>5. path[Len(stack)] = n
        BY <1>2, <1>3, <4>4
      <4> QED
        BY <1>2, <2>4, <4>4, <4>5 DEF FreshInv
    <3> QED
      BY <2>2, <3>2, <3>3 DEF Settled
  <2> QED
    BY <2>3, <2>4
<1> QED
  BY <1>6, <1>7, <1>8, <1>9, <1>10, <1>13, <1>14

\* Lstat has found a directory that is going to be opened.
LEMMA ApproachStep ==
  ASSUME IInv, Walking, Top.stage = "visit", Top.todo # {}, Found \in Dirs, recursive,
         Len(Top.path) < MaxDepth,
         stack' = WithTop([Top EXCEPT !.stage = "enter", !.info = Found]),
         UNCHANGED <<listed, paths, entries, complete, result, begun, astray>>, Same, NoFault
  PROVE  IInv'
<1> USE DEF IInv
<1> DEFINE f == [Top EXCEPT !.stage = "enter", !.info = Found]
<1>1. /\ UNCHANGED <<listing, stamp, clock, changes, recursive, ctx, blurred, faults>>
      /\ stack' = WithTop(f)
  BY DEF Same, NoFault, worldVars
<1>2. /\ Len(stack) \in Calls /\ Top = stack[Len(stack)] /\ Top \in Frames /\ Len(stack) \in Nat
  BY CallFacts
<1>3. Len(stack) <= MaxDepth
  BY <1>2, DiscoveryAssumptions DEF ChainInv
<1>4. /\ f \in Frames /\ f.path = Top.path /\ f.dir = Top.dir /\ f.stage = "enter"
      /\ f.stamp = Top.stamp /\ f.todo = Top.todo /\ f.info = Found
  BY <1>2 DEF Frames, Stages
<1> HIDE DEF f
<1>5. stack' \in Seq(Frames) /\ Alive' = Alive
  BY <1>1, <1>4, RetopFacts DEF Alive
<1>6. TypeInv'
  BY <1>1, <1>5 DEF TypeInv
<1>7. ChainInv'
  BY <1>1, <1>3, <1>4, RetopChain
<1>8. SawInv' /\ LinkInv'
  BY <1>1, <1>4, RetopSaw
<1>9. FreshInv'
  BY <1>1, <1>4, RetopFresh
<1>10. LimitInv' /\ CompleteInv'
  BY <1>5 DEF LimitInv, CompleteInv
<1>11. /\ \A path : Exposed(path) => Exposed(path)'
       /\ \A path : Awaited(path) => Awaited(path)'
       /\ \A b, n : Pending(b, n) => Pending(b, n)'
  BY <1>1, <1>4, RetopWaits
<1>12. /\ \A path : Accounted(path) => Accounted(path)'
       /\ \A path : Excused(path) => Excused(path)'
       /\ \A b : Reliable(b)' => Reliable(b)
  BY <1>1, LedgerGrows
<1>13. AccountInv' /\ AstrayInv'
  BY <1>5, <1>11, <1>12 DEF AccountInv, AstrayInv
<1>14. ASSUME NEW b, NEW n, Settled(b, n) PROVE Settled(b, n)'
  BY <1>1, <1>14, SettledStays
<1>15. FaithInv'
  BY <1>5, <1>11, <1>12, <1>14 DEF FaithInv
<1> QED
  BY <1>6, <1>7, <1>8, <1>9, <1>10, <1>13, <1>15

\* An entry that is recorded while its path leads elsewhere lies under a directory that
\* has changed.
LEMMA AstrayShows ==
  ASSUME IInv, Walking, ~OnPath
  PROVE  \/ Excused(Top.path)
         \/ \E i \in Calls : /\ i # Len(stack) /\ stack[i].stage # "open"
                             /\ Above(stack[i].path, Top.path) /\ Newer(i)
<1> USE DEF IInv
<1>1. /\ Len(stack) \in Calls /\ Top = stack[Len(stack)] /\ Calls \subseteq Nat
      /\ \A i \in Calls : stack[i] \in Frames
  BY CallFacts
<1>2. PICK i \in 1..(Len(stack) - 1) : listing[stack[i].dir][stack[i + 1].path[i]] # stack[i + 1].dir
  BY DEF OnPath
<1>3. i \in Calls /\ i + 1 \in Calls /\ i < Len(stack)
  BY <1>1 DEF Calls
<1>4. Stale(i)
  BY <1>2, <1>3 DEF LinkInv
<1>5. stack[i].stage = "visit" /\ stack[i].path = SubSeq(Top.path, 1, i - 1)
  BY <1>1, <1>3 DEF ChainInv
<1>6. Len(stack[i].path) = i - 1 /\ Len(Top.path) = Len(stack) - 1
  BY <1>1, <1>3 DEF ChainInv
<1>7. Above(stack[i].path, Top.path)
  BY <1>1, <1>3, <1>5, <1>6 DEF Above
<1>8. PICK b \in begun : b.path = stack[i].path
  BY <1>3, <1>5 DEF SawInv
<1>9. CASE Newer(i)
  <2>1. i # Len(stack) /\ stack[i].stage # "open"
    BY <1>1, <1>3, <1>5
  <2> QED
    BY <1>3, <1>7, <1>9, <2>1, Zenon
<1>10. CASE stack[i].path \in blurred
  BY <1>7, <1>8, <1>10 DEF Excused
<1> QED
  BY <1>4, <1>9, <1>10 DEF Stale

\* What an entry may say of what Lstat has found.
Tells(kind, state) ==
  \/ state = "failed"
  \/ Found = "file" /\ kind = "file" /\ state = "candidate"
  \/ Found = "link" /\ kind = "symlink" /\ state = "skipped"
  \/ Found = "special" /\ kind = "special" /\ state = "skipped"
  \/ Found \in Dirs /\ ~recursive /\ kind = "directory" /\ state = "skipped"

\* An entry is recorded for the name that is visited.
LEMMA RecordStep ==
  ASSUME IInv, Walking, Top.stage \in {"visit", "enter"}, Top.todo # {},
         NEW kind \in Kinds, NEW state \in {"candidate", "skipped", "failed"},
         Tells(kind, state), Add(Here, kind, state), stack' = Handled,
         UNCHANGED <<listed, paths, result, begun>>, Same, faults' \in Nat
  PROVE  IInv'
<1> USE DEF IInv
<1> DEFINE f == [Top EXCEPT !.stage = "visit", !.todo = @ \ {First}]
<1> DEFINE entry == [path |-> Here, kind |-> kind, state |-> state]
<1>1. /\ UNCHANGED <<listing, stamp, clock, changes, recursive, ctx, blurred>>
      /\ stack' = WithTop(f) /\ entries' = entries \cup {entry}
      /\ complete' = (complete /\ state # "failed")
      /\ astray' = IF OnPath THEN astray ELSE astray \cup {Here}
  BY DEF Same, Handled, worldVars, Add
<1>2. /\ Len(stack) \in Calls /\ Top = stack[Len(stack)] /\ Top \in Frames /\ Len(stack) \in Nat
      /\ \A i \in Calls : stack[i] \in Frames
  BY CallFacts
<1>3. Top.path \in Paths /\ Len(Top.path) = Len(stack) - 1 /\ Top.todo \in SUBSET Names
  BY <1>2, FrameFacts DEF ChainInv
<1>4. /\ f \in Frames /\ f.path = Top.path /\ f.dir = Top.dir /\ f.stage = "visit"
      /\ f.stamp = Top.stamp /\ f.todo = Top.todo \ {First}
  BY <1>2 DEF Frames, Stages
<1>5. First \in Top.todo /\ First \in Names /\ Here \in Paths /\ Here = Append(Top.path, First)
  BY NextName DEF Here
<1> PICK here \in Paths : here = Here
  BY <1>5
<1>6. entry \in Entries /\ entry.path = Here /\ entry.state = state /\ entry.kind = kind
  BY <1>5 DEF Entries
<1>7. entry \in entries'
  BY <1>1
<1>8. state = "failed" => FailedAt(here)'
  BY <1>6, <1>7 DEF FailedAt
<1> HIDE DEF f
<1>9. /\ stack' \in Seq(Frames) /\ Calls' = Calls /\ stack'[Len(stack)] = f
      /\ \A i \in Calls : i # Len(stack) => stack'[i] = stack[i]
  BY <1>1, <1>4, RetopFacts
<1>10. Alive' = Alive
  BY DEF Alive
<1>11. TypeInv'
  <2>1. astray' \subseteq Paths /\ complete' \in BOOLEAN /\ entries' \subseteq Entries
    BY <1>1, <1>5, <1>6 DEF TypeInv
  <2> QED
    BY <1>1, <1>9, <2>1 DEF TypeInv
<1>12. ChainInv'
  BY <1>1, <1>4, RetopChain
<1>13. SawInv' /\ LinkInv'
  BY <1>1, <1>4, RetopSaw
<1>14. FreshInv'
  BY <1>1, <1>4, RetopFresh
<1>15. LimitInv'
  BY DEF LimitInv
<1>16. CompleteInv'
  BY <1>1, <1>6, <1>10 DEF CompleteInv
<1>17. /\ \A path : Exposed(path) => Exposed(path)'
       /\ \A b, n : Pending(b, n) /\ (b.path # Top.path \/ n # First \/ Newer(Len(stack)))
                    => Pending(b, n)'
  BY <1>1, <1>4, RetopWaits
<1>18. /\ \A path : Accounted(path) => Accounted(path)'
       /\ \A path : Excused(path) => Excused(path)'
       /\ \A b : Reliable(b)' => Reliable(b)
  BY <1>1, LedgerGrows
<1>19. AccountInv'
  <2>1. Accounted(here)'
    BY <1>6, <1>7 DEF Accounted
  <2>2. ASSUME NEW path, Awaited(path) PROVE Awaited(path)' \/ path = here
    <3>1. \A i \in Calls : stack'[i].path = stack[i].path
      BY <1>2, <1>4, <1>9
    <3>2. \A i \in Calls : \A m \in stack[i].todo :
            m \in stack'[i].todo \/ Append(stack[i].path, m) = here
      BY <1>2, <1>4, <1>5, <1>9
    <3> QED
      BY <1>9, <2>2, <3>1, <3>2 DEF Awaited
  <2> QED
    BY <1>10, <1>18, <2>1, <2>2 DEF AccountInv
<1>20. AstrayInv'
  <2>1. ASSUME ~OnPath PROVE Excused(here) \/ Exposed(here)
    <3>1. \A p \in Paths : Above(p, Top.path) => Above(p, here)
      BY <1>3, <1>5, AboveAppend
    <3>2. CASE Excused(Top.path)
      BY <3>1, <3>2 DEF Excused, TypeInv, Readings
    <3>3. CASE \E i \in Calls : stack[i].stage # "open" /\ Above(stack[i].path, Top.path) /\ Newer(i)
      BY <1>2, <3>1, <3>3, FrameFacts DEF Exposed
    <3> QED
      BY <2>1, <3>2, <3>3, AstrayShows
  <2> QED
    BY <1>1, <1>10, <1>17, <1>18, <2>1 DEF AstrayInv
<1>21. FaithInv'
  <2>1. SUFFICES ASSUME Alive, NEW b \in begun, Reliable(b)', NEW n \in Names
                 PROVE  Settled(b, n)' \/ Pending(b, n)'
    BY <1>10 DEF FaithInv
  <2>2. Settled(b, n) => Settled(b, n)'
    BY <1>1, SettledStays
  <2>3. CASE b.path # Top.path \/ n # First \/ Newer(Len(stack))
    BY <1>17, <1>18, <2>1, <2>2, <2>3 DEF FaithInv
  <2>4. CASE b.path = Top.path /\ n = First /\ ~Newer(Len(stack))
    <3>1. b.saw = listing[Top.dir]
      <4>1. ~Stale(Len(stack))
        BY <1>2, <1>18, <2>1, <2>4 DEF Stale, Reliable
      <4> QED
        BY <1>2, <2>4, <4>1 DEF SawInv
    <3>2. b.saw[n] = Found /\ Append(b.path, n) = here
      BY <1>5, <2>4, <3>1 DEF Found
    <3>3. EntryAt(here, kind, state)'
      BY <1>7 DEF EntryAt
    <3> QED
      BY <1>1, <1>8, <3>2, <3>3 DEF Settled, Tells
  <2> QED
    BY <2>3, <2>4
<1> QED
  BY <1>11, <1>12, <1>13, <1>14, <1>15, <1>16, <1>19, <1>20, <1>21

\* OpenRoot has opened what Lstat saw: a new call begins.
LEMMA EnterStep ==
  ASSUME IInv, Walking, Top.stage = "enter",
         stack' = Append(Handled, Call(Top.info, Here)),
         UNCHANGED <<listed, paths, entries, complete, result, begun, astray>>, Same, NoFault
  PROVE  IInv'
<1> USE DEF IInv
<1> DEFINE f == [Top EXCEPT !.stage = "visit", !.todo = @ \ {First}]
<1> DEFINE call == Call(Top.info, Here)
<1> DEFINE n == Len(stack)
<1>1. /\ UNCHANGED <<listing, stamp, clock, changes, recursive, ctx, blurred, faults>>
      /\ Handled = [stack EXCEPT ![n] = f]
  BY DEF Same, NoFault, worldVars, Handled, WithTop
<1>2. /\ n \in Calls /\ Top = stack[n] /\ Top \in Frames /\ n \in Nat /\ n > 0
      /\ stack # <<>> /\ Calls \subseteq Nat
      /\ \A i \in Calls : stack[i] \in Frames
  BY CallFacts
<1>3. Top.todo # {} /\ n <= MaxDepth /\ recursive
  BY <1>2 DEF ChainInv
<1>4. Top.path \in Paths /\ Len(Top.path) = n - 1 /\ Top.todo \in SUBSET Names /\ Top.info \in Dirs
  BY <1>2, FrameFacts DEF ChainInv
<1>5. /\ f \in Frames /\ f.path = Top.path /\ f.dir = Top.dir /\ f.stage = "visit"
      /\ f.stamp = Top.stamp /\ f.todo = Top.todo \ {First}
  BY <1>2 DEF Frames, Stages
<1>6. /\ First \in Top.todo /\ First \in Names /\ Here \in Paths /\ Len(Here) = n
      /\ Here = Append(Top.path, First)
  BY <1>3, NextName DEF Here
<1> PICK first \in Names : first = First
  BY <1>6
<1> PICK here \in Paths : here = Here
  BY <1>6
<1>7. /\ call \in Frames /\ call.path = here /\ call.dir = Top.info /\ call.stage = "open"
      /\ call.todo = {}
  BY <1>4, <1>6 DEF Call, Frames, Stages
<1>8. here[n] = first /\ here = Append(Top.path, first)
  BY <1>2, <1>4, <1>6 DEF Paths
<1> HIDE DEF f, call
<1>9. /\ stack' \in Seq(Frames) /\ Len(stack') = n + 1 /\ stack' # <<>>
      /\ stack'[n + 1] = call /\ stack'[n] = f
      /\ \A i \in Calls : i # n => stack'[i] = stack[i]
  <2>1. stack \in Seq(Frames)
    BY DEF TypeInv
  <2>2. /\ Handled \in Seq(Frames) /\ Len(Handled) = n /\ Handled[n] = f
        /\ \A i \in 1..n : i # n => Handled[i] = stack[i]
    BY <1>1, <1>2, <1>5, <2>1, Replaced
  <2>3. stack' = Append(Handled, call)
    BY DEF call
  <2>4. /\ stack' \in Seq(Frames) /\ Len(stack') = n + 1 /\ stack' # <<>>
        /\ stack'[Len(stack')] = call
        /\ \A i \in 1..n : stack'[i] = Handled[i]
    BY <1>7, <2>2, <2>3, Pushed
  <2> QED
    BY <1>2, <2>2, <2>4 DEF Calls
<1>10. Calls' = Calls \cup {n + 1} /\ n + 1 \notin Calls
  BY <1>2, <1>9 DEF Calls
<1>11. /\ \A i \in Calls : /\ stack'[i].path = stack[i].path /\ stack'[i].dir = stack[i].dir
                           /\ stack'[i].stamp = stack[i].stamp
                           /\ stack'[i].todo \subseteq stack[i].todo
       /\ \A i \in Calls : stack'[i].stage # "open" <=> stack[i].stage # "open"
  BY <1>2, <1>5, <1>9
<1>12. \A i \in Calls : (Newer(i)' <=> Newer(i)) /\ (Stale(i)' <=> Stale(i))
  BY <1>1, <1>11 DEF Newer, Stale
<1>13. Alive' = Alive /\ Walking'
  BY DEF Alive, Walking
<1>14. TypeInv'
  BY <1>1, <1>9 DEF TypeInv
<1>15. ChainInv'
  <2>1. Len(stack') <= MaxDepth + 1
    BY <1>2, <1>3, <1>9, DiscoveryAssumptions
  <2>2. ASSUME NEW i \in Calls'
        PROVE  /\ Len(stack'[i].path) = i - 1
               /\ stack'[i].stage = "open" => stack'[i].todo = {}
               /\ stack'[i].stage = "enter" => stack'[i].todo # {} /\ i <= MaxDepth /\ recursive'
    <3>1. CASE i = n + 1
      BY <1>2, <1>6, <1>7, <1>9, <3>1
    <3>2. CASE i = n
      BY <1>4, <1>5, <1>9, <3>2
    <3>3. CASE i \in Calls /\ i # n
      BY <1>1, <1>9, <3>3 DEF ChainInv
    <3> QED
      BY <1>10, <3>1, <3>2, <3>3
  <2>3. ASSUME NEW i \in Calls', NEW j \in Calls', i < j
        PROVE  /\ stack'[i].stage = "visit"
               /\ stack'[i].path = SubSeq(stack'[j].path, 1, i - 1)
               /\ stack'[j].path[i] \notin stack'[i].todo
    <3>1. i \in 1..n /\ i \in Calls
      BY <1>2, <1>9, <2>3 DEF Calls
    <3>2. CASE j # n + 1
      <4>1. j \in Calls /\ i # n
        BY <1>2, <1>9, <2>3, <3>2 DEF Calls
      <4>2. stack'[i] = stack[i] /\ stack'[j].path = stack[j].path
        BY <1>9, <1>11, <3>1, <4>1
      <4>3. /\ stack[i].stage = "visit" /\ stack[i].path = SubSeq(stack[j].path, 1, i - 1)
            /\ stack[j].path[i] \notin stack[i].todo
        BY <2>3, <3>1, <4>1 DEF ChainInv
      <4> QED
        BY <4>2, <4>3
    <3>3. CASE j = n + 1
      <4>1. stack'[j].path = here
        BY <1>7, <1>9, <3>3
      <4>2. CASE i = n
        <5>1. SubSeq(here, 1, n - 1) = Top.path
          BY <1>2, <1>4, <1>8 DEF Paths
        <5> QED
          BY <1>5, <1>8, <1>9, <4>1, <4>2, <5>1
      <4>3. CASE i # n
        <5>1. i < n /\ i \in Nat /\ i >= 1
          BY <1>2, <3>1, <4>3
        <5>2. SubSeq(here, 1, i - 1) = SubSeq(Top.path, 1, i - 1) /\ here[i] = Top.path[i]
          BY <1>2, <1>4, <1>8, <5>1 DEF Paths
        <5>3. /\ stack[i].stage = "visit" /\ stack[i].path = SubSeq(Top.path, 1, i - 1)
              /\ Top.path[i] \notin stack[i].todo
          BY <1>2, <3>1, <5>1 DEF ChainInv
        <5>4. stack'[i] = stack[i]
          BY <1>9, <3>1, <4>3
        <5> QED
          BY <4>1, <5>2, <5>3, <5>4
      <4> QED
        BY <4>2, <4>3
    <3> QED
      BY <3>2, <3>3
  <2> QED
    BY <1>9, <1>13, <2>1, <2>2, <2>3 DEF ChainInv
<1>16. FreshInv'
  <2>1. \A path \in Paths : path = here \/ Above(here, path) =>
          Above(Top.path, path) /\ path[n] = first /\ (path # here => Len(path) > n)
    <3>1. ASSUME NEW path \in Paths, path = here \/ Above(here, path)
          PROVE  /\ Above(Top.path, path) /\ path[Len(Top.path) + 1] = first
                 /\ path # here => Len(path) > Len(Top.path) + 1
      <4>1. path = Append(Top.path, first) \/ Above(Append(Top.path, first), path)
        BY <1>8, <3>1
      <4>2. /\ Above(Top.path, path) /\ path[Len(Top.path) + 1] = first
            /\ path # Append(Top.path, first) => Len(path) > Len(Top.path) + 1
        BY <1>4, <4>1, AppendAbove
      <4> QED
        BY <1>8, <4>2
    <3> QED
      BY <1>2, <1>4, <3>1
  <2>2. ASSUME NEW i \in Calls', NEW b \in begun
        PROVE  /\ b.path = stack'[i].path => stack'[i].stage # "open"
               /\ Above(stack'[i].path, b.path) =>
                    stack'[i].stage \notin {"open", "list"} /\ b.path[i] \notin stack'[i].todo
    <3>1. b.path \in Paths
      BY DEF TypeInv, Readings
    <3>2. CASE i = n + 1
      <4>1. ~(b.path = here \/ Above(here, b.path))
        BY <1>2, <1>6, <2>1, <3>1 DEF FreshInv
      <4> QED
        BY <1>7, <1>9, <3>2, <4>1
    <3>3. CASE i \in Calls
      <4>1. stack'[i].stage \in {"open", "list"} => stack[i].stage = stack'[i].stage
        BY <1>2, <1>5, <1>9, <3>3
      <4>2. stack'[i].path = stack[i].path /\ stack'[i].todo \subseteq stack[i].todo
        BY <1>11, <3>3
      <4>3. /\ b.path = stack[i].path => stack[i].stage # "open"
            /\ Above(stack[i].path, b.path) =>
                 stack[i].stage \notin {"open", "list"} /\ b.path[i] \notin stack[i].todo
        BY <3>3 DEF FreshInv
      <4> QED
        BY <4>1, <4>2, <4>3
    <3> QED
      BY <1>10, <3>2, <3>3
  <2>3. ASSUME NEW i \in Calls', NEW path \in listed, Above(stack'[i].path, path)
        PROVE  /\ stack'[i].stage # "open"
               /\ stack'[i].stage = "list" => path[i] \in stack'[i].todo
               /\ path[i] \in stack'[i].todo => Len(path) = i
    <3>1. path \in Paths /\ Len(path) \in Nat
      BY DEF TypeInv, Paths
    <3>2. CASE i = n + 1
      <4>1. Above(here, path) /\ Len(path) > n
        BY <1>6, <1>7, <1>9, <2>3, <3>1, <3>2 DEF Above
      <4>2. Above(Top.path, path) /\ path[n] = first
        BY <2>1, <3>1, <4>1
      <4> QED
        BY <1>2, <1>6, <3>1, <4>1, <4>2 DEF FreshInv
    <3>3. CASE i \in Calls
      <4>1. stack'[i].stage \in {"open", "list"} => stack'[i] = stack[i]
        BY <1>2, <1>5, <1>9, <3>3
      <4>2. path[i] \in stack'[i].todo => path[i] \in stack[i].todo
        BY <1>11, <3>3
      <4>3. Above(stack[i].path, path)
        BY <1>11, <2>3, <3>3
      <4> QED
        BY <3>3, <4>1, <4>2, <4>3 DEF FreshInv
    <3> QED
      BY <1>10, <3>2, <3>3
  <2> QED
    BY <2>2, <2>3 DEF FreshInv
<1>17. SawInv'
  <2>1. ASSUME NEW i \in Calls', stack'[i].stage # "open" PROVE i \in Calls
    BY <1>7, <1>9, <1>10, <2>1
  <2>2. ASSUME NEW i \in Calls', stack'[i].stage # "open"
        PROVE  /\ stack'[i].stamp <= stamp[stack'[i].dir]
               /\ \E b \in begun : b.path = stack'[i].path /\ b.dir = stack'[i].dir
               /\ \A b \in begun : b.path = stack'[i].path =>
                    Stale(i)' \/ b.saw = listing[stack'[i].dir]
    <3>1. i \in Calls
      BY <2>1, <2>2
    <3>2. /\ stack'[i].path = stack[i].path /\ stack'[i].dir = stack[i].dir
          /\ stack'[i].stamp = stack[i].stamp /\ stack[i].stage # "open"
      BY <1>11, <2>2, <3>1
    <3> QED
      BY <1>12, <3>1, <3>2 DEF SawInv
  <2>3. \A d \in Dirs : stamp'[d] <= clock'
    BY <1>1 DEF SawInv
  <2> QED
    BY <1>1, <2>2, <2>3 DEF SawInv
<1>18. LinkInv'
  <2>1. ASSUME NEW i \in Calls', i + 1 \in Calls'
        PROVE  Stale(i)' \/ listing'[stack'[i].dir][stack'[i + 1].path[i]] = stack'[i + 1].dir
    <3>1. CASE i = n
      <4>1. Stale(n) \/ Found = Top.info
        BY <1>2 DEF LinkInv
      <4>2. /\ stack'[i].dir = Top.dir /\ stack'[i + 1].path[i] = first
            /\ stack'[i + 1].dir = Top.info
        BY <1>5, <1>7, <1>8, <1>9, <3>1
      <4>3. Stale(n) => Stale(i)'
        BY <1>2, <1>12, <3>1
      <4> QED
        BY <1>1, <4>1, <4>2, <4>3 DEF Found
    <3>2. CASE i # n
      <4>1. i \in Calls /\ i + 1 \in Calls
        BY <1>2, <1>9, <2>1, <3>2 DEF Calls
      <4> QED
        BY <1>1, <1>11, <1>12, <4>1 DEF LinkInv
    <3> QED
      BY <3>1, <3>2
  <2>2. ASSUME NEW i \in Calls', i = Len(stack'), stack'[i].stage = "enter" PROVE FALSE
    BY <1>7, <1>9, <2>2
  <2> QED
    BY <2>1, <2>2 DEF LinkInv
<1>19. LimitInv' /\ CompleteInv'
  BY <1>13 DEF LimitInv, CompleteInv
<1>20. /\ \A path : Accounted(path) => Accounted(path)'
       /\ \A path : Excused(path) => Excused(path)'
       /\ \A b : Reliable(b)' => Reliable(b)
  BY <1>1, LedgerGrows
<1>21. AccountInv'
  <2>1. Awaited(here)'
    BY <1>7, <1>9, <1>10 DEF Awaited
  <2>2. ASSUME NEW path, Awaited(path), path # here PROVE Awaited(path)'
    <3>1. \A i \in Calls : \A m \in stack[i].todo : m \in stack'[i].todo \/ (i = n /\ m = first)
      BY <1>2, <1>5, <1>9
    <3> QED
      BY <1>2, <1>8, <1>10, <1>11, <2>2, <3>1 DEF Awaited
  <2> QED
    BY <1>13, <1>20, <2>1, <2>2 DEF AccountInv
<1>22. AstrayInv'
  <2>1. ASSUME NEW path, Exposed(path) PROVE Exposed(path)'
    BY <1>10, <1>11, <1>12, <2>1 DEF Exposed
  <2> QED
    BY <1>13, <1>20, <2>1 DEF AstrayInv
<1>23. FaithInv'
  <2>1. SUFFICES ASSUME Alive, NEW b \in begun, Reliable(b)', NEW m \in Names
                 PROVE  Settled(b, m)' \/ Pending(b, m)'
    BY <1>13 DEF FaithInv
  <2>2. Settled(b, m) => Settled(b, m)'
    BY <1>1, SettledStays
  <2>3. CASE b.path = Top.path /\ m = first /\ ~Newer(n)
    <3>1. ~Stale(n)
      BY <1>2, <1>20, <2>1, <2>3 DEF Stale, Reliable
    <3>2. b.saw = listing[Top.dir] /\ Found = Top.info
      BY <1>2, <2>3, <3>1 DEF SawInv, LinkInv
    <3>3. b.saw[m] = Top.info /\ Append(b.path, m) = here
      BY <1>8, <2>3, <3>2 DEF Found
    <3> QED
      BY <1>1, <1>3, <1>4, <1>7, <1>9, <1>10, <3>3 DEF Pending
  <2>4. CASE ~(b.path = Top.path /\ m = first /\ ~Newer(n))
    <3>1. ASSUME NEW i \in Calls, stack[i].path = b.path,
                 stack[i].stage = "list" \/ m \in stack[i].todo \/ Newer(i)
          PROVE  Pending(b, m)'
      <4>1. stack'[i].stage = "list" \/ m \in stack'[i].todo \/ Newer(i)'
        <5>1. CASE i = n
          BY <1>2, <1>5, <1>9, <1>12, <2>4, <3>1, <5>1
        <5>2. CASE i # n
          BY <1>9, <1>12, <3>1, <5>2
        <5> QED
          BY <5>1, <5>2
      <4> QED
        BY <1>10, <1>11, <3>1, <4>1 DEF Pending
    <3>2. ASSUME recursive, b.saw[m] \in Dirs, NEW i \in Calls,
                 stack[i].path = Append(b.path, m), stack[i].dir = b.saw[m]
          PROVE  Pending(b, m)'
      BY <1>1, <1>10, <1>11, <3>2 DEF Pending
    <3>3. Pending(b, m) => Pending(b, m)'
      BY <3>1, <3>2 DEF Pending
    <3> QED
      BY <1>20, <2>1, <2>2, <3>3 DEF FaithInv
  <2> QED
    BY <2>3, <2>4
<1> QED
  BY <1>14, <1>15, <1>16, <1>17, <1>18, <1>19, <1>21, <1>22, <1>23

\* A call ends: its callers go on as they were.
LEMMA PopKeeps ==
  ASSUME IInv, Walking, stack' = Popped, Same, UNCHANGED <<begun, listed>>,
         Walking' <=> Len(stack) # 1
  PROVE  /\ stack' \in Seq(Frames) /\ Len(stack') = Len(stack) - 1
         /\ Calls = Calls' \cup {Len(stack)} /\ Len(stack) \notin Calls'
         /\ \A i \in Calls' : stack'[i] = stack[i] /\ (Newer(i)' <=> Newer(i))
         /\ ChainInv' /\ FreshInv' /\ SawInv' /\ LinkInv'
<1> USE DEF IInv
<1>1. /\ Len(stack) \in Calls /\ Top = stack[Len(stack)] /\ Len(stack) \in Nat /\ Len(stack) > 0
      /\ stack # <<>> /\ Calls \subseteq Nat
  BY CallFacts
<1>2. UNCHANGED <<listing, stamp, clock, recursive, blurred>>
  BY DEF Same, worldVars
<1>3. /\ stack' \in Seq(Frames) /\ Len(stack') = Len(stack) - 1
      /\ \A i \in 1..Len(stack') : stack'[i] = stack[i]
  BY <1>1, Shortened DEF TypeInv, Popped
<1>4. Calls = Calls' \cup {Len(stack)} /\ Len(stack) \notin Calls' /\ Calls' \subseteq Calls
  BY <1>1, <1>3 DEF Calls
<1>5. \A i \in Calls' : stack'[i] = stack[i]
  BY <1>3 DEF Calls
<1>6. \A i \in Calls' : (Newer(i)' <=> Newer(i)) /\ (Stale(i)' <=> Stale(i))
  BY <1>2, <1>5 DEF Newer, Stale
<1>7. ChainInv'
  <2>1. Walking' <=> stack' # <<>>
    BY <1>1, <1>3
  <2>2. Len(stack') <= MaxDepth + 1
    BY <1>1, <1>3, DiscoveryAssumptions DEF ChainInv
  <2>3. ASSUME NEW i \in Calls'
        PROVE  /\ Len(stack'[i].path) = i - 1
               /\ stack'[i].stage = "open" => stack'[i].todo = {}
               /\ stack'[i].stage = "enter" => stack'[i].todo # {} /\ i <= MaxDepth /\ recursive'
    BY <1>2, <1>4, <1>5 DEF ChainInv
  <2>4. ASSUME NEW i \in Calls', NEW j \in Calls', i < j
        PROVE  /\ stack'[i].stage = "visit"
               /\ stack'[i].path = SubSeq(stack'[j].path, 1, i - 1)
               /\ stack'[j].path[i] \notin stack'[i].todo
    BY <1>4, <1>5, <2>4 DEF ChainInv
  <2> QED
    BY <2>1, <2>2, <2>3, <2>4 DEF ChainInv
<1>8. FreshInv'
  BY <1>4, <1>5 DEF FreshInv
<1>9. SawInv'
  <2>1. \A d \in Dirs : stamp'[d] <= clock'
    BY <1>2 DEF SawInv
  <2> QED
    BY <1>2, <1>4, <1>5, <1>6, <2>1 DEF SawInv
<1>10. LinkInv'
  <2>1. ASSUME NEW i \in Calls', i + 1 \in Calls'
        PROVE  Stale(i)' \/ listing'[stack'[i].dir][stack'[i + 1].path[i]] = stack'[i + 1].dir
    BY <1>2, <1>4, <1>5, <1>6, <2>1 DEF LinkInv
  <2>2. ASSUME NEW i \in Calls' PROVE stack'[i].stage = "visit"
    <3>1. i < Len(stack)
      BY <1>1, <1>3 DEF Calls
    <3> QED
      BY <1>1, <1>4, <1>5, <3>1 DEF ChainInv
  <2> QED
    BY <2>1, <2>2 DEF LinkInv
<1> QED
  BY <1>3, <1>4, <1>5, <1>6, <1>7, <1>8, <1>9, <1>10

\* A directory fails and its caller records it.
LEMMA FailedCallStep ==
  ASSUME IInv, Walking, Top.stage \in {"open", "list", "visit"}, Len(stack) # 1,
         stack' = Popped, Add(Top.path, "directory", "failed"),
         UNCHANGED <<listed, paths, result, begun>>, Same, faults' \in Nat
  PROVE  IInv'
<1> USE DEF IInv
<1> DEFINE n == Len(stack)
<1>1. /\ n \in Calls /\ Top = stack[n] /\ n \in Nat /\ n > 0
      /\ Calls \subseteq Nat /\ \A i \in Calls : stack[i] \in Frames
  BY CallFacts
<1>2. Top.path \in Paths /\ Len(Top.path) = n - 1
  BY <1>1, FrameFacts DEF ChainInv
<1> PICK own \in Paths : own = Top.path
  BY <1>2
<1> DEFINE entry == [path |-> own, kind |-> "directory", state |-> "failed"]
<1>3. /\ UNCHANGED <<listing, stamp, clock, changes, recursive, ctx, blurred>>
      /\ entries' = entries \cup {entry} /\ complete' = FALSE
      /\ astray' = IF OnPath THEN astray ELSE astray \cup {own}
  BY DEF Same, worldVars, Add
<1>4. entry \in Entries /\ entry \in entries' /\ entry.state = "failed" /\ entry.path = own
  <2>1. entry \in Entries
    BY DEF Entries, Kinds
  <2> QED
    BY <1>3, <2>1
<1>5. FailedAt(own)' /\ Accounted(own)'
  BY <1>4 DEF FailedAt, Accounted
<1>6. Walking' /\ Alive' = Alive
  BY DEF Walking, Alive
<1>7. /\ stack' \in Seq(Frames) /\ Len(stack') = n - 1
      /\ Calls = Calls' \cup {n} /\ n \notin Calls'
      /\ \A i \in Calls' : stack'[i] = stack[i] /\ (Newer(i)' <=> Newer(i))
      /\ ChainInv' /\ FreshInv' /\ SawInv' /\ LinkInv'
  BY <1>6, PopKeeps
<1>8. TypeInv'
  <2>1. astray' \subseteq Paths /\ complete' \in BOOLEAN /\ entries' \subseteq Entries
    BY <1>3, <1>4 DEF TypeInv
  <2> QED
    BY <1>3, <1>7, <2>1 DEF TypeInv
<1>9. LimitInv'
  BY DEF LimitInv
<1>10. CompleteInv'
  BY <1>3, <1>4 DEF CompleteInv
<1>11. /\ \A path : FailedAt(path) => FailedAt(path)'
       /\ \A path : Accounted(path) => Accounted(path)'
       /\ \A path : Excused(path) => Excused(path)'
       /\ \A b : Reliable(b)' => Reliable(b)
  BY <1>3, LedgerGrows
<1>12. AccountInv'
  <2>1. ASSUME NEW path, Awaited(path) PROVE Accounted(path)' \/ Awaited(path)'
    <3>1. ASSUME NEW i \in Calls', path = stack[i].path \/
                                   \E m \in stack[i].todo : path = Append(stack[i].path, m)
          PROVE  Awaited(path)'
      BY <1>7, <3>1 DEF Awaited
    <3>2. ASSUME NEW m \in Top.todo, path = Append(own, m) PROVE Accounted(path)'
      <4>1. m \in Names
        BY <1>1, FrameFacts
      <4>2. own \in Seq(Names) /\ Len(own) = n - 1
        BY <1>2 DEF Paths
      <4>3. Len(path) = Len(own) + 1 /\ SubSeq(path, 1, Len(own)) = own
        BY <3>2, <4>1, <4>2
      <4> PICK k \in 1..(Len(path) - 1) : SubSeq(path, 1, k) = own
        <5>1. \A x \in Nat : x > 0 /\ x # 1 => x - 1 \in Nat /\ x - 1 >= 1
          OBVIOUS
        <5>2. n - 1 \in Nat /\ n - 1 >= 1
          BY <1>1, <5>1
        <5>3. Len(own) \in 1..(Len(path) - 1)
          BY <4>2, <4>3, <5>2
        <5> QED
          BY <4>3, <5>3
      <4>4. FailedAt(SubSeq(path, 1, k))'
        BY <1>5
      <4> QED
        BY <4>4 DEF Accounted
    <3> QED
      BY <1>1, <1>5, <1>7, <2>1, <3>1, <3>2 DEF Awaited
  <2> QED
    BY <1>6, <1>11, <2>1 DEF AccountInv
<1>13. AstrayInv'
  <2>1. ASSUME NEW path, NEW i \in Calls, stack[i].stage # "open",
               Above(stack[i].path, path), Newer(i), i # n
        PROVE  Exposed(path)'
    BY <1>7, <2>1 DEF Exposed
  <2>2. ASSUME NEW path, Top.stage # "open", Above(own, path) PROVE Excused(path)'
    <3>1. PICK b \in begun : b.path = own
      BY <1>1, <2>2 DEF SawInv
    <3> QED
      BY <1>5, <2>2, <3>1 DEF Excused
  <2>3. ASSUME NEW path, Exposed(path) PROVE Excused(path)' \/ Exposed(path)'
    BY <1>1, <2>1, <2>2, <2>3 DEF Exposed
  <2>4. ~OnPath => Excused(own)' \/ Exposed(own)'
    BY <1>11, <2>1, AstrayShows
  <2> QED
    BY <1>3, <1>6, <1>11, <2>3, <2>4 DEF AstrayInv
<1>14. FaithInv'
  <2>1. SUFFICES ASSUME Alive, NEW b \in begun, Reliable(b)', NEW m \in Names
                 PROVE  Settled(b, m)' \/ Pending(b, m)'
    BY <1>6 DEF FaithInv
  <2>2. Settled(b, m) => Settled(b, m)'
    BY <1>3, SettledStays
  <2>3. b.path # own
    BY <1>5, <2>1 DEF Reliable
  <2>4. ASSUME NEW i \in Calls, stack[i].path = b.path,
               stack[i].stage = "list" \/ m \in stack[i].todo \/ Newer(i)
        PROVE  Pending(b, m)'
    BY <1>1, <1>7, <2>3, <2>4 DEF Pending
  <2>5. ASSUME recursive, b.saw[m] \in Dirs, NEW i \in Calls,
               stack[i].path = Append(b.path, m), stack[i].dir = b.saw[m]
        PROVE  Settled(b, m)' \/ Pending(b, m)'
    <3>1. CASE i = n
      <4>1. Append(b.path, m) = own
        BY <1>1, <2>5, <3>1
      <4>2. FailedAt(Append(b.path, m))'
        BY <1>5, <4>1
      <4> QED
        BY <4>2 DEF Settled
    <3>2. CASE i # n
      BY <1>3, <1>7, <2>5, <3>2 DEF Pending
    <3> QED
      BY <3>1, <3>2
  <2> QED
    BY <1>11, <2>1, <2>2, <2>4, <2>5 DEF FaithInv, Pending
<1> QED
  BY <1>7, <1>8, <1>9, <1>10, <1>12, <1>13, <1>14

\* A directory has been walked, and its last Stat is its first.
LEMMA LeaveStep ==
  ASSUME IInv, Walking, Top.stage = "visit", Top.todo = {}, ~Noticed, Leave, Same, NoFault
  PROVE  IInv'
<1> USE DEF IInv
<1> DEFINE n == Len(stack)
<1>1. /\ n \in Calls /\ Top = stack[n] /\ n \in Nat /\ n > 0 /\ stack # <<>> /\ Calls \subseteq Nat
  BY CallFacts
<1>2. /\ UNCHANGED <<listing, stamp, clock, changes, recursive, ctx, blurred, faults>>
      /\ UNCHANGED <<listed, paths, entries, complete, begun, astray>>
  BY DEF Same, NoFault, worldVars, Leave
<1>3. /\ stack' = Popped /\ (Walking' <=> n # 1)
      /\ result' \in {"none", "ok"} /\ result = "none"
  <2>1. CASE n = 1
    <3>1. stack \in Seq(Frames) /\ Popped = SubSeq(stack, 1, 0)
      BY <2>1 DEF TypeInv, Popped
    <3>2. Popped = <<>>
      BY <3>1
    <3> QED
      BY <2>1, <3>2 DEF Leave, Walking
  <2>2. CASE n # 1
    BY <2>2 DEF Leave, Walking
  <2> QED
    BY <2>1, <2>2
<1>4. /\ stack' \in Seq(Frames) /\ Len(stack') = n - 1
      /\ Calls = Calls' \cup {n} /\ n \notin Calls'
      /\ \A i \in Calls' : stack'[i] = stack[i] /\ (Newer(i)' <=> Newer(i))
      /\ ChainInv' /\ FreshInv' /\ SawInv' /\ LinkInv'
  BY <1>2, <1>3, PopKeeps
<1>5. Alive /\ Alive'
  BY <1>3 DEF Alive
<1>6. TypeInv'
  BY <1>2, <1>3, <1>4 DEF TypeInv
<1>7. LimitInv' /\ CompleteInv'
  BY <1>2, <1>5 DEF LimitInv, CompleteInv
<1>8. ~Newer(n)
  BY <1>1 DEF Noticed, Newer
<1>9. PICK own \in begun : own.path = Top.path /\ own.dir = Top.dir
  BY <1>1 DEF SawInv
<1>10. /\ \A path : Accounted(path) => Accounted(path)'
       /\ \A path : Excused(path) => Excused(path)'
       /\ \A b : Reliable(b)' => Reliable(b)
  BY <1>2, LedgerGrows
<1>11. AccountInv'
  <2>1. Accounted(own.path)
    BY <1>9 DEF Accounted
  <2>2. ASSUME NEW path, Awaited(path) PROVE path = own.path \/ Awaited(path)'
    BY <1>1, <1>4, <1>9, <2>2 DEF Awaited
  <2> QED
    BY <1>2, <1>5, <1>10, <2>1, <2>2 DEF AccountInv
<1>12. AstrayInv'
  <2>1. ASSUME NEW path, Exposed(path) PROVE Exposed(path)'
    BY <1>4, <1>8, <2>1 DEF Exposed
  <2> QED
    BY <1>2, <1>5, <1>10, <2>1 DEF AstrayInv
<1>13. FaithInv'
  <2>1. SUFFICES ASSUME NEW b \in begun, Reliable(b)', NEW m \in Names
                 PROVE  Settled(b, m)' \/ Pending(b, m)'
    BY <1>2 DEF FaithInv
  <2>2. Settled(b, m) => Settled(b, m)'
    BY <1>2, SettledStays
  <2>3. ASSUME NEW i \in Calls, stack[i].path = b.path,
               stack[i].stage = "list" \/ m \in stack[i].todo \/ Newer(i)
        PROVE  Pending(b, m)'
    BY <1>1, <1>4, <1>8, <2>3 DEF Pending
  <2>4. ASSUME recursive, b.saw[m] \in Dirs, NEW i \in Calls,
               stack[i].path = Append(b.path, m), stack[i].dir = b.saw[m]
        PROVE  Settled(b, m)' \/ Pending(b, m)'
    <3>1. CASE i = n
      BY <1>1, <1>9, <2>2, <2>4, <3>1 DEF Settled
    <3>2. CASE i # n
      BY <1>2, <1>4, <2>4, <3>2 DEF Pending
    <3> QED
      BY <3>1, <3>2
  <2> QED
    BY <1>5, <1>10, <2>1, <2>2, <2>3, <2>4 DEF FaithInv, Pending
<1> QED
  BY <1>4, <1>6, <1>7, <1>11, <1>12, <1>13

\* Another program's change: the calls that have begun on its directory become stale.
LEMMA ChangeStep ==
  ASSUME IInv, NEW d \in Dirs, NEW n \in Names, NEW value \in Values, Change(d, n, value)
  PROVE  IInv'
<1> USE DEF IInv
<1>1. /\ Walking /\ listing' = [listing EXCEPT ![d][n] = value]
      /\ stamp' = [stamp EXCEPT ![d] = clock] /\ changes' = changes + 1
      /\ UNCHANGED <<stack, listed, paths, entries, complete, result, begun, astray>>
      /\ UNCHANGED <<clock, recursive, ctx, faults>>
  BY DEF Change, walkVars
<1>2. blurred' = blurred \cup
        {stack[i].path : i \in {j \in 1..Len(stack) :
           stack[j].dir = d /\ stack[j].stage # "open" /\ stack[j].stamp = clock}}
  BY DEF Change
<1>3. /\ Len(stack) \in Calls /\ Top = stack[Len(stack)] /\ Calls \subseteq Nat
      /\ \A i \in Calls : stack[i] \in Frames
  BY <1>1, CallFacts
<1>4. Calls' = Calls /\ Alive' = Alive /\ Walking' = Walking /\ Top' = Top
  BY <1>1 DEF Calls, Alive, Walking, Top
<1>5. /\ stamp \in [Dirs -> Nat] /\ clock \in Nat /\ listing \in [Dirs -> Contents]
      /\ stamp'[d] = clock /\ \A x \in Dirs : x # d => stamp'[x] = stamp[x] /\ listing'[x] = listing[x]
  BY <1>1 DEF TypeInv
<1>6. \A x \in Dirs : stamp[x] <= stamp'[x] /\ stamp'[x] <= clock /\ stamp[x] \in Nat /\ stamp'[x] \in Nat
  BY <1>5 DEF SawInv
<1>7. \A i \in Calls : stack[i].dir \in Dirs /\ stack[i].path \in Paths /\ stack[i].stamp \in Nat
  BY <1>3, FrameFacts
<1>8. ASSUME NEW i \in Calls, stack[i].stage # "open"
      PROVE  /\ Newer(i) => Newer(i)'
             /\ Stale(i) => Stale(i)'
             /\ stack[i].dir = d => Stale(i)'
  <2>1. stack[i].stamp <= stamp[stack[i].dir]
    BY <1>8 DEF SawInv
  <2>2. Newer(i) => Newer(i)'
    BY <1>1, <1>5, <1>6, <1>7, <2>1 DEF Newer
  <2>3. Stale(i) => Stale(i)'
    BY <1>1, <1>2, <2>2 DEF Stale
  <2>4. CASE stack[i].dir = d /\ stack[i].stamp = clock
    <3>1. stack[i].path \in blurred'
      BY <1>2, <1>8, <2>4 DEF Calls
    <3> QED
      BY <1>1, <2>2, <2>3, <3>1 DEF Stale
  <2>5. CASE stack[i].dir = d /\ stack[i].stamp # clock
    BY <1>1, <1>5, <2>2, <2>3, <2>5 DEF Stale, Newer
  <2> QED
    BY <2>2, <2>3, <2>4, <2>5
<1>9. TypeInv'
  <2>1. listing' \in [Dirs -> Contents] /\ stamp' \in [Dirs -> Nat] /\ changes' \in Nat
    BY <1>1, <1>5 DEF Contents, TypeInv
  <2>2. {stack[i].path : i \in {j \in 1..Len(stack) :
           stack[j].dir = d /\ stack[j].stage # "open" /\ stack[j].stamp = clock}} \subseteq Paths
    BY <1>7 DEF Calls
  <2>3. blurred' \subseteq Paths
    BY <1>2, <2>2 DEF TypeInv
  <2> QED
    BY <1>1, <2>1, <2>3 DEF TypeInv
<1>10. ChainInv' /\ FreshInv'
  BY <1>1, <1>4 DEF ChainInv, FreshInv
<1>11. SawInv'
  <2>1. ASSUME NEW i \in Calls, stack[i].stage # "open"
        PROVE  /\ stack[i].stamp <= stamp'[stack[i].dir]
               /\ \A b \in begun : b.path = stack[i].path => Stale(i)' \/ b.saw = listing'[stack[i].dir]
    <3>1. stack[i].stamp <= stamp'[stack[i].dir]
      <4>1. stack[i].stamp <= stamp[stack[i].dir]
        BY <2>1 DEF SawInv
      <4> QED
        BY <1>6, <1>7, <4>1
    <3>2. ASSUME NEW b \in begun, b.path = stack[i].path
          PROVE  Stale(i)' \/ b.saw = listing'[stack[i].dir]
      BY <1>5, <1>7, <1>8, <2>1, <3>2 DEF SawInv
    <3> QED
      BY <3>1, <3>2
  <2> QED
    BY <1>1, <1>4, <1>6, <2>1 DEF SawInv
<1>12. LinkInv'
  <2>1. ASSUME NEW i \in Calls, i + 1 \in Calls
        PROVE  Stale(i)' \/ listing'[stack[i].dir][stack[i + 1].path[i]] = stack[i + 1].dir
    <3>1. stack[i].stage # "open"
      BY <1>3, <2>1 DEF ChainInv
    <3> QED
      BY <1>5, <1>7, <1>8, <2>1, <3>1 DEF LinkInv
  <2>2. ASSUME Top.stage = "enter" PROVE Stale(Len(stack))' \/ Found' = Top.info
    <3>1. First' = First
      BY <1>4 DEF First
    <3>2. Top.dir # d => Found' = Found
      BY <1>3, <1>4, <1>5, <1>7, <3>1 DEF Found
    <3>3. Stale(Len(stack)) \/ Found = Top.info
      BY <1>3, <2>2 DEF LinkInv
    <3>4. PICK i \in Calls : i = Len(stack)
      BY <1>3
    <3>5. (Stale(i) => Stale(i)') /\ (Top.dir = d => Stale(i)')
      BY <1>3, <1>8, <2>2, <3>4
    <3> QED
      BY <1>1, <3>2, <3>3, <3>4, <3>5
  <2> QED
    BY <1>1, <1>3, <1>4, <2>1, <2>2 DEF LinkInv
<1>13. LimitInv' /\ CompleteInv'
  BY <1>1, <1>4 DEF LimitInv, CompleteInv
<1>14. /\ \A path : Accounted(path) => Accounted(path)'
       /\ \A path : Excused(path) => Excused(path)'
       /\ \A b : Reliable(b)' => Reliable(b)
  BY <1>1, <1>2, LedgerGrows
<1>15. AccountInv'
  <2>1. ASSUME NEW path, Awaited(path) PROVE Awaited(path)'
    BY <1>1, <1>4, <2>1 DEF Awaited
  <2> QED
    BY <1>1, <1>4, <1>14, <2>1 DEF AccountInv
<1>16. AstrayInv'
  <2>1. ASSUME NEW path, Exposed(path) PROVE Exposed(path)'
    BY <1>1, <1>4, <1>8, <2>1 DEF Exposed
  <2> QED
    BY <1>1, <1>4, <1>14, <2>1 DEF AstrayInv
<1>17. FaithInv'
  <2>1. SUFFICES ASSUME Alive, NEW b \in begun, Reliable(b)', NEW m \in Names
                 PROVE  Settled(b, m)' \/ Pending(b, m)'
    BY <1>1, <1>4 DEF FaithInv
  <2>2. Settled(b, m) => Settled(b, m)'
    BY <1>1, SettledStays
  <2>3. ASSUME NEW i \in Calls, stack[i].path = b.path,
               stack[i].stage = "list" \/ m \in stack[i].todo \/ Newer(i)
        PROVE  Pending(b, m)'
    <3>1. stack[i].stage # "open"
      BY <2>3 DEF FreshInv
    <3> QED
      BY <1>1, <1>4, <1>8, <2>3, <3>1 DEF Pending
  <2>4. ASSUME recursive, b.saw[m] \in Dirs, NEW i \in Calls,
               stack[i].path = Append(b.path, m), stack[i].dir = b.saw[m]
        PROVE  Pending(b, m)'
    BY <1>1, <1>4, <2>4 DEF Pending
  <2> QED
    BY <1>14, <2>1, <2>2, <2>3, <2>4 DEF FaithInv, Pending
<1> QED
  BY <1>9, <1>10, <1>11, <1>12, <1>13, <1>15, <1>16, <1>17

\* Every step of the walk, a failing call or another program keeps the invariant.
LEMMA StepInv == IInv /\ [Next]_vars => IInv'
<1> SUFFICES ASSUME IInv, [Next]_vars PROVE IInv'
  OBVIOUS
<1>1. TypeInv /\ ChainInv /\ clock \in Nat /\ faults \in Nat /\ ctx \in {"live", "done"}
  BY DEF IInv, TypeInv
<1>2. NoFault \/ Fault => faults' \in Nat
  BY <1>1 DEF NoFault, Fault
<1>3. {"canceled", "invalid", "limit", "changed", "failed"} \subseteq Errors
  BY DEF Errors
<1>4. CASE Canceled
  BY <1>2, <1>3, <1>4, FailStep DEF Canceled
<1>5. CASE OpenDirectory
  BY <1>5, OpenStep
<1>6. CASE ReadBatch
  <2>1. PICK batch \in Batches : \/ Fits(batch) /\ Keep(batch)
                                 \/ Fail("invalid")
                                 \/ Fail("limit")
    BY <1>6 DEF ReadBatch
  <2>2. Walking /\ Top.stage = "list" /\ Same /\ NoFault
    BY <1>6 DEF ReadBatch
  <2> QED
    BY <1>2, <1>3, <2>1, <2>2, KeepStep, FailStep
<1>7. CASE EndListing
  <2>1. Walking /\ Top.stage = "list" /\ Unread = {} /\ Same /\ NoFault
    BY <1>7 DEF EndListing
  <2>2. CASE Fail("changed")
    BY <1>2, <1>3, <2>1, <2>2, FailStep
  <2>3. CASE /\ ~Noticed /\ stack' = WithTop([Top EXCEPT !.stage = "visit"])
             /\ UNCHANGED <<listed, paths, entries, complete, result, begun, astray>>
    BY <2>1, <2>3, ListedStep
  <2> QED
    BY <1>7, <2>2, <2>3 DEF EndListing
<1>8. CASE VisitEntry
  <2>1. /\ Walking /\ Top.stage = "visit" /\ Top.todo # {} /\ stack' = Handled
        /\ UNCHANGED <<listed, paths, result, begun>> /\ Same
    BY <1>8 DEF VisitEntry
  <2>2. PICK kind \in Kinds, state \in {"candidate", "skipped", "failed"} :
          Add(Here, kind, state) /\ Tells(kind, state) /\ faults' \in Nat
    BY <1>2, <1>8 DEF VisitEntry, Kinds, Tells
  <2> QED
    BY <2>1, <2>2, RecordStep
<1>9. CASE ApproachDirectory
  <2>1. /\ Walking /\ Top.stage = "visit" /\ Top.todo # {} /\ Found \in Dirs /\ recursive
        /\ Same /\ NoFault
    BY <1>9 DEF ApproachDirectory
  <2>2. CASE Fail("limit")
    BY <1>2, <1>3, <2>1, <2>2, FailStep
  <2>3. CASE /\ Len(Top.path) < MaxDepth
             /\ stack' = WithTop([Top EXCEPT !.stage = "enter", !.info = Found])
             /\ UNCHANGED <<listed, paths, entries, complete, result, begun, astray>>
    BY <2>1, <2>3, ApproachStep
  <2> QED
    BY <1>9, <2>2, <2>3 DEF ApproachDirectory
<1>10. CASE EnterDirectory
  <2>1. Walking /\ Top.stage = "enter" /\ Same /\ faults' \in Nat
    BY <1>2, <1>10 DEF EnterDirectory
  <2>2. CASE /\ stack' = Append(Handled, Call(Top.info, Here)) /\ NoFault
             /\ UNCHANGED <<listed, paths, entries, complete, result, begun, astray>>
    BY <2>1, <2>2, EnterStep
  <2>3. CASE Fail("changed")
    BY <1>3, <2>1, <2>3, FailStep
  <2>4. CASE /\ Add(Here, "directory", "failed") /\ stack' = Handled
             /\ UNCHANGED <<listed, paths, result, begun>>
    <3>1. Top.todo # {}
      BY <1>1, <2>1, CallFacts DEF ChainInv
    <3>2. "directory" \in Kinds /\ "failed" \in {"candidate", "skipped", "failed"}
      BY DEF Kinds
    <3>3. Tells("directory", "failed")
      BY DEF Tells
    <3> QED
      BY <2>1, <2>4, <3>1, <3>2, <3>3, RecordStep
  <2> QED
    BY <1>10, <2>2, <2>3, <2>4 DEF EnterDirectory
<1>11. CASE DirectoryFails
  <2>1. Walking /\ Top.stage \in {"open", "list", "visit"} /\ Same /\ faults' \in Nat
    BY <1>2, <1>11 DEF DirectoryFails
  <2>2. CASE Len(stack) = 1
    BY <1>3, <1>11, <2>1, <2>2, FailStep DEF DirectoryFails
  <2>3. CASE Len(stack) # 1
    BY <1>11, <2>1, <2>3, FailedCallStep DEF DirectoryFails
  <2> QED
    BY <2>2, <2>3
<1>12. CASE LeaveDirectory
  <2>1. Walking /\ Top.stage = "visit" /\ Top.todo = {} /\ Same /\ NoFault
    BY <1>12 DEF LeaveDirectory
  <2>2. CASE Fail("changed")
    BY <1>2, <1>3, <2>1, <2>2, FailStep
  <2>3. CASE ~Noticed /\ Leave
    BY <2>1, <2>3, LeaveStep
  <2> QED
    BY <1>12, <2>2, <2>3 DEF LeaveDirectory
<1>13. CASE Cancel
  BY <1>1, <1>13, RestStep DEF Cancel, worldVars
<1>14. CASE Tick
  BY <1>1, <1>14, RestStep DEF Tick
<1>15. CASE \E d \in Dirs, n \in Names, value \in Values : Change(d, n, value)
  BY <1>15, ChangeStep
<1>16. CASE UNCHANGED vars
  BY <1>1, <1>16, RestStep DEF vars, worldVars
<1> QED
  BY <1>4, <1>5, <1>6, <1>7, <1>8, <1>9, <1>10, <1>11, <1>12, <1>13, <1>14, <1>15, <1>16
  DEF Next

---------------------------------------------------------------------------
(* The theorems.                                                           *)

\* Every reachable state satisfies the inductive invariant.
THEOREM Invariance == Spec => []IInv
BY InitInv, StepInv, PTL DEF Spec

\* A directory that a successful discovery reports on had those entries, and no others,
\* from the beginning of its walk to the end (discover.go:182, 239).
THEOREM ListingIsFaithful == Spec => []FaithfulListing
<1>1. IInv => FaithfulListing
  <2> SUFFICES ASSUME IInv, result = "ok" PROVE FaithfulListing
    BY DEF FaithfulListing
  <2>1. Calls = {} /\ Alive
    BY DEF IInv, ChainInv, Walking, Calls, Alive
  <2>2. \A b, n : ~Pending(b, n)
    BY <2>1 DEF Pending
  <2> QED
    BY <2>1, <2>2 DEF IInv, FaithInv, FaithfulListing, Reliable
<1> QED
  BY <1>1, Invariance, PTL

\* No entry of a successful discovery was recorded through a path that led elsewhere,
\* without its being known (discover.go:234-241).
THEOREM PathsAreResolved == Spec => []PathsResolved
<1>1. IInv => PathsResolved
  <2> SUFFICES ASSUME IInv, result = "ok" PROVE PathsResolved
    BY DEF PathsResolved
  <2>1. Calls = {} /\ Alive
    BY DEF IInv, ChainInv, Walking, Calls, Alive
  <2>2. \A path : ~Exposed(path)
    BY <2>1 DEF Exposed
  <2> QED
    BY <2>1, <2>2 DEF IInv, AstrayInv, PathsResolved, Excused
<1> QED
  BY <1>1, Invariance, PTL

\* A successful discovery accounts for every name it was charged for, and no discovery
\* goes beyond its limits (discover.go:127-131, 161-168, 225-227).
THEOREM NothingIsOmitted == Spec => []NothingOmitted
<1>1. IInv => NothingOmitted
  <2> SUFFICES ASSUME IInv PROVE NothingOmitted
    OBVIOUS
  <2>1. Cardinality(listed) <= MaxEntries /\ paths <= PathBytes /\ Len(stack) <= MaxDepth + 1
    BY DEF IInv, LimitInv, ChainInv
  <2>2. ASSUME result = "ok"
        PROVE  /\ complete <=> \A e \in entries : e.state # "failed"
               /\ \A path \in listed : Accounted(path)
    <3>1. Calls = {} /\ Alive
      BY <2>2 DEF IInv, ChainInv, Walking, Calls, Alive
    <3>2. \A path : ~Awaited(path)
      BY <3>1 DEF Awaited
    <3> QED
      BY <3>1, <3>2 DEF IInv, AccountInv, CompleteInv
  <2> QED
    BY <2>1, <2>2 DEF NothingOmitted, Accounted
<1> QED
  BY <1>1, Invariance, PTL
===========================================================================
