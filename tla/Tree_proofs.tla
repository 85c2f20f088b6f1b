---------------------------- MODULE Tree_proofs ----------------------------
(***************************************************************************)
(* Proofs about Tree, for every plan, every set of callers' arguments, any *)
(* budget and any number of faults and outside changes.                    *)
(***************************************************************************)
EXTENDS Tree, SequenceTheorems, TLAPS

ArtifactKinds == Kinds \cup Closing
Node == [name : Nodes, known : BOOLEAN]

---------------------------------------------------------------------------
(* The inductive invariant.                                                *)

\* A job is the rest of one accepted call; between calls there is none.
JobInv ==
  /\ phase = "writing" =>
       /\ job.todo # {}
       /\ job.todo \subseteq job.kinds
       /\ \/ job.state = "commit" /\ job.kinds = Closing /\ Recorded = Sources
          \/ /\ job.source \in Candidates
             /\ job.kinds \subseteq Kinds
             /\ job.state \in OutcomeStates \cup {"revealed"}
             /\ records[job.source] = Unrecorded
  /\ phase \notin {"writing", "crashed"} => job = NoJob /\ ~opened

\* Only candidates have artifacts, and an unrecorded source has none.
RecordsInv ==
  \A s \in Sources : records[s].kinds # {} => s \in Candidates

\* Every node of ours on disk can still be found by rollback, unless a cleanup
\* error has been reported.
CreatedInv ==
  /\ \A n \in Nodes : disk[n] \in Ours /\ ~dirty =>
       \E i \in 1..Len(created) : created[i].name = n
  /\ phase = "withdrawn" => created = <<>>

\* The artifacts of the job that are not still to be written are complete.
DoneInv ==
  phase = "writing" => \A k \in job.kinds \ job.todo : Intact(PathFor(k))

\* The file that is being written is still there unless another program took it.
OpenInv ==
  phase = "writing" /\ opened =>
    \A k \in job.todo :
      Turn(k) => disk[PathFor(k)] = "partial" \/ PathFor(k) \in touched

\* Once our manifest exists nothing is created after it, and everything else that
\* has been promised is complete.
ManifestInv ==
  disk[Manifest] \in Ours =>
    /\ \/ phase \in {"rollback", "withdrawn", "committed", "crashed"}
       \/ phase = "writing" /\ job.todo = {"manifest"} /\ opened
    /\ ~dirty => created # <<>> /\ created[Len(created)].name = Manifest

TypeInv == TypeOK /\ JobInv /\ RecordsInv /\ BudgetCoversJob
WriteInv == DoneInv /\ OpenInv /\ ReceiptsBacked
IInv == TypeInv /\ WriteInv /\ CreatedInv /\ ManifestInv /\ ManifestLast

---------------------------------------------------------------------------
(* Lemmas about the operators.                                             *)

\* The path of a file of a job in progress is a planned file, an artifact of the
\* job's source unless it is one of Commit's two (tree.go:239, 271-276).
LEMMA PathForNode ==
  ASSUME TypeOK, JobInv, phase = "writing", NEW k \in job.kinds
  PROVE  /\ PathFor(k) \in Files
         /\ PathFor(k) \in Nodes
         /\ k \in Closing <=> job.state = "commit"
         /\ PathFor(k) = Manifest <=> k = "manifest"
         /\ k \in Kinds => PathFor(k) = PathOf[job.source][k]
  <1>1. CASE job.state = "commit"
    BY <1>1, TreeAssumptions DEF JobInv, PathFor, Closing, Kinds, Files, Nodes,
      OutcomeStates, Corpus, Manifest
  <1>2. CASE job.state # "commit"
    <2>1. k \in Kinds /\ job.source \in Candidates
      BY <1>2 DEF JobInv
    <2>2. PathFor(k) = PathOf[job.source][k]
      BY <2>1 DEF PathFor, Kinds
    <2>3. PathFor(k) \in ArtifactFiles
      BY <2>1, <2>2 DEF ArtifactFiles, Artifacts
    <2>4. PathFor(k) # Manifest
      BY <2>3, TreeAssumptions DEF PlanAssumption, SoundPlan, ArtifactFiles
    <2>5. QED
      BY <1>2, <2>1, <2>2, <2>3, <2>4 DEF Files, Nodes, Kinds, Closing
  <1>3. QED
    BY <1>1, <1>2

\* What a call needs is a natural number, and writing one of its files takes that
\* file's bytes off it.
LEMMA NeedType ==
  ASSUME NEW size \in [ArtifactKinds -> Nat], NEW todo
  PROVE  Need(todo, size) \in Nat
  BY DEF Need, ArtifactKinds, Kinds, Closing

\* What a call needs is the size of one file and what it needs without that file.
LEMMA NeedStep ==
  ASSUME NEW size \in [ArtifactKinds -> Nat], NEW todo \in SUBSET ArtifactKinds,
         NEW k \in todo
  PROVE  Need(todo, size) = size[k] + Need(todo \ {k}, size)
  <1> DEFINE of(j) == IF j \in todo THEN size[j] ELSE 0
             less(j) == IF j \in todo \ {k} THEN size[j] ELSE 0
  <1>1. \A j \in ArtifactKinds : of(j) \in Nat /\ less(j) \in Nat
    OBVIOUS
  <1>2. of(k) = size[k] /\ less(k) = 0
    OBVIOUS
  <1>3. \A j \in ArtifactKinds \ {k} : of(j) = less(j)
    OBVIOUS
  <1>4. /\ Need(todo, size) = of("faithful") + of("display") + of("mapping")
             + of("report") + of("revealed") + of("corpus") + of("manifest")
        /\ Need(todo \ {k}, size) = less("faithful") + less("display") + less("mapping")
             + less("report") + less("revealed") + less("corpus") + less("manifest")
    BY DEF Need
  <1>5. k \in {"faithful", "display", "mapping", "report", "revealed", "corpus", "manifest"}
    BY DEF ArtifactKinds, Kinds, Closing
  <1> HIDE DEF of, less
  <1>6. QED
    BY <1>1, <1>2, <1>3, <1>4, <1>5 DEF ArtifactKinds, Kinds, Closing

\* A job's needs count only the files of the job.
LEMMA NeedEmpty == ASSUME NEW size PROVE Need({}, size) = 0
  BY DEF Need

\* The sizes of an offer are natural, and a kind it does not need costs nothing.
LEMMA OfferType ==
  ASSUME NEW o \in Offers
  PROVE  /\ o \in Offer
         /\ SizeOf(o) \in [ArtifactKinds -> Nat]
         /\ Need(o.kinds, SizeOf(o)) = Need(ArtifactKinds, SizeOf(o))
  <1>1. o \in Offer
    BY TreeAssumptions DEF BoundsAssumption
  <1>2. SizeOf(o) \in [ArtifactKinds -> Nat]
    BY <1>1 DEF SizeOf, ArtifactKinds, Offer
  <1>3. \A k \in ArtifactKinds : k \notin o.kinds => SizeOf(o)[k] = 0
    BY DEF SizeOf, ArtifactKinds
  <1>4. QED
    BY <1>1, <1>2, <1>3 DEF Need, ArtifactKinds, Kinds, Closing

---------------------------------------------------------------------------
(* Type correctness.                                                       *)

\* Between calls the job is of its type.
LEMMA NoJobType ==
  /\ NoJob \in [source : Sources \cup {Unplanned},
                state  : OutcomeStates \cup {"revealed", "commit", "none"},
                todo   : SUBSET (Kinds \cup Closing),
                kinds  : SUBSET (Kinds \cup Closing),
                size   : [Kinds \cup Closing -> Nat]]
  /\ NoJob.todo = {}
  BY DEF NoJob

\* Initially the types hold.
LEMMA TypeInit == Init => TypeInv
  <1> SUFFICES ASSUME Init PROVE TypeInv
    OBVIOUS
  <1>1. /\ disk \in [Nodes -> Ours \cup {"absent", "stranger"}]
        /\ records \in [Sources -> Receipts]
        /\ created \in Seq([name : Nodes, known : BOOLEAN])
        /\ faults \in 0..MaxFaults /\ remaining \in Nat
    BY TreeAssumptions DEF Init, Unrecorded, Receipts, BoundsAssumption
  <1>2. TypeOK
    BY <1>1, NoJobType DEF Init, TypeOK
  <1>3. BudgetCoversJob
    BY NoJobType, NeedEmpty, TreeAssumptions DEF Init, BudgetCoversJob, BoundsAssumption
  <1>4. QED
    BY <1>2, <1>3 DEF Init, TypeInv, JobInv, RecordsInv, Unrecorded

\* Starting a rollback keeps the invariant, whatever the step does to the disk and
\* to the list of created nodes within their types.
LEMMA TypeRollback ==
  ASSUME TypeInv, NEW r \in {"ok", "error"}, StartRollback(r),
         disk' \in [Nodes -> Ours \cup {"absent", "stranger"}],
         created' \in Seq(Node),
         faults' \in 0..MaxFaults
  PROVE  TypeInv'
  <1>2. TypeOK'
    BY NoJobType DEF TypeInv, TypeOK, StartRollback, Node
  <1>3. JobInv'
    BY DEF StartRollback, JobInv
  <1>4. RecordsInv'
    BY DEF StartRollback, RecordsInv, TypeInv
  <1>5. BudgetCoversJob'
    BY NoJobType, NeedEmpty DEF StartRollback, BudgetCoversJob, TypeInv, TypeOK
  <1>6. QED
    BY <1>2, <1>3, <1>4, <1>5 DEF TypeInv

\* The effects of write on its two lists keep their types.
LEMMA PlaceType ==
  ASSUME TypeOK, NEW n \in Nodes, NEW what \in Ours \cup {"absent", "stranger"},
         Place(n, what)
  PROVE  disk' \in [Nodes -> Ours \cup {"absent", "stranger"}]
  BY DEF Place, TypeOK

\* A node that becomes ours is the newest of the created list.
LEMMA OwnType ==
  ASSUME TypeOK, NEW n \in Nodes, NEW known \in BOOLEAN, Own(n, known)
  PROVE  /\ created' \in Seq(Node)
         /\ Len(created') = Len(created) + 1
         /\ created' # <<>>
         /\ \A i \in 1..Len(created) : created'[i] = created[i]
         /\ created'[Len(created')].name = n
  <1>1. [name |-> n, known |-> known] \in Node /\ created \in Seq(Node)
    BY DEF Node, TypeOK
  <1>2. QED
    BY <1>1, AppendProperties DEF Own

\* A counted fault keeps the types.
LEMMA FaultType ==
  ASSUME TypeOK, Fault \/ NoFault
  PROVE  faults' \in 0..MaxFaults
  BY TreeAssumptions DEF TypeOK, Fault, NoFault, BoundsAssumption

\* A call to Record keeps the types and charges what it is about to write.
LEMMA TypeRecord ==
  ASSUME TypeInv, NEW s \in Sources \cup {Unplanned}, NEW o \in Offers, Record(s, o)
  PROVE  TypeInv'
  <1>1. /\ o \in Offer /\ s \in Sources /\ records[s] = Unrecorded
        /\ o.state \in OutcomeStates \cup {"revealed"}
        /\ o.kinds # {} => s \in Candidates
        /\ o.kinds \subseteq Kinds
    BY OfferType DEF Record, Acceptable, Offer, Kinds
  <1>2. CASE o.kinds = {}
    <2>1. records' \in [Sources -> Receipts]
      BY <1>1, <1>2 DEF Record, Receipts, TypeInv, TypeOK
    <2>2. TypeOK' /\ BudgetCoversJob'
      BY <1>2, <2>1 DEF Record, NoFault, TypeInv, TypeOK, BudgetCoversJob
    <2>3. JobInv'
      BY <1>2 DEF Record, TypeInv, JobInv
    <2>4. RecordsInv'
      BY <1>1, <1>2 DEF Record, TypeInv, TypeOK, RecordsInv
    <2>5. QED
      BY <2>2, <2>3, <2>4 DEF TypeInv
  <1>3. CASE o.kinds # {}
    <2> DEFINE size == SizeOf(o)
    <2>0. /\ job' = [source |-> s, state |-> o.state, todo |-> o.kinds,
                     kinds |-> o.kinds, size |-> size]
          /\ size \in [Kinds \cup Closing -> Nat]
          /\ Need(o.kinds, size) <= remaining
          /\ remaining' = remaining
      BY <1>3, OfferType DEF Record, ArtifactKinds, Affordable
    <2> HIDE DEF size
    <2>1. job' \in [source : Sources \cup {Unplanned},
                   state  : OutcomeStates \cup {"revealed", "commit", "none"},
                   todo   : SUBSET (Kinds \cup Closing),
                   kinds  : SUBSET (Kinds \cup Closing),
                   size   : [Kinds \cup Closing -> Nat]]
      BY <1>1, <2>0
    <2>2. TypeOK'
      BY <1>3, <2>1 DEF Record, NoFault, TypeInv, TypeOK
    <2>3. BudgetCoversJob'
      BY <2>0 DEF BudgetCoversJob
    <2>4. JobInv' /\ RecordsInv'
      BY <1>1, <1>3 DEF Record, TypeInv, JobInv, RecordsInv
    <2>5. QED
      BY <2>2, <2>3, <2>4 DEF TypeInv
  <1>4. QED
    BY <1>2, <1>3

\* So does a call to Commit.
LEMMA TypeCommit ==
  ASSUME TypeInv, NEW c \in Lengths, NEW m \in Lengths, Commit(c, m)
  PROVE  TypeInv'
  <1>1. c \in Nat /\ m \in Nat /\ remaining \in Nat
    BY TreeAssumptions DEF BoundsAssumption, TypeInv, TypeOK
  <1>2. /\ job'.size \in [ArtifactKinds -> Nat]
        /\ job' = [source |-> Unplanned, state |-> "commit", todo |-> Closing,
                   kinds |-> Closing, size |-> job'.size]
        /\ job'.size["corpus"] = c /\ job'.size["manifest"] = m
    BY <1>1 DEF Commit, NoJob, ArtifactKinds, Closing, Kinds
  <1>3. TypeOK'
    <2>1. job' \in [source : Sources \cup {Unplanned},
                    state  : OutcomeStates \cup {"revealed", "commit", "none"},
                    todo   : SUBSET (Kinds \cup Closing),
                    kinds  : SUBSET (Kinds \cup Closing),
                    size   : [Kinds \cup Closing -> Nat]]
      BY <1>2 DEF ArtifactKinds
    <2>2. QED
      BY <2>1 DEF Commit, NoFault, TypeInv, TypeOK
  <1>4. Need(job'.todo, job'.size) = c + m
    BY <1>1, <1>2 DEF Need, Closing
  <1>5. BudgetCoversJob'
    BY <1>4 DEF Commit, Committable, BudgetCoversJob
  <1>6. JobInv' /\ RecordsInv'
    BY <1>2 DEF Commit, Committable, TypeInv, JobInv, RecordsInv, Recorded, Closing
  <1>7. QED
    BY <1>3, <1>5, <1>6 DEF TypeInv

\* Making a parent keeps the types.
LEMMA TypeMakeParent ==
  ASSUME TypeInv, NEW k \in job.todo, NEW d \in Dirs, MakeParent(k, d)
  PROVE  TypeInv'
  <1>1. d \in Nodes /\ TypeOK /\ faults' \in 0..MaxFaults
    BY FaultType DEF Nodes, TypeInv, MakeParent
  <1>2. CASE Place(d, "dir") /\ Own(d, TRUE) /\ dirs' = dirs \cup {d} /\
             UNCHANGED <<phase, records, remaining, job, opened, reply, dirty, touched>>
    <2>1. disk' \in [Nodes -> Ours \cup {"absent", "stranger"}]
      BY <1>1, <1>2, PlaceType DEF Ours
    <2>2. created' \in Seq(Node)
      BY <1>1, <1>2, OwnType
    <2>3. TypeOK'
      BY <1>1, <1>2, <2>1, <2>2 DEF TypeOK, Node
    <2>4. QED
      BY <1>2, <2>3 DEF TypeInv, JobInv, RecordsInv, BudgetCoversJob, Recorded
  <1>3. CASE Place(d, "dir") /\ Own(d, FALSE) /\ StartRollback("error")
    <2>1. disk' \in [Nodes -> Ours \cup {"absent", "stranger"}]
      BY <1>1, <1>3, PlaceType DEF Ours
    <2>2. created' \in Seq(Node)
      BY <1>1, <1>3, OwnType
    <2>3. QED
      BY <1>1, <1>3, <2>1, <2>2, TypeRollback
  <1>4. CASE StartRollback("error") /\ UNCHANGED <<disk, created>>
    BY <1>1, <1>4, TypeRollback DEF TypeOK, Node
  <1>5. QED
    BY <1>2, <1>3, <1>4 DEF MakeParent

\* Creating a file keeps the types.
LEMMA TypeCreateFile ==
  ASSUME TypeInv, NEW k \in job.todo, CreateFile(k)
  PROVE  TypeInv'
  <1>1. TypeOK /\ JobInv /\ phase = "writing" /\ k \in job.kinds
        /\ faults' \in 0..MaxFaults
    BY FaultType DEF CreateFile, TypeInv, JobInv
  <1>2. PathFor(k) \in Nodes
    BY <1>1, PathForNode
  <1>3. CASE Place(PathFor(k), "partial") /\ Own(PathFor(k), TRUE) /\ opened' = TRUE /\
             UNCHANGED <<phase, records, dirs, remaining, job, reply, dirty, touched>>
    <2>1. disk' \in [Nodes -> Ours \cup {"absent", "stranger"}]
      BY <1>1, <1>2, <1>3, PlaceType DEF Ours
    <2>2. created' \in Seq(Node)
      BY <1>1, <1>2, <1>3, OwnType
    <2>3. TypeOK'
      BY <1>1, <1>3, <2>1, <2>2 DEF TypeOK, Node
    <2>4. QED
      BY <1>1, <1>3, <2>3 DEF TypeInv, JobInv, RecordsInv, BudgetCoversJob, Recorded
  <1>4. CASE Place(PathFor(k), "partial") /\ Own(PathFor(k), FALSE) /\
             StartRollback("error")
    <2>1. disk' \in [Nodes -> Ours \cup {"absent", "stranger"}]
      BY <1>1, <1>2, <1>4, PlaceType DEF Ours
    <2>2. created' \in Seq(Node)
      BY <1>1, <1>2, <1>4, OwnType
    <2>3. QED
      BY <1>1, <1>4, <2>1, <2>2, TypeRollback
  <1>5. CASE StartRollback("error") /\ UNCHANGED <<disk, created>>
    BY <1>1, <1>5, TypeRollback DEF TypeOK, Node
  <1>6. QED
    BY <1>3, <1>4, <1>5 DEF CreateFile

\* A write keeps the disk's type.
LEMMA FillType ==
  ASSUME TypeOK, NEW n \in Nodes, NEW what \in {"partial", "whole"}, Fill(n, what)
  PROVE  disk' \in [Nodes -> Ours \cup {"absent", "stranger"}]
  BY DEF Fill, Place, TypeOK, Ours

\* Filling a file keeps the types, and the rest of the call still fits.
LEMMA TypeFillFile ==
  ASSUME TypeInv, NEW k \in job.todo, FillFile(k)
  PROVE  TypeInv'
  <1>1. /\ TypeOK /\ JobInv /\ RecordsInv /\ phase = "writing"
        /\ k \in job.kinds /\ k \in ArtifactKinds
        /\ job.size \in [ArtifactKinds -> Nat] /\ job.todo \in SUBSET ArtifactKinds
        /\ faults' \in 0..MaxFaults
    BY FaultType DEF FillFile, TypeInv, TypeOK, JobInv, ArtifactKinds
  <1>2. PathFor(k) \in Nodes
    BY <1>1, PathForNode
  <1>3. CASE \E what \in {"partial", "whole"} :
               Fill(PathFor(k), what) /\ StartRollback("error") /\ UNCHANGED created
    <2>1. disk' \in [Nodes -> Ours \cup {"absent", "stranger"}]
      BY <1>1, <1>2, <1>3, FillType
    <2>2. QED
      BY <1>1, <1>3, <2>1, TypeRollback DEF TypeOK, Node
  <1>4. CASE /\ Fill(PathFor(k), "whole")
             /\ remaining' = remaining - job.size[k]
             /\ opened' = FALSE
             /\ IF job.todo = {k} THEN Finish
                ELSE job' = [job EXCEPT !.todo = @ \ {k}] /\ UNCHANGED <<phase, records, reply>>
             /\ UNCHANGED <<dirs, dirty, touched, created>>
    <2>1. disk' \in [Nodes -> Ours \cup {"absent", "stranger"}]
      BY <1>1, <1>2, <1>4, FillType
    <2>2. /\ Need(job.todo, job.size) = job.size[k] + Need(job.todo \ {k}, job.size)
          /\ Need(job.todo \ {k}, job.size) \in Nat /\ job.size[k] \in Nat
          /\ Need(job.todo, job.size) <= remaining /\ remaining \in Nat
      BY <1>1, NeedStep, NeedType DEF TypeInv, BudgetCoversJob, TypeOK
    <2>3. /\ remaining' \in Nat
          /\ Need(job.todo \ {k}, job.size) <= remaining'
      BY <1>4, <2>2
    <2>4. CASE job.todo = {k}
      <3>1. Finish
        BY <1>4, <2>4
      <3>2. /\ records' \in [Sources -> Receipts]
            /\ \A s \in Sources : records'[s].kinds # {} => s \in Candidates
        <4>1. CASE job.state = "commit"
          BY <1>1, <3>1, <4>1 DEF Finish, TypeOK, RecordsInv
        <4>2. CASE job.state # "commit"
          <5>1. job.source \in Candidates /\ [state |-> job.state, kinds |-> job.kinds] \in Receipts
            BY <1>1, <4>2 DEF JobInv, Receipts
          <5>2. records' = [records EXCEPT ![job.source] =
                              [state |-> job.state, kinds |-> job.kinds]]
            BY <3>1, <4>2 DEF Finish
          <5>3. QED
            BY <1>1, <5>1, <5>2 DEF TypeOK, RecordsInv
        <4>3. QED
          BY <4>1, <4>2
      <3>3. TypeOK'
        BY <1>1, <1>4, <2>1, <2>3, <3>1, <3>2, NoJobType DEF Finish, TypeOK
      <3>4. BudgetCoversJob'
        BY <2>3, <3>1, NoJobType, NeedEmpty DEF Finish, BudgetCoversJob
      <3>5. QED
        BY <1>4, <3>1, <3>2, <3>3, <3>4 DEF Finish, TypeInv, JobInv, RecordsInv
    <2>5. CASE job.todo # {k}
      <3>1. /\ job' = [job EXCEPT !.todo = @ \ {k}]
            /\ job.todo \ {k} # {}
            /\ UNCHANGED <<phase, records, reply>>
        BY <1>4, <2>5
      <3>2. TypeOK'
        BY <1>1, <1>4, <2>1, <2>3, <3>1 DEF TypeOK
      <3>3. /\ job'.todo = job.todo \ {k} /\ job'.size = job.size
            /\ job'.kinds = job.kinds /\ job'.state = job.state
            /\ job'.source = job.source
        BY <1>1, <3>1 DEF TypeOK
      <3>4. BudgetCoversJob'
        BY <2>3, <3>3 DEF BudgetCoversJob
      <3>5. QED
        BY <1>1, <3>1, <3>2, <3>3, <3>4 DEF TypeInv, JobInv, RecordsInv, Recorded
    <2>6. QED
      BY <2>4, <2>5
  <1>5. QED
    BY <1>3, <1>4 DEF FillFile

\* A created list without its newest node is of its type.
LEMMA ShorterType ==
  ASSUME TypeOK, created # <<>>, created' = SubSeq(created, 1, Len(created) - 1)
  PROVE  /\ created' \in Seq(Node)
         /\ Len(created') = Len(created) - 1
         /\ \A i \in 1..Len(created') : created'[i] = created[i]
         /\ Len(created) \in Nat \ {0}
         /\ Last \in Node
  <1>1. created \in Seq(Node) /\ Len(created) \in Nat /\ Len(created) # 0
    BY EmptySeq DEF TypeOK, Node
  <1>2. \A i \in 1..(Len(created) - 1) : created[i] \in Node
    BY <1>1
  <1>3. /\ created' \in Seq(Node)
        /\ Len(created') = Len(created) - 1
        /\ \A i \in 1..(Len(created) - 1) : created'[i] = created[i]
    <2> DEFINE last == Len(created) - 1
               shorter == SubSeq(created, 1, last)
    <2>1. last \in Nat /\ created' = shorter
      BY <1>1
    <2>2. \A i \in 1..last : created[i] \in Node
      BY <1>2
    <2> HIDE DEF last
    <2>3. /\ shorter \in Seq(Node)
          /\ Len(shorter) = IF 1 <= last THEN last - 1 + 1 ELSE 0
          /\ \A i \in 1..(last - 1 + 1) : shorter[i] = created[1 + i - 1]
      BY <2>1, <2>2, SubSeqProperties
    <2> HIDE DEF shorter
    <2>4. /\ shorter \in Seq(Node) /\ Len(shorter) = last
          /\ \A i \in 1..last : shorter[i] = created[i]
      BY <2>1, <2>3
    <2>5. QED
      BY <2>1, <2>4 DEF last
  <1>4. QED
    BY <1>1, <1>3 DEF Last

\* A turn of the rollback keeps the types.
LEMMA TypeRollbackNode ==
  ASSUME TypeInv, RollbackNode
  PROVE  TypeInv'
  <1>1. TypeOK /\ created' \in Seq(Node) /\ Last \in Node /\ faults' \in 0..MaxFaults
    BY ShorterType, FaultType DEF RollbackNode, TypeInv
  <1>2. disk' \in [Nodes -> Ours \cup {"absent", "stranger"}]
    BY <1>1, PlaceType DEF RollbackNode, Node, TypeOK
  <1>3. TypeOK'
    BY <1>1, <1>2 DEF RollbackNode, TypeOK, Node
  <1>4. QED
    BY <1>3 DEF RollbackNode, TypeInv, JobInv, RecordsInv, BudgetCoversJob, Recorded

\* Another program's change keeps the types.
LEMMA TypeDisplace ==
  ASSUME TypeInv, NEW n \in Nodes, Displace(n)
  PROVE  TypeInv'
  <1>1. TypeOK /\ faults' \in 0..MaxFaults
    BY FaultType DEF Displace, TypeInv
  <1>2. disk' \in [Nodes -> Ours \cup {"absent", "stranger"}]
    BY <1>1 DEF Displace, TypeOK
  <1>3. touched' \subseteq Nodes
    BY <1>1 DEF Displace, TypeOK, Below
  <1>4. TypeOK'
    BY <1>1, <1>2, <1>3 DEF Displace, treeVars, TypeOK
  <1>5. QED
    BY <1>4 DEF Displace, treeVars, TypeInv, JobInv, RecordsInv, BudgetCoversJob, Recorded

\* Every step keeps the types.
LEMMA TypeNext == TypeInv /\ [Next]_vars => TypeInv'
  <1> SUFFICES ASSUME TypeInv, [Next]_vars PROVE TypeInv'
    OBVIOUS
  <1>1. ASSUME NEW s \in Sources \cup {Unplanned}, NEW o \in Offers, Record(s, o)
        PROVE  TypeInv'
    BY <1>1, TypeRecord
  <1>2. ASSUME NEW s \in Sources \cup {Unplanned}, NEW o \in Offers, RefuseRecord(s, o)
        PROVE  TypeInv'
    BY <1>2, TypeRollback DEF RefuseRecord, NoFault, TypeInv, TypeOK, Node
  <1>3. ASSUME NEW c \in Lengths, NEW m \in Lengths, Commit(c, m)
        PROVE  TypeInv'
    BY <1>3, TypeCommit
  <1>4. ASSUME NEW c \in Lengths, NEW m \in Lengths, RefuseCommit(c, m)
        PROVE  TypeInv'
    BY <1>4, TypeRollback DEF RefuseCommit, NoFault, TypeInv, TypeOK, Node
  <1>5. CASE Abort
    BY <1>5, TypeRollback DEF Abort, NoFault, TypeInv, TypeOK, Node
  <1>6. CASE CallInactive
    BY <1>6 DEF CallInactive, NoFault, TypeInv, TypeOK, JobInv, RecordsInv,
      BudgetCoversJob, Recorded
  <1>7. ASSUME NEW k \in job.todo, NEW d \in Dirs, MakeParent(k, d)
        PROVE  TypeInv'
    BY <1>7, TypeMakeParent
  <1>8. ASSUME NEW k \in job.todo, CreateFile(k)
        PROVE  TypeInv'
    BY <1>8, TypeCreateFile
  <1>9. ASSUME NEW k \in job.todo, FillFile(k)
        PROVE  TypeInv'
    BY <1>9, TypeFillFile
  <1>10. CASE RollbackNode
    BY <1>10, TypeRollbackNode
  <1>11. CASE EndRollback
    BY <1>11 DEF EndRollback, NoFault, TypeInv, TypeOK, JobInv, RecordsInv,
      BudgetCoversJob, Recorded
  <1>12. CASE Crash
    BY <1>12 DEF Crash, NoFault, TypeInv, TypeOK, JobInv, RecordsInv,
      BudgetCoversJob, Recorded
  <1>13. ASSUME NEW n \in Nodes, Plant(n)
         PROVE  TypeInv'
    <2>1. disk' \in [Nodes -> Ours \cup {"absent", "stranger"}]
      BY <1>13, PlaceType DEF Plant, TypeInv
    <2>2. TypeOK'
      BY <1>13, <2>1, FaultType DEF Plant, treeVars, TypeInv, TypeOK
    <2>3. QED
      BY <1>13, <2>2 DEF Plant, treeVars, TypeInv, JobInv, RecordsInv,
        BudgetCoversJob, Recorded
  <1>14. ASSUME NEW n \in Nodes, Displace(n)
         PROVE  TypeInv'
    BY <1>14, TypeDisplace
  <1>15. CASE UNCHANGED vars
    BY <1>15 DEF vars, treeVars, TypeInv, TypeOK, JobInv, RecordsInv,
      BudgetCoversJob, Recorded
  <1>16. QED
    BY <1>1, <1>2, <1>3, <1>4, <1>5, <1>6, <1>7, <1>8, <1>9, <1>10, <1>11, <1>12,
      <1>13, <1>14, <1>15 DEF Next, Calls, Writes, Environment

\* The variables keep their types; in particular the remaining budget never falls
\* below zero, because a call that is begun is covered by what remained (tree.go:
\* 230-236 and 271).
THEOREM TypeCorrect == Spec => [](TypeOK /\ BudgetCoversJob)
  <1>1. TypeInv => TypeOK /\ BudgetCoversJob
    BY DEF TypeInv
  <1>2. QED
    BY <1>1, TypeInit, TypeNext, PTL DEF Spec

---------------------------------------------------------------------------
(* What a step does to a node that stands on disk.                         *)

\* A new node is made only where nothing stands (Mkdir and O_EXCL, tree.go:314 and
\* 292), and a write through the descriptor replaces only our unfinished file.
LEMMA PlaceKeeps ==
  ASSUME TypeOK, NEW m, NEW what, NEW n \in Nodes, Place(m, what), n # m
  PROVE  disk'[n] = disk[n]
  BY DEF Place, TypeOK

\* A write touches no other path than its own.
LEMMA FillKeeps ==
  ASSUME TypeOK, NEW m \in Nodes, NEW what \in {"partial", "whole"}, Fill(m, what),
         NEW n \in Nodes
  PROVE  /\ disk[n] # "partial" => disk'[n] = disk[n]
         /\ disk'[n] = disk[n] \/ disk'[n] = what
         /\ n # m => disk'[n] = disk[n]
         /\ n = m /\ disk[n] = "partial" => disk'[n] = what
  BY DEF Fill, Place, TypeOK

\* A call by itself changes nothing on disk: its writes are steps of their own.
LEMMA CallsKeepDisk ==
  ASSUME Calls
  PROVE  UNCHANGED <<disk, touched>> /\ (phase = "committed" => phase' = "committed")
  <1>1. ASSUME NEW s, NEW o, Record(s, o) \/ RefuseRecord(s, o)
        PROVE  UNCHANGED <<disk, touched>> /\ phase = "idle"
    BY <1>1 DEF Record, RefuseRecord, StartRollback
  <1>2. ASSUME NEW c, NEW m, Commit(c, m)
        PROVE  UNCHANGED <<disk, touched>> /\ phase = "idle"
    BY <1>2 DEF Commit
  <1>3. ASSUME NEW c, NEW m, RefuseCommit(c, m)
        PROVE  UNCHANGED <<disk, touched>> /\ phase = "idle"
    BY <1>3 DEF RefuseCommit, StartRollback
  <1>4. Abort => UNCHANGED <<disk, touched>> /\ phase = "idle"
    BY DEF Abort, StartRollback
  <1>5. CallInactive => UNCHANGED <<disk, touched, phase>>
    BY DEF CallInactive
  <1>6. QED
    BY <1>1, <1>2, <1>3, <1>4, <1>5 DEF Calls

\* The steps, sorted by what they do to the disk.
LEMMA DiskStep ==
  ASSUME TypeInv, [Next]_vars
  PROVE  \/ UNCHANGED disk /\ UNCHANGED touched
         \/ /\ UNCHANGED touched
            /\ phase = "writing"
            /\ \E m \in Nodes, what \in {"dir", "partial"} : Free(m) /\ Place(m, what)
         \/ /\ UNCHANGED touched
            /\ phase = "writing"
            /\ \E k \in job.todo, what \in {"partial", "whole"} :
                 /\ FillFile(k) /\ opened /\ ~opened' /\ Turn(k)
                 /\ Fill(PathFor(k), what)
         \/ RollbackNode /\ Removable(Last) /\ Place(Last.name, "absent")
         \/ \E n \in Nodes : Plant(n) \/ Displace(n)
  <1>1. ASSUME NEW k \in job.todo, NEW d \in Dirs, MakeParent(k, d)
        PROVE  \/ UNCHANGED <<disk, touched>>
               \/ /\ UNCHANGED touched
                  /\ phase = "writing"
                  /\ \E m \in Nodes, what \in {"dir", "partial"} : Free(m) /\ Place(m, what)
    <2>1. d \in Nodes /\ "dir" \in {"dir", "partial"}
      BY DEF Nodes
    <2>2. QED
      BY <1>1, <2>1 DEF MakeParent, StartRollback
  <1>2. ASSUME NEW k \in job.todo, CreateFile(k)
        PROVE  \/ UNCHANGED <<disk, touched>>
               \/ /\ UNCHANGED touched
                  /\ phase = "writing"
                  /\ \E m \in Nodes, what \in {"dir", "partial"} : Free(m) /\ Place(m, what)
    <2>1. PathFor(k) \in Nodes /\ "partial" \in {"dir", "partial"}
      BY <1>2, PathForNode DEF CreateFile, TypeInv, JobInv
    <2>2. QED
      BY <1>2, <2>1 DEF CreateFile, StartRollback
  <1>3. ASSUME NEW k \in job.todo, FillFile(k)
        PROVE  /\ UNCHANGED touched
               /\ phase = "writing"
               /\ \E what \in {"partial", "whole"} :
                    opened /\ ~opened' /\ Turn(k) /\ Fill(PathFor(k), what)
    BY <1>3 DEF FillFile, StartRollback
  <1>4. RollbackNode =>
          \/ UNCHANGED <<disk, touched>>
          \/ RollbackNode /\ Removable(Last) /\ Place(Last.name, "absent")
    BY DEF RollbackNode
  <1>5. CASE Calls
    BY <1>5, CallsKeepDisk
  <1>6. EndRollback \/ Crash \/ UNCHANGED vars => UNCHANGED <<disk, touched>>
    BY DEF EndRollback, Crash, vars, treeVars
  <1>7. QED
    BY <1>1, <1>2, <1>3, <1>4, <1>5, <1>6 DEF Next, Writes, Environment

\* No step removes or overwrites a node the transaction did not create: writes need
\* a free path, rollback an identity that matches (tree.go:337-349).
THEOREM StrangersSafe == Spec => StrangersSurvive
  <1>1. ASSUME TypeInv, [Next]_vars, NEW n \in Nodes, disk[n] = "stranger"
        PROVE  disk'[n] = "stranger"
    <2>0. TypeOK
      BY <1>1 DEF TypeInv
    <2>1. ASSUME NEW m \in Nodes, NEW what, Free(m) \/ disk[m] \in Ours, Place(m, what)
          PROVE  disk'[n] = "stranger"
      <3>1. n # m
        BY <1>1, <2>1 DEF Free, Present, Ours
      <3>2. QED
        BY <1>1, <2>0, <2>1, <3>1, PlaceKeeps
    <2>2. ASSUME NEW k \in job.todo, NEW what \in {"partial", "whole"},
                 Fill(PathFor(k), what), phase = "writing"
          PROVE  disk'[n] = "stranger"
      <3>1. PathFor(k) \in Nodes
        BY <1>1, <2>2, PathForNode DEF TypeInv, JobInv
      <3>2. QED
        BY <1>1, <2>0, <2>2, <3>1, FillKeeps
    <2>3. ASSUME RollbackNode, Removable(Last), Place(Last.name, "absent")
          PROVE  disk'[n] = "stranger"
      <3>1. Last.name \in Nodes /\ disk[Last.name] \in Ours
        BY <2>0, <2>3, ShorterType DEF RollbackNode, Removable, Node
      <3>2. QED
        BY <2>1, <2>3, <3>1
    <2>4. ASSUME NEW m \in Nodes, Plant(m)
          PROVE  disk'[n] = "stranger"
      BY <2>1, <2>4 DEF Plant
    <2>5. ASSUME NEW m \in Nodes, Displace(m)
          PROVE  disk'[n] = "stranger"
      BY <1>1, <2>5 DEF Displace, Ours, Below
    <2>6. QED
      BY <1>1, <2>1, <2>2, <2>3, <2>4, <2>5, DiskStep
  <1>2. TypeInv /\ [Next]_vars =>
          [\A n \in Nodes : disk[n] = "stranger" => disk'[n] = "stranger"]_vars
    BY <1>1
  <1>3. QED
    BY <1>2, TypeInit, TypeNext, PTL DEF Spec, StrangersSurvive

\* A committed tree is final: every later call finds the transaction inactive
\* (tree.go:255-257, 284-286).
THEOREM CommitFinal == Spec => CommittedIsFinal
  <1>1. ASSUME [Next]_vars, phase = "committed"
        PROVE  phase' = "committed" /\ UNCHANGED disk
    <2>1. CASE Calls
      BY <1>1, <2>1, CallsKeepDisk
    <2>2. ~Writes
      BY <1>1 DEF Writes, MakeParent, CreateFile, FillFile, RollbackNode, EndRollback
    <2>3. ~Environment
      BY <1>1 DEF Environment, Crash, Plant, Displace, Running
    <2>4. CASE UNCHANGED vars
      BY <1>1, <2>4 DEF vars, treeVars
    <2>5. QED
      BY <1>1, <2>1, <2>2, <2>3, <2>4 DEF Next
  <1>2. [Next]_vars => [phase = "committed" => phase' = "committed" /\ UNCHANGED disk]_vars
    BY <1>1
  <1>3. QED
    BY <1>2, PTL DEF Spec, CommittedIsFinal

---------------------------------------------------------------------------
(* Receipts are backed by complete artifacts.                              *)

\* n is complete, or taken by another program, after the step.
IntactNext(n) == disk'[n] = "whole" \/ n \in touched'

\* Outside a rollback no step of the transaction takes back a complete file; who
\* else does is recorded in touched.
LEMMA IntactStays ==
  ASSUME TypeInv, [Next]_vars, ~RollbackNode, NEW n \in Nodes, Intact(n)
  PROVE  IntactNext(n)
  <1>0. TypeOK
    BY DEF TypeInv
  <1>1. touched \subseteq touched'
    BY DiskStep DEF Plant, Displace
  <1>2. CASE n \in touched
    BY <1>1, <1>2 DEF IntactNext
  <1>3. CASE disk[n] = "whole"
    <2>1. ASSUME NEW m \in Nodes, NEW what, Free(m), Place(m, what)
          PROVE  disk'[n] = "whole"
      <3>1. n # m
        BY <1>3, <2>1 DEF Free, Present
      <3>2. QED
        BY <1>0, <1>3, <2>1, <3>1, PlaceKeeps
    <2>2. ASSUME NEW k \in job.todo, NEW what \in {"partial", "whole"},
                 Fill(PathFor(k), what), phase = "writing"
          PROVE  disk'[n] = "whole"
      <3>1. PathFor(k) \in Nodes
        BY <2>2, PathForNode DEF TypeInv, JobInv
      <3>2. QED
        BY <1>0, <1>3, <2>2, <3>1, FillKeeps
    <2>3. ASSUME NEW m \in Nodes, Displace(m)
          PROVE  IntactNext(n)
      BY <1>3, <2>3 DEF Displace, Below, IntactNext
    <2>4. QED
      BY <1>3, <2>1, <2>2, <2>3, DiskStep DEF Plant, IntactNext
  <1>4. QED
    BY <1>2, <1>3 DEF Intact

\* The steps after which a transaction is still active or committed; what they do to
\* the job and to the receipts.
LEMMA ActiveStep ==
  ASSUME TypeInv, [Next]_vars, phase' \in {"idle", "writing", "committed"}
  PROVE  /\ phase \in {"idle", "writing", "committed"}
         /\ ~RollbackNode
         /\ \/ UNCHANGED <<phase, records, job, opened>>
            \/ \E s \in Sources, o \in Offers : Record(s, o)
            \/ \E c, m \in Lengths : Commit(c, m)
            \/ /\ UNCHANGED <<phase, records, job>>
               /\ \E k \in job.todo : Turn(k) /\ Free(PathFor(k)) /\ Place(PathFor(k), "partial")
            \/ \E k \in job.todo : FillFile(k)
  <1>1. ASSUME NEW s \in Sources \cup {Unplanned}, NEW o \in Offers, Record(s, o)
        PROVE  s \in Sources /\ phase = "idle"
    BY <1>1 DEF Record, Acceptable
  <1>2. ASSUME NEW s, NEW o, RefuseRecord(s, o)
        PROVE  FALSE
    BY <1>2 DEF RefuseRecord, StartRollback
  <1>3. ASSUME NEW c, NEW m, RefuseCommit(c, m)
        PROVE  FALSE
    BY <1>3 DEF RefuseCommit, StartRollback
  <1>4. ASSUME NEW c, NEW m, Commit(c, m)
        PROVE  phase = "idle"
    BY <1>4 DEF Commit
  <1>5. ~Abort /\ ~RollbackNode /\ ~EndRollback /\ ~Crash
    BY DEF Abort, StartRollback, RollbackNode, EndRollback, Crash
  <1>6. CallInactive => phase = "committed" /\ UNCHANGED <<phase, records, job, opened>>
    BY DEF CallInactive
  <1>7. ASSUME NEW k \in job.todo, NEW d \in Dirs, MakeParent(k, d)
        PROVE  phase = "writing" /\ UNCHANGED <<phase, records, job, opened>>
    BY <1>7 DEF MakeParent, StartRollback
  <1>8. ASSUME NEW k \in job.todo, CreateFile(k)
        PROVE  /\ phase = "writing" /\ UNCHANGED <<phase, records, job>>
               /\ Turn(k) /\ Free(PathFor(k)) /\ Place(PathFor(k), "partial")
    BY <1>8 DEF CreateFile, StartRollback
  <1>9. ASSUME NEW k \in job.todo, FillFile(k)
        PROVE  phase = "writing"
    BY <1>9 DEF FillFile
  <1>10. ASSUME NEW n \in Nodes, Plant(n) \/ Displace(n)
         PROVE  /\ phase \in {"idle", "writing", "committed"}
                /\ UNCHANGED <<phase, records, job, opened>>
    BY <1>10 DEF Plant, Displace, treeVars
  <1>11. UNCHANGED vars => UNCHANGED <<phase, records, job, opened>>
    BY DEF vars, treeVars
  <1>12. QED
    BY <1>1, <1>2, <1>3, <1>4, <1>5, <1>6, <1>7, <1>8, <1>9, <1>10, <1>11
      DEF Next, Calls, Writes, Environment

\* Paths are written in one order (tree.go:239): no two files of a job have the same
\* turn, and the manifest's is the last.
LEMMA TurnUnique ==
  ASSUME TypeOK, NEW k \in job.todo, Turn(k)
  PROVE  /\ \A l \in job.todo : Turn(l) => l = k
         /\ k = "manifest" => job.todo = {"manifest"}
  <1>1. job.todo \subseteq
          {"faithful", "display", "mapping", "report", "revealed", "corpus", "manifest"}
    BY DEF TypeOK, Kinds, Closing
  <1>2. /\ Rank["faithful"] = 1 /\ Rank["display"] = 2 /\ Rank["mapping"] = 3
        /\ Rank["report"] = 4 /\ Rank["revealed"] = 5 /\ Rank["corpus"] = 6
        /\ Rank["manifest"] = 7
    BY DEF Rank
  <1>3. \A l \in job.todo : Rank[k] <= Rank[l]
    BY DEF Turn
  <1>4. ASSUME NEW l \in job.todo, Rank[l] <= Rank[k]
        PROVE  l = k
    BY <1>1, <1>2, <1>3, <1>4
  <1>5. ASSUME NEW l \in job.todo, Turn(l)
        PROVE  l = k
    BY <1>4, <1>5 DEF Turn
  <1>6. ASSUME k = "manifest", NEW l \in job.todo
        PROVE  l = "manifest"
    BY <1>1, <1>2, <1>4, <1>6
  <1>7. QED
    BY <1>5, <1>6

\* A receipt names artifacts of a candidate, at planned paths.
LEMMA ReceiptNodes ==
  ASSUME TypeInv, NEW s \in Sources, NEW k \in records[s].kinds
  PROVE  PathOf[s][k] \in Nodes
  <1>1. s \in Candidates /\ k \in Kinds
    BY DEF TypeInv, TypeOK, RecordsInv, Receipts
  <1>2. QED
    BY <1>1 DEF Nodes, Files, ArtifactFiles, Artifacts

\* A file that is written and closed completes its artifact; with it, all of the job
\* that is no longer to be written is complete.
LEMMA FillCompletes ==
  ASSUME TypeInv, WriteInv, [Next]_vars, NEW k \in job.todo, FillFile(k),
         phase' # "rollback"
  PROVE  /\ phase = "writing" /\ opened /\ Turn(k) /\ k \in job.kinds
         /\ Fill(PathFor(k), "whole") /\ ~opened' /\ UNCHANGED touched
         /\ IF job.todo = {k} THEN Finish
            ELSE job' = [job EXCEPT !.todo = @ \ {k}] /\ UNCHANGED <<phase, records>>
         /\ \A l \in (job.kinds \ job.todo) \cup {k} : IntactNext(PathFor(l))
  <1>0. TypeOK /\ JobInv
    BY DEF TypeInv
  <1>1. /\ phase = "writing" /\ opened /\ Turn(k) /\ k \in job.kinds /\ ~RollbackNode
        /\ Fill(PathFor(k), "whole") /\ ~opened' /\ UNCHANGED touched
        /\ IF job.todo = {k} THEN Finish
           ELSE job' = [job EXCEPT !.todo = @ \ {k}] /\ UNCHANGED <<phase, records>>
    BY <1>0 DEF FillFile, StartRollback, JobInv, RollbackNode
  <1>2. IntactNext(PathFor(k))
    <2>1. PathFor(k) \in Nodes
      BY <1>0, <1>1, PathForNode
    <2>2. disk[PathFor(k)] = "partial" \/ PathFor(k) \in touched
      BY <1>1 DEF WriteInv, OpenInv
    <2>3. disk[PathFor(k)] = "partial" => disk'[PathFor(k)] = "whole"
      BY <1>0, <1>1, <2>1, FillKeeps
    <2>4. QED
      BY <1>1, <2>2, <2>3 DEF IntactNext
  <1>3. ASSUME NEW l \in job.kinds \ job.todo
        PROVE  IntactNext(PathFor(l))
    <2>1. PathFor(l) \in Nodes
      BY <1>0, <1>1, PathForNode
    <2>2. Intact(PathFor(l))
      BY <1>1 DEF WriteInv, DoneInv
    <2>3. QED
      BY <1>1, <2>1, <2>2, IntactStays
  <1>4. QED
    BY <1>1, <1>2, <1>3

\* Initially no call is being carried out.
LEMMA WriteInit == Init => WriteInv
  BY DEF Init, WriteInv, DoneInv, OpenInv, ReceiptsBacked, Unrecorded

\* Every step keeps what is known of the call being carried out.
LEMMA WriteNext ==
  ASSUME TypeInv, WriteInv, [Next]_vars
  PROVE  WriteInv'
  <1> SUFFICES ASSUME phase' \in {"idle", "writing", "committed"} PROVE WriteInv'
    BY DEF WriteInv, DoneInv, OpenInv, ReceiptsBacked
  <1>0. TypeOK /\ JobInv /\ phase \in {"idle", "writing", "committed"} /\ ~RollbackNode
    BY ActiveStep DEF TypeInv
  <1>1. \A s \in Sources : \A k \in records[s].kinds : IntactNext(PathOf[s][k])
    BY <1>0, ReceiptNodes, IntactStays DEF WriteInv, ReceiptsBacked
  <1>2. ASSUME phase = "writing", NEW k \in job.kinds \ job.todo
        PROVE  IntactNext(PathFor(k))
    <2>1. PathFor(k) \in Nodes
      BY <1>0, <1>2, PathForNode
    <2>2. Intact(PathFor(k))
      BY <1>2 DEF WriteInv, DoneInv
    <2>3. QED
      BY <1>0, <2>1, <2>2, IntactStays
  <1>3. CASE UNCHANGED <<phase, records, job, opened>>
    <2>1. \A k : PathFor(k)' = PathFor(k) /\ (Turn(k)' <=> Turn(k))
      BY <1>3 DEF PathFor, Turn
    <2>2. ReceiptsBacked'
      BY <1>1, <1>3 DEF ReceiptsBacked, Intact, IntactNext
    <2>3. DoneInv'
      BY <1>2, <1>3, <2>1 DEF DoneInv, Intact, IntactNext
    <2>4. ASSUME phase = "writing", opened, NEW k \in job.todo, Turn(k)
          PROVE  disk'[PathFor(k)] = "partial" \/ PathFor(k) \in touched'
      <3>1. PathFor(k) \in Nodes
        BY <1>0, <2>4, PathForNode DEF JobInv
      <3>2. disk[PathFor(k)] = "partial" \/ PathFor(k) \in touched
        BY <2>4 DEF WriteInv, OpenInv
      <3>3. touched \subseteq touched'
        BY <1>0, DiskStep DEF Plant, Displace
      <3>4. ASSUME disk[PathFor(k)] = "partial", NEW m \in Nodes, NEW what,
                   Free(m), Place(m, what)
            PROVE  disk'[PathFor(k)] = "partial"
        BY <1>0, <3>1, <3>4, PlaceKeeps DEF Free, Present
      <3>5. ASSUME disk[PathFor(k)] = "partial", NEW m \in Nodes, Displace(m)
            PROVE  disk'[PathFor(k)] = "partial" \/ PathFor(k) \in touched'
        BY <3>1, <3>5 DEF Displace, Below
      <3>6. QED
        BY <1>0, <1>3, <2>4, <3>2, <3>3, <3>4, <3>5, DiskStep DEF Plant
    <2>5. OpenInv'
      BY <1>3, <2>1, <2>4 DEF OpenInv
    <2>6. QED
      BY <2>2, <2>3, <2>5 DEF WriteInv
  <1>4. ASSUME NEW s \in Sources, NEW o \in Offers, Record(s, o)
        PROVE  WriteInv'
    <2>1. phase = "idle" /\ ~opened'
      BY <1>0, <1>4 DEF Record, JobInv
    <2>2. phase' = "writing" => job'.todo = job'.kinds
      BY <1>4, <2>1 DEF Record
    <2>3. \A t \in Sources : records'[t].kinds \subseteq records[t].kinds
      <3>1. CASE o.kinds = {}
        <4>1. records' = [records EXCEPT ![s] = [state |-> o.state, kinds |-> {}]]
          BY <1>4, <3>1 DEF Record
        <4>2. DOMAIN records = Sources
          BY <1>0 DEF TypeOK
        <4>3. QED
          BY <4>1, <4>2
      <3>2. CASE o.kinds # {}
        BY <1>4, <3>2 DEF Record
      <3>3. QED
        BY <3>1, <3>2
    <2>4. QED
      BY <1>1, <2>1, <2>2, <2>3 DEF WriteInv, DoneInv, OpenInv, ReceiptsBacked, Intact, IntactNext
  <1>5. ASSUME NEW c \in Lengths, NEW m \in Lengths, Commit(c, m)
        PROVE  WriteInv'
    <2>1. ~opened' /\ job'.todo = job'.kinds /\ records' = records
      BY <1>0, <1>5 DEF Commit, JobInv, NoJob
    <2>2. QED
      BY <1>1, <2>1 DEF WriteInv, DoneInv, OpenInv, ReceiptsBacked, Intact, IntactNext
  <1>6. ASSUME NEW k \in job.todo, Turn(k), Free(PathFor(k)), Place(PathFor(k), "partial"),
               UNCHANGED <<phase, records, job>>
        PROVE  WriteInv'
    <2>1. \A l : PathFor(l)' = PathFor(l) /\ (Turn(l)' <=> Turn(l))
      BY <1>6 DEF PathFor, Turn
    <2>2. phase = "writing" => PathFor(k) \in Nodes
      BY <1>0, PathForNode DEF JobInv
    <2>3. phase = "writing" => disk'[PathFor(k)] = "partial"
      BY <1>0, <1>6, <2>2 DEF Place, TypeOK
    <2>4. OpenInv'
      BY <1>0, <1>6, <2>1, <2>3, TurnUnique DEF OpenInv
    <2>5. DoneInv' /\ ReceiptsBacked'
      BY <1>1, <1>2, <1>6, <2>1 DEF DoneInv, ReceiptsBacked, Intact, IntactNext
    <2>6. QED
      BY <2>4, <2>5 DEF WriteInv
  <1>7. ASSUME NEW k \in job.todo, FillFile(k)
        PROVE  WriteInv'
    <2>1. /\ phase = "writing" /\ ~opened'
          /\ IF job.todo = {k} THEN Finish
             ELSE job' = [job EXCEPT !.todo = @ \ {k}] /\ UNCHANGED <<phase, records>>
          /\ \A l \in (job.kinds \ job.todo) \cup {k} : IntactNext(PathFor(l))
      BY <1>7, FillCompletes
    <2>5. CASE job.todo = {k}
      <3>1. Finish /\ \A l \in job.kinds : IntactNext(PathFor(l))
        BY <2>1, <2>5
      <3>2. ReceiptsBacked'
        <4>1. CASE job.state = "commit"
          BY <1>1, <3>1, <4>1 DEF Finish, ReceiptsBacked, Intact, IntactNext
        <4>2. CASE job.state # "commit"
          <5>1. job.kinds \subseteq Kinds
            BY <1>0, <2>1, <4>2 DEF JobInv
          <5>2. \A l \in job.kinds : PathFor(l) = PathOf[job.source][l]
            BY <1>0, <2>1, <5>1, PathForNode
          <5>3. records' = [records EXCEPT ![job.source] =
                              [state |-> job.state, kinds |-> job.kinds]]
            BY <3>1, <4>2 DEF Finish
          <5>4. \A s \in Sources : records'[s].kinds =
                  IF s = job.source THEN job.kinds ELSE records[s].kinds
            BY <1>0, <5>3 DEF TypeOK
          <5>5. QED
            BY <1>1, <3>1, <5>2, <5>4 DEF ReceiptsBacked, Intact, IntactNext
        <4>3. QED
          BY <4>1, <4>2
      <3>3. phase' # "writing"
        BY <3>1 DEF Finish
      <3>4. QED
        BY <3>2, <3>3 DEF WriteInv, DoneInv, OpenInv
    <2>6. CASE job.todo # {k}
      <3>1. /\ job'.todo = job.todo \ {k} /\ job'.kinds = job.kinds
            /\ job'.source = job.source
            /\ UNCHANGED <<phase, records>>
        BY <1>0, <2>1, <2>6 DEF TypeOK
      <3>2. \A l : PathFor(l)' = PathFor(l)
        BY <3>1 DEF PathFor
      <3>3. DoneInv'
        BY <2>1, <3>1, <3>2 DEF DoneInv, Intact, IntactNext
      <3>4. QED
        BY <1>1, <2>1, <3>1, <3>3 DEF WriteInv, OpenInv, ReceiptsBacked, Intact, IntactNext
    <2>7. QED
      BY <2>5, <2>6
  <1>8. QED
    BY <1>3, <1>4, <1>5, <1>6, <1>7, ActiveStep

\* While the transaction is active or committed, what a stored receipt promises is on
\* disk, complete: Record stores it after the last write (tree.go:243).
THEOREM ReceiptsAreBacked == Spec => []ReceiptsBacked
  <1>1. TypeInv /\ WriteInv /\ [Next]_vars => TypeInv' /\ WriteInv'
    BY TypeNext, WriteNext
  <1>2. TypeInv /\ WriteInv => ReceiptsBacked
    BY DEF WriteInv
  <1>3. QED
    BY <1>1, <1>2, TypeInit, WriteInit, PTL DEF Spec

---------------------------------------------------------------------------
(* What rollback owes: every node of ours can be found again.              *)

\* The steps, sorted by what they do to the list of created nodes.
LEMMA CreatedStep ==
  ASSUME TypeInv, [Next]_vars
  PROVE  /\ phase' = "withdrawn" => phase = "withdrawn" \/ created = <<>>
         /\ dirty => dirty'
         /\ \/ UNCHANGED <<disk, created, dirty>>
            \/ /\ phase' # "withdrawn" /\ UNCHANGED dirty
               /\ \E m \in Nodes, what \in {"dir", "partial"}, known \in BOOLEAN :
                    Place(m, what) /\ Own(m, known)
            \/ /\ phase' # "withdrawn" /\ UNCHANGED <<created, dirty>>
               /\ \E k \in job.todo, what \in {"partial", "whole"} :
                    PathFor(k) \in Nodes /\ Fill(PathFor(k), what)
            \/ RollbackNode /\ phase' # "withdrawn"
            \/ /\ phase' # "withdrawn" /\ UNCHANGED <<created, dirty>>
               /\ \E n \in Nodes : Plant(n) \/ Displace(n)
  <1>1. ASSUME Calls
        PROVE  UNCHANGED <<disk, created, dirty>> /\ (phase' = "withdrawn" => phase = "withdrawn")
    <2>1. ASSUME NEW s, NEW o, Record(s, o) \/ RefuseRecord(s, o)
          PROVE  UNCHANGED <<disk, created, dirty>> /\ phase' # "withdrawn"
      BY <2>1 DEF Record, RefuseRecord, StartRollback
    <2>2. ASSUME NEW c, NEW m, Commit(c, m)
          PROVE  UNCHANGED <<disk, created, dirty>> /\ phase' # "withdrawn"
      BY <2>2 DEF Commit
    <2>3. ASSUME NEW c, NEW m, RefuseCommit(c, m)
          PROVE  UNCHANGED <<disk, created, dirty>> /\ phase' # "withdrawn"
      BY <2>3 DEF RefuseCommit, StartRollback
    <2>4. Abort => UNCHANGED <<disk, created, dirty>> /\ phase' # "withdrawn"
      BY DEF Abort, StartRollback
    <2>5. CallInactive => UNCHANGED <<disk, created, dirty, phase>>
      BY DEF CallInactive
    <2>6. QED
      BY <1>1, <2>1, <2>2, <2>3, <2>4, <2>5 DEF Calls
  <1>2. ASSUME NEW k \in job.todo, NEW d \in Dirs, MakeParent(k, d)
        PROVE  /\ phase' # "withdrawn" /\ UNCHANGED dirty
               /\ \/ UNCHANGED <<disk, created>>
                  \/ \E m \in Nodes, what \in {"dir", "partial"}, known \in BOOLEAN :
                       Place(m, what) /\ Own(m, known)
    <2>1. d \in Nodes /\ phase = "writing"
      BY <1>2 DEF Nodes, MakeParent
    <2>2. QED
      BY <1>2, <2>1 DEF MakeParent, StartRollback
  <1>3. ASSUME NEW k \in job.todo, CreateFile(k)
        PROVE  /\ phase' # "withdrawn" /\ UNCHANGED dirty
               /\ \/ UNCHANGED <<disk, created>>
                  \/ \E m \in Nodes, what \in {"dir", "partial"}, known \in BOOLEAN :
                       Place(m, what) /\ Own(m, known)
    <2>1. PathFor(k) \in Nodes /\ phase = "writing"
      BY <1>3, PathForNode DEF CreateFile, TypeInv, JobInv
    <2>2. QED
      BY <1>3, <2>1 DEF CreateFile, StartRollback
  <1>4. ASSUME NEW k \in job.todo, FillFile(k)
        PROVE  /\ phase' # "withdrawn" /\ UNCHANGED <<created, dirty>>
               /\ \E what \in {"partial", "whole"} :
                    PathFor(k) \in Nodes /\ Fill(PathFor(k), what)
    <2>1. PathFor(k) \in Nodes
      BY <1>4, PathForNode DEF FillFile, TypeInv, JobInv
    <2>2. QED
      BY <1>4, <2>1 DEF FillFile, StartRollback, Finish
  <1>5. RollbackNode => phase' # "withdrawn" /\ (dirty => dirty')
    BY DEF RollbackNode
  <1>6. EndRollback => created = <<>> /\ UNCHANGED <<disk, created, dirty>>
    BY DEF EndRollback
  <1>7. Crash => phase' # "withdrawn" /\ UNCHANGED <<disk, created, dirty>>
    BY DEF Crash
  <1>8. ASSUME NEW n \in Nodes, Plant(n) \/ Displace(n)
        PROVE  phase' # "withdrawn" /\ UNCHANGED <<created, dirty>>
    BY <1>8 DEF Plant, Displace, Running, treeVars
  <1>9. UNCHANGED vars => UNCHANGED <<disk, created, dirty, phase>>
    BY DEF vars, treeVars
  <1>10. QED
    BY <1>1, <1>2, <1>3, <1>4, <1>5, <1>6, <1>7, <1>8, <1>9 DEF Next, Writes, Environment

\* Initially nothing is created.
LEMMA CreatedInit == Init => CreatedInv
  BY DEF Init, CreatedInv, Ours

\* Every step keeps the created list true.
LEMMA CreatedNext ==
  ASSUME TypeInv, CreatedInv, [Next]_vars
  PROVE  CreatedInv'
  <1>0. TypeOK
    BY DEF TypeInv
  <1>1. ASSUME phase' = "withdrawn"
        PROVE  created' = <<>>
    <2>1. created = <<>>
      BY <1>1, CreatedStep DEF CreatedInv
    <2>2. UNCHANGED created
      BY <1>1, CreatedStep
    <2>3. QED
      BY <2>1, <2>2
  <1>2. ASSUME NEW n \in Nodes, disk'[n] \in Ours, ~dirty'
        PROVE  \E i \in 1..Len(created') : created'[i].name = n
    <2>0. ~dirty
      BY <1>2, CreatedStep
    <2>1. ASSUME disk[n] \in Ours, UNCHANGED created
          PROVE  \E i \in 1..Len(created') : created'[i].name = n
      BY <2>0, <2>1 DEF CreatedInv
    <2>2. ASSUME NEW m \in Nodes, NEW what, NEW known \in BOOLEAN, Place(m, what), Own(m, known)
          PROVE  \E i \in 1..Len(created') : created'[i].name = n
      <3>1. /\ Len(created) \in Nat /\ Len(created') = Len(created) + 1
            /\ \A i \in 1..Len(created) : created'[i] = created[i]
            /\ created'[Len(created')].name = m
        BY <1>0, <2>2, OwnType DEF TypeOK
      <3>2. CASE n = m
        BY <3>1, <3>2
      <3>3. CASE n # m
        <4>1. disk[n] \in Ours
          BY <1>0, <1>2, <2>2, <3>3, PlaceKeeps
        <4>2. PICK i \in 1..Len(created) : created[i].name = n
          BY <2>0, <4>1 DEF CreatedInv
        <4>3. i \in 1..Len(created') /\ created'[i].name = n
          BY <3>1, <4>2
        <4>4. QED
          BY <4>3
      <3>4. QED
        BY <3>2, <3>3
    <2>3. ASSUME NEW k \in job.todo, NEW what \in {"partial", "whole"}, UNCHANGED created,
                 PathFor(k) \in Nodes, Fill(PathFor(k), what)
          PROVE  \E i \in 1..Len(created') : created'[i].name = n
      <3>1. disk[n] \in Ours
        BY <1>0, <1>2, <2>3, FillKeeps DEF Ours
      <3>2. QED
        BY <2>1, <2>3, <3>1
    <2>4. ASSUME RollbackNode
          PROVE  \E i \in 1..Len(created') : created'[i].name = n
      <3>1. /\ Removable(Last) /\ Place(Last.name, "absent")
            /\ created # <<>> /\ created' = SubSeq(created, 1, Len(created) - 1)
        BY <1>2, <2>4 DEF RollbackNode
      <3>2. /\ Len(created') = Len(created) - 1 /\ Len(created) \in Nat \ {0}
            /\ \A i \in 1..Len(created') : created'[i] = created[i]
            /\ Last.name \in Nodes
        BY <1>0, <3>1, ShorterType DEF Node
      <3>3. n # Last.name
        BY <1>0, <1>2, <3>1, <3>2 DEF Place, TypeOK, Ours
      <3>4. disk[n] \in Ours
        BY <1>0, <1>2, <3>1, <3>3, PlaceKeeps
      <3>5. PICK i \in 1..Len(created) : created[i].name = n
        BY <2>0, <3>4 DEF CreatedInv
      <3>6. i # Len(created)
        BY <3>3, <3>5 DEF Last
      <3>7. i \in 1..Len(created') /\ created'[i].name = n
        BY <3>2, <3>5, <3>6
      <3>8. QED
        BY <3>7
    <2>5. ASSUME NEW m \in Nodes, Plant(m) \/ Displace(m), UNCHANGED created
          PROVE  \E i \in 1..Len(created') : created'[i].name = n
      <3>1. disk[n] \in Ours
        BY <1>0, <1>2, <2>5 DEF Plant, Displace, Place, TypeOK, Ours
      <3>2. QED
        BY <2>1, <2>5, <3>1
    <2>6. CASE UNCHANGED <<disk, created, dirty>>
      BY <1>2, <2>1, <2>6
    <2>7. QED
      BY <2>2, <2>3, <2>4, <2>5, <2>6, CreatedStep
  <1>3. QED
    BY <1>1, <1>2 DEF CreatedInv

\* A withdrawal that reports no cleanup error has removed everything this transaction
\* created, whatever failed and whatever other programs did (tree.go:333-354).
THEOREM CleanWithdrawal == Spec => []CleanMeansGone
  <1>1. TypeInv /\ CreatedInv /\ [Next]_vars => TypeInv' /\ CreatedInv'
    BY TypeNext, CreatedNext
  <1>2. ASSUME CreatedInv, phase = "withdrawn", ~dirty, NEW n \in Nodes
        PROVE  disk[n] \notin Ours
    <2>1. Len(created) = 0
      BY <1>2, EmptySeq DEF CreatedInv
    <2>2. QED
      BY <1>2, <2>1 DEF CreatedInv
  <1>3. CreatedInv => CleanMeansGone
    BY <1>2 DEF CleanMeansGone
  <1>4. QED
    BY <1>1, <1>3, TypeInit, CreatedInit, PTL DEF Spec

---------------------------------------------------------------------------
(* The manifest comes last, and goes first.                                *)

\* The manifest is a planned path.
LEMMA ManifestNode ==
  /\ Manifest \in Nodes /\ Manifest \notin Dirs /\ Corpus \in Nodes
  /\ Corpus # Manifest
  BY TreeAssumptions DEF PlanAssumption, SoundPlan, Nodes, Files, Corpus, Manifest

\* Initially there is no manifest.
LEMMA ManifestInit == Init => ManifestInv /\ ManifestLast
  BY ManifestNode DEF Init, ManifestInv, ManifestLast, Ours

\* Steps that leave the manifest's node, the list and the flag alone.
LEMMA ManifestQuiet ==
  ASSUME ManifestInv, disk'[Manifest] \in Ours => disk[Manifest] \in Ours,
         UNCHANGED <<created, dirty>>,
         disk[Manifest] \in Ours =>
           \/ phase' \in {"rollback", "withdrawn", "committed", "crashed"}
           \/ UNCHANGED <<phase, job, opened>>
  PROVE  ManifestInv'
  BY DEF ManifestInv, Last, Ours

\* Every step keeps the manifest the newest node of ours.
LEMMA ManifestNext ==
  ASSUME TypeInv, ManifestInv, [Next]_vars
  PROVE  ManifestInv'
  <1>0. TypeOK /\ JobInv
    BY DEF TypeInv
  <1>1. CASE Calls
    <2>1. disk[Manifest] \in Ours => phase # "idle"
      BY DEF ManifestInv
    <2>2. ASSUME NEW s, NEW o, Record(s, o) \/ RefuseRecord(s, o)
          PROVE  UNCHANGED <<disk, created, dirty>> /\ phase = "idle"
      BY <2>2 DEF Record, RefuseRecord, StartRollback
    <2>3. ASSUME NEW c, NEW m, Commit(c, m)
          PROVE  UNCHANGED <<disk, created, dirty>> /\ phase = "idle"
      BY <2>3 DEF Commit
    <2>4. ASSUME NEW c, NEW m, RefuseCommit(c, m)
          PROVE  UNCHANGED <<disk, created, dirty>> /\ phase = "idle"
      BY <2>4 DEF RefuseCommit, StartRollback
    <2>5. Abort => UNCHANGED <<disk, created, dirty>> /\ phase = "idle"
      BY DEF Abort, StartRollback
    <2>6. CallInactive => UNCHANGED <<disk, created, dirty, phase, job, opened>>
      BY DEF CallInactive
    <2>7. UNCHANGED <<disk, created, dirty>>
          /\ (phase = "idle" \/ UNCHANGED <<phase, job, opened>>)
      BY <1>1, <2>2, <2>3, <2>4, <2>5, <2>6 DEF Calls
    <2>8. QED
      BY <2>1, <2>7, ManifestQuiet
  <1>2. ASSUME NEW k \in job.todo, NEW d \in Dirs, MakeParent(k, d)
        PROVE  ManifestInv'
    <2>1. phase = "writing" /\ ~opened
      BY <1>2 DEF MakeParent
    <2>2. disk[Manifest] \notin Ours
      BY <2>1 DEF ManifestInv
    <2>3. disk'[Manifest] = disk[Manifest]
      BY <1>0, <1>2, ManifestNode, PlaceKeeps DEF MakeParent
    <2>4. QED
      BY <2>2, <2>3 DEF ManifestInv
  <1>3. ASSUME NEW k \in job.todo, CreateFile(k)
        PROVE  ManifestInv'
    <2>1. phase = "writing" /\ ~opened /\ Turn(k) /\ k \in job.kinds
      BY <1>0, <1>3 DEF CreateFile, JobInv
    <2>2. disk[Manifest] \notin Ours
      BY <2>1 DEF ManifestInv
    <2>3. PathFor(k) \in Nodes /\ (PathFor(k) = Manifest <=> k = "manifest")
      BY <1>0, <2>1, PathForNode
    <2>4. CASE UNCHANGED <<disk, created>>
      BY <2>2, <2>4 DEF ManifestInv
    <2>5. ASSUME NEW known \in BOOLEAN, Place(PathFor(k), "partial"), Own(PathFor(k), known),
                 phase' = "rollback" \/ (opened' /\ UNCHANGED <<phase, job>>)
          PROVE  ManifestInv'
      <3>1. CASE k = "manifest"
        <4>1. job.todo = {"manifest"}
          BY <1>0, <2>1, <3>1, TurnUnique
        <4>2. created' # <<>> /\ created'[Len(created')].name = Manifest
          BY <1>0, <2>3, <2>5, <3>1, OwnType
        <4>3. QED
          BY <2>1, <2>5, <4>1, <4>2 DEF ManifestInv
      <3>2. CASE k # "manifest"
        <4>1. disk'[Manifest] = disk[Manifest]
          BY <1>0, <2>3, <2>5, <3>2, ManifestNode, PlaceKeeps
        <4>2. QED
          BY <2>2, <4>1 DEF ManifestInv
      <3>3. QED
        BY <3>1, <3>2
    <2>6. QED
      BY <1>3, <2>4, <2>5 DEF CreateFile, StartRollback
  <1>4. ASSUME NEW k \in job.todo, FillFile(k)
        PROVE  ManifestInv'
    <2>1. phase = "writing" /\ k \in job.kinds /\ UNCHANGED <<created, dirty>>
          /\ \E what \in {"partial", "whole"} : Fill(PathFor(k), what)
      BY <1>0, <1>4 DEF FillFile, JobInv, StartRollback
    <2>2. PathFor(k) \in Nodes
      BY <1>0, <2>1, PathForNode
    <2>3. disk'[Manifest] \in Ours => disk[Manifest] \in Ours
      BY <1>0, <2>1, <2>2, ManifestNode, FillKeeps DEF Ours
    <2>4. disk[Manifest] \in Ours => phase' \in {"rollback", "committed"}
      <3>1. ASSUME disk[Manifest] \in Ours
            PROVE  job.todo = {k} /\ job.state = "commit"
        <4>1. job.todo = {"manifest"} /\ k = "manifest"
          BY <2>1, <3>1 DEF ManifestInv
        <4>2. QED
          BY <1>0, <2>1, <4>1, PathForNode DEF Closing
      <3>2. QED
        BY <1>4, <3>1 DEF FillFile, StartRollback, Finish
    <2>5. QED
      BY <2>1, <2>3, <2>4, ManifestQuiet
  <1>5. CASE RollbackNode
    <2>1. phase' = "rollback"
      BY <1>5 DEF RollbackNode
    <2>2. ASSUME disk'[Manifest] \in Ours, ~dirty'
          PROVE  FALSE
      <3>1. Removable(Last) /\ Place(Last.name, "absent") /\ ~dirty
        BY <1>5, <2>2 DEF RollbackNode
      <3>2. Last.name \in Nodes
        BY <1>0, <1>5, ShorterType DEF RollbackNode, Node
      <3>3. Last.name # Manifest
        BY <1>0, <2>2, <3>1, <3>2 DEF Place, TypeOK, Ours
      <3>4. disk[Manifest] \in Ours
        BY <1>0, <2>2, <3>1, <3>3, ManifestNode, PlaceKeeps
      <3>5. QED
        BY <3>1, <3>3, <3>4 DEF ManifestInv, Last
    <2>3. QED
      BY <2>1, <2>2 DEF ManifestInv
  <1>6. CASE EndRollback \/ Crash
    <2>1. UNCHANGED <<disk, created, dirty>> /\ phase' \in {"withdrawn", "crashed"}
      BY <1>6 DEF EndRollback, Crash
    <2>2. QED
      BY <2>1, ManifestQuiet
  <1>7. ASSUME NEW n \in Nodes, Plant(n) \/ Displace(n)
        PROVE  ManifestInv'
    <2>1. UNCHANGED <<created, dirty, phase, job, opened>>
      BY <1>7 DEF Plant, Displace, treeVars
    <2>2. disk'[Manifest] \in Ours => disk[Manifest] \in Ours
      BY <1>0, <1>7, ManifestNode DEF Plant, Displace, Place, TypeOK, Ours
    <2>3. QED
      BY <2>1, <2>2, ManifestQuiet
  <1>8. CASE UNCHANGED vars
    BY <1>8, ManifestQuiet DEF vars, treeVars
  <1>9. QED
    BY <1>1, <1>2, <1>3, <1>4, <1>5, <1>6, <1>7, <1>8 DEF Next, Writes, Environment

\* While a manifest of ours stands, no step stores a receipt.
LEMMA RecordsStay ==
  ASSUME TypeInv, ManifestInv, disk[Manifest] \in Ours, [Next]_vars
  PROVE  UNCHANGED records
  <1>0. TypeOK /\ JobInv /\ phase # "idle"
    BY DEF TypeInv, ManifestInv
  <1>1. ASSUME NEW s, NEW o, Record(s, o) \/ RefuseRecord(s, o)
        PROVE  UNCHANGED records
    BY <1>0, <1>1 DEF Record, RefuseRecord
  <1>2. ASSUME NEW c, NEW m, Commit(c, m)
        PROVE  UNCHANGED records
    BY <1>2 DEF Commit
  <1>3. ASSUME NEW c, NEW m, RefuseCommit(c, m)
        PROVE  UNCHANGED records
    BY <1>3 DEF RefuseCommit, StartRollback
  <1>4. Abort \/ CallInactive \/ RollbackNode \/ EndRollback \/ Crash => UNCHANGED records
    BY DEF Abort, CallInactive, RollbackNode, EndRollback, Crash, StartRollback
  <1>5. ASSUME NEW k \in job.todo, NEW d \in Dirs, MakeParent(k, d)
        PROVE  UNCHANGED records
    BY <1>5 DEF MakeParent, StartRollback
  <1>6. ASSUME NEW k \in job.todo, CreateFile(k)
        PROVE  UNCHANGED records
    BY <1>6 DEF CreateFile, StartRollback
  <1>7. ASSUME NEW k \in job.todo, FillFile(k)
        PROVE  UNCHANGED records
    <2>1. phase = "writing" /\ k = "manifest" /\ k \in job.kinds
      BY <1>0, <1>7 DEF FillFile, ManifestInv, JobInv
    <2>2. job.state = "commit"
      BY <1>0, <2>1, PathForNode DEF Closing
    <2>3. QED
      BY <1>7, <2>2 DEF FillFile, StartRollback, Finish
  <1>8. ASSUME NEW n \in Nodes, Plant(n) \/ Displace(n)
        PROVE  UNCHANGED records
    BY <1>8 DEF Plant, Displace, treeVars
  <1>9. UNCHANGED vars => UNCHANGED records
    BY DEF vars, treeVars
  <1>10. QED
    BY <1>1, <1>2, <1>3, <1>4, <1>5, <1>6, <1>7, <1>8, <1>9
      DEF Next, Calls, Writes, Environment

\* What is intact stays so, with the same receipts.
LEMMA PromiseStays ==
  ASSUME TypeInv, [Next]_vars, ~RollbackNode, UNCHANGED records, Recorded = Sources,
         Intact(Corpus),
         \A s \in Sources : \A k \in records[s].kinds : Intact(PathOf[s][k])
  PROVE  ManifestLast'
  <1>1. IntactNext(Corpus)
    BY ManifestNode, IntactStays
  <1>2. \A s \in Sources : \A k \in records[s].kinds : IntactNext(PathOf[s][k])
    BY ReceiptNodes, IntactStays
  <1>3. QED
    BY <1>1, <1>2 DEF ManifestLast, Intact, IntactNext, Recorded

\* The step that completes the manifest: the corpus and every promised artifact are
\* complete already.
LEMMA ManifestCompleted ==
  ASSUME TypeInv, WriteInv, [Next]_vars,
         disk[Manifest] # "whole", disk'[Manifest] = "whole"
  PROVE  /\ ~RollbackNode /\ UNCHANGED records
         /\ phase' \in {"committed", "rollback"}
         /\ Recorded = Sources /\ Intact(Corpus)
         /\ \A s \in Sources : \A k \in records[s].kinds : Intact(PathOf[s][k])
  <1>0. TypeOK /\ JobInv /\ Manifest \in Nodes
    BY ManifestNode DEF TypeInv
  <1>1. PICK k \in job.todo : /\ phase = "writing" /\ Turn(k) /\ FillFile(k)
                             /\ \E what \in {"partial", "whole"} : Fill(PathFor(k), what)
    <2>1. ASSUME NEW m \in Nodes, NEW what \in {"dir", "partial", "absent", "stranger"},
                 Place(m, what)
          PROVE  FALSE
      BY <1>0, <2>1 DEF Place, TypeOK
    <2>2. ASSUME RollbackNode, Place(Last.name, "absent")
          PROVE  FALSE
      <3>1. Last.name \in Nodes
        BY <1>0, <2>2, ShorterType DEF RollbackNode, Node
      <3>2. QED
        BY <2>1, <2>2, <3>1
    <2>3. ASSUME NEW n \in Nodes, Plant(n)
          PROVE  FALSE
      BY <2>1, <2>3 DEF Plant
    <2>4. ASSUME NEW n \in Nodes, Displace(n)
          PROVE  FALSE
      BY <1>0, <2>4 DEF Displace
    <2>5. QED
      BY <2>1, <2>2, <2>3, <2>4, DiskStep
  <1>2. k \in job.kinds /\ PathFor(k) \in Nodes
    BY <1>0, <1>1, PathForNode DEF JobInv
  <1>3. PathFor(k) = Manifest
    BY <1>0, <1>1, <1>2, FillKeeps
  <1>4. k = "manifest"
    BY <1>0, <1>1, <1>2, <1>3, PathForNode
  <1>5. job.state = "commit" /\ job.kinds = Closing /\ Recorded = Sources
    <2>1. job.state = "commit"
      BY <1>0, <1>1, <1>2, <1>4, PathForNode DEF Closing
    <2>2. QED
      BY <1>0, <1>1, <2>1 DEF JobInv, OutcomeStates
  <1>6. job.todo = {"manifest"}
    BY <1>0, <1>1, <1>4, TurnUnique
  <1>7. Intact(Corpus)
    <2>1. "corpus" \in job.kinds \ job.todo
      BY <1>5, <1>6 DEF Closing
    <2>2. QED
      BY <1>1, <2>1 DEF WriteInv, DoneInv, PathFor
  <1>8. /\ UNCHANGED records /\ ~RollbackNode
        /\ phase' \in {"committed", "rollback"}
    BY <1>1, <1>5, <1>6 DEF FillFile, StartRollback, Finish, RollbackNode
  <1>9. QED
    BY <1>1, <1>5, <1>7, <1>8 DEF WriteInv, ReceiptsBacked

\* Every step keeps the manifest the last file to be complete.
LEMMA ManifestLastNext ==
  ASSUME TypeInv, WriteInv, CreatedInv, ManifestInv, ManifestLast, [Next]_vars
  PROVE  ManifestLast'
  <1> SUFFICES ASSUME disk'[Manifest] = "whole", ~dirty'
               PROVE  ManifestLast'
    BY DEF ManifestLast
  <1>0. TypeOK /\ ~dirty
    BY CreatedStep DEF TypeInv
  <1>1. CASE disk[Manifest] = "whole"
    <2>1. UNCHANGED records
      BY <1>1, RecordsStay DEF Ours
    <2>2. ASSUME RollbackNode
          PROVE  FALSE
      <3>1. Removable(Last) /\ Place(Last.name, "absent")
        BY <2>2 DEF RollbackNode
      <3>2. Last.name = Manifest
        BY <1>0, <1>1 DEF ManifestInv, Ours, Last
      <3>3. QED
        BY <1>0, <3>1, <3>2, ManifestNode DEF Place, TypeOK
    <2>3. QED
      BY <1>0, <1>1, <2>1, <2>2, PromiseStays DEF ManifestLast
  <1>2. CASE disk[Manifest] # "whole"
    BY <1>2, ManifestCompleted, PromiseStays
  <1>3. QED
    BY <1>1, <1>2

\* The invariant is inductive.
LEMMA Inductive == IInv /\ [Next]_vars => IInv'
  BY TypeNext, WriteNext, CreatedNext, ManifestNext, ManifestLastNext DEF IInv

\* A complete manifest is visible, even after a crash or in the middle of a rollback,
\* only while all that it lists is complete: Commit writes it last (tree.go:271-281)
\* and the rollback, newest first, takes it away first or reports an error.
THEOREM ManifestIsLast == Spec => []ManifestLast
  <1>1. Init => IInv
    BY TypeInit, WriteInit, CreatedInit, ManifestInit DEF IInv
  <1>2. IInv => ManifestLast
    BY DEF IInv
  <1>3. QED
    BY <1>1, <1>2, Inductive, PTL DEF Spec

---------------------------------------------------------------------------
(* The transaction publishes atomically.                                   *)

\* A complete manifest of ours belongs to a call that has ended; a committed tree is
\* complete and clean.
EndInv ==
  /\ disk[Manifest] = "whole" => phase \notin {"idle", "writing"}
  /\ dirty => phase \in {"rollback", "withdrawn", "crashed"}
  /\ phase = "committed" => /\ Recorded = Sources
                            /\ Intact(Corpus)
                            /\ Intact(Manifest)

\* Initially no call has ended.
LEMMA EndInit == Init => EndInv
  BY ManifestNode DEF Init, EndInv

\* The step that commits writes the last of Commit's two files.
LEMMA CommitStep ==
  ASSUME IInv, EndInv, [Next]_vars, phase # "committed", phase' = "committed"
  PROVE  /\ phase = "writing" /\ ~dirty /\ UNCHANGED <<records, dirty>>
         /\ Recorded = Sources
         /\ IntactNext(Corpus) /\ IntactNext(Manifest)
  <1>0. TypeInv /\ WriteInv /\ TypeOK /\ JobInv
    BY DEF IInv, TypeInv
  <1>1. PICK k \in job.todo : FillFile(k)
    <2>1. ASSUME NEW s \in Sources, NEW o \in Offers, Record(s, o)
          PROVE  FALSE
      BY <2>1 DEF Record
    <2>2. ASSUME NEW c, NEW m, Commit(c, m)
          PROVE  FALSE
      BY <2>2 DEF Commit
    <2>3. QED
      BY <1>0, <2>1, <2>2, ActiveStep
  <1>2. /\ phase = "writing" /\ k \in job.kinds /\ job.todo = {k} /\ Finish
        /\ \A l \in (job.kinds \ job.todo) \cup {k} : IntactNext(PathFor(l))
    BY <1>0, <1>1, FillCompletes
  <1>3. /\ job.state = "commit" /\ job.kinds = Closing /\ Recorded = Sources
        /\ UNCHANGED records
    BY <1>0, <1>2 DEF Finish, JobInv, OutcomeStates
  <1>4. IntactNext(Corpus) /\ IntactNext(Manifest)
    <2>1. \A l \in {"corpus", "manifest"} : IntactNext(PathFor(l))
      BY <1>2, <1>3 DEF Closing
    <2>2. PathFor("corpus") = Corpus /\ PathFor("manifest") = Manifest
      BY DEF PathFor
    <2>3. QED
      BY <2>1, <2>2
  <1>5. ~dirty /\ UNCHANGED dirty
    BY <1>1, <1>2 DEF EndInv, FillFile, StartRollback
  <1>6. QED
    BY <1>2, <1>3, <1>4, <1>5

\* After a commit no other program's change is the transaction's concern.
LEMMA EndedStep ==
  ASSUME [Next]_vars, ~Running
  PROVE  UNCHANGED <<phase, disk, records, touched, dirty>>
  <1>1. ASSUME Calls
        PROVE  UNCHANGED <<phase, disk, records, touched, dirty>>
    <2>1. ASSUME NEW s, NEW o, Record(s, o) \/ RefuseRecord(s, o)
          PROVE  FALSE
      BY <2>1 DEF Record, RefuseRecord, Running
    <2>2. ASSUME NEW c, NEW m, Commit(c, m) \/ RefuseCommit(c, m)
          PROVE  FALSE
      BY <2>2 DEF Commit, RefuseCommit, Running
    <2>3. QED
      BY <1>1, <2>1, <2>2 DEF Calls, Abort, CallInactive, Running
  <1>2. ~Writes /\ ~Environment
    BY DEF Writes, MakeParent, CreateFile, FillFile, RollbackNode, EndRollback,
      Environment, Crash, Plant, Displace, Running
  <1>3. QED
    BY <1>1, <1>2 DEF Next, vars, treeVars

\* No call by itself kills the process.
LEMMA CallsPhase ==
  ASSUME Calls
  PROVE  phase' \in {phase, "writing", "rollback"}
  <1>1. ASSUME NEW s, NEW o, Record(s, o) \/ RefuseRecord(s, o)
        PROVE  phase' \in {phase, "writing", "rollback"}
    BY <1>1 DEF Record, RefuseRecord, StartRollback
  <1>2. ASSUME NEW c, NEW m, Commit(c, m)
        PROVE  phase' = "writing"
    BY <1>2 DEF Commit
  <1>3. ASSUME NEW c, NEW m, RefuseCommit(c, m)
        PROVE  phase' = "rollback"
    BY <1>3 DEF RefuseCommit, StartRollback
  <1>4. Abort \/ CallInactive => phase' \in {phase, "rollback"}
    BY DEF Abort, CallInactive, StartRollback
  <1>5. QED
    BY <1>1, <1>2, <1>3, <1>4 DEF Calls

\* A crash changes nothing on the disk.
LEMMA CrashStep ==
  ASSUME TypeInv, [Next]_vars, phase # "crashed", phase' = "crashed"
  PROVE  UNCHANGED <<disk, touched, dirty>>
  <1>1. ~Calls
    BY CallsPhase
  <1>2. QED
    BY <1>1 DEF Next, Writes, MakeParent, CreateFile, FillFile, StartRollback, Finish,
      RollbackNode, EndRollback, Environment, Crash, Plant, Displace, vars, treeVars

\* A rollback that ends leaves no complete manifest of ours, or is dirty.
LEMMA WithdrawStep ==
  ASSUME TypeInv, ManifestInv, [Next]_vars, phase # "withdrawn", phase' = "withdrawn",
         ~dirty
  PROVE  disk[Manifest] \notin Ours /\ disk' = disk
  <1>1. created = <<>> /\ UNCHANGED disk
    BY CreatedStep
  <1>2. QED
    BY <1>1 DEF ManifestInv

\* Every step keeps a complete manifest with a call that has ended.
LEMMA EndNext ==
  ASSUME IInv, EndInv, [Next]_vars
  PROVE  EndInv'
  <1>0. TypeInv /\ TypeInv' /\ WriteInv
    BY TypeNext DEF IInv
  <1>1. ASSUME disk'[Manifest] = "whole", phase' \in {"idle", "writing"}
        PROVE  FALSE
    <2>1. phase \in {"idle", "writing", "committed"}
      BY <1>0, <1>1, ActiveStep
    <2>2. phase # "committed"
      BY <1>1, EndedStep DEF Running
    <2>3. disk[Manifest] # "whole"
      BY <2>1, <2>2 DEF EndInv
    <2>4. QED
      BY <1>0, <1>1, <2>3, ManifestCompleted
  <1>2. ASSUME dirty'
        PROVE  phase' \in {"rollback", "withdrawn", "crashed"}
    <2>1. dirty \/ RollbackNode
      BY <1>0, <1>2, CreatedStep
    <2>2. phase' \notin {"idle", "writing", "committed"}
      BY <1>0, <2>1, ActiveStep DEF EndInv
    <2>3. QED
      BY <1>0, <2>2 DEF TypeInv, TypeOK
  <1>3. ASSUME phase' = "committed"
        PROVE  Recorded' = Sources /\ Intact(Corpus)' /\ Intact(Manifest)'
    <2>1. CASE phase = "committed"
      BY <2>1, EndedStep DEF Running, EndInv, Recorded, Intact
    <2>2. CASE phase # "committed"
      BY <1>3, <2>2, CommitStep DEF Recorded, Intact, IntactNext
    <2>3. QED
      BY <2>1, <2>2
  <1>4. QED
    BY <1>1, <1>2, <1>3 DEF EndInv

\* What a reader relies on is nothing or everything.
Items == Sources \cup {Corpus}
Visible ==
  /\ ~dirty
  /\ disk[Manifest] = "whole" \/ (phase = "committed" /\ Manifest \in touched)

ViewInv ==
  /\ view = IF Visible THEN Items ELSE {}
  /\ phase = "committed" => Visible

\* A reader sees nothing or the whole tree.
LEMMA ViewValue == IInv /\ EndInv => ViewInv
  <1> SUFFICES ASSUME IInv, EndInv PROVE ViewInv
    OBVIOUS
  <1>1. ASSUME Visible
        PROVE  /\ Recorded = Sources /\ Intact(Corpus)
               /\ \A s \in Sources : \A k \in records[s].kinds : Intact(PathOf[s][k])
    BY <1>1 DEF Visible, IInv, ManifestLast, EndInv, WriteInv, ReceiptsBacked
  <1>2. phase = "committed" => Visible
    BY DEF Visible, EndInv, Intact
  <1>3. CASE Visible
    <2>1. view = {s \in Recorded : \A k \in records[s].kinds : Intact(PathOf[s][k])}
                   \cup {Corpus}
      BY <1>1, <1>3 DEF view, Visible
    <2>2. {s \in Recorded : \A k \in records[s].kinds : Intact(PathOf[s][k])} = Sources
      BY <1>1, <1>3
    <2>3. QED
      BY <1>2, <1>3, <2>1, <2>2 DEF ViewInv, Items
  <1>4. CASE ~Visible
    <2>1. view = {}
      BY <1>4 DEF view, Visible
    <2>2. QED
      BY <1>2, <1>4, <2>1 DEF ViewInv
  <1>5. QED
    BY <1>3, <1>4

\* Every step is a step of AtomicTree or a stutter.
LEMMA AtomicStep ==
  ASSUME IInv, EndInv, [Next]_vars,
         IInv', EndInv', ViewInv, ViewInv'
  PROVE  [Atomic!Next]_<<view, status>>
  <1>0. /\ TypeOK /\ TypeOK' /\ TypeInv
        /\ view = IF Visible THEN Items ELSE {}
        /\ view' = IF Visible' THEN Items ELSE {}
        /\ phase' = "committed" => Visible'
    BY DEF IInv, TypeInv, ViewInv
  <1>1. CASE ~Running
    <2>1. UNCHANGED <<phase, disk, records, touched, dirty>>
      BY <1>1, EndedStep
    <2>2. UNCHANGED <<view, status>>
      BY <2>1 DEF view, status, Recorded, Intact
    <2>3. QED
      BY <2>2
  <1>2. CASE Running /\ dirty
    <2>1. dirty' /\ phase' # "committed" /\ status = "residue"
      BY <1>0, <1>2, CreatedStep DEF Running, status, EndInv, IInv
    <2>2. view = {} /\ view' = {}
      BY <1>0, <1>2, <2>1 DEF Visible
    <2>3. status' \in {"residue", "crashed"}
      BY <2>1 DEF status
    <2>4. QED
      BY <2>1, <2>2, <2>3 DEF Atomic!Next, Atomic!Crash
  <1>3. CASE Running /\ ~dirty
    <2>1. status = "open"
      BY <1>3 DEF Running, status
    <2>2. view \in {{}, Items} /\ view' \in {{}, Items}
      BY <1>0
    <2>3. CASE dirty'
      <3>1. view' = {} /\ RollbackNode
        BY <1>0, <1>3, <2>3, CreatedStep DEF Visible
      <3>2. status' = "residue"
        BY <2>3, <3>1 DEF RollbackNode, status
      <3>3. QED
        BY <2>1, <3>1, <3>2 DEF Atomic!Next, Atomic!Residue
    <2>4. CASE phase' = "committed"
      <3>1. view' = Items /\ status' = "published"
        BY <1>0, <2>4 DEF status
      <3>2. phase = "writing"
        BY <1>3, <2>4, CommitStep DEF Running
      <3>3. view = {}
        BY <1>0, <3>2 DEF Visible, EndInv
      <3>4. QED
        BY <2>1, <3>1, <3>3 DEF Atomic!Next, Atomic!Publish, Items
    <2>5. CASE phase' = "crashed"
      <3>1. UNCHANGED <<disk, touched, dirty>>
        BY <1>0, <1>3, <2>5, CrashStep DEF Running
      <3>2. view' = view
        BY <1>0, <1>3, <2>5, <3>1 DEF Visible, Running
      <3>3. QED
        BY <2>1, <2>5, <3>2 DEF status, Atomic!Next, Atomic!Crash
    <2>6. CASE phase' = "withdrawn" /\ ~dirty'
      <3>1. disk[Manifest] \notin Ours /\ disk' = disk
        BY <1>0, <1>3, <2>6, WithdrawStep DEF Running, IInv
      <3>2. view = {} /\ view' = {}
        BY <1>0, <1>3, <2>6, <3>1 DEF Visible, Running, Ours
      <3>3. status' = "withdrawn"
        BY <2>6 DEF status
      <3>4. QED
        BY <2>1, <3>2, <3>3 DEF Atomic!Next, Atomic!Withdraw
    <2>7. CASE phase' \in {"idle", "writing", "rollback"} /\ ~dirty'
      <3>1. status' = "open"
        BY <2>7 DEF status
      <3>2. QED
        BY <2>1, <2>2, <3>1 DEF Atomic!Next, Atomic!Retract, Atomic!Slip, Items
    <2>8. QED
      BY <1>0, <2>3, <2>4, <2>5, <2>6, <2>7 DEF TypeOK
  <1>4. QED
    BY <1>1, <1>2, <1>3

\* The transaction implements AtomicTree: a reader never sees part of a tree.  The whole
\* tree appears with its manifest, and a rollback takes the manifest away before
\* anything it describes (tree.go:271-281, 333-354).
THEOREM AtomicPublication == Spec => PublishesAtomically
  <1>1. Init => IInv /\ EndInv
    BY TypeInit, WriteInit, CreatedInit, ManifestInit, EndInit DEF IInv
  <1>2. IInv /\ EndInv /\ [Next]_vars => IInv' /\ EndInv'
    BY Inductive, EndNext
  <1>3. Init => Atomic!Init
    BY ManifestNode DEF Init, Atomic!Init, view, status
  <1>4. IInv /\ EndInv => ViewInv
    BY ViewValue
  <1>5. IInv' /\ EndInv' => ViewInv'
    BY <1>4, PTL
  <1>6. IInv /\ EndInv /\ [Next]_vars => [Atomic!Next]_<<view, status>>
    BY <1>2, <1>4, <1>5, AtomicStep
  <1>7. QED
    BY <1>1, <1>2, <1>3, <1>6, PTL DEF Spec, PublishesAtomically, Atomic!Spec

============================================================================
