------------------------------- MODULE Tree -------------------------------
(***************************************************************************)
(* The reveal-tree transaction of internal/publication/tree.go.            *)
(*                                                                         *)
(* A Tree owns a new, empty output root.  Its caller records one terminal  *)
(* outcome per planned source (Record), which writes that source's         *)
(* artifacts, and then commits: corpus.jsonl is written and manifest.json  *)
(* last.  Any error makes the transaction inactive and removes, newest     *)
(* first, the nodes it created and can still identify (fail); Abort does   *)
(* the same on request.                                                    *)
(*                                                                         *)
(* A step of this model is one file-system effect of write or fail.  Every *)
(* effect can fail, the process can die between any two of them, and other *)
(* programs can plant nodes in the root or replace or remove ours there.   *)
(* The two-call windows Mkdir;Lstat and Lstat;Remove are single steps: the *)
(* type's comment obliges the caller to keep other writers out of them.    *)
(***************************************************************************)
EXTENDS Naturals, Sequences, Plans

CONSTANTS
  Sources,      \* relative paths in the plan
  Candidates,   \* the sources whose plan names the five artifact paths
  Unplanned,    \* a relative path that is not in the plan
  Dirs,         \* every directory a planned artifact needs
  PathOf,       \* PathOf[s][k]: the path of artifact k of candidate s
  Above,        \* Above[n]: the directories that contain n, at any depth
  Offers,       \* the arguments callers pass to Record, beside the source
  Lengths,      \* lengths in bytes of the corpus stream and the manifest
  Bytes,        \* the transaction's byte budget, min(limits.Bytes, 256 MiB)
  MaxFaults     \* bound: failing system calls and outside changes per run

Kinds == {"faithful", "display", "mapping", "report", "revealed"}
Closing == {"corpus", "manifest"}      \* the two files Commit writes

\* Mutant of Rank: the manifest is written before the corpus.
RankManifestFirst ==
  [faithful |-> 1, display |-> 2, mapping |-> 3, report |-> 4, revealed |-> 5,
   corpus |-> 7, manifest |-> 6]

\* Record sorts the paths of a call; their first components decide: diffs,
\* display-diffs, mappings, reports, revealed.  Commit's two files follow.
Rank == [faithful |-> 1, display |-> 2, mapping |-> 3, report |-> 4,
         revealed |-> 5, corpus |-> 6, manifest |-> 7]

Corpus == "corpus.jsonl"
Manifest == "manifest.json"
ArtifactFiles == Artifacts(Candidates, Kinds, PathOf)
Files == ArtifactFiles \cup {Corpus, Manifest}
Nodes == Files \cup Dirs

OutcomeStates == {"failed", "unsupported", "skipped", "canceled"}
Offer == [state  : OutcomeStates \cup {"revealed", "other"},
          reason : {"empty", "token", "malformed"},
          hash   : {"empty", "digest", "malformed"},
          kinds  : SUBSET Kinds,
          length : Nat]

\* What NewTree's preflight leaves true of the plan; PathPlan shows that it does.
PlanAssumption ==
  /\ Unplanned \notin Sources
  /\ SoundPlan(Sources, Candidates, Kinds, PathOf, {Corpus, Manifest}, Dirs, Above)

BoundsAssumption ==
  /\ Offers \subseteq Offer
  /\ Lengths \subseteq Nat
  /\ Bytes \in Nat
  /\ MaxFaults \in Nat

ASSUME TreeAssumptions == PlanAssumption /\ BoundsAssumption

---------------------------------------------------------------------------
VARIABLES
  phase,      \* idle and writing are Go's active = true
  disk,       \* the output root: what stands at each planned path
  records,    \* t.records
  dirs,       \* t.dirs
  created,    \* t.created: name, and whether its FileInfo was obtained
  remaining,  \* t.remaining
  job,        \* the Record or Commit call that is being carried out
  opened,     \* the file write has created and not yet closed
  reply,      \* what the last call returned
  dirty,      \* its error includes a cleanup error
  faults,     \* failing calls and outside changes so far
  touched     \* paths other programs have changed

treeVars == <<phase, records, dirs, created, remaining, job, opened, reply, dirty>>
vars == <<treeVars, disk, faults, touched>>

Ours == {"dir", "partial", "whole"}    \* nodes this transaction created
Present(n) == disk[n] # "absent"
Below(n) == {m \in Nodes : n \in Above[m]}

NoJob == [source |-> Unplanned, state |-> "none", todo |-> {}, kinds |-> {},
          size |-> [k \in Kinds \cup Closing |-> 0]]
Unrecorded == [state |-> "none", kinds |-> {}]
Recorded == {s \in Sources : records[s] # Unrecorded}

Need(todo, size) ==
  LET of(k) == IF k \in todo THEN size[k] ELSE 0
  IN of("faithful") + of("display") + of("mapping") + of("report")
       + of("revealed") + of("corpus") + of("manifest")

\* The next file of the job: paths are written in sorted order.
Turn(k) == k \in job.todo /\ \A l \in job.todo : Rank[k] <= Rank[l]
PathFor(k) == IF k = "corpus" THEN Corpus
              ELSE IF k = "manifest" THEN Manifest
              ELSE PathOf[job.source][k]

Init ==
  /\ phase = "idle"
  /\ disk = [n \in Nodes |-> "absent"]
  /\ records = [s \in Sources |-> Unrecorded]
  /\ dirs = {}
  /\ created = <<>>
  /\ remaining = Bytes
  /\ job = NoJob
  /\ opened = FALSE
  /\ reply = "none"
  /\ dirty = FALSE
  /\ faults = 0
  /\ touched = {}

---------------------------------------------------------------------------
\* One more system call fails.
Fault == faults < MaxFaults /\ faults' = faults + 1
NoFault == UNCHANGED faults

\* t.fail: from here only fail's loop runs.  result is what the call returns if
\* the cleanup itself meets no error.
StartRollback(result) ==
  /\ phase' = "rollback"
  /\ reply' = result
  /\ job' = NoJob
  /\ opened' = FALSE
  /\ UNCHANGED <<records, dirs, remaining, dirty, touched>>

\* The argument checks of Record.
Acceptable(s, o) ==
  /\ s \in Sources
  /\ records[s] = Unrecorded
  /\ o.hash # "malformed"
  /\ \/ /\ o.state = "revealed"
        /\ s \in Candidates
        /\ o.hash = "digest"
        /\ o.reason = "empty"
        /\ o.kinds = Kinds
     \/ /\ o.state \in OutcomeStates
        /\ o.reason = "token"
        /\ o.kinds \subseteq {"report"}
        /\ o.kinds # {} => s \in Candidates /\ o.state # "skipped"
  /\ IF "report" \in o.kinds THEN o.length > 0 ELSE o.hash = "empty"

SizeOf(o) == [k \in Kinds \cup Closing |-> IF k \in o.kinds THEN o.length ELSE 0]

\* The call's artifacts together fit what the budget has left.
Affordable(size) == Need(Kinds \cup Closing, size) <= remaining

\* Mutant of Record: the receipt is stored before the artifacts are written.
RecordReceiptFirst(s, o) ==
  /\ phase = "idle"
  /\ Acceptable(s, o)
  /\ Affordable(SizeOf(o))
  /\ records' = [records EXCEPT ![s] = [state |-> o.state, kinds |-> o.kinds]]
  /\ IF o.kinds = {}
     THEN reply' = "ok" /\ UNCHANGED <<phase, job>>
     ELSE /\ phase' = "writing"
          /\ job' = [source |-> s, state |-> o.state, todo |-> o.kinds,
                     kinds |-> o.kinds, size |-> SizeOf(o)]
          /\ UNCHANGED reply
  /\ UNCHANGED <<disk, dirs, created, remaining, opened, dirty, touched>>
  /\ NoFault

\* Record, accepted: its artifacts are written next, or there are none and the
\* receipt is stored at once.
Record(s, o) ==
  /\ phase = "idle"
  /\ Acceptable(s, o)
  /\ Affordable(SizeOf(o))
  /\ IF o.kinds = {}
     THEN /\ records' = [records EXCEPT ![s] = [state |-> o.state, kinds |-> {}]]
          /\ reply' = "ok"
          /\ UNCHANGED <<phase, job>>
     ELSE /\ phase' = "writing"
          /\ job' = [source |-> s, state |-> o.state, todo |-> o.kinds,
                     kinds |-> o.kinds, size |-> SizeOf(o)]
          /\ UNCHANGED <<records, reply>>
  /\ UNCHANGED <<disk, dirs, created, remaining, opened, dirty, touched>>
  /\ NoFault

\* Record, refused: a bad argument or an exhausted budget ends the transaction.
RefuseRecord(s, o) ==
  /\ phase = "idle"
  /\ ~(Acceptable(s, o) /\ Affordable(SizeOf(o)))
  /\ StartRollback("error")
  /\ UNCHANGED <<disk, created>>
  /\ NoFault

\* Mutant of Committable: the manifest's bytes are not charged to the budget.
CommittableUncharged(corpus, manifest) ==
  /\ Recorded = Sources
  /\ corpus > 0
  /\ corpus <= remaining

\* Commit's checks: a terminal record for every source, a corpus, and room for
\* the corpus and the manifest.
Committable(corpus, manifest) ==
  /\ Recorded = Sources
  /\ corpus > 0
  /\ corpus + manifest <= remaining

Commit(corpus, manifest) ==
  /\ phase = "idle"
  /\ Committable(corpus, manifest)
  /\ phase' = "writing"
  /\ job' = [NoJob EXCEPT !.state = "commit", !.todo = Closing, !.kinds = Closing,
                          !.size["corpus"] = corpus, !.size["manifest"] = manifest]
  /\ UNCHANGED <<disk, records, dirs, created, remaining, opened, reply, dirty, touched>>
  /\ NoFault

RefuseCommit(corpus, manifest) ==
  /\ phase = "idle"
  /\ ~Committable(corpus, manifest)
  /\ StartRollback("error")
  /\ UNCHANGED <<disk, created>>
  /\ NoFault

\* Mutant of Abort: a committed tree can be aborted.
AbortCommitted ==
  /\ phase \in {"idle", "committed"}
  /\ StartRollback("ok")
  /\ UNCHANGED <<disk, created>>
  /\ NoFault

Abort ==
  /\ phase = "idle"
  /\ StartRollback("ok")
  /\ UNCHANGED <<disk, created>>
  /\ NoFault

\* Record, Commit or Abort on a transaction that has ended: ErrState, and nothing
\* else happens.
CallInactive ==
  /\ phase \in {"withdrawn", "committed"}
  /\ reply' = "inactive"
  /\ UNCHANGED <<phase, disk, records, dirs, created, remaining, job, opened, dirty,
                 touched>>
  /\ NoFault

---------------------------------------------------------------------------
\* write, one effect at a time.

Place(n, what) == disk' = [disk EXCEPT ![n] = what]
\* Mutant of Own: a node whose FileInfo could not be read is forgotten.
OwnIdentified(n, identified) ==
  IF identified THEN created' = Append(created, [name |-> n, known |-> TRUE])
  ELSE UNCHANGED created
Own(n, identified) == created' = Append(created, [name |-> n, known |-> identified])
\* Mkdir and O_EXCL creation fail where something stands already, or where a
\* directory above has vanished.
Free(n) == ~Present(n) /\ \A d \in Above[n] : Present(d)

\* The outermost missing parent that t.dirs does not hold: Mkdir, then Lstat.
MakeParent(k, d) ==
  /\ phase = "writing"
  /\ Turn(k)
  /\ ~opened
  /\ d \in Above[PathFor(k)] \ dirs
  /\ Above[d] \subseteq dirs
  /\ \/ \* made and identified
        /\ Free(d)
        /\ Place(d, "dir")
        /\ Own(d, TRUE)
        /\ dirs' = dirs \cup {d}
        /\ UNCHANGED <<phase, records, remaining, job, opened, reply, dirty, touched>>
        /\ NoFault
     \/ \* made, but Lstat fails: owned without an identity
        /\ Free(d)
        /\ Place(d, "dir")
        /\ Own(d, FALSE)
        /\ StartRollback("error")
        /\ Fault
     \/ \* Mkdir cannot succeed
        /\ ~Free(d)
        /\ StartRollback("error")
        /\ UNCHANGED <<disk, created>>
        /\ NoFault
     \/ \* Mkdir fails
        /\ Free(d)
        /\ StartRollback("error")
        /\ UNCHANGED <<disk, created>>
        /\ Fault

\* OpenFile with O_EXCL, then Stat of the open file.
CreateFile(k) ==
  /\ phase = "writing"
  /\ Turn(k)
  /\ ~opened
  /\ Above[PathFor(k)] \subseteq dirs
  /\ \/ /\ Free(PathFor(k))
        /\ Place(PathFor(k), "partial")
        /\ Own(PathFor(k), TRUE)
        /\ opened' = TRUE
        /\ UNCHANGED <<phase, records, dirs, remaining, job, reply, dirty, touched>>
        /\ NoFault
     \/ \* created, but Stat fails
        /\ Free(PathFor(k))
        /\ Place(PathFor(k), "partial")
        /\ Own(PathFor(k), FALSE)
        /\ StartRollback("error")
        /\ Fault
     \/ /\ ~Free(PathFor(k))
        /\ StartRollback("error")
        /\ UNCHANGED <<disk, created>>
        /\ NoFault
     \/ /\ Free(PathFor(k))
        /\ StartRollback("error")
        /\ UNCHANGED <<disk, created>>
        /\ Fault

\* A write through the descriptor reaches the path only while our file is there.
Fill(n, what) ==
  IF disk[n] = "partial" THEN Place(n, what) ELSE UNCHANGED disk

\* What follows the last file of a call: Record stores its receipt, Commit ends
\* the transaction.
Finish ==
  /\ reply' = "ok"
  /\ job' = NoJob
  /\ IF job.state = "commit"
     THEN phase' = "committed" /\ UNCHANGED records
     ELSE /\ phase' = "idle"
          /\ records' = [records EXCEPT ![job.source] =
                           [state |-> job.state, kinds |-> job.kinds]]

\* Write and Close.
FillFile(k) ==
  /\ phase = "writing"
  /\ Turn(k)
  /\ opened
  /\ UNCHANGED created
  /\ \/ \* written and closed
        /\ Fill(PathFor(k), "whole")
        /\ remaining' = remaining - job.size[k]
        /\ opened' = FALSE
        /\ IF job.todo = {k}
           THEN Finish
           ELSE /\ job' = [job EXCEPT !.todo = @ \ {k}]
                /\ UNCHANGED <<phase, records, reply>>
        /\ UNCHANGED <<dirs, dirty, touched>>
        /\ NoFault
     \/ \* the write fails or is short, or everything is written and Close fails
        /\ \E what \in {"partial", "whole"} : Fill(PathFor(k), what)
        /\ StartRollback("error")
        /\ Fault

---------------------------------------------------------------------------
\* fail, one created node at a time, newest first.

Last == created[Len(created)]
\* Mutant of Removable: rollback removes by name, without comparing identities.
RemovableByName(node) ==
  /\ Present(node.name)
  /\ \A m \in Below(node.name) : ~Present(m)

\* Lstat finds the node we created, and Remove is possible: it has no children.
Removable(node) ==
  /\ node.known
  /\ disk[node.name] \in Ours
  /\ \A m \in Below(node.name) : ~Present(m)

\* Mutant of RollbackNode: nodes are removed oldest first.
RollbackOldestFirst ==
  /\ phase = "rollback"
  /\ created # <<>>
  /\ created' = Tail(created)
  /\ IF Removable(Head(created))
     THEN Place(Head(created).name, "absent") /\ UNCHANGED <<reply, dirty>>
     ELSE reply' = "error" /\ dirty' = TRUE /\ UNCHANGED disk
  /\ UNCHANGED <<phase, records, dirs, remaining, job, opened, touched>>
  /\ NoFault

\* Mutant of RollbackNode: a node that cannot be removed is tried again.
RollbackRetrying ==
  /\ phase = "rollback"
  /\ created # <<>>
  /\ IF Removable(Last)
     THEN /\ created' = SubSeq(created, 1, Len(created) - 1)
          /\ Place(Last.name, "absent")
          /\ UNCHANGED <<reply, dirty>>
     ELSE reply' = "error" /\ dirty' = TRUE /\ UNCHANGED <<disk, created>>
  /\ UNCHANGED <<phase, records, dirs, remaining, job, opened, touched>>
  /\ NoFault

RollbackNode ==
  /\ phase = "rollback"
  /\ created # <<>>
  /\ created' = SubSeq(created, 1, Len(created) - 1)
  /\ \/ /\ Removable(Last)
        /\ Place(Last.name, "absent")
        /\ UNCHANGED <<reply, dirty>>
        /\ NoFault
     \/ \* absent, unidentified, replaced, or not empty: joined to the error
        /\ ~Removable(Last)
        /\ reply' = "error"
        /\ dirty' = TRUE
        /\ UNCHANGED disk
        /\ NoFault
     \/ \* Lstat or Remove fails
        /\ Removable(Last)
        /\ reply' = "error"
        /\ dirty' = TRUE
        /\ UNCHANGED disk
        /\ Fault
  /\ UNCHANGED <<phase, records, dirs, remaining, job, opened, touched>>

EndRollback ==
  /\ phase = "rollback"
  /\ created = <<>>
  /\ phase' = "withdrawn"
  /\ UNCHANGED <<disk, records, dirs, created, remaining, job, opened, reply, dirty,
                 touched>>
  /\ NoFault

---------------------------------------------------------------------------
\* The environment.

Running == phase \in {"idle", "writing", "rollback"}

\* The process dies.  Nothing it holds in memory survives.
Crash ==
  /\ Running
  /\ phase' = "crashed"
  /\ UNCHANGED <<disk, records, dirs, created, remaining, job, opened, reply, dirty,
                 touched>>
  /\ NoFault

\* Another program puts a node of its own at a path of the plan.
Plant(n) ==
  /\ Running
  /\ Free(n)
  /\ Place(n, "stranger")
  /\ touched' = touched \cup {n}
  /\ UNCHANGED treeVars
  /\ Fault

\* Another program moves away one of our nodes, with what it contains, and may
\* leave a node of its own in its place.
Displace(n) ==
  /\ Running
  /\ disk[n] \in Ours
  /\ \A m \in Below(n) : disk[m] # "stranger"
  /\ \E what \in {"absent", "stranger"} :
       disk' = [m \in Nodes |-> IF m = n THEN what
                                ELSE IF n \in Above[m] THEN "absent" ELSE disk[m]]
  /\ touched' = touched \cup {n} \cup Below(n)
  /\ UNCHANGED treeVars
  /\ Fault

---------------------------------------------------------------------------
Calls ==
  \/ \E s \in Sources \cup {Unplanned}, o \in Offers :
       Record(s, o) \/ RefuseRecord(s, o)
  \/ \E corpus, manifest \in Lengths :
       Commit(corpus, manifest) \/ RefuseCommit(corpus, manifest)
  \/ Abort
  \/ CallInactive

Writes ==
  \/ \E k \in job.todo :
       CreateFile(k) \/ FillFile(k) \/ \E d \in Dirs : MakeParent(k, d)
  \/ RollbackNode
  \/ EndRollback

Environment == Crash \/ \E n \in Nodes : Plant(n) \/ Displace(n)

Next == Calls \/ Writes \/ Environment

\* A call that has begun goes on: it is straight-line code of one goroutine, and
\* every system call returns.  Callers, faults and other programs owe nothing.
Spec == Init /\ [][Next]_vars /\ WF_vars(Writes)

---------------------------------------------------------------------------
\* Properties

Receipts == [state : OutcomeStates \cup {"revealed", "none"}, kinds : SUBSET Kinds]

TypeOK ==
  /\ phase \in {"idle", "writing", "rollback", "withdrawn", "committed", "crashed"}
  /\ disk \in [Nodes -> Ours \cup {"absent", "stranger"}]
  /\ records \in [Sources -> Receipts]
  /\ dirs \subseteq Dirs
  /\ created \in Seq([name : Nodes, known : BOOLEAN])
  /\ remaining \in Nat
  /\ job \in [source : Sources \cup {Unplanned},
              state  : OutcomeStates \cup {"revealed", "commit", "none"},
              todo   : SUBSET (Kinds \cup Closing),
              kinds  : SUBSET (Kinds \cup Closing),
              size   : [Kinds \cup Closing -> Nat]]
  /\ opened \in BOOLEAN
  /\ reply \in {"none", "ok", "error", "inactive"}
  /\ dirty \in BOOLEAN
  /\ faults \in 0..MaxFaults
  /\ touched \subseteq Nodes

Intact(n) == disk[n] = "whole" \/ n \in touched

\* While the transaction is active or committed, a stored receipt never promises
\* an artifact that is not completely written (Record stores it after the last
\* write, tree.go:243).
ReceiptsBacked ==
  phase \in {"idle", "writing", "committed"} =>
    \A s \in Sources : \A k \in records[s].kinds : Intact(PathOf[s][k])

\* A complete manifest of ours is visible, even to a reader that comes after a
\* crash or in the middle of a rollback, only while every planned source has a
\* receipt and every file the manifest lists is complete.  Only a reported
\* cleanup error or another program's change excuses an exception.
ManifestLast ==
  disk[Manifest] = "whole" /\ ~dirty =>
    /\ Recorded = Sources
    /\ Intact(Corpus)
    /\ \A s \in Sources : \A k \in records[s].kinds : Intact(PathOf[s][k])

\* A withdrawal that reports no cleanup error leaves nothing this transaction
\* created, also when a system call failed between creating a node and learning
\* its identity.
CleanMeansGone ==
  phase = "withdrawn" /\ ~dirty => \A n \in Nodes : disk[n] \notin Ours

\* The budget check at the start of a call covers the whole call: what is still
\* to be written fits what remains, so no write overdraws it.
BudgetCoversJob == Need(job.todo, job.size) <= remaining

\* No step removes or overwrites a node the transaction did not create.
StrangersSurvive ==
  [][\A n \in Nodes : disk[n] = "stranger" => disk'[n] = "stranger"]_vars

\* A committed tree is final: later calls, Abort included, change nothing on disk.
CommittedIsFinal ==
  [][phase = "committed" => phase' = "committed" /\ UNCHANGED disk]_vars

\* A reader of the root relies on what a complete manifest lists.  What another
\* program does to a manifest while it is written is not the writer's.
view == IF /\ ~dirty
           /\ \/ disk[Manifest] = "whole"
              \/ phase = "committed" /\ Manifest \in touched
        THEN {s \in Recorded : \A k \in records[s].kinds : Intact(PathOf[s][k])}
               \cup (IF Intact(Corpus) THEN {Corpus} ELSE {})
        ELSE {}
status == IF phase = "crashed" THEN "crashed"
          ELSE IF phase = "committed" THEN "published"
          ELSE IF dirty THEN "residue"
          ELSE IF phase = "withdrawn" THEN "withdrawn" ELSE "open"
Atomic == INSTANCE AtomicTree
            WITH Items <- Sources \cup {Corpus}, view <- view, status <- status

\* A reader never sees part of a tree, and sees one only as AtomicTree allows: the
\* whole tree appears with its manifest (tree.go:276-281), and a rollback takes the
\* manifest away before anything it describes (tree.go:337).
PublishesAtomically == Atomic!Spec

\* Every Record, Commit or Abort that starts returns, unless the process dies.
CallsReturn ==
  phase \in {"writing", "rollback"} ~> phase \notin {"writing", "rollback"}
===========================================================================
