-------------------------- MODULE DirectoryReveal --------------------------
(***************************************************************************)
(* audit DIRECTORY --reveal-out: runDirectoryReveal and treeObserver of    *)
(* internal/cli/directory_reveal.go, composing the corpus executor with    *)
(* the reveal tree.                                                        *)
(*                                                                         *)
(* The command creates the output root, runs Corpus into a buffer with an  *)
(* observer that records every entry in the tree, commits the tree with    *)
(* the buffered stream, and only then replays the stream to stdout.  Any   *)
(* failure before the commit withdraws the tree and removes the root.      *)
(*                                                                         *)
(* The tree appears here as Tree shows it to behave: a call succeeds, or   *)
(* it ends the transaction and rolls back, perhaps leaving some nodes.     *)
(***************************************************************************)
EXTENDS Corpus

VARIABLES
  step,      \* run, commit, close, withdraw, replay, exited or crashed; start
  tree,      \* o.tree: none, active, aborted or committed
  ledger,    \* the receipts it holds, in plan order
  call,      \* the arguments of the last Record
  root,      \* the output root: absent or present
  inside,    \* what it holds: nodes of ours, nodes of others
  replayed,  \* records of the stream written to stdout
  cause,     \* why the run is being withdrawn
  message,   \* the diagnostic on stderr
  code       \* the exit code

treeVars == <<tree, ledger, call>>
cliVars == <<step, root, inside, replayed, cause, message, code>>
drVars == <<vars, treeVars, cliVars>>

NoCall == [state |-> "skipped", reason |-> "token", hash |-> "empty", kinds |-> {},
           candidate |-> TRUE]

DRInit ==
  /\ Init /\ observed
  /\ step = "start"
  /\ tree = "none" /\ ledger = <<>> /\ call = NoCall
  /\ root = "absent" /\ inside = {}
  /\ replayed = 0
  /\ cause = "none" /\ message = "none" /\ code = 0

Exit(n, text) == step' = "exited" /\ code' = n /\ message' = text

---------------------------------------------------------------------------
\* The source is pinned, the output parent too, and the root made and opened.
Start ==
  /\ step = "start"
  /\ \/ /\ step' = "run" /\ root' = "present"
        /\ UNCHANGED <<code, message>>
     \/ /\ \E text \in {"input.open_failed", "output.create_failed"} : Exit(4, text)
        /\ UNCHANGED root
     \/ \* made, but it cannot be opened; a failing Remove goes unnoticed
        /\ Exit(4, "output.create_failed")
        /\ root' \in {"absent", "present"}
  /\ UNCHANGED <<inside, replayed, cause, treeVars, vars>>

\* A step of the executor that the observer has no part in.  Its writer is a buffer:
\* only the byte budget can refuse a record.
Executing ==
  /\ step = "run"
  /\ Steps
  /\ err' # "write_failed"
  /\ UNCHANGED <<treeVars, cliVars>>

\* treeObserver.Prepare: NewTree accepts the plan or refuses it.
PrepareTree ==
  /\ step = "run"
  /\ \E ok \in BOOLEAN : /\ Prepare(ok)
                         /\ tree' = IF ok THEN "active" ELSE "none"
  /\ UNCHANGED <<ledger, call, cliVars>>

\* The tree's own rollback: it removes everything, or leaves some nodes.
RollBack ==
  /\ tree' = "aborted"
  /\ inside' \in {inside, inside \cup {"ours"}}

AllKinds == {"faithful", "display", "mapping", "report", "revealed"}
\* The arguments treeObserver.Visit passes to Record for the current entry: hash is
\* the one its report names, if it has a report and the source was acquired.
RecordCall(state, reason, kinds, hash) ==
  [state |-> state, reason |-> IF reason = "" THEN "empty" ELSE "token", hash |-> hash,
   kinds |-> kinds, candidate |-> plan[at] = "candidate"]

\* Record stores the receipt, or fails and rolls the tree back.
Recording(c) ==
  /\ call' = c
  /\ \/ tree' = tree /\ ledger' = Append(ledger, [state |-> c.state, kinds |-> c.kinds])
        /\ inside' = inside
     \/ RollBack /\ UNCHANGED ledger
Recorded == tree' = "active"

ReportKinds == IF item.report THEN {"report"} ELSE {}
Hashes == IF ~item.report THEN {"empty"}
          ELSE IF item.state \in Audited THEN {"digest"} ELSE {"empty", "digest"}

\* Mutant of VisitLimited: the limit is recorded but not reported to the executor.
VisitLimitedSilently ==
  /\ Recording(RecordCall("failed", "execution.resource_limit", {"report"}, "digest"))
  /\ Visit(IF Recorded THEN "ok" ELSE "error")

\* The comparison exceeds a limit: the report alone is recorded, as failed.
VisitLimited ==
  /\ Recording(RecordCall("failed", "execution.resource_limit", {"report"}, "digest"))
  /\ Visit(IF Recorded THEN "source_limit" ELSE "error")

\* treeObserver.Visit
VisitTree ==
  /\ step = "run"
  /\ stage = "visit"
  /\ \/ /\ item.state \in Audited
        /\ \/ VisitLimited
           \/ \* the report, its hashes or the comparison are not as expected
              /\ Visit("error")
              /\ UNCHANGED <<treeVars, inside>>
           \/ /\ Recording(RecordCall("revealed", "", AllKinds, "digest"))
              /\ Visit(IF Recorded THEN "ok" ELSE "error")
     \/ /\ item.state \notin Audited
        /\ \E hash \in Hashes :
             Recording(RecordCall(item.state, item.reason, ReportKinds, hash))
        /\ Visit(IF Recorded THEN "ok" ELSE "error")
  /\ UNCHANGED <<step, root, replayed, cause, message, code>>

---------------------------------------------------------------------------
\* The executor has returned: the tree is committed if there is a plan, and otherwise,
\* or after an error, withdrawn.
Resume ==
  /\ step = "run"
  /\ stage = "returned"
  /\ step' = IF err = "none" /\ tree # "none" THEN "commit" ELSE "withdraw"
  /\ cause' = IF err = "none" /\ tree = "none" THEN "no_plan" ELSE err
  /\ UNCHANGED <<root, inside, replayed, message, code, treeVars, vars>>

\* Tree.Commit writes the buffered stream and the manifest; it needs a receipt for
\* every planned entry.
CommitTree ==
  /\ step = "commit"
  /\ \/ /\ Len(ledger) = Len(plan)
        /\ tree' = "committed" /\ step' = "close"
        /\ inside' = inside \cup {"ours"}
        /\ UNCHANGED cause
     \/ /\ RollBack
        /\ step' = "withdraw" /\ cause' = "publish_failed"
  /\ UNCHANGED <<ledger, call, root, replayed, message, code, vars>>

\* Mutant of CloseRoot: a failing close is taken for a failed publication, and the
\* root is removed with all it holds.
CloseRootOrRemove ==
  /\ step = "close"
  /\ \/ step' = "replay" /\ UNCHANGED <<message, code, root, inside>>
     \/ Exit(4, "output.publish_failed") /\ root' = "absent" /\ inside' = {}
  /\ UNCHANGED <<replayed, cause, treeVars, vars>>

\* The output root is closed; a failure is reported, and the tree stays published.
CloseRoot ==
  /\ step = "close"
  /\ \/ step' = "replay" /\ UNCHANGED <<message, code>>
     \/ Exit(4, "output.close_failed")
  /\ UNCHANGED <<root, inside, replayed, cause, treeVars, vars>>

Because == IF cause = "output_limit" THEN "execution.resource_limit"
           ELSE "output.publish_failed"

\* Mutant of Withdraw: what happened to the root is not looked at.
WithdrawUnchecked ==
  /\ step = "withdraw"
  /\ tree' = IF tree = "none" THEN "none" ELSE "aborted"
  /\ inside' \in IF tree = "active" THEN {inside, inside \cup {"ours"}} ELSE {inside}
  /\ root' \in IF inside' = {} THEN {"absent", "present"} ELSE {"present"}
  /\ IF cause = "no_plan" THEN step' = "replay" /\ UNCHANGED <<message, code>>
     ELSE Exit(4, Because)
  /\ UNCHANGED <<ledger, call, replayed, cause, vars>>

\* Mutant of Withdraw: a root that cannot be removed is tried again.
WithdrawRetrying ==
  /\ step = "withdraw"
  /\ tree' = IF tree = "active" THEN "aborted" ELSE tree
  /\ inside' \in IF tree = "active" THEN {inside, inside \cup {"ours"}} ELSE {inside}
  /\ root' \in IF inside' = {} THEN {"absent", "present"} ELSE {"present"}
  /\ IF root' = "present" THEN UNCHANGED <<step, message, code>>
     ELSE IF cause = "no_plan" THEN step' = "replay" /\ UNCHANGED <<message, code>>
     ELSE Exit(4, Because)
  /\ UNCHANGED <<ledger, call, replayed, cause, vars>>

\* cleanup: Abort, unless the tree is no longer active, then Close, then Remove, which
\* cannot succeed while something is inside.  Any of them can fail.
Withdraw ==
  /\ step = "withdraw"
  /\ tree' = IF tree = "active" THEN "aborted" ELSE tree
  /\ inside' \in IF tree = "active" THEN {inside, inside \cup {"ours"}} ELSE {inside}
  /\ root' \in IF inside' = {} THEN {"absent", "present"} ELSE {"present"}
  /\ \/ /\ root' = "absent"
        /\ IF cause = "no_plan" THEN step' = "replay" /\ UNCHANGED <<message, code>>
           ELSE Exit(4, Because)
     \/ Exit(4, "output.cleanup_failed")
  /\ UNCHANGED <<ledger, call, replayed, cause, vars>>

\* Mutant of Replay: a record that stdout does not take ends the command unnoticed.
ReplayUnchecked ==
  /\ step = "replay"
  /\ replayed < Len(stream)
  /\ \/ replayed' = replayed + 1 /\ UNCHANGED <<step, message, code>>
     \/ Exit(summary.exit, "none") /\ UNCHANGED replayed
  /\ UNCHANGED <<root, inside, cause, treeVars, vars>>

\* The stream goes to stdout, one record at a time; the presentation has a byte
\* budget of its own, and stdout can fail.
Replay ==
  /\ step = "replay"
  /\ replayed < Len(stream)
  /\ \/ replayed' = replayed + 1 /\ UNCHANGED <<step, message, code>>
     \/ Exit(4, "output.write_failed") /\ UNCHANGED replayed
  /\ UNCHANGED <<root, inside, cause, treeVars, vars>>

\* The end; a verbose log that cannot be written also fails the command.
Finish ==
  /\ step = "replay"
  /\ replayed = Len(stream)
  /\ Exit(summary.exit, "none") \/ Exit(4, "none")
  /\ UNCHANGED <<root, inside, replayed, cause, treeVars, vars>>

---------------------------------------------------------------------------
Running == step \notin {"start", "exited", "crashed"}

\* An interrupt, while the executor runs.
Interrupt ==
  /\ step = "run" /\ EndContext
  /\ UNCHANGED <<treeVars, cliVars>>

\* Another program leaves something in the output root.
Litter ==
  /\ Running /\ root = "present"
  /\ inside' = inside \cup {"foreign"}
  /\ UNCHANGED <<step, root, replayed, cause, message, code, treeVars, vars>>

Crash ==
  /\ Running
  /\ step' = "crashed"
  /\ UNCHANGED <<root, inside, replayed, cause, message, code, treeVars, vars>>

Command ==
  \/ Start \/ Executing \/ PrepareTree \/ VisitTree \/ Resume \/ CommitTree
  \/ CloseRoot \/ Withdraw \/ Replay \/ Finish
DRNext == Command \/ Interrupt \/ Litter \/ Crash

DRSpec == DRInit /\ [][DRNext]_drVars /\ WF_drVars(Command)

---------------------------------------------------------------------------
\* Properties

\* The published ledger and the published corpus stream agree: the stream is a
\* completed one, every planned entry has its receipt in the same state, revealed
\* where the audit finished, and a report in one is a report in the other.
LedgerAgrees ==
  tree = "committed" =>
    /\ Delivered
    /\ Len(ledger) = Len(plan)
    /\ \A i \in 1..Len(plan) :
         /\ ledger[i].state = IF stream[i + 1].state \in Audited THEN "revealed"
                              ELSE stream[i + 1].state
         /\ "report" \in ledger[i].kinds <=> stream[i + 1].report

\* The observer never makes a call that the tree refuses for its arguments: what
\* the executor says of an entry always fits Record's checks (tree.go:193-229).
CallsFit ==
  IF call.state = "revealed"
  THEN call.candidate /\ call.hash = "digest" /\ call.reason = "empty"
       /\ call.kinds = AllKinds
  ELSE /\ call.reason = "token" /\ call.kinds \subseteq {"report"}
       /\ call.kinds # {} => call.candidate /\ call.state # "skipped"
       /\ call.kinds = {} => call.hash = "empty"

\* What the tree is told of a source, it accepts and the stream confirms.
LedgerFits == LedgerAgrees /\ CallsFit

\* A command that ends without a published tree leaves no output root, or says that it
\* could not clean up, except for a root that was made and could not be opened: its
\* removal may fail too, which is discarded (directory_reveal.go:107), and the message
\* is that it could not be opened.  Then the audit has not begun, and the root holds
\* nothing of the command's.
NothingLeftUnsaid ==
  step = "exited" /\ tree # "committed" /\ root = "present" =>
    \/ message = "output.cleanup_failed"
    \/ message = "output.create_failed" /\ stage = "header" /\ "ours" \notin inside

\* Exit codes below 4 mean: published, delivered to stdout to the last record, and
\* every planned candidate revealed.
LowExitPublished ==
  step = "exited" /\ code < 4 =>
    /\ tree = "committed"
    /\ replayed = Len(stream)
    /\ \A i \in 1..Len(plan) : plan[i] = "candidate" => ledger[i].state = "revealed"

\* Nothing the command does after the commit withdraws the tree or its root.
CommittedStays ==
  [][tree = "committed" => tree' = "committed" /\ root' = "present" /\ "ours" \in inside']_drVars

\* The command ends.
Exits == <>(step \in {"exited", "crashed"})
=============================================================================
