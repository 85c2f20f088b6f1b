----------------------------- MODULE Delivery -----------------------------
(***************************************************************************)
(* How a command delivers what it found: runDirectory of cli/directory.go  *)
(* with its streamed report, runReveal of cli/reveal.go with the flat      *)
(* bundle of publication/publish.go, runV2 of cli/v2.go and the schema 1.0 *)
(* tail of cli.Run.  What is delivered comes from the corpus executor or   *)
(* from one audit and is taken by its contract: the executor writes a      *)
(* header, entries and a summary, stops at the first write that fails, and *)
(* may fail by itself anywhere (Corpus.SummaryCompletes).                  *)
(*                                                                         *)
(* A text is a sequence of chunks; "torn" is a part of one.                *)
(***************************************************************************)
EXTENDS OutputPath

CONSTANTS
    Requests,       \* the command lines, see Dispatch
    MaxEntries,     \* bound on the entries of a corpus
    Budgets,        \* values of the presentation's byte budget, in chunks
    MaxFaults       \* bound on failing calls of delivery

ASSUME DeliveryAssumptions ==
    /\ Requests \subseteq
          [command : {"audit", "unicode", "metadata", "structure"}, directory : BOOLEAN,
           json : BOOLEAN, jsonl : BOOLEAN, recursive : BOOLEAN, jsonArray : BOOLEAN,
           output : BOOLEAN, reveal : BOOLEAN, verbose : BOOLEAN]
    /\ MaxEntries \in Nat /\ MaxFaults \in Nat
    /\ Budgets \subseteq Nat

VARIABLES
    request,
    exit,           \* the exit code, once pc = "ended"
    found,          \* the exit code the audit or the corpus summary asks for
    entries, room,  \* corpusPresentation.entries, boundedCorpusOutput.remaining
    failed,         \* an error is to be returned
    out,            \* what stdout was given
    report,         \* the report file: absent, foreign or ours, and its text
    bundle,         \* the bundle's directory
    files,          \* the bundle's files: absent, part or whole
    turn,           \* position in Bundle of the file being written or removed
    unclean,        \* a removal failed
    faults

vars == <<pathVars, request, exit, found, entries, room, failed, out, report,
          bundle, files, turn, unclean, faults>>

\* publish's items: sorted by name, and the manifest added last.
BundleByName == <<"comparison.json", "display.diff", "faithful.diff", "manifest.json",
                  "report.json", "revealed.txt">>
Bundle == <<"comparison.json", "display.diff", "faithful.diff", "report.json",
            "revealed.txt", "manifest.json">>

ExitCodes == {0, 3, 4}
Fault == faults < MaxFaults /\ faults' = faults + 1
Sound == UNCHANGED faults
Goto(l) == pc' = l /\ UNCHANGED <<names, guarded, source, requested, canon, place,
                                   ahead, pins>>
End(code) == Goto("ended") /\ exit' = code
Continue(l) == Goto(l) /\ UNCHANGED exit

Init ==
    /\ PathInit /\ pc = "start"
    /\ request \in Requests
    /\ room \in Budgets
    /\ ~request.directory => room = Max(Budgets)
    /\ exit = 4 /\ found = 4 /\ entries = 0 /\ failed = FALSE
    /\ out = <<>>
    /\ bundle \in {"absent", "foreign"}
    /\ report = [is |-> bundle, text |-> <<>>]
    /\ files = [i \in 1..Len(Bundle) |-> "absent"]
    /\ turn = 0 /\ unclean = FALSE /\ faults = 0

----------------------------------------------------------------------------
(* cli.Run, from the arguments it parsed to the command it calls.          *)

DirectoryOptions(r) == r.jsonl \/ r.recursive
CorpusAudit(r) == r.directory /\ r.command = "audit"
Contradictory(r) ==
    IF CorpusAudit(r) \/ DirectoryOptions(r)
    THEN \/ r.command # "audit" \/ ~r.directory
         \/ r.json /\ r.jsonl
         \/ r.reveal /\ r.output
    ELSE r.reveal /\ (r.command # "audit" \/ r.output)

\* The directory reveal has a module of its own, DirectoryReveal.
Branch(r) ==
    IF CorpusAudit(r)
    THEN IF r.reveal THEN "elsewhere" ELSE IF r.output THEN "pin" ELSE "stream"
    ELSE "audit"

DispatchTo(label) ==
    /\ Continue(label)
    /\ UNCHANGED <<request, found, entries, room, failed, out, report, bundle,
                   files, turn, unclean, faults>>

Dispatch ==
    /\ pc = "start" /\ ~Contradictory(request)
    /\ DispatchTo(Branch(request))

Reject ==
    /\ pc = "start" /\ Contradictory(request)
    /\ End(4)
    /\ UNCHANGED <<request, found, entries, room, failed, out, report, bundle,
                   files, turn, unclean, faults>>

delivered == <<out, report, bundle, files>>
rest == <<request, found, entries, room, failed, turn, unclean>>

----------------------------------------------------------------------------
(* runDirectory                                                            *)

PinWorkspace ==
    /\ pc = "pin" /\ PinSource /\ guarded' = TRUE
    /\ pc' = "canonical"
    /\ UNCHANGED <<names, requested, canon, place, ahead, pins,
                   exit, rest, delivered, faults>>

PinWorkspaceFails ==
    /\ pc = "pin" /\ Fault /\ End(4)
    /\ UNCHANGED <<rest, delivered>>

\* O_EXCL: an existing node, whatever it is, makes the creation fail.
CreateReport ==
    /\ pc = "pinned" /\ ~request.reveal
    /\ \/ /\ report.is = "absent" /\ Sound
          /\ report' = [is |-> "ours", text |-> <<>>]
          /\ Continue("stream")
       \/ /\ report.is # "absent" /\ Sound /\ UNCHANGED report /\ End(4)
       \/ /\ Fault /\ UNCHANGED report /\ End(4)
    /\ UNCHANGED <<rest, out, bundle, files>>

CreateRefused ==
    /\ pc = "refused" /\ End(4)
    /\ UNCHANGED <<rest, delivered, faults>>

\* The chunk corpusPresentation makes of a record.
RenderedNaive(kind) == kind
Rendered(kind) ==
    IF kind = "entry" /\ request.jsonArray /\ entries > 0 THEN "next" ELSE kind

\* A chunk reaches the report's file, if there is one, or stdout.
Deliver(chunk) ==
    IF report.is = "ours"
    THEN report' = [report EXCEPT !.text = Append(@, chunk)] /\ UNCHANGED out
    ELSE out' = Append(out, chunk) /\ UNCHANGED report

\* One record of the executor, through corpusPresentation.Write and
\* boundedCorpusOutput.Write; entries counts before the write.
WriteRecord(kind) ==
    /\ entries' = entries + (IF kind = "entry" THEN 1 ELSE 0)
    /\ \/ /\ room > 0 /\ Sound
          /\ Deliver(Rendered(kind)) /\ room' = room - 1
          /\ UNCHANGED failed
       \/ /\ room > 0 /\ Fault
          /\ Deliver("torn") /\ failed' = TRUE
          /\ UNCHANGED room
       \/ /\ room = 0 /\ Sound
          /\ failed' = TRUE
          /\ UNCHANGED <<out, report, room>>

Written == IF report.is = "ours" THEN report.text ELSE out
StreamRecord ==
    /\ pc = "stream" /\ ~failed
    /\ \/ Written = <<>> /\ WriteRecord("header") /\ UNCHANGED found /\ Continue("stream")
       \/ /\ Written # <<>> /\ entries < MaxEntries
          /\ WriteRecord("entry") /\ UNCHANGED found /\ Continue("stream")
       \/ /\ Written # <<>> /\ WriteRecord("summary")
          /\ found' \in ExitCodes /\ Continue("finish")
    /\ UNCHANGED <<request, turn, unclean, bundle, files>>

\* The executor stops: at a failed write, or by a failure of its own.
StreamStops ==
    /\ pc = "stream" /\ ((failed /\ Sound) \/ (~failed /\ Fault))
    /\ failed' = TRUE /\ Continue("finish")
    /\ UNCHANGED <<request, found, entries, room, turn, unclean, delivered>>

\* file.Close, whose error joins the run's; what it had not yet stored may be lost.
CloseCall ==
    /\ pc = "finish" /\ report.is = "ours"
    /\ \/ Sound /\ UNCHANGED <<failed, report>>
       \/ /\ Fault /\ failed' = TRUE
          /\ \/ UNCHANGED report
             \/ report' = [report EXCEPT !.text = Append(SubSeq(@, 1, Len(@) - 1), "torn")]
    /\ UNCHANGED <<request, found, entries, room, turn, unclean, out, bundle, files>>
CloseReportAfterRun ==
    CloseCall /\ Continue(IF failed THEN "remove" ELSE "settle")
CloseReport ==
    CloseCall /\ Continue(IF failed' THEN "remove" ELSE "settle")

NoReport ==
    /\ pc = "finish" /\ report.is # "ours"
    /\ Continue("settle")
    /\ UNCHANGED <<rest, delivered, faults>>

RemoveReport ==
    /\ pc = "remove"
    /\ \/ /\ Sound /\ UNCHANGED unclean
          /\ report' = [is |-> "absent", text |-> <<>>]
       \/ Fault /\ unclean' = TRUE /\ UNCHANGED report
    /\ failed' = TRUE /\ Continue("settle")
    /\ UNCHANGED <<request, found, entries, room, turn, out, bundle, files>>

\* The exit code, after the verbose line to stderr.
SettleDirectory ==
    /\ pc = "settle"
    /\ \/ failed /\ Sound /\ End(4)
       \/ ~failed /\ Sound /\ End(found)
       \/ ~failed /\ CorpusAudit(request) /\ request.verbose /\ Fault /\ End(4)
    /\ UNCHANGED <<rest, delivered>>

----------------------------------------------------------------------------
(* One source: runReveal, runV2 and the schema 1.0 tail of Run.            *)

\* One audit, or none that a report can be made of; then the verbose line.
AuditSource ==
    /\ pc = "audit"
    /\ \/ /\ found' \in ExitCodes /\ Sound
          /\ Continue(IF ~request.reveal THEN (IF request.output THEN "create" ELSE "print")
                      ELSE IF found' = 4 THEN "print" ELSE "compare")
       \/ Fault /\ End(4) /\ UNCHANGED found
    /\ UNCHANGED <<request, entries, room, failed, turn, unclean, delivered>>

\* The report goes to stdout: alone, or after the bundle stands.
PrintReport ==
    /\ pc \in {"print", "present"}
    /\ \/ Sound /\ out' = Append(out, "report") /\ End(found)
       \/ Fault /\ out' = Append(out, "torn") /\ End(4)
       \/ /\ pc = "present" /\ request.verbose
          /\ Fault /\ out' = Append(out, "report") /\ End(4)
    /\ UNCHANGED <<rest, report, bundle, files>>

\* deliverV2 and the tail of Run: create, write, close, and on failure remove.
CreateFile ==
    /\ pc = "create"
    /\ \/ /\ report.is = "absent" /\ Sound
          /\ report' = [is |-> "ours", text |-> <<>>] /\ Continue("fill")
       \/ report.is # "absent" /\ Sound /\ UNCHANGED report /\ End(4)
       \/ Fault /\ UNCHANGED report /\ End(4)
    /\ UNCHANGED <<rest, out, bundle, files>>

FillReport ==
    /\ pc = "fill"
    /\ \/ Sound /\ report' = [report EXCEPT !.text = <<"report">>] /\ UNCHANGED failed
       \/ Fault /\ report' = [report EXCEPT !.text = <<"torn">>] /\ failed' = TRUE
    /\ Continue("finish")
    /\ UNCHANGED <<request, found, entries, room, turn, unclean, out, bundle, files>>

\* reveal.Compare, and the texts it needs.
CompareTexts ==
    /\ pc = "compare"
    /\ \/ Sound /\ Continue("output")
       \/ Fault /\ End(4)
    /\ UNCHANGED <<rest, delivered>>

\* Mkdir in the pinned parent, then the handle of the new directory.
MakeBundle ==
    /\ pc = "pinned" /\ request.reveal
    /\ \/ /\ bundle = "absent" /\ Sound
          /\ bundle' = "ours" /\ turn' = 1
          /\ UNCHANGED <<failed, exit>> /\ Continue("publish")
       \/ /\ bundle = "absent" /\ Fault
          /\ bundle' = "ours" /\ failed' = TRUE
          /\ UNCHANGED turn /\ Continue("rmdir")
       \/ bundle # "absent" /\ Sound /\ UNCHANGED <<bundle, turn, failed>> /\ End(4)
       \/ Fault /\ UNCHANGED <<bundle, turn, failed>> /\ End(4)
    /\ UNCHANGED <<request, found, entries, room, unclean, out, report, files>>

\* publish: one file, created exclusively, written and closed; a file whose close fails
\* may be whole all the same.
PublishFile ==
    /\ pc = "publish" /\ turn <= Len(Bundle)
    /\ \/ /\ Sound /\ files' = [files EXCEPT ![turn] = "whole"]
          /\ turn' = turn + 1 /\ Continue("publish") /\ UNCHANGED failed
       \/ /\ Fault
          /\ \/ \E left \in {"part", "whole"} :
                   files' = [files EXCEPT ![turn] = left] /\ turn' = turn
             \/ UNCHANGED files /\ turn' = turn - 1
          /\ failed' = TRUE /\ Continue("rollback")
    /\ UNCHANGED <<request, found, entries, room, unclean, out, report, bundle>>

\* publish's rollback: what was created, newest first, whether removed or not.
RollBackFile ==
    /\ pc = "rollback" /\ turn > 0
    /\ \/ Sound /\ files' = [files EXCEPT ![turn] = "absent"] /\ UNCHANGED unclean
       \/ Fault /\ unclean' = TRUE /\ UNCHANGED files
    /\ turn' = turn - 1 /\ Continue("rollback")
    /\ UNCHANGED <<request, found, entries, room, failed, out, report, bundle>>

\* Closing the bundle's handle; a failure leaves a published bundle in place.
CloseBundle ==
    /\ \/ pc = "publish" /\ turn > Len(Bundle)
       \/ pc = "rollback" /\ turn = 0
    /\ \/ Sound /\ Continue(IF failed THEN "rmdir" ELSE "present")
       \/ Fault /\ (IF failed THEN Continue("rmdir") ELSE End(4))
    /\ UNCHANGED <<rest, delivered>>

\* Remove of the bundle's directory, which the system refuses unless empty.
RemoveBundle ==
    /\ pc = "rmdir"
    /\ \/ /\ \A i \in DOMAIN files : files[i] = "absent"
          /\ Sound /\ bundle' = "absent" /\ UNCHANGED unclean
       \/ /\ \E i \in DOMAIN files : files[i] # "absent"
          /\ Sound /\ unclean' = TRUE /\ UNCHANGED bundle
       \/ Fault /\ unclean' = TRUE /\ UNCHANGED bundle
    /\ End(4)
    /\ UNCHANGED <<request, found, entries, room, failed, turn, out, report, files>>

----------------------------------------------------------------------------
\* The process dies.
Crash ==
    /\ pc \notin {"start", "ended", "dead"} /\ Fault
    /\ Continue("dead")
    /\ UNCHANGED <<rest, delivered>>

WalkPath == PathSteps /\ UNCHANGED <<exit, rest, delivered, faults>>
Interfere == Others /\ UNCHANGED <<exit, rest, delivered, faults>>

Next ==
    \/ Dispatch \/ Reject
    \/ PinWorkspace \/ PinWorkspaceFails \/ CreateReport \/ CreateRefused
    \/ StreamRecord \/ StreamStops \/ CloseReport \/ NoReport \/ RemoveReport
    \/ SettleDirectory
    \/ AuditSource \/ PrintReport \/ CreateFile \/ FillReport
    \/ CompareTexts \/ MakeBundle \/ PublishFile \/ RollBackFile \/ CloseBundle
    \/ RemoveBundle
    \/ Crash \/ WalkPath \/ Interfere

Spec == Init /\ [][Next]_vars

----------------------------------------------------------------------------
WholeStream(t) ==
    /\ Len(t) > 1 /\ t[1] = "header" /\ t[Len(t)] = "summary"
    /\ \A i \in 2..(Len(t) - 1) :
          t[i] = IF request.jsonArray /\ i > 2 THEN "next" ELSE "entry"
Whole(t) == IF CorpusAudit(request) THEN WholeStream(t) ELSE t = <<"report">>
WholeBundle == \A i \in DOMAIN files : files[i] = "whole"

(* An exit code below 4 vouches for the delivery: every destination the    *)
(* user named holds a whole, well-formed text or bundle (runDirectory,     *)
(* runReveal, deliverV2, Run).                                             *)
LowExitDelivered ==
    (pc = "ended" /\ exit < 4) =>
        /\ Whole(IF request.output THEN report.text ELSE out)
        /\ request.reveal => bundle = "ours" /\ WholeBundle

(* After a command has ended, what it left under the names it created is   *)
(* whole, unless a removal failed: a report or a bundle that is there is   *)
(* one to rely on (deliverV2's comment, publish's rollback).  Whether the  *)
(* user learns of a failed removal is not said: deliverV2 and the tail of  *)
(* Run discard its error (v2.go:80, cli.go:213).                           *)
NothingHalfStands ==
    (pc = "ended" /\ ~unclean) =>
        /\ report.is = "ours" => Whole(report.text)
        /\ bundle = "ours" => WholeBundle

(* A complete manifest stands, at any moment and after a crash, only in a  *)
(* complete bundle (Publish's comment: manifest.json last), unless its own *)
(* close failed after it was written whole and then its removal failed     *)
(* too: the rollback goes on, and removes the files it speaks of.          *)
ManifestMeansBundle ==
    \A i \in DOMAIN Bundle :
        Bundle[i] = "manifest.json" /\ files[i] = "whole" => WholeBundle \/ (failed /\ unclean)
=============================================================================
