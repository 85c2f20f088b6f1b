-------------------------- MODULE Delivery_proofs --------------------------
(***************************************************************************)
(* Proofs about Delivery, for any command line, a corpus of any size, any  *)
(* presentation budget, any number of failing calls and a crash at any     *)
(* time; and about the walk to the output's parent (OutputPath), for any   *)
(* file system and any number of changes of its names.                     *)
(***************************************************************************)
EXTENDS Delivery, SequenceTheorems, WellFoundedInduction, TLAPS

---------------------------------------------------------------------------
(* The inductive invariant.                                                *)

Walking == {"canonical", "output", "ancestors", "open", "pinned", "refused"}
Labels == Walking \cup
  {"start", "elsewhere", "audit", "pin", "stream", "finish", "remove", "settle", "print",
   "present", "create", "fill", "compare", "publish", "rollback", "rmdir", "ended", "dead"}
RequestRecords ==
  [command : {"audit", "unicode", "metadata", "structure"}, directory : BOOLEAN,
   json : BOOLEAN, jsonl : BOOLEAN, recursive : BOOLEAN, jsonArray : BOOLEAN,
   output : BOOLEAN, reveal : BOOLEAN, verbose : BOOLEAN]
Chunks == {"header", "entry", "next", "summary", "torn", "report"}
Texts == Seq(Chunks)
Presence == {"absent", "foreign", "ours"}
Reports == [is : Presence, text : Texts]
Progress == [1..6 -> {"absent", "part", "whole"}]

TypeInv ==
  /\ pc \in Labels
  /\ request \in RequestRecords
  /\ exit \in ExitCodes /\ found \in ExitCodes
  /\ entries \in Nat /\ room \in Nat /\ failed \in BOOLEAN /\ unclean \in BOOLEAN
  /\ out \in Texts /\ report \in Reports
  /\ bundle \in Presence /\ files \in Progress
  /\ turn \in 0..7

NoFiles == \A i \in 1..6 : files[i] = "absent"
AllFiles == \A i \in 1..6 : files[i] = "whole"
ManifestLast == files[6] = "whole" => AllFiles \/ (failed /\ unclean)

\* Nothing has been created or written yet.
Fresh ==
  /\ out = <<>> /\ report.is # "ours" /\ bundle # "ours" /\ NoFiles
  /\ ~failed /\ ~unclean /\ entries = 0

\* What the command line means for the way a command takes.
SingleSource == ~CorpusAudit(request) /\ (request.reveal => ~request.output)

\* Before the first call that leaves a trace.
Early == Walking \cup {"start", "elsewhere", "pin", "audit", "print", "create", "compare"}
FreshInv ==
  /\ pc \in Early => Fresh
  /\ pc = "pin" => CorpusAudit(request) /\ ~request.reveal /\ request.output
  /\ pc \in Walking => IF request.reveal THEN SingleSource ELSE CorpusAudit(request) /\ request.output
  /\ pc = "audit" => SingleSource
  /\ pc = "compare" => SingleSource /\ request.reveal
  /\ pc = "create" => SingleSource /\ ~request.reveal /\ request.output
  /\ pc = "print" => SingleSource /\ ~request.output /\ (request.reveal => found = 4)

\* A stream of n entries that is not closed yet, and a closed one.
Line(array, i) == IF array /\ i > 2 THEN "next" ELSE "entry"
OpenText(t, array, n) ==
  \/ t = <<>> /\ n = 0
  \/ /\ Len(t) = n + 1 /\ t[1] = "header"
     /\ \A i \in 2..Len(t) : t[i] = Line(array, i)
ClosedText(t, array) ==
  /\ Len(t) > 1 /\ t[1] = "header" /\ t[Len(t)] = "summary"
  /\ \A i \in 2..(Len(t) - 1) : t[i] = Line(array, i)

\* A stream that has not failed holds a header and one line for each entry.
Streamed(t) == OpenText(t, request.jsonArray, entries)

\* While a report or a stream is written, and until its command ends: a text that has not
\* failed is whole, and it is the one the user asked for.
ReportInv ==
  /\ pc \in {"stream", "fill", "finish", "remove", "settle"} =>
       ~request.reveal /\ bundle # "ours" /\ NoFiles
  /\ pc \in {"stream", "fill", "finish"} => ~unclean /\ (report.is = "ours" <=> request.output)
  /\ pc = "stream" => CorpusAudit(request) /\ (~failed => Streamed(Written))
  /\ pc = "fill" => SingleSource /\ request.output /\ ~failed
  /\ pc = "finish" /\ ~failed => Whole(Written)
  /\ pc = "remove" => failed /\ report.is = "ours" /\ request.output
  /\ pc = "settle" /\ ~failed => Whole(Written) /\ (report.is = "ours" <=> request.output)
  /\ pc = "settle" /\ failed => unclean \/ report.is # "ours"

\* While a bundle is published or rolled back: the files before turn stand, those after
\* it do not, and the manifest only with all the others, or if its removal failed.
BundleInv ==
  /\ pc \in {"publish", "rollback", "rmdir", "present"} =>
       /\ SingleSource /\ request.reveal /\ bundle = "ours" /\ report.is # "ours" /\ out = <<>>
  /\ pc = "publish" =>
       /\ ~failed /\ turn >= 1
       /\ \A i \in 1..6 : files[i] = IF i < turn THEN "whole" ELSE "absent"
  /\ pc = "rollback" => /\ failed /\ turn <= 6
                        /\ ~unclean => \A i \in 1..6 : i > turn => files[i] = "absent"
                        /\ files[6] = "whole" => unclean \/ (turn = 6 /\ AllFiles)
  /\ pc = "rmdir" => failed /\ (~unclean => NoFiles)
  /\ pc = "present" => AllFiles
  /\ pc \in {"ended", "dead"} => ManifestLast

\* At the end.
EndInv ==
  pc = "ended" =>
    /\ ~unclean => /\ report.is = "ours" => Whole(report.text)
                   /\ bundle = "ours" => AllFiles
    /\ exit < 4 => /\ Whole(IF request.output THEN report.text ELSE out)
                   /\ request.reveal => bundle = "ours" /\ AllFiles

IInv == TypeInv /\ FreshInv /\ ReportInv /\ BundleInv /\ EndInv

---------------------------------------------------------------------------
(* Lemmas about the operators.                                             *)

\* A command line that dispatches means one way of delivery.
LEMMA DispatchedRequest ==
  ASSUME request \in RequestRecords, ~Contradictory(request)
  PROVE  /\ Branch(request) \in {"elsewhere", "pin", "stream", "audit"}
         /\ Branch(request) \in {"pin", "stream"} =>
              /\ CorpusAudit(request) /\ ~request.reveal
              /\ (Branch(request) = "pin") <=> request.output
         /\ Branch(request) = "audit" => SingleSource
  BY DEF RequestRecords, Contradictory, Branch, CorpusAudit, DirectoryOptions, SingleSource

\* The manifest is the last of the bundle's six files.
LEMMA BundleFacts ==
  /\ Len(Bundle) = 6 /\ DOMAIN Bundle = 1..6
  /\ \A i \in 1..6 : Bundle[i] = "manifest.json" => i = 6
  BY DEF Bundle

\* A chunk goes to the end of the text that is being written.
LEMMA DeliverFacts ==
  ASSUME TypeInv, NEW chunk \in Chunks, Deliver(chunk)
  PROVE  /\ out' \in Texts /\ report' \in Reports /\ report'.is = report.is
         /\ Written \in Texts /\ Written' = Append(Written, chunk)
         /\ report.is # "ours" => report' = report
  <1>1. out \in Seq(Chunks) /\ report.text \in Seq(Chunks)
        /\ report \in [is : Presence, text : Texts]
    BY DEF TypeInv, Reports, Texts
  <1>2. Append(out, chunk) \in Texts /\ Append(report.text, chunk) \in Texts
    BY <1>1, AppendProperties DEF Texts
  <1>3. CASE report.is = "ours"
    <2>1. report' = [report EXCEPT !.text = Append(report.text, chunk)] /\ out' = out
      BY <1>3 DEF Deliver
    <2>2. report' \in Reports /\ report'.is = report.is
          /\ report'.text = Append(report.text, chunk)
      BY <1>1, <1>2, <2>1 DEF Reports
    <2>3. QED
      BY <1>1, <1>3, <2>1, <2>2 DEF Written, Texts
  <1>4. CASE report.is # "ours"
    <2>1. report' = report /\ out' = Append(out, chunk)
      BY <1>4 DEF Deliver
    <2>2. QED
      BY <1>1, <1>2, <1>4, <2>1 DEF Written, Texts, Reports
  <1>5. QED
    BY <1>3, <1>4

\* One record: it joins the text, or the stream has failed.
LEMMA WriteFacts ==
  ASSUME TypeInv, NEW kind \in {"header", "entry", "summary"}, WriteRecord(kind)
  PROVE  /\ out' \in Texts /\ report' \in Reports /\ report'.is = report.is
         /\ room' \in Nat /\ failed' \in BOOLEAN
         /\ entries' = IF kind = "entry" THEN entries + 1 ELSE entries
         /\ Written \in Texts
         /\ \/ failed' = TRUE
            \/ failed' = failed /\ Written' = Append(Written, Rendered(kind))
  <1>1. Rendered(kind) \in Chunks /\ "torn" \in Chunks
    BY DEF Rendered, Chunks
  <1>2. entries' = IF kind = "entry" THEN entries + 1 ELSE entries
    BY DEF WriteRecord, TypeInv
  <1>3. Written \in Texts
    BY DEF Written, TypeInv, Reports
  <1>4. CASE room > 0 /\ Deliver(Rendered(kind)) /\ room' = room - 1 /\ UNCHANGED failed
    <2>1. room' \in Nat /\ failed' \in BOOLEAN
      BY <1>4 DEF TypeInv
    <2>2. QED
      BY <1>1, <1>2, <1>3, <1>4, <2>1, DeliverFacts
  <1>5. CASE Deliver("torn") /\ failed' = TRUE /\ UNCHANGED room
    BY <1>1, <1>2, <1>3, <1>5, DeliverFacts DEF TypeInv
  <1>6. CASE failed' = TRUE /\ UNCHANGED <<out, report, room>>
    BY <1>2, <1>3, <1>6 DEF TypeInv
  <1>7. QED
    BY <1>4, <1>5, <1>6 DEF WriteRecord

\* How a stream grows: a header, entries, and the summary that closes it.
LEMMA HeaderOpens ==
  ASSUME NEW array PROVE OpenText(Append(<<>>, "header"), array, 0)
  <1>1. <<>> \in Seq(Chunks) /\ "header" \in Chunks /\ Len(<<>>) = 0
    BY EmptySeq DEF Chunks
  <1> DEFINE u == Append(<<>>, "header")
  <1>2. Len(u) = 1 /\ u[1] = "header"
    OBVIOUS
  <1> HIDE DEF u
  <1>3. OpenText(u, array, 0)
    BY <1>2 DEF OpenText
  <1>4. QED
    BY <1>3 DEF u

\* One more line leaves a stream open, a summary closes it.
LEMMA TextGrows ==
  ASSUME NEW t \in Texts, t # <<>>, NEW array, NEW n \in Nat, OpenText(t, array, n)
  PROVE  /\ OpenText(Append(t, IF array /\ n > 0 THEN "next" ELSE "entry"), array, n + 1)
         /\ ClosedText(Append(t, "summary"), array)
  <1>1. /\ Len(t) = n + 1 /\ t[1] = "header"
        /\ \A i \in 2..(n + 1) : t[i] = Line(array, i)
    BY DEF OpenText
  <1>2. ASSUME NEW c \in Chunks
        PROVE  /\ Len(Append(t, c)) = n + 2 /\ Append(t, c)[1] = "header"
               /\ Append(t, c)[n + 2] = c
               /\ \A i \in 2..(n + 1) : Append(t, c)[i] = Line(array, i)
    <2>1. /\ Len(Append(t, c)) = n + 2 /\ Append(t, c)[n + 2] = c
          /\ \A i \in 1..(n + 1) : Append(t, c)[i] = t[i]
      BY <1>1, AppendProperties DEF Texts
    <2>2. QED
      BY <1>1, <2>1
  <1>3. OpenText(Append(t, IF array /\ n > 0 THEN "next" ELSE "entry"), array, n + 1)
    <2> DEFINE c == IF array /\ n > 0 THEN "next" ELSE "entry"
               u == Append(t, c)
    <2>1. c \in Chunks /\ c = Line(array, n + 2)
      BY <1>1 DEF Chunks, Line
    <2> HIDE DEF c
    <2>2. Len(u) = n + 2 /\ u[1] = "header" /\ u[n + 2] = c
          /\ \A i \in 2..(n + 1) : u[i] = Line(array, i)
      BY <1>2, <2>1
    <2> HIDE DEF u
    <2>3. \A i \in 2..Len(u) : i = n + 2 \/ i \in 2..(n + 1)
      BY <2>2
    <2>4. OpenText(u, array, n + 1)
      BY <2>1, <2>2, <2>3 DEF OpenText
    <2>5. QED
      BY <2>4 DEF u, c
  <1>4. ClosedText(Append(t, "summary"), array)
    <2> DEFINE u == Append(t, "summary")
    <2>1. Len(u) = n + 2 /\ u[1] = "header" /\ u[n + 2] = "summary"
          /\ \A i \in 2..(n + 1) : u[i] = Line(array, i)
      BY <1>2 DEF Chunks
    <2> HIDE DEF u
    <2>2. ClosedText(u, array)
      BY <2>1 DEF ClosedText
    <2>3. QED
      BY <2>2 DEF u
  <1>5. QED
    BY <1>3, <1>4

\* A corpus that was asked for is whole when its text is closed.
LEMMA WholeCorpus ==
  ASSUME NEW t, ClosedText(t, request.jsonArray), CorpusAudit(request)
  PROVE  Whole(t)
  BY DEF ClosedText, Line, Whole, WholeStream

---------------------------------------------------------------------------
(* The steps.                                                              *)

\* Before the command line is looked at nothing has been created.
LEMMA InitInv == Init => IInv
  <1> SUFFICES ASSUME Init PROVE IInv
    OBVIOUS
  <1>1. /\ pc = "start" /\ request \in Requests /\ room \in Budgets
        /\ exit = 4 /\ found = 4 /\ entries = 0 /\ failed = FALSE /\ out = <<>>
        /\ bundle \in {"absent", "foreign"} /\ report = [is |-> bundle, text |-> <<>>]
        /\ files = [i \in 1..Len(Bundle) |-> "absent"]
        /\ turn = 0 /\ unclean = FALSE
    BY DEF Init
  <1>2. files \in Progress /\ NoFiles
    BY <1>1, BundleFacts DEF Progress, NoFiles
  <1>3. TypeInv
    <2>1. <<>> \in Texts
      BY DEF Texts
    <2>2. bundle \in Presence
      BY <1>1 DEF Presence
    <2>3. report \in Reports
      BY <1>1, <2>1, <2>2 DEF Reports
    <2>4. request \in RequestRecords /\ room \in Nat
      BY <1>1, DeliveryAssumptions DEF RequestRecords
    <2>5. pc \in Labels /\ exit \in ExitCodes /\ found \in ExitCodes
      BY <1>1 DEF Labels, ExitCodes
    <2>6. entries \in Nat /\ turn \in 0..7 /\ out \in Texts
      BY <1>1, <2>1
    <2>7. failed \in BOOLEAN /\ unclean \in BOOLEAN
      BY <1>1
    <2>8. QED
      BY <1>2, <2>2, <2>3, <2>4, <2>5, <2>6, <2>7, Zenon DEF TypeInv
  <1>4. Fresh
    BY <1>1, <1>2 DEF Fresh
  <1>5. FreshInv /\ ReportInv /\ BundleInv /\ EndInv
    BY <1>1, <1>4 DEF FreshInv, ReportInv, BundleInv, EndInv, Walking
  <1>6. QED
    BY <1>3, <1>5 DEF IInv

\* A step that leaves no trace.
LEMMA QuietStep ==
  ASSUME IInv, Fresh, TypeInv', FreshInv',
         UNCHANGED <<request, entries, failed, out, report, bundle, files, unclean>>,
         pc' \in Early \/ (pc' = "ended" /\ exit' = 4)
  PROVE  IInv'
  <1>1. /\ pc' \notin {"stream", "fill", "finish", "remove", "settle", "publish", "rollback",
                       "rmdir", "present", "dead"}
        /\ pc' = "ended" => exit' = 4
    BY DEF Early, Walking
  <1>2. bundle' # "ours" /\ report'.is # "ours" /\ files'[6] # "whole"
    BY DEF Fresh, NoFiles
  <1>3. ReportInv' /\ BundleInv' /\ EndInv'
    BY <1>1, <1>2 DEF ReportInv, BundleInv, EndInv, ManifestLast
  <1>4. QED
    BY <1>3 DEF IInv

\* What the command has done so far, at every step.
LEMMA ManifestSoFar == IInv => ManifestLast
  <1> SUFFICES ASSUME IInv, files[6] = "whole" PROVE AllFiles \/ (failed /\ unclean)
    BY DEF ManifestLast
  <1>1. ~NoFiles
    BY DEF NoFiles
  <1>2. pc \notin Early \cup {"stream", "fill", "finish", "remove", "settle"}
    BY <1>1 DEF IInv, FreshInv, Fresh, ReportInv
  <1>3. CASE pc = "publish"
    BY <1>3 DEF IInv, TypeInv, BundleInv, AllFiles
  <1>4. CASE pc \in {"rollback", "rmdir", "present", "ended", "dead"}
    BY <1>1, <1>4 DEF IInv, BundleInv, ManifestLast
  <1>5. QED
    BY <1>2, <1>3, <1>4 DEF IInv, TypeInv, Labels, Early

\* The command line leads to one way of delivery, or is refused.
LEMMA DispatchStep == ASSUME IInv, Dispatch \/ Reject PROVE IInv'
  <1>1. /\ pc = "start" /\ Fresh /\ request \in RequestRecords
        /\ UNCHANGED <<request, found, entries, room, failed, out, report, bundle, files,
                       turn, unclean>>
    BY DEF Dispatch, DispatchTo, Reject, IInv, TypeInv, FreshInv, Early
  <1>2. CASE Reject
    <2>1. pc' = "ended" /\ exit' = 4
      BY <1>2 DEF Reject, End, Goto
    <2>2. TypeInv' /\ FreshInv'
      BY <1>1, <2>1 DEF IInv, TypeInv, Labels, ExitCodes, FreshInv, Early, Walking
    <2>3. QED
      BY <1>1, <2>1, <2>2, QuietStep
  <1>3. CASE Dispatch
    <2>1. pc' = Branch(request) /\ exit' = exit /\ ~Contradictory(request)
      BY <1>3 DEF Dispatch, DispatchTo, Continue, Goto
    <2>2. /\ pc' \in {"elsewhere", "pin", "stream", "audit"}
          /\ pc' \in {"pin", "stream"} =>
               /\ CorpusAudit(request) /\ ~request.reveal
               /\ (pc' = "pin") <=> request.output
          /\ pc' = "audit" => SingleSource
      BY <1>1, <2>1, DispatchedRequest
    <2>3. TypeInv'
      BY <1>1, <2>1, <2>2 DEF IInv, TypeInv, Labels
    <2>4. Fresh' /\ (SingleSource' <=> SingleSource) /\ (CorpusAudit(request)' <=> CorpusAudit(request))
      BY <1>1 DEF Fresh, NoFiles, SingleSource, CorpusAudit
    <2>5. FreshInv'
      BY <1>1, <2>2, <2>4 DEF FreshInv, Walking
    <2>6. CASE pc' # "stream"
      <3>1. pc' \in Early
        BY <2>2, <2>6 DEF Early
      <3>2. QED
        BY <1>1, <2>3, <2>5, <3>1, QuietStep
    <2>7. CASE pc' = "stream"
      <3>1. Streamed(Written)'
        BY <1>1, <2>4 DEF Fresh, Streamed, OpenText, Written
      <3>2. ReportInv' /\ BundleInv' /\ EndInv'
        BY <1>1, <2>2, <2>4, <2>7, <3>1 DEF ReportInv, BundleInv, EndInv, Fresh
      <3>3. QED
        BY <2>3, <2>5, <3>2 DEF IInv
    <2>8. QED
      BY <2>6, <2>7
  <1>4. QED
    BY <1>2, <1>3

\* The walk to the output's parent, and what other programs do meanwhile.
LEMMA WalkStep == ASSUME IInv, WalkPath \/ Interfere PROVE IInv'
  <1>1. UNCHANGED <<request, found, entries, room, failed, turn, unclean, exit, out, report,
                    bundle, files>>
    BY DEF WalkPath, Interfere, rest, delivered
  <1>2. pc \in Walking /\ pc' \in Walking
    <2>1. CASE WalkPath
      BY <2>1 DEF WalkPath, PathSteps, ResolveSource, ResolveOutput, CheckAncestor, PinParent,
                  Refuse, Walking
    <2>2. CASE Interfere
      <3>1. Restless /\ \E altered : Change(altered)
        BY <2>2 DEF Interfere, Others, Replace, Rename
      <3>2. QED
        BY <3>1 DEF Restless, Change, Walking
    <2>3. QED
      BY <2>1, <2>2
  <1>3. Fresh
    BY <1>2 DEF IInv, FreshInv, Early
  <1>4. TypeInv'
    BY <1>1, <1>2 DEF IInv, TypeInv, Labels
  <1>5. FreshInv'
    <2>1. Fresh' /\ (SingleSource' <=> SingleSource) /\ (CorpusAudit(request)' <=> CorpusAudit(request))
      BY <1>1, <1>3 DEF Fresh, NoFiles, SingleSource, CorpusAudit
    <2>2. QED
      BY <1>1, <1>2, <2>1 DEF IInv, FreshInv, Walking
  <1>6. QED
    BY <1>1, <1>2, <1>3, <1>4, <1>5, QuietStep DEF Early

\* The source directory is held before anything is created.
LEMMA PinWorkspaceStep == ASSUME IInv, PinWorkspace \/ PinWorkspaceFails PROVE IInv'
  <1>1. /\ pc = "pin" /\ Fresh
        /\ CorpusAudit(request) /\ ~request.reveal /\ request.output
        /\ UNCHANGED <<request, found, entries, room, failed, turn, unclean, out, report,
                       bundle, files>>
    BY DEF PinWorkspace, PinWorkspaceFails, rest, delivered, IInv, FreshInv, Early
  <1>2. \/ pc' = "canonical" /\ exit' = exit
        \/ pc' = "ended" /\ exit' = 4
    BY DEF PinWorkspace, PinWorkspaceFails, End, Goto
  <1>3. TypeInv'
    BY <1>1, <1>2 DEF IInv, TypeInv, Labels, Walking, ExitCodes
  <1>4. FreshInv'
    <2>1. Fresh' /\ (SingleSource' <=> SingleSource) /\ (CorpusAudit(request)' <=> CorpusAudit(request))
      BY <1>1 DEF Fresh, NoFiles, SingleSource, CorpusAudit
    <2>2. QED
      BY <1>1, <1>2, <2>1 DEF FreshInv, Walking, Early
  <1>5. QED
    BY <1>1, <1>2, <1>3, <1>4, QuietStep DEF Early, Walking

\* The output file is created empty, or the command ends without one.
LEMMA CreateReportStep == ASSUME IInv, CreateReport \/ CreateRefused PROVE IInv'
  <1>1. /\ pc \in {"pinned", "refused"} /\ Fresh
        /\ IF request.reveal THEN SingleSource ELSE CorpusAudit(request) /\ request.output
        /\ UNCHANGED <<request, found, entries, room, failed, turn, unclean, out, bundle,
                       files>>
    BY DEF CreateReport, CreateRefused, rest, delivered, IInv, FreshInv, Early, Walking
  <1>2. CASE pc' = "ended" /\ exit' = 4 /\ report' = report
    <2>1. TypeInv' /\ FreshInv'
      BY <1>1, <1>2 DEF IInv, TypeInv, Labels, ExitCodes, FreshInv, Early, Walking
    <2>2. QED
      BY <1>1, <1>2, <2>1, QuietStep
  <1>3. CASE /\ pc' = "stream" /\ exit' = exit /\ ~request.reveal
             /\ report' = [is |-> "ours", text |-> <<>>]
    <2>1. report' \in Reports
      BY <1>3 DEF Reports, Presence, Texts
    <2>2. TypeInv'
      BY <1>1, <1>3, <2>1 DEF IInv, TypeInv, Labels
    <2>3. FreshInv' /\ BundleInv' /\ EndInv'
      BY <1>3 DEF FreshInv, BundleInv, EndInv, Early, Walking
    <2>4. ReportInv'
      <3>1. Streamed(Written)'
        BY <1>1, <1>3 DEF Fresh, Streamed, OpenText, Written
      <3>2. /\ CorpusAudit(request)' /\ ~request'.reveal /\ bundle' # "ours" /\ NoFiles'
            /\ ~unclean' /\ report'.is = "ours" /\ request'.output
        BY <1>1, <1>3 DEF CorpusAudit, Fresh, NoFiles
      <3>3. QED
        BY <1>3, <3>1, <3>2 DEF ReportInv
    <2>5. QED
      BY <2>2, <2>3, <2>4 DEF IInv
  <1>4. QED
    BY <1>2, <1>3 DEF CreateReport, CreateRefused, End, Continue, Goto, delivered

\* A record joins what was streamed before it.
LEMMA StreamRecordStep == ASSUME IInv, StreamRecord PROVE IInv'
  <1>1. /\ pc = "stream" /\ ~failed /\ TypeInv
        /\ ~request.reveal /\ bundle # "ours" /\ NoFiles
        /\ ~unclean /\ (report.is = "ours" <=> request.output)
        /\ CorpusAudit(request) /\ Streamed(Written)
        /\ UNCHANGED <<request, turn, unclean, bundle, files, exit>>
    BY DEF StreamRecord, IInv, ReportInv, Continue
  <1>2. \/ /\ Written = <<>> /\ WriteRecord("header") /\ found' = found /\ pc' = "stream"
        \/ /\ Written # <<>> /\ WriteRecord("entry") /\ found' = found /\ pc' = "stream"
        \/ /\ Written # <<>> /\ WriteRecord("summary") /\ found' \in ExitCodes
           /\ pc' = "finish"
    BY DEF StreamRecord, Continue, Goto
  <1>3. PICK kind \in {"header", "entry", "summary"} :
          /\ WriteRecord(kind)
          /\ kind = "header" => Written = <<>>
          /\ kind # "header" => Written # <<>>
          /\ pc' = IF kind = "summary" THEN "finish" ELSE "stream"
    BY <1>2
  <1>4. /\ out' \in Texts /\ report' \in Reports /\ report'.is = report.is
        /\ room' \in Nat /\ failed' \in BOOLEAN
        /\ entries' = IF kind = "entry" THEN entries + 1 ELSE entries
        /\ Written \in Texts
        /\ \/ failed' = TRUE
           \/ failed' = failed /\ Written' = Append(Written, Rendered(kind))
    BY <1>1, <1>3, WriteFacts
  <1>5. TypeInv'
    BY <1>1, <1>2, <1>4 DEF TypeInv, Labels
  <1>6. ASSUME ~failed' PROVE Written' = Append(Written, Rendered(kind))
    BY <1>4, <1>6
  <1>7. ASSUME ~failed', kind = "header" PROVE Streamed(Written)'
    <2>1. Written' = Append(<<>>, "header") /\ entries' = entries
      BY <1>3, <1>4, <1>6, <1>7 DEF Rendered
    <2>2. entries = 0
      <3>1. Written = <<>> /\ Len(<<>>) = 0 /\ entries \in Nat
        BY <1>1, <1>3, <1>7, EmptySeq DEF TypeInv
      <3>2. QED
        BY <1>1, <3>1 DEF Streamed, OpenText
    <2>3. QED
      BY <1>1, <2>1, <2>2, HeaderOpens DEF Streamed
  <1>8. ASSUME kind # "header"
        PROVE  /\ OpenText(Append(Written, IF request.jsonArray /\ entries > 0 THEN "next"
                                           ELSE "entry"), request.jsonArray, entries + 1)
               /\ ClosedText(Append(Written, "summary"), request.jsonArray)
    BY <1>1, <1>3, <1>4, <1>8, TextGrows DEF Streamed, TypeInv
  <1>9. ASSUME ~failed', kind = "entry" PROVE Streamed(Written)'
    BY <1>1, <1>4, <1>6, <1>8, <1>9 DEF Streamed, Rendered
  <1>10. ASSUME ~failed', kind = "summary" PROVE Whole(Written)'
    <2>1. ClosedText(Written', request.jsonArray)
      BY <1>6, <1>8, <1>10 DEF Rendered
    <2>2. QED
      BY <1>1, <2>1 DEF ClosedText, Line, Whole, WholeStream, CorpusAudit
  <1>11. FreshInv' /\ BundleInv' /\ EndInv'
    BY <1>3 DEF FreshInv, BundleInv, EndInv, Early, Walking
  <1>12. ReportInv'
    <2>1. /\ ~request'.reveal /\ bundle' # "ours" /\ NoFiles' /\ ~unclean'
          /\ (report'.is = "ours" <=> request'.output) /\ CorpusAudit(request)'
      BY <1>1, <1>4 DEF NoFiles, CorpusAudit
    <2>2. CASE kind = "summary"
      BY <1>3, <1>10, <2>1, <2>2 DEF ReportInv
    <2>3. CASE kind # "summary"
      BY <1>3, <1>7, <1>9, <2>1, <2>3 DEF ReportInv
    <2>4. QED
      BY <2>2, <2>3
  <1>13. QED
    BY <1>5, <1>11, <1>12 DEF IInv

\* A stream that stops early has failed.
LEMMA StreamStopsStep == ASSUME IInv, StreamStops PROVE IInv'
  <1>1. /\ pc = "stream" /\ pc' = "finish" /\ failed' = TRUE
        /\ ~request.reveal /\ bundle # "ours" /\ NoFiles
        /\ ~unclean /\ (report.is = "ours" <=> request.output)
        /\ UNCHANGED <<request, found, entries, room, turn, unclean, out, report, bundle,
                       files, exit>>
    BY DEF StreamStops, IInv, ReportInv, Continue, Goto, delivered
  <1>2. TypeInv'
    BY <1>1 DEF IInv, TypeInv, Labels
  <1>3. FreshInv' /\ BundleInv' /\ EndInv'
    BY <1>1 DEF FreshInv, BundleInv, EndInv, Early, Walking
  <1>4. ReportInv'
    BY <1>1 DEF ReportInv, NoFiles
  <1>5. QED
    BY <1>2, <1>3, <1>4 DEF IInv

\* A close that fails may tear what was written.
LEMMA CloseReportStep == ASSUME IInv, CloseReport \/ NoReport PROVE IInv'
  <1>1. /\ pc = "finish" /\ TypeInv
        /\ ~request.reveal /\ bundle # "ours" /\ NoFiles
        /\ ~unclean /\ (report.is = "ours" <=> request.output)
        /\ ~failed => Whole(Written)
        /\ UNCHANGED <<request, found, entries, room, turn, unclean, out, bundle, files, exit>>
    BY DEF CloseReport, CloseCall, NoReport, rest, delivered, IInv, ReportInv, Continue
  <1>2. CASE UNCHANGED <<failed, report>> /\ pc' = IF failed /\ report.is = "ours" THEN "remove"
                                                   ELSE "settle"
    <2>1. TypeInv'
      BY <1>1, <1>2 DEF TypeInv, Labels
    <2>2. FreshInv' /\ BundleInv' /\ EndInv'
      BY <1>2 DEF FreshInv, BundleInv, EndInv, Early, Walking
    <2>3. ~failed => Whole(Written)'
      BY <1>1, <1>2 DEF Whole, Written, WholeStream, CorpusAudit
    <2>4. ReportInv'
      BY <1>1, <1>2, <2>3 DEF ReportInv, NoFiles
    <2>5. QED
      BY <2>1, <2>2, <2>4 DEF IInv
  <1>3. CASE /\ failed' = TRUE /\ report.is = "ours" /\ pc' = "remove"
             /\ \/ report' = report
                \/ report' = [report EXCEPT
                     !.text = Append(SubSeq(report.text, 1, Len(report.text) - 1), "torn")]
    <2>1. report' \in Reports /\ report'.is = "ours"
      <3>1. report \in [is : Presence, text : Texts] /\ report.text \in Seq(Chunks)
            /\ Len(report.text) \in Nat
        BY <1>1, LenProperties DEF TypeInv, Reports, Texts
      <3>2. SubSeq(report.text, 1, Len(report.text) - 1) \in Seq(Chunks)
        BY <3>1
      <3>3. Append(SubSeq(report.text, 1, Len(report.text) - 1), "torn") \in Texts
        BY <3>2, AppendProperties DEF Texts, Chunks
      <3>4. QED
        BY <1>3, <3>1, <3>3 DEF Reports
    <2>2. TypeInv'
      BY <1>1, <1>3, <2>1 DEF TypeInv, Labels
    <2>3. FreshInv' /\ BundleInv' /\ EndInv'
      BY <1>3 DEF FreshInv, BundleInv, EndInv, Early, Walking
    <2>4. ReportInv'
      BY <1>1, <1>3, <2>1 DEF ReportInv, NoFiles
    <2>5. QED
      BY <2>2, <2>3, <2>4 DEF IInv
  <1>4. CASE NoReport
    <2>1. UNCHANGED <<failed, report>> /\ report.is # "ours" /\ pc' = "settle"
      BY <1>4 DEF NoReport, rest, delivered, Continue, Goto
    <2>2. QED
      BY <1>2, <2>1
  <1>5. CASE CloseReport
    <2>1. pc' = (IF failed' THEN "remove" ELSE "settle") /\ report.is = "ours" /\ CloseCall
      BY <1>5 DEF CloseReport, CloseCall, Continue, Goto
    <2>2. CASE UNCHANGED <<failed, report>>
      BY <1>2, <2>1, <2>2
    <2>3. CASE ~UNCHANGED <<failed, report>>
      BY <1>3, <2>1, <2>3 DEF CloseCall
    <2>4. QED
      BY <2>2, <2>3
  <1>6. QED
    BY <1>4, <1>5

\* The file that failed is removed, or its removal failed.
LEMMA RemoveReportStep == ASSUME IInv, RemoveReport PROVE IInv'
  <1>1. /\ pc = "remove" /\ pc' = "settle" /\ failed' = TRUE /\ TypeInv
        /\ ~request.reveal /\ bundle # "ours" /\ NoFiles
        /\ UNCHANGED <<request, found, entries, room, turn, out, bundle, files, exit>>
    BY DEF RemoveReport, IInv, ReportInv, Continue, Goto
  <1>2. \/ report' = [is |-> "absent", text |-> <<>>] /\ unclean' = unclean
        \/ unclean' = TRUE /\ report' = report
    BY DEF RemoveReport
  <1>3. report' \in Reports /\ (unclean' \/ report'.is # "ours") /\ unclean' \in BOOLEAN
    <2>1. [is |-> "absent", text |-> <<>>] \in Reports
      BY DEF Reports, Presence, Texts
    <2>2. report \in Reports /\ unclean \in BOOLEAN
      BY <1>1 DEF TypeInv
    <2>3. CASE report' = [is |-> "absent", text |-> <<>>] /\ unclean' = unclean
      BY <2>1, <2>2, <2>3
    <2>4. CASE unclean' = TRUE /\ report' = report
      BY <2>2, <2>4
    <2>5. QED
      BY <1>2, <2>3, <2>4
  <1>4. TypeInv'
    BY <1>1, <1>3 DEF TypeInv, Labels
  <1>5. FreshInv' /\ BundleInv' /\ EndInv'
    BY <1>1 DEF FreshInv, BundleInv, EndInv, Early, Walking
  <1>6. ReportInv'
    BY <1>1, <1>3 DEF ReportInv, NoFiles
  <1>7. QED
    BY <1>4, <1>5, <1>6 DEF IInv

\* What is left at the end is whole, was removed, or is said to be there.
LEMMA SettleStep == ASSUME IInv, SettleDirectory PROVE IInv'
  <1>1. /\ pc = "settle" /\ pc' = "ended" /\ TypeInv
        /\ ~request.reveal /\ bundle # "ours" /\ NoFiles
        /\ ~failed => Whole(Written) /\ (report.is = "ours" <=> request.output)
        /\ failed => unclean \/ report.is # "ours"
        /\ UNCHANGED <<request, found, entries, room, failed, turn, unclean, out, report,
                       bundle, files>>
        /\ exit' \in {4, found} /\ (failed => exit' = 4)
    BY DEF SettleDirectory, IInv, ReportInv, End, Goto, rest, delivered
  <1>2. TypeInv'
    BY <1>1 DEF TypeInv, Labels, ExitCodes
  <1>3. FreshInv' /\ ReportInv' /\ BundleInv'
    BY <1>1 DEF FreshInv, ReportInv, BundleInv, ManifestLast, Early, Walking, NoFiles
  <1>4. ~failed => Whole(Written)'
    BY <1>1 DEF Whole, Written, WholeStream, CorpusAudit
  <1>5. EndInv'
    BY <1>1, <1>4 DEF EndInv, Written
  <1>6. QED
    BY <1>2, <1>3, <1>5 DEF IInv

\* A single source is audited or compared before anything is created.
LEMMA AuditSourceStep == ASSUME IInv, AuditSource \/ CompareTexts PROVE IInv'
  <1>1. /\ pc \in {"audit", "compare"} /\ Fresh /\ SingleSource /\ TypeInv
        /\ pc = "compare" => request.reveal
        /\ UNCHANGED <<request, entries, room, failed, turn, unclean, out, report, bundle,
                       files>>
    BY DEF AuditSource, CompareTexts, rest, delivered, IInv, FreshInv, Early
  <1>2. /\ found' \in ExitCodes
        /\ \/ pc' = "ended" /\ exit' = 4
           \/ pc' = "create" /\ exit' = exit /\ ~request.reveal /\ request.output
           \/ pc' = "print" /\ exit' = exit /\ ~request.reveal /\ ~request.output
           \/ pc' = "print" /\ exit' = exit /\ request.reveal /\ found' = 4
           \/ pc' = "compare" /\ exit' = exit /\ request.reveal
           \/ pc' = "output" /\ exit' = exit /\ request.reveal
    BY <1>1 DEF AuditSource, CompareTexts, Continue, End, Goto, rest, TypeInv
  <1>3. TypeInv'
    BY <1>1, <1>2 DEF TypeInv, Labels, Walking, ExitCodes
  <1>4. FreshInv'
    <2>1. Fresh' /\ SingleSource'
      BY <1>1 DEF Fresh, NoFiles, SingleSource, CorpusAudit
    <2>2. request.reveal => ~request.output
      BY <1>1 DEF SingleSource
    <2>3. QED
      BY <1>1, <1>2, <2>1, <2>2 DEF FreshInv, Walking, Early
  <1>5. pc' \in Early \/ (pc' = "ended" /\ exit' = 4)
    BY <1>2 DEF Early, Walking
  <1>6. QED
    BY <1>1, <1>3, <1>4, <1>5, QuietStep

\* The report of one source reaches stdout, whole or torn.
LEMMA PrintReportStep == ASSUME IInv, PrintReport PROVE IInv'
  <1>1. /\ pc \in {"print", "present"} /\ pc' = "ended" /\ TypeInv /\ SingleSource
        /\ ~request.output /\ report.is # "ours" /\ out = <<>>
        /\ pc = "print" => bundle # "ours" /\ NoFiles /\ (request.reveal => found = 4)
        /\ pc = "present" => bundle = "ours" /\ AllFiles
        /\ UNCHANGED <<request, found, entries, room, failed, turn, unclean, report, bundle,
                       files>>
        /\ exit' \in {4, found}
        /\ exit' # 4 => out' = Append(out, "report")
        /\ out' \in {Append(out, "report"), Append(out, "torn")}
    BY DEF PrintReport, IInv, FreshInv, BundleInv, Fresh, Early, End, Goto, rest, SingleSource
  <1>2. out' \in Texts /\ Append(out, "report") = <<"report">>
    <2>1. Append(out, "report") \in Seq(Chunks) /\ Append(out, "torn") \in Seq(Chunks)
      BY <1>1, AppendProperties DEF TypeInv, Texts, Chunks
    <2>2. Append(<<>>, "report") = <<"report">>
      OBVIOUS
    <2>3. out' \in Texts
      BY <1>1, <2>1 DEF Texts
    <2>4. QED
      BY <1>1, <2>2, <2>3
  <1>3. TypeInv'
    BY <1>1, <1>2 DEF TypeInv, Labels, ExitCodes
  <1>4. FreshInv' /\ ReportInv'
    BY <1>1 DEF FreshInv, ReportInv, Early, Walking
  <1>5. (AllFiles' <=> AllFiles) /\ (NoFiles => files'[6] # "whole")
    BY <1>1 DEF AllFiles, NoFiles
  <1>6. BundleInv'
    BY <1>1, <1>5 DEF BundleInv, ManifestLast
  <1>7. EndInv'
    <2>1. exit' # 4 => Whole(out)'
      BY <1>1, <1>2 DEF Whole, SingleSource, CorpusAudit
    <2>2. QED
      BY <1>1, <1>5, <2>1 DEF EndInv
  <1>8. QED
    BY <1>3, <1>4, <1>6, <1>7 DEF IInv

\* The report's file is created empty, or refused.
LEMMA CreateFileStep == ASSUME IInv, CreateFile PROVE IInv'
  <1>1. /\ pc = "create" /\ Fresh /\ SingleSource /\ ~request.reveal /\ request.output /\ TypeInv
        /\ UNCHANGED <<request, found, entries, room, failed, turn, unclean, out, bundle,
                       files>>
    BY DEF CreateFile, rest, IInv, FreshInv, Early
  <1>2. CASE pc' = "ended" /\ exit' = 4 /\ report' = report
    <2>1. TypeInv' /\ FreshInv'
      BY <1>1, <1>2 DEF TypeInv, Labels, ExitCodes, FreshInv, Early, Walking
    <2>2. QED
      BY <1>1, <1>2, <2>1, QuietStep
  <1>3. CASE report' = [is |-> "ours", text |-> <<>>] /\ pc' = "fill" /\ exit' = exit
    <2>1. report' \in Reports
      BY <1>3 DEF Reports, Presence, Texts
    <2>2. TypeInv'
      BY <1>1, <1>3, <2>1 DEF TypeInv, Labels
    <2>3. FreshInv' /\ BundleInv' /\ EndInv'
      BY <1>3 DEF FreshInv, BundleInv, EndInv, Early, Walking
    <2>4. ReportInv'
      BY <1>1, <1>3 DEF ReportInv, Fresh, NoFiles, SingleSource, CorpusAudit
    <2>5. QED
      BY <2>2, <2>3, <2>4 DEF IInv
  <1>4. QED
    BY <1>2, <1>3 DEF CreateFile, End, Continue, Goto

\* The report is written whole, or has failed.
LEMMA FillReportStep == ASSUME IInv, FillReport PROVE IInv'
  <1>1. /\ pc = "fill" /\ pc' = "finish" /\ TypeInv /\ SingleSource /\ ~failed
        /\ ~request.reveal /\ bundle # "ours" /\ NoFiles
        /\ ~unclean /\ request.output /\ report.is = "ours"
        /\ UNCHANGED <<request, found, entries, room, turn, unclean, out, bundle, files, exit>>
        /\ \/ report' = [report EXCEPT !.text = <<"report">>] /\ failed' = failed
           \/ report' = [report EXCEPT !.text = <<"torn">>] /\ failed' = TRUE
    BY DEF FillReport, IInv, ReportInv, Continue, Goto
  <1>2. /\ report' \in Reports /\ report'.is = "ours" /\ failed' \in BOOLEAN
        /\ ~failed' => report'.text = <<"report">>
    <2>1. <<"report">> \in Texts /\ <<"torn">> \in Texts
      BY DEF Texts, Chunks
    <2>2. QED
      BY <1>1, <2>1 DEF TypeInv, Reports
  <1>3. TypeInv'
    BY <1>1, <1>2 DEF TypeInv, Labels
  <1>4. FreshInv' /\ BundleInv' /\ EndInv'
    BY <1>1 DEF FreshInv, BundleInv, EndInv, Early, Walking
  <1>5. ReportInv'
    <2>1. ~failed' => Whole(Written)'
      BY <1>1, <1>2 DEF Whole, Written, SingleSource, CorpusAudit
    <2>2. QED
      BY <1>1, <1>2, <2>1 DEF ReportInv, NoFiles
  <1>6. QED
    BY <1>3, <1>4, <1>5 DEF IInv

\* The bundle's directory is created empty.
LEMMA MakeBundleStep == ASSUME IInv, MakeBundle PROVE IInv'
  <1>1. /\ pc = "pinned" /\ Fresh /\ SingleSource /\ request.reveal /\ TypeInv
        /\ UNCHANGED <<request, found, entries, room, unclean, out, report, files>>
    BY DEF MakeBundle, IInv, FreshInv, Early, Walking
  <1>2. CASE pc' = "ended" /\ exit' = 4 /\ UNCHANGED <<bundle, turn, failed>>
    <2>1. TypeInv' /\ FreshInv'
      BY <1>1, <1>2 DEF TypeInv, Labels, ExitCodes, FreshInv, Early, Walking
    <2>2. QED
      BY <1>1, <1>2, <2>1, QuietStep
  <1>3. CASE /\ bundle' = "ours" /\ exit' = exit
             /\ \/ pc' = "publish" /\ turn' = 1 /\ failed' = failed
                \/ pc' = "rmdir" /\ turn' = turn /\ failed' = TRUE
    <2>1. TypeInv'
      <3>1. turn' \in 0..7 /\ failed' \in BOOLEAN
        <4>1. turn \in 0..7 /\ failed \in BOOLEAN /\ turn' \in {1, turn}
          BY <1>1, <1>3 DEF TypeInv
        <4>2. turn' \in 0..7
          BY <4>1
        <4>3. failed' \in BOOLEAN
          BY <1>3, <4>1, Zenon
        <4>4. QED
          BY <4>2, <4>3
      <3>2. pc' \in Labels /\ bundle' \in Presence
        BY <1>3 DEF Labels, Presence
      <3>3. QED
        BY <1>1, <1>3, <3>1, <3>2 DEF TypeInv
    <2>2. FreshInv' /\ ReportInv' /\ EndInv'
      BY <1>3 DEF FreshInv, ReportInv, EndInv, Early, Walking
    <2>3. BundleInv'
      <3>1. SingleSource' /\ request'.reveal /\ report'.is # "ours" /\ out' = <<>> /\ ~failed
            /\ NoFiles /\ NoFiles'
        BY <1>1 DEF Fresh, SingleSource, CorpusAudit, NoFiles
      <3>2. CASE pc' = "publish"
        <4>1. \A i \in 1..6 : ~(i < 1) /\ files'[i] = "absent"
          BY <3>1 DEF NoFiles
        <4>2. QED
          BY <1>3, <3>1, <3>2, <4>1 DEF BundleInv
      <3>3. CASE pc' = "rmdir"
        BY <1>3, <3>1, <3>3 DEF BundleInv, NoFiles
      <3>4. QED
        BY <1>3, <3>2, <3>3
    <2>4. QED
      BY <2>1, <2>2, <2>3 DEF IInv
  <1>4. QED
    BY <1>2, <1>3 DEF MakeBundle, End, Continue, Goto

\* Files are published in their order, the manifest after all others.
LEMMA PublishFileStep == ASSUME IInv, PublishFile PROVE IInv'
  <1>1. /\ pc = "publish" /\ TypeInv /\ turn \in 1..6 /\ ~failed
        /\ SingleSource /\ request.reveal /\ bundle = "ours" /\ report.is # "ours" /\ out = <<>>
        /\ \A i \in 1..6 : files[i] = IF i < turn THEN "whole" ELSE "absent"
        /\ UNCHANGED <<request, found, entries, room, unclean, out, report, bundle, exit>>
    <2>1. pc = "publish" /\ turn <= 6 /\ TypeInv
          /\ UNCHANGED <<request, found, entries, room, unclean, out, report, bundle, exit>>
      BY BundleFacts DEF PublishFile, IInv, Continue
    <2>2. BundleInv
      BY DEF IInv
    <2>3. QED
      BY <2>1, <2>2 DEF BundleInv, TypeInv
  <1>2. SingleSource' /\ request'.reveal /\ bundle' = "ours" /\ report'.is # "ours" /\ out' = <<>>
    BY <1>1 DEF SingleSource, CorpusAudit
  <1>3. CASE /\ files' = [files EXCEPT ![turn] = "whole"] /\ turn' = turn + 1
             /\ pc' = "publish" /\ failed' = failed
    <2>1. /\ files' \in Progress
          /\ \A i \in 1..6 : files'[i] = IF i < turn + 1 THEN "whole" ELSE "absent"
      BY <1>1, <1>3 DEF TypeInv, Progress
    <2>2. TypeInv'
      BY <1>1, <1>3, <2>1 DEF TypeInv
    <2>3. FreshInv' /\ ReportInv' /\ EndInv'
      BY <1>3 DEF FreshInv, ReportInv, EndInv, Early, Walking
    <2>4. BundleInv'
      BY <1>1, <1>2, <1>3, <2>1 DEF BundleInv
    <2>5. QED
      BY <2>2, <2>3, <2>4 DEF IInv
  <1>4. CASE /\ \/ \E left \in {"part", "whole"} :
                      files' = [files EXCEPT ![turn] = left] /\ turn' = turn
                \/ files' = files /\ turn' = turn - 1
             /\ failed' = TRUE /\ pc' = "rollback"
    <2>1. /\ files' \in Progress /\ turn' \in 0..6
          /\ \A i \in 1..6 : i > turn' => files'[i] = "absent"
          /\ files'[6] = "whole" => turn' = 6 /\ \A i \in 1..6 : files'[i] = "whole"
      <3>1. ASSUME NEW left \in {"part", "whole"},
                   files' = [files EXCEPT ![turn] = left] /\ turn' = turn
            PROVE  /\ files' \in Progress /\ turn' \in 0..6
                   /\ \A i \in 1..6 : i > turn' => files'[i] = "absent"
                   /\ files'[6] = "whole" =>
                        turn' = 6 /\ \A i \in 1..6 : files'[i] = "whole"
        <4>1. /\ files' \in Progress
              /\ \A i \in 1..6 : files'[i] = IF i = turn THEN left ELSE files[i]
          BY <1>1, <3>1 DEF TypeInv, Progress
        <4>2. QED
          BY <1>1, <3>1, <4>1
      <3>2. CASE files' = files /\ turn' = turn - 1
        BY <1>1, <3>2 DEF TypeInv, Progress
      <3>3. QED
        BY <1>4, <3>1, <3>2
    <2>2. TypeInv'
      BY <1>1, <1>4, <2>1 DEF TypeInv, Labels
    <2>3. FreshInv' /\ ReportInv' /\ EndInv'
      BY <1>4 DEF FreshInv, ReportInv, EndInv, Early, Walking
    <2>4. BundleInv'
      BY <1>2, <1>4, <2>1 DEF BundleInv, AllFiles
    <2>5. QED
      BY <2>2, <2>3, <2>4 DEF IInv
  <1>5. QED
    BY <1>3, <1>4 DEF PublishFile, Continue, Goto

\* The rollback removes the newest file first, the manifest before all others.
LEMMA RollBackFileStep == ASSUME IInv, RollBackFile PROVE IInv'
  <1>1. /\ pc = "rollback" /\ pc' = "rollback" /\ TypeInv /\ turn \in 1..6 /\ failed
        /\ SingleSource /\ request.reveal /\ bundle = "ours" /\ report.is # "ours" /\ out = <<>>
        /\ ~unclean => \A i \in 1..6 : i > turn => files[i] = "absent"
        /\ files[6] = "whole" => unclean \/ turn = 6
        /\ UNCHANGED <<request, found, entries, room, failed, out, report, bundle, exit>>
        /\ turn' = turn - 1
    <2>1. pc = "rollback" /\ pc' = "rollback" /\ turn > 0 /\ TypeInv /\ turn' = turn - 1
          /\ UNCHANGED <<request, found, entries, room, failed, out, report, bundle, exit>>
      BY DEF RollBackFile, IInv, Continue, Goto
    <2>2. BundleInv
      BY DEF IInv
    <2>3. QED
      BY <2>1, <2>2 DEF BundleInv, TypeInv
  <1>2. /\ files' \in Progress /\ unclean' \in BOOLEAN
        /\ files'[6] = "whole" => unclean'
        /\ ~unclean' => \A i \in 1..6 : i > turn - 1 => files'[i] = "absent"
    <2>1. CASE files' = [files EXCEPT ![turn] = "absent"] /\ unclean' = unclean
      BY <1>1, <2>1 DEF TypeInv, Progress
    <2>2. CASE unclean' = TRUE /\ files' = files
      BY <1>1, <2>2 DEF TypeInv
    <2>3. QED
      BY <2>1, <2>2 DEF RollBackFile
  <1>3. TypeInv'
    BY <1>1, <1>2 DEF TypeInv
  <1>4. FreshInv' /\ ReportInv' /\ EndInv'
    BY <1>1 DEF FreshInv, ReportInv, EndInv, Early, Walking
  <1>5. BundleInv'
    BY <1>1, <1>2 DEF BundleInv, SingleSource, CorpusAudit
  <1>6. QED
    BY <1>3, <1>4, <1>5 DEF IInv

\* Closing the handle: after the last file nothing is taken back, whatever it answers.
LEMMA CloseBundleStep == ASSUME IInv, CloseBundle PROVE IInv'
  <1>1. /\ pc \in {"publish", "rollback"} /\ TypeInv
        /\ SingleSource /\ request.reveal /\ bundle = "ours" /\ report.is # "ours" /\ out = <<>>
        /\ UNCHANGED <<request, found, entries, room, failed, turn, unclean, out, report,
                       bundle, files>>
    BY DEF CloseBundle, rest, delivered, IInv, BundleInv
  <1>2. SingleSource' /\ request'.reveal /\ bundle' = "ours" /\ report'.is # "ours" /\ out' = <<>>
        /\ (AllFiles' <=> AllFiles) /\ (NoFiles' <=> NoFiles)
    BY <1>1 DEF SingleSource, CorpusAudit, AllFiles, NoFiles
  <1>3. CASE pc = "publish"
    <2>1. turn = 7 /\ AllFiles /\ ~failed
      BY <1>1, <1>3, BundleFacts DEF CloseBundle, IInv, BundleInv, TypeInv, AllFiles
    <2>2. \/ pc' = "present" /\ exit' = exit
          \/ pc' = "ended" /\ exit' = 4
      BY <2>1 DEF CloseBundle, Continue, End, Goto
    <2>3. TypeInv'
      BY <1>1, <2>2 DEF TypeInv, Labels, ExitCodes
    <2>4. FreshInv' /\ ReportInv'
      BY <2>2 DEF FreshInv, ReportInv, Early, Walking
    <2>5. BundleInv' /\ EndInv'
      BY <1>2, <2>1, <2>2 DEF BundleInv, ManifestLast, EndInv
    <2>6. QED
      BY <2>3, <2>4, <2>5 DEF IInv
  <1>4. CASE pc = "rollback"
    <2>1. failed /\ (~unclean => NoFiles)
      <3>1. BundleInv /\ turn = 0
        BY <1>4 DEF CloseBundle, IInv
      <3>2. failed /\ (~unclean => \A i \in 1..6 : i > 0 => files[i] = "absent")
        BY <1>4, <3>1 DEF BundleInv
      <3>3. QED
        BY <3>2 DEF NoFiles
    <2>2. pc' = "rmdir" /\ exit' = exit
      BY <2>1 DEF CloseBundle, Continue, End, Goto
    <2>3. TypeInv'
      BY <1>1, <2>2 DEF TypeInv, Labels
    <2>4. FreshInv' /\ ReportInv' /\ EndInv'
      BY <2>2 DEF FreshInv, ReportInv, EndInv, Early, Walking
    <2>5. BundleInv'
      BY <1>1, <1>2, <2>1, <2>2 DEF BundleInv
    <2>6. QED
      BY <2>3, <2>4, <2>5 DEF IInv
  <1>5. QED
    BY <1>1, <1>3, <1>4

\* The directory goes last, if it is empty by then.
LEMMA RemoveBundleStep == ASSUME IInv, RemoveBundle PROVE IInv'
  <1>1. /\ pc = "rmdir" /\ pc' = "ended" /\ exit' = 4 /\ TypeInv
        /\ failed /\ (~unclean => NoFiles) /\ report.is # "ours"
        /\ UNCHANGED <<request, found, entries, room, failed, turn, out, report, files>>
    BY DEF RemoveBundle, IInv, BundleInv, End, Goto
  <1>2. \/ bundle' = "absent" /\ unclean' = unclean
        \/ unclean' = TRUE /\ bundle' = bundle
    BY DEF RemoveBundle
  <1>3. TypeInv'
    <2>1. bundle' \in Presence /\ unclean' \in BOOLEAN
      BY <1>1, <1>2 DEF TypeInv, Presence
    <2>2. QED
      BY <1>1, <2>1 DEF TypeInv, Labels, ExitCodes
  <1>4. FreshInv' /\ ReportInv' /\ BundleInv'
    <2>1. FreshInv' /\ ReportInv'
      BY <1>1 DEF FreshInv, ReportInv, Early, Walking
    <2>2. ManifestLast'
      BY <1>1, <1>2 DEF ManifestLast, NoFiles
    <2>3. QED
      BY <1>1, <2>1, <2>2 DEF BundleInv
  <1>5. EndInv'
    BY <1>1, <1>2 DEF EndInv
  <1>6. QED
    BY <1>3, <1>4, <1>5 DEF IInv

\* A crash leaves the files as they are, and the manifest only over whole ones.
LEMMA CrashStep == ASSUME IInv, Crash PROVE IInv'
  <1>1. /\ pc' = "dead" /\ TypeInv
        /\ UNCHANGED <<request, exit, found, entries, room, failed, turn, unclean, out, report,
                       bundle, files>>
    BY DEF Crash, IInv, Continue, Goto, rest, delivered
  <1>2. TypeInv'
    BY <1>1 DEF TypeInv, Labels
  <1>3. FreshInv' /\ ReportInv' /\ EndInv'
    BY <1>1 DEF FreshInv, ReportInv, EndInv, Early, Walking
  <1>4. BundleInv'
    BY <1>1, ManifestSoFar DEF BundleInv, ManifestLast, AllFiles
  <1>5. QED
    BY <1>2, <1>3, <1>4 DEF IInv

\* Every step of a command, a failing call or another program keeps the invariant.
LEMMA StepInv == IInv /\ [Next]_vars => IInv'
  <1>1. ASSUME IInv, Next PROVE IInv'
    BY <1>1, DispatchStep, WalkStep, PinWorkspaceStep, CreateReportStep, StreamRecordStep,
       StreamStopsStep, CloseReportStep, RemoveReportStep, SettleStep, AuditSourceStep,
       PrintReportStep, CreateFileStep, FillReportStep, MakeBundleStep, PublishFileStep,
       RollBackFileStep, CloseBundleStep, RemoveBundleStep, CrashStep DEF Next
  <1>2. ASSUME IInv, UNCHANGED vars PROVE IInv'
    <2>1. UNCHANGED <<pc, request, exit, found, entries, room, failed, out, report, bundle,
                      files, turn, unclean>>
      BY <1>2 DEF vars, pathVars
    <2>2. TypeInv'
      BY <1>2, <2>1 DEF IInv, TypeInv
    <2>3. /\ (Fresh' <=> Fresh) /\ (SingleSource' <=> SingleSource) /\ (AllFiles' <=> AllFiles)
          /\ (NoFiles' <=> NoFiles) /\ (CorpusAudit(request)' <=> CorpusAudit(request))
      BY <2>1 DEF Fresh, SingleSource, AllFiles, NoFiles, CorpusAudit
    <2>4. FreshInv' /\ BundleInv'
      BY <1>2, <2>1, <2>3 DEF IInv, FreshInv, BundleInv, ManifestLast
    <2>5. /\ Whole(Written)' <=> Whole(Written)
          /\ Whole(report.text)' <=> Whole(report.text)
          /\ Whole(out)' <=> Whole(out)
      BY <2>1 DEF Whole, WholeStream, Written, CorpusAudit
    <2>6. Streamed(Written)' <=> Streamed(Written)
      BY <2>1 DEF Streamed, Written
    <2>7. ReportInv'
      BY <1>2, <2>1, <2>3, <2>5, <2>6 DEF IInv, ReportInv
    <2>8. EndInv'
      BY <1>2, <2>1, <2>3, <2>5 DEF IInv, EndInv
    <2>9. QED
      BY <2>2, <2>4, <2>7, <2>8 DEF IInv
  <1>3. QED
    BY <1>1, <1>2

---------------------------------------------------------------------------
(* The theorems.                                                           *)

\* The files of a bundle that stand are WholeBundle's.
LEMMA WholeBundleFiles == TypeInv => (WholeBundle <=> AllFiles)
  BY DEF TypeInv, Progress, WholeBundle, AllFiles

\* The inductive invariant holds of every behaviour of a command.
THEOREM Invariance == Spec => []IInv
  BY InitInv, StepInv, PTL DEF Spec

\* An exit code below 4 vouches for what the user asked for: a whole text, and with
\* --reveal-out a whole bundle (runDirectory, runReveal, deliverV2, Run).
THEOREM LowExitIsEarned == Spec => []LowExitDelivered
  <1>1. IInv => LowExitDelivered
    BY WholeBundleFiles DEF IInv, EndInv, LowExitDelivered
  <1>2. QED
    BY <1>1, Invariance, PTL

\* What a command leaves under the names it created is whole, unless a removal failed,
\* of which the user may not be told (v2.go:80).
THEOREM NoHalfStands == Spec => []NothingHalfStands
  <1>1. IInv => NothingHalfStands
    BY WholeBundleFiles DEF IInv, EndInv, NothingHalfStands
  <1>2. QED
    BY <1>1, Invariance, PTL

\* At any moment, and after a crash, a complete manifest stands only in a complete bundle,
\* unless its close failed and so did its removal (publish).
THEOREM ManifestComesLast == Spec => []ManifestMeansBundle
  <1>1. IInv => ManifestMeansBundle
    BY WholeBundleFiles, BundleFacts, ManifestSoFar DEF IInv, ManifestLast, ManifestMeansBundle
  <1>2. QED
    BY <1>1, Invariance, PTL

---------------------------------------------------------------------------
(* Where the output may stand (OutputPath).  Paths are walked along by     *)
(* functions of 0..n that are defined from their predecessors.             *)

\* A set of natural numbers of which none is the least has no element.
LEMMA Descent ==
    ASSUME NEW Bad \in SUBSET Nat, \A n \in Bad : n # 0 /\ n - 1 \in Bad
    PROVE  Bad = {}
<1> SUFFICES ASSUME Bad # {} PROVE FALSE
  OBVIOUS
<1> DEFINE R == {ss \in Nat \X Nat : ss[1] < ss[2]}
<1>1. IsWellFoundedOn(R, Nat)
  BY NatLessThanWellFounded DEF OpToRel
<1>2. PICK n \in Bad : \A m \in Bad : <<m, n>> \notin R
  BY <1>1, WFMin, Zenon
<1>3. n \in Nat /\ n # 0 /\ n - 1 \in Bad
  OBVIOUS
<1>4. <<n - 1, n>> \in Nat \X Nat /\ <<n - 1, n>>[1] = n - 1 /\ <<n - 1, n>>[2] = n
  BY <1>3
<1>5. n - 1 < n
  BY <1>3
<1>6. <<n - 1, n>> \in R
  BY <1>4, <1>5
<1> QED BY <1>2, <1>3, <1>6

\* A function of 0..N that is defined from its predecessor.
Unrolls(f, N, S, base, step) ==
    f \in [0..N -> S] /\ f[0] = base /\ \A n \in 1..N : f[n] = step[n][f[n - 1]]

\* Such a function exists.
LEMMA Unrolled ==
    ASSUME NEW N \in Nat, NEW S, NEW base \in S, NEW step \in [1..N -> [S -> S]]
    PROVE  \E f : Unrolls(f, N, S, base, step)
<1> DEFINE Q(m) == \E f : Unrolls(f, m, S, base, step)
           Bad == {m \in 0..N : ~Q(m)}
<1>1. ASSUME NEW m \in Bad PROVE m # 0 /\ m - 1 \in Bad
  <2>1. m \in 0..N /\ ~Q(m)
    OBVIOUS
  <2>2. m # 0
    <3> DEFINE g == [i \in 0..0 |-> base]
    <3>1. g \in [0..0 -> S] /\ g[0] = base /\ \A n \in 1..0 : g[n] = step[n][g[n - 1]]
      OBVIOUS
    <3>2. Q(0)
      <4> HIDE DEF g
      <4> QED BY <3>1 DEF Unrolls
    <3> HIDE DEF Q
    <3> QED BY <3>2, <2>1
  <2>3. SUFFICES ASSUME Q(m - 1) PROVE FALSE
    <3> HIDE DEF Q
    <3>1. m - 1 \in 0..N
      BY <2>1, <2>2
    <3> QED BY <3>1, <2>2, <2>3
  <2>4. PICK f \in [0..(m - 1) -> S] : f[0] = base /\ \A n \in 1..(m - 1) : f[n] = step[n][f[n - 1]]
    BY <2>3 DEF Unrolls
  <2> DEFINE g == [i \in 0..m |-> IF i = m THEN step[m][f[m - 1]] ELSE f[i]]
  <2>5. step[m][f[m - 1]] \in S
    BY <2>1, <2>2, <2>4
  <2>6. g \in [0..m -> S] /\ g[0] = base
    BY <2>1, <2>2, <2>4, <2>5
  <2>7. ASSUME NEW n \in 1..m PROVE g[n] = step[n][g[n - 1]]
    <3>1. CASE n = m
      BY <2>1, <2>2, <2>4, <3>1
    <3>2. CASE n # m
      <4>1. n \in 1..(m - 1) /\ n \in 0..m /\ n - 1 \in 0..m /\ n - 1 # m
        BY <2>1, <3>2
      <4>2. g[n] = f[n] /\ g[n - 1] = f[n - 1]
        BY <4>1, <3>2
      <4> QED BY <4>1, <4>2, <2>4
    <3> QED BY <3>1, <3>2
  <2>8. Q(m)
    <3> HIDE DEF g
    <3> QED BY <2>6, <2>7 DEF Unrolls
  <2> QED BY <2>8, <2>1
<1>2. Bad = {}
  <2>1. Bad \in SUBSET Nat
    OBVIOUS
  <2> HIDE DEF Bad
  <2> QED BY <1>1, <2>1, Descent
<1>3. N \in 0..N /\ N \notin Bad
  <2>1. N \in 0..N
    OBVIOUS
  <2> HIDE DEF Bad
  <2> QED BY <1>2, <2>1
<1>4. Q(N)
  <2> HIDE DEF Q
  <2> QED BY <1>3
<1> QED BY <1>4

\* What may stand in the name space.
EntryInv ==
    /\ entry \in [Dirs -> [Names -> Nodes]]
    /\ \A d \in Dirs, n \in Names : entry[d][n] \in MayStand(d)

\* Under a name there is a node; nothing but a directory has names in it.
LEMMA ChildFacts ==
    ASSUME EntryInv, NEW x, NEW n \in Names
    PROVE  /\ Child(x, n) \in Nodes
           /\ x \notin Dirs => Child(x, n) = Nothing
           /\ x \in Dirs => Child(x, n) = entry[x][n] /\ Child(x, n) \in MayStand(x)
           /\ Nothing \notin Dirs /\ Top \in Dirs
  BY PathAssumptions DEF EntryInv, Child, Nodes

\* What stands along a path is a node each time, found under the next name in the last.
LEMMA PlainUnfolds ==
    ASSUME EntryInv, NEW p \in Seq(Names)
    PROVE  /\ PlainTo(p) \in [0..Len(p) -> Nodes] /\ PlainTo(p)[0] = Top
           /\ \A i \in 1..Len(p) : PlainTo(p)[i] = Child(PlainTo(p)[i - 1], p[i])
<1> DEFINE N == Len(p)
           step == [i \in 1..N |-> [x \in Nodes |-> Child(x, p[i])]]
           Unfolds(f) == f = [i \in 0..N |-> IF i = 0 THEN Top ELSE Child(f[i - 1], p[i])]
<1>1. N \in Nat /\ Top \in Nodes /\ \A i \in 1..N : p[i] \in Names
  BY PathAssumptions DEF Nodes
<1>2. \A x, n : n \in Names => Child(x, n) \in Nodes
  BY ChildFacts
<1>3. step \in [1..N -> [Nodes -> Nodes]]
  BY <1>1, <1>2
<1>4. PICK f \in [0..N -> Nodes] : f[0] = Top /\ \A i \in 1..N : f[i] = step[i][f[i - 1]]
  <2> HIDE DEF step, N
  <2>1. \E f : Unrolls(f, N, Nodes, Top, step)
    BY <1>1, <1>3, Unrolled
  <2> QED BY <2>1 DEF Unrolls
<1>5. ASSUME NEW i \in 1..N PROVE f[i] = Child(f[i - 1], p[i])
  <2>1. f[i - 1] \in Nodes
    BY <1>1
  <2>2. \A x \in Nodes : step[i][x] = Child(x, p[i])
    OBVIOUS
  <2> HIDE DEF step
  <2> QED BY <1>4, <2>1, <2>2
<1>6. Unfolds(f)
  <2>1. \A i \in 0..N : f[i] = IF i = 0 THEN Top ELSE Child(f[i - 1], p[i])
    BY <1>4, <1>5
  <2> QED BY <2>1, <1>4
<1>7. PlainTo(p) = CHOOSE g : Unfolds(g)
  BY Zenon DEF PlainTo
<1>8. PICK g : g = PlainTo(p) /\ Unfolds(g)
  <2> HIDE DEF Unfolds
  <2> QED BY <1>6, <1>7
<1>9. /\ DOMAIN g = 0..N /\ g[0] = Top /\ g = [i \in 0..N |-> g[i]]
      /\ \A i \in 1..N : g[i] = Child(g[i - 1], p[i])
  BY <1>1, <1>8
<1>10. \A i \in 0..N : g[i] \in Nodes
  BY <1>1, <1>2, <1>9
<1> QED BY <1>8, <1>9, <1>10

\* Paths that begin alike lead along the same nodes.
LEMMA PlainAlong ==
    ASSUME EntryInv, NEW p \in Seq(Names), NEW q \in Seq(Names), NEW k \in Nat,
           k <= Len(p), k <= Len(q), \A j \in 1..k : p[j] = q[j]
    PROVE  PlainTo(p)[k] = PlainTo(q)[k]
<1> DEFINE Bad == {i \in 0..k : PlainTo(p)[i] # PlainTo(q)[i]}
<1>1. ASSUME NEW i \in Bad PROVE i # 0 /\ i - 1 \in Bad
  <2>1. i # 0
    BY PlainUnfolds
  <2>2. i \in 1..k /\ i \in 1..Len(p) /\ i \in 1..Len(q) /\ i - 1 \in 0..k
    BY <2>1
  <2>3. PlainTo(p)[i] = Child(PlainTo(p)[i - 1], p[i]) /\ PlainTo(q)[i] = Child(PlainTo(q)[i - 1], p[i])
    BY <2>2, PlainUnfolds
  <2> QED BY <2>1, <2>2, <2>3
<1>2. Bad = {}
  <2>1. Bad \in SUBSET Nat
    OBVIOUS
  <2> HIDE DEF Bad
  <2> QED BY <1>1, <2>1, Descent
<1> QED BY <1>2

\* One name further on there is what stands under it.
LEMMA PlainFurther ==
    ASSUME EntryInv, NEW q \in Seq(Names), NEW n \in Names
    PROVE  Append(q, n) \in Seq(Names) /\ Plain(Append(q, n)) = Child(Plain(q), n)
<1> DEFINE p == Append(q, n)
<1>1. p \in Seq(Names) /\ Len(p) = Len(q) + 1 /\ p[Len(p)] = n /\ Len(q) \in Nat
      /\ \A j \in 1..Len(q) : p[j] = q[j]
  OBVIOUS
<1> HIDE DEF p
<1>2. PlainTo(p)[Len(p)] = Child(PlainTo(p)[Len(p) - 1], n)
  <2>1. Len(p) \in 1..Len(p)
    BY <1>1
  <2>2. PlainTo(p)[Len(p)] = Child(PlainTo(p)[Len(p) - 1], p[Len(p)])
    BY <1>1, <2>1, PlainUnfolds
  <2> QED BY <1>1, <2>2
<1>3. PlainTo(p)[Len(q)] = PlainTo(q)[Len(q)]
  BY <1>1, PlainAlong
<1>4. Plain(p) = Child(Plain(q), n)
  BY <1>1, <1>2, <1>3 DEF Plain
<1> QED BY <1>1, <1>4 DEF p

Places == [name : Seq(Names), node : Nodes]

\* Following one name leads from a place to a place.
LEMMA FollowFacts ==
    ASSUME EntryInv, NEW r \in Places, NEW n \in Names
    PROVE  Follow(r, n) \in Places
<1> DEFINE x == Child(r.node, n)
<1>1. r.name \in Seq(Names) /\ x \in Nodes
  BY ChildFacts DEF Places
<1>2. CASE IsLink(x)
  <2>1. x \in Links
    BY <1>1, <1>2 DEF Nodes, IsLink
  <2>2. x.to \in Seq(Names)
    BY <2>1, PathAssumptions
  <2>3. PlainTo(x.to)[Len(x.to)] \in Nodes
    <3> DEFINE q == x.to
    <3>1. q \in Seq(Names)
      BY <2>2
    <3> HIDE DEF q
    <3>2. Len(q) \in 0..Len(q)
      BY <3>1
    <3> QED BY <3>1, <3>2, PlainUnfolds DEF q
  <2>4. Plain(x.to) \in Nodes
    BY <2>3 DEF Plain
  <2>5. Follow(r, n) = [name |-> x.to, node |-> Plain(x.to)]
    BY <1>2, Zenon DEF Follow
  <2> QED BY <2>2, <2>4, <2>5 DEF Places
<1>3. CASE ~IsLink(x)
  <2>1. Follow(r, n) = [name |-> Append(r.name, n), node |-> x]
    BY <1>3, Zenon DEF Follow
  <2>2. Append(r.name, n) \in Seq(Names)
    BY <1>1
  <2> HIDE DEF x
  <2> QED BY <1>1, <2>1, <2>2 DEF Places
<1> QED BY <1>2, <1>3

\* The whole way: each place is found from the last one.
LEMMA ResolvedUnfolds ==
    ASSUME EntryInv, NEW p \in Seq(Names)
    PROVE  /\ ResolvedTo(p) \in [0..Len(p) -> Places]
           /\ ResolvedTo(p)[0] = [name |-> <<>>, node |-> Top]
           /\ \A i \in 1..Len(p) : ResolvedTo(p)[i] = Follow(ResolvedTo(p)[i - 1], p[i])
<1> DEFINE N == Len(p)
           base == [name |-> <<>>, node |-> Top]
           step == [i \in 1..N |-> [r \in Places |-> Follow(r, p[i])]]
           Unfolds(f) == f = [i \in 0..N |-> IF i = 0 THEN base ELSE Follow(f[i - 1], p[i])]
<1>1. N \in Nat /\ \A i \in 1..N : p[i] \in Names
  OBVIOUS
<1>2. base \in Places
  <2>1. Top \in Nodes
    BY ChildFacts, PathAssumptions, Zenon DEF Nodes
  <2>2. <<>> \in Seq(Names)
    OBVIOUS
  <2> QED BY <2>1, <2>2 DEF Places
<1>3. step \in [1..N -> [Places -> Places]]
  <2>1. \A i \in 1..N : [r \in Places |-> Follow(r, p[i])] \in [Places -> Places]
    BY <1>1, FollowFacts
  <2> QED BY <2>1
<1> HIDE DEF base
<1>4. PICK f \in [0..N -> Places] : f[0] = base /\ \A i \in 1..N : f[i] = step[i][f[i - 1]]
  <2> HIDE DEF step, N
  <2>1. \E f : Unrolls(f, N, Places, base, step)
    BY <1>1, <1>2, <1>3, Unrolled
  <2> QED BY <2>1 DEF Unrolls
<1>5. ASSUME NEW i \in 1..N PROVE f[i] = Follow(f[i - 1], p[i])
  <2>1. f[i - 1] \in Places
    BY <1>1
  <2>2. \A r \in Places : step[i][r] = Follow(r, p[i])
    OBVIOUS
  <2> HIDE DEF step
  <2> QED BY <1>4, <2>1, <2>2
<1>6. Unfolds(f)
  <2>1. \A i \in 0..N : f[i] = IF i = 0 THEN base ELSE Follow(f[i - 1], p[i])
    BY <1>4, <1>5
  <2> QED BY <2>1, <1>4
<1>7. ResolvedTo(p) = CHOOSE g : Unfolds(g)
  BY Zenon DEF ResolvedTo, base
<1>8. PICK g : g = ResolvedTo(p) /\ Unfolds(g)
  <2> HIDE DEF Unfolds
  <2> QED BY <1>6, <1>7
<1>9. /\ DOMAIN g = 0..N /\ g[0] = base /\ g = [i \in 0..N |-> g[i]]
      /\ \A i \in 1..N : g[i] = Follow(g[i - 1], p[i])
  BY <1>1, <1>8
<1>10. \A i \in 0..N : g[i] \in Places
  <2> DEFINE Bad == {i \in 0..N : g[i] \notin Places}
  <2>1. ASSUME NEW i \in Bad PROVE i # 0 /\ i - 1 \in Bad
    <3>1. i # 0
      BY <1>2, <1>9
    <3>2. i \in 1..N /\ i - 1 \in 0..N /\ p[i] \in Names /\ g[i] \notin Places
      BY <1>1, <3>1
    <3>3. g[i - 1] \notin Places
      BY <1>9, <3>2, FollowFacts
    <3> QED BY <3>1, <3>2, <3>3
  <2>2. Bad = {}
    <3>1. Bad \in SUBSET Nat
      OBVIOUS
    <3> HIDE DEF Bad
    <3> QED BY <2>1, <3>1, Descent
  <2> QED BY <2>2
<1> QED BY <1>8, <1>9, <1>10 DEF base

\* Paths that begin alike are resolved alike.
LEMMA ResolvedAlong ==
    ASSUME EntryInv, NEW p \in Seq(Names), NEW q \in Seq(Names), NEW k \in Nat,
           k <= Len(p), k <= Len(q), \A j \in 1..k : p[j] = q[j]
    PROVE  ResolvedTo(p)[k] = ResolvedTo(q)[k]
<1> DEFINE Bad == {i \in 0..k : ResolvedTo(p)[i] # ResolvedTo(q)[i]}
<1>1. ASSUME NEW i \in Bad PROVE i # 0 /\ i - 1 \in Bad
  <2>1. i # 0
    BY ResolvedUnfolds
  <2>2. i \in 1..k /\ i \in 1..Len(p) /\ i \in 1..Len(q) /\ i - 1 \in 0..k
    BY <2>1
  <2>3. ResolvedTo(p)[i] = Follow(ResolvedTo(p)[i - 1], p[i])
        /\ ResolvedTo(q)[i] = Follow(ResolvedTo(q)[i - 1], q[i])
    BY <2>2, ResolvedUnfolds
  <2> QED BY <2>1, <2>2, <2>3
<1>2. Bad = {}
  <2>1. Bad \in SUBSET Nat
    OBVIOUS
  <2> HIDE DEF Bad
  <2> QED BY <1>1, <2>1, Descent
<1> QED BY <1>2

\* A directory is reached through directories.
LEMMA ThroughDirs ==
    ASSUME EntryInv, NEW x, NEW n \in Names, Child(x, n) \in Dirs
    PROVE  x \in Dirs /\ Child(x, n) \in Standing[x] /\ ~IsLink(Child(x, n))
<1>1. x \in Dirs
  BY ChildFacts
<1>2. Child(x, n) \in MayStand(x)
  BY <1>1, ChildFacts
<1>3. Links \cap (Dirs \cup {Nothing}) = {}
  BY PathAssumptions
<1>4. Nothing \notin Dirs
  BY ChildFacts
<1> QED BY <1>1, <1>2, <1>3, <1>4 DEF MayStand, IsLink

\* A path along which only directories stand leads to the last of them.
LEMMA PlainIsOpened ==
    ASSUME EntryInv, NEW p \in Seq(Names), Plain(p) \in Dirs
    PROVE  Opened(p) = Plain(p)
<1> DEFINE Bad == {i \in 0..Len(p) :
              PlainTo(p)[i] \in Dirs /\ ResolvedTo(p)[i].node # PlainTo(p)[i]}
<1>1. ASSUME NEW i \in Bad PROVE i # 0 /\ i - 1 \in Bad
  <2>1. i # 0
    BY PlainUnfolds, ResolvedUnfolds
  <2>2. i \in 1..Len(p) /\ i - 1 \in 0..Len(p) /\ p[i] \in Names
    BY <2>1
  <2>3. PlainTo(p)[i] = Child(PlainTo(p)[i - 1], p[i])
        /\ ResolvedTo(p)[i] = Follow(ResolvedTo(p)[i - 1], p[i])
    BY <2>2, PlainUnfolds, ResolvedUnfolds
  <2>4. PlainTo(p)[i - 1] \in Dirs /\ ~IsLink(PlainTo(p)[i])
    BY <2>2, <2>3, ThroughDirs
  <2>5. SUFFICES ASSUME ResolvedTo(p)[i - 1].node = PlainTo(p)[i - 1] PROVE FALSE
    BY <2>1, <2>2, <2>4
  <2>6. ResolvedTo(p)[i].node = PlainTo(p)[i]
    BY <2>3, <2>4, <2>5 DEF Follow
  <2> QED BY <2>6
<1>2. Bad = {}
  <2>1. Bad \in SUBSET Nat
    OBVIOUS
  <2> HIDE DEF Bad
  <2> QED BY <1>1, <2>1, Descent
<1>3. Len(p) \in 0..Len(p) /\ PlainTo(p)[Len(p)] \in Dirs
  BY DEF Plain
<1> QED BY <1>2, <1>3 DEF Plain, Opened

\* The canonical path of a directory leads to it without a link.
LEMMA CanonicalIsPlain ==
    ASSUME EntryInv, NEW p \in Seq(Names), Opened(p) \in Dirs
    PROVE  Canonical(p) \in Seq(Names) /\ Plain(Canonical(p)) = Opened(p)
<1> DEFINE R(i) == ResolvedTo(p)[i]
           Bad == {i \in 0..Len(p) : R(i).node \in Dirs /\ Plain(R(i).name) # R(i).node}
<1>1. ASSUME NEW i \in Bad PROVE i # 0 /\ i - 1 \in Bad
  <2>1. Plain(<<>>) = Top
    <3>1. <<>> \in Seq(Names) /\ Len(<<>>) = 0
      OBVIOUS
    <3> QED BY <3>1, PlainUnfolds DEF Plain
  <2>2. i # 0
    BY <2>1, ResolvedUnfolds
  <2>3. i \in 1..Len(p) /\ i - 1 \in 0..Len(p) /\ p[i] \in Names
    BY <2>2
  <2>4. R(i) = Follow(R(i - 1), p[i]) /\ R(i - 1) \in Places
    BY <2>3, ResolvedUnfolds
  <2> DEFINE x == Child(R(i - 1).node, p[i])
  <2>5. CASE IsLink(x)
    <3>1. R(i) = [name |-> x.to, node |-> Plain(x.to)]
      BY <2>4, <2>5, Zenon DEF Follow
    <3>2. R(i).node = Plain(R(i).name)
      BY <3>1
    <3> QED BY <3>2
  <2>6. CASE ~IsLink(x)
    <3>1. R(i) = [name |-> Append(R(i - 1).name, p[i]), node |-> x]
      BY <2>4, <2>6, Zenon DEF Follow
    <3>2. R(i).name = Append(R(i - 1).name, p[i]) /\ R(i).node = x
      BY <3>1
    <3>3. R(i - 1).node \in Dirs
      BY <2>3, <3>2, ThroughDirs
    <3>4. SUFFICES ASSUME Plain(R(i - 1).name) = R(i - 1).node PROVE FALSE
      BY <2>2, <2>3, <3>3
    <3>5. R(i - 1).name \in Seq(Names)
      BY <2>4 DEF Places
    <3>6. Plain(R(i).name) = R(i).node
      BY <2>3, <3>2, <3>4, <3>5, PlainFurther
    <3> QED BY <3>6
  <2> QED BY <2>5, <2>6
<1>2. Bad = {}
  <2>1. Bad \in SUBSET Nat
    OBVIOUS
  <2> HIDE DEF Bad
  <2> QED BY <1>1, <2>1, Descent
<1>3. Len(p) \in 0..Len(p) /\ R(Len(p)) \in Places /\ R(Len(p)).node \in Dirs
  BY ResolvedUnfolds DEF Opened
<1>4. R(Len(p)).name \in Seq(Names)
  BY <1>3 DEF Places
<1>5. Plain(R(Len(p)).name) = R(Len(p)).node
  BY <1>2, <1>3
<1> QED BY <1>4, <1>5 DEF Canonical, Opened

\* at leads along the names of q, from the root.
Way(at, q, N) ==
    at[0] = Top /\ \A i \in 1..N : q[i] \in Names /\ at[i] = Child(at[i - 1], q[i])

\* What lies in a directory: itself, what stands in what lies in it, and nothing more.
LEMMA BelowFacts ==
    ASSUME NEW s \in Dirs
    PROVE  /\ Below(s) \subseteq Dirs /\ s \in Below(s)
           /\ \A d \in Below(s), n \in Names : entry[d][n] \in Dirs => entry[d][n] \in Below(s)
           /\ \A S \in SUBSET Dirs :
                 /\ s \in S
                 /\ \A d \in S, n \in Names : entry[d][n] \in Dirs => entry[d][n] \in S
                 => Below(s) \subseteq S
  BY DEF Below

\* The file system's root lies in no other directory.
LEMMA RootLiesNowhere == ASSUME EntryInv, NEW s \in Dirs PROVE Top \notin Below(s) \ {s}
<1> SUFFICES ASSUME s # Top PROVE Top \notin Below(s)
  OBVIOUS
<1> DEFINE S == Dirs \ {Top}
<1>1. S \in SUBSET Dirs /\ s \in S
  OBVIOUS
<1>2. ASSUME NEW d \in S, NEW n \in Names, entry[d][n] \in Dirs PROVE entry[d][n] \in S
  <2>1. Child(d, n) = entry[d][n]
    BY DEF Child
  <2>2. entry[d][n] \in Standing[d]
    BY <1>2, <2>1, ThroughDirs
  <2> QED BY <1>2, <2>2, RootAssumption
<1>3. Below(s) \subseteq S
  <2> HIDE DEF S
  <2> QED BY <1>1, <1>2, BelowFacts
<1> QED BY <1>3

\* While every directory stands under one name, nothing is mounted anywhere else.
LEMMA SingleEncloses == ASSUME EntryInv, Single, NEW s \in Dirs PROVE Enclosed(s)
<1> SUFFICES ASSUME NEW d \in Dirs, NEW n \in Names, entry[d][n] \in Below(s) \ {s},
                    d \notin Below(s)
             PROVE  FALSE
  BY DEF Enclosed
<1> DEFINE x == entry[d][n]
           S == Below(s) \ {x}
<1>1. x \in Dirs /\ S \in SUBSET Dirs /\ s \in S
  BY BelowFacts
<1>2. ASSUME NEW e \in S, NEW m \in Names, entry[e][m] \in Dirs PROVE entry[e][m] \in S
  <2>1. e \in Below(s) /\ e \in Dirs /\ entry[e][m] \in Below(s)
    BY <1>2, BelowFacts
  <2>2. entry[e][m] # x
    BY <1>1, <2>1 DEF Single
  <2> QED BY <2>1, <2>2
<1>3. Below(s) \subseteq S
  <2> HIDE DEF S
  <2> QED BY <1>1, <1>2, BelowFacts
<1> QED BY <1>3

\* The way to what lies in a directory leads through it, unless there is another mount.
LEMMA LeadsThrough ==
    ASSUME EntryInv, NEW s \in Dirs, Enclosed(s), NEW N \in Nat, NEW at, NEW q,
           Way(at, q, N), at[N] \in Below(s)
    PROVE  \E j \in 0..N : at[j] = s
<1> USE DEF Way
<1> SUFFICES ASSUME \A j \in 0..N : at[j] # s PROVE FALSE
  OBVIOUS
<1> DEFINE Bad == {i \in 0..N : at[i] \in Below(s)}
<1>1. ASSUME NEW i \in Bad PROVE i # 0 /\ i - 1 \in Bad
  <2>1. i # 0
    <3>1. at[0] # s
      OBVIOUS
    <3> QED BY <3>1, RootLiesNowhere
  <2>2. i \in 1..N /\ i - 1 \in 0..N
    BY <2>1
  <2>3. at[i] = Child(at[i - 1], q[i]) /\ q[i] \in Names /\ at[i] \in Dirs /\ at[i] # s
    BY <2>2, BelowFacts
  <2>4. at[i - 1] \in Dirs /\ at[i] = entry[at[i - 1]][q[i]]
    BY <2>3, ThroughDirs, ChildFacts
  <2>5. at[i - 1] \in Below(s)
    BY <2>3, <2>4 DEF Enclosed
  <2> QED BY <2>1, <2>2, <2>5
<1>2. Bad = {}
  <2>1. Bad \in SUBSET Nat
    OBVIOUS
  <2> HIDE DEF Bad
  <2> QED BY <1>1, <2>1, Descent
<1>3. N \in 0..N
  OBVIOUS
<1> QED BY <1>2, <1>3

\* While every directory stands under one name, one path leads to it.
LEMMA OnePath ==
    ASSUME EntryInv, Single, NEW p \in Seq(Names), NEW q \in Seq(Names),
           NEW a \in 0..Len(p), NEW b \in 0..Len(q),
           PlainTo(p)[a] \in Dirs, PlainTo(p)[a] = PlainTo(q)[b]
    PROVE  a = b /\ \A k \in 1..a : p[k] = q[k]
<1> DEFINE Meet(i, j) == PlainTo(p)[i] \in Dirs /\ PlainTo(p)[i] = PlainTo(q)[j]
           Alike(i, j) == i = j /\ \A k \in 1..i : p[k] = q[k]
           Bad == {i \in 0..Len(p) : \E j \in 0..Len(q) : Meet(i, j) /\ ~Alike(i, j)}
<1>1. ASSUME NEW o \in Seq(Names), NEW i \in 0..Len(o), i # 0, PlainTo(o)[i] \in Dirs
      PROVE  /\ i \in 1..Len(o) /\ i - 1 \in 0..Len(o) /\ o[i] \in Names
             /\ PlainTo(o)[i - 1] \in Dirs /\ PlainTo(o)[i] # Top
             /\ PlainTo(o)[i] = entry[PlainTo(o)[i - 1]][o[i]]
  <2>1. i \in 1..Len(o) /\ i - 1 \in 0..Len(o) /\ o[i] \in Names
    BY <1>1
  <2>2. PlainTo(o)[i] = Child(PlainTo(o)[i - 1], o[i])
    BY <2>1, PlainUnfolds
  <2>3. PlainTo(o)[i - 1] \in Dirs /\ PlainTo(o)[i] \in Standing[PlainTo(o)[i - 1]]
    BY <1>1, <2>1, <2>2, ThroughDirs
  <2>4. PlainTo(o)[i] # Top
    BY <2>3, RootAssumption
  <2> QED BY <2>1, <2>2, <2>3, <2>4 DEF Child
<1>2. PlainTo(p)[0] = Top /\ PlainTo(q)[0] = Top
  BY PlainUnfolds
<1>3. ASSUME NEW i \in Bad PROVE i # 0 /\ i - 1 \in Bad
  <2>1. PICK j \in 0..Len(q) : Meet(i, j) /\ ~Alike(i, j)
    OBVIOUS
  <2>2. i \in 0..Len(p) /\ PlainTo(p)[i] \in Dirs /\ PlainTo(p)[i] = PlainTo(q)[j]
    BY <2>1
  <2>3. CASE i = 0
    <3>1. j = 0
      BY <1>1, <1>2, <2>2, <2>3
    <3> QED BY <2>1, <2>3, <3>1
  <2>4. CASE i # 0
    <3>1. j # 0
      BY <1>1, <1>2, <2>2, <2>4
    <3> DEFINE d == PlainTo(p)[i - 1]
               e == PlainTo(q)[j - 1]
    <3>2. /\ i - 1 \in 0..Len(p) /\ j - 1 \in 0..Len(q) /\ p[i] \in Names /\ q[j] \in Names
          /\ d \in Dirs /\ e \in Dirs /\ PlainTo(p)[i] = entry[d][p[i]]
          /\ PlainTo(q)[j] = entry[e][q[j]]
      BY <1>1, <2>2, <2>4, <3>1
    <3>3. d = e /\ p[i] = q[j]
      <4>1. entry[d][p[i]] \in Dirs /\ entry[d][p[i]] = entry[e][q[j]]
        BY <2>2, <3>2
      <4> HIDE DEF d, e
      <4>2. d \in Dirs /\ e \in Dirs /\ p[i] \in Names /\ q[j] \in Names
        BY <3>2
      <4> QED BY <4>1, <4>2 DEF Single
    <3>4. ASSUME Alike(i - 1, j - 1) PROVE FALSE
      <4>1. i = j
        BY <2>2, <3>4
      <4>2. \A k \in 1..i : k = i \/ k \in 1..(i - 1)
        BY <2>2
      <4>3. Alike(i, j)
        BY <3>3, <3>4, <4>1, <4>2
      <4> QED BY <2>1, <4>3
    <3>5. Meet(i - 1, j - 1)
      BY <3>2, <3>3
    <3>6. i - 1 \in Bad
      <4> HIDE DEF Meet, Alike
      <4> QED BY <3>2, <3>4, <3>5
    <3> QED BY <2>4, <3>6
  <2> QED BY <2>3, <2>4
<1>4. Bad = {}
  <2>1. Bad \in SUBSET Nat
    OBVIOUS
  <2> HIDE DEF Bad
  <2> QED BY <1>3, <2>1, Descent
<1>5. Meet(a, b)
  OBVIOUS
<1>6. Alike(a, b)
  <2> HIDE DEF Meet, Alike
  <2> QED BY <1>4, <1>5
<1> QED BY <1>6

\* A directory in the source has a path that begins with the source's.
LEMMA OutsideByNames ==
    ASSUME EntryInv, Single, NEW c \in Seq(Names), NEW p \in Seq(Names),
           Plain(c) \in Dirs, Plain(p) \in Below(Plain(c))
    PROVE  ~Apart(c, Append(p, OutputName))
<1> DEFINE s == Plain(c)
           at == PlainTo(p)
           o == Append(p, OutputName)
<1>1. at[0] = Top /\ \A i \in 1..Len(p) : p[i] \in Names /\ at[i] = Child(at[i - 1], p[i])
  BY PlainUnfolds
<1>2. at[Len(p)] \in Below(s) /\ Len(p) \in Nat
  BY DEF Plain
<1>3. PICK j \in 0..Len(p) : at[j] = s
  <2>1. s \in Dirs
    OBVIOUS
  <2>2. Way(at, p, Len(p))
    BY <1>1 DEF Way
  <2>3. Enclosed(s)
    BY SingleEncloses
  <2> HIDE DEF s, at
  <2> QED BY <1>2, <2>1, <2>2, <2>3, LeadsThrough
<1>4. Len(c) \in 0..Len(c) /\ PlainTo(c)[Len(c)] = PlainTo(p)[j] /\ PlainTo(c)[Len(c)] \in Dirs
  BY <1>3 DEF Plain
<1>5. Len(c) = j /\ \A k \in 1..Len(c) : c[k] = p[k]
  BY <1>3, <1>4, OnePath
<1>6. /\ Len(o) = Len(p) + 1 /\ \A k \in 1..Len(p) : o[k] = p[k]
      /\ o \in Seq(Names \cup {OutputName}) /\ c \in Seq(Names \cup {OutputName})
  <2>1. p \in Seq(Names \cup {OutputName}) /\ c \in Seq(Names \cup {OutputName})
    OBVIOUS
  <2> QED BY <2>1, AppendProperties
<1>7. Len(c) <= Len(o) /\ \A k \in 1..Len(c) : c[k] = o[k]
  BY <1>3, <1>5, <1>6
<1>8. SubSeq(c, 1, Len(c)) = SubSeq(o, 1, Len(c))
  <2> HIDE DEF o
  <2> QED BY <1>6, <1>7
<1>9. IsPrefix(c, o)
  BY <1>7, <1>8 DEF IsPrefix
<1> QED BY <1>9 DEF Apart

\* An ancestor that was found: a directory that is not s, under its name in the last.
Found(p, i, s) ==
    /\ ResolvedTo(p)[i].node \in Dirs /\ ResolvedTo(p)[i].node # s
    /\ ResolvedTo(p)[i].node = Child(ResolvedTo(p)[i - 1].node, p[i])

\* If none of the directories along a path is s, the path does not lead into s.
LEMMA OutsideByLooks ==
    ASSUME EntryInv, NEW s \in Dirs, Enclosed(s), NEW p \in Seq(Names), Top # s,
           \A i \in 1..Len(p) : Found(p, i, s)
    PROVE  Opened(p) \notin Below(s)
<1> SUFFICES ASSUME Opened(p) \in Below(s) PROVE FALSE
  OBVIOUS
<1> DEFINE at == [i \in 0..Len(p) |-> ResolvedTo(p)[i].node]
<1>1. /\ at[0] = Top /\ at[Len(p)] \in Below(s) /\ Len(p) \in Nat
      /\ \A i \in 1..Len(p) : at[i] = ResolvedTo(p)[i].node
      /\ \A i \in 1..Len(p) : at[i - 1] = ResolvedTo(p)[i - 1].node
  BY ResolvedUnfolds DEF Opened
<1>2. \A i \in 1..Len(p) : p[i] \in Names /\ at[i] = Child(at[i - 1], p[i]) /\ at[i] # s
  BY <1>1 DEF Found
<1>3. PICK j \in 0..Len(p) : at[j] = s
  <2> HIDE DEF at
  <2>1. Way(at, p, Len(p))
    BY <1>1, <1>2 DEF Way
  <2> QED BY <1>1, <2>1, LeadsThrough
<1>4. j # 0 => j \in 1..Len(p)
  OBVIOUS
<1>5. at[j] # s
  <2> HIDE DEF at
  <2> QED BY <1>1, <1>2, <1>4
<1> QED BY <1>3, <1>5

\* Looking at an ancestor is looking for its name where the path to it leads.
LEMMA LookAtAncestor ==
    ASSUME EntryInv, NEW p \in Seq(Names), NEW a \in Seq(Names), a # <<>>,
           Len(a) <= Len(p), \A j \in 1..Len(a) : a[j] = p[j], Lstat(a) \in Dirs
    PROVE  /\ Lstat(a) = ResolvedTo(p)[Len(a)].node
           /\ Lstat(a) = Child(ResolvedTo(p)[Len(a) - 1].node, p[Len(a)])
           /\ a = p => Lstat(a) = Opened(p)
           /\ Front(a) \in Seq(Names) /\ Len(Front(a)) = Len(a) - 1
           /\ \A j \in 1..Len(Front(a)) : Front(a)[j] = p[j]
<1> DEFINE n == Len(a)
           b == Front(a)
<1>1. n \in Nat \ {0} /\ n \in 1..Len(p) /\ p[n] \in Names
  BY EmptySeq
<1>2. b \in Seq(Names) /\ Len(b) = n - 1 /\ \A j \in 1..(n - 1) : b[j] = p[j]
  <2>1. b = SubSeq(a, 1, n - 1)
    BY DEF Front
  <2>2. b \in Seq(Names) /\ Len(b) = n - 1 /\ \A j \in 1..(n - 1) : b[j] = a[j]
    <3>1. 1 \in Int /\ n - 1 \in Int /\ \A i \in 1..(n - 1) : a[i] \in Names
      BY <1>1
    <3> HIDE DEF b, n
    <3>2. /\ b \in Seq(Names) /\ Len(b) = IF 1 <= n - 1 THEN (n - 1) - 1 + 1 ELSE 0
          /\ \A i \in 1..((n - 1) - 1 + 1) : b[i] = a[1 + i - 1]
      BY <2>1, <3>1, SubSeqProperties
    <3> QED BY <1>1, <3>2
  <2> QED BY <1>1, <2>2
<1> HIDE DEF b
<1>3. ResolvedTo(b)[n - 1] = ResolvedTo(p)[n - 1]
  BY <1>1, <1>2, ResolvedAlong
<1>4. Lstat(a) = Child(ResolvedTo(p)[n - 1].node, p[n])
  BY <1>1, <1>2, <1>3 DEF Lstat, Opened, Last, b
<1>5. ResolvedTo(p)[n] = Follow(ResolvedTo(p)[n - 1], p[n])
  BY <1>1, ResolvedUnfolds
<1>6. ~IsLink(Lstat(a))
  BY DEF IsLink
<1>7. ResolvedTo(p)[n].node = Lstat(a)
  BY <1>4, <1>5, <1>6 DEF Follow
<1> QED BY <1>2, <1>4, <1>7 DEF Opened, b

---------------------------------------------------------------------------
(* The invariant of the walk to the output's parent.                       *)

Unbound == {"start", "pin", "audit", "compare"}     \* before a source can be bound
Ahead == Unbound \cup {"canonical", "output"}       \* before the walk along the ancestors

WalkTypes ==
    /\ EntryInv
    /\ requested \in OutputDirs
    /\ canon \in Seq(Names) /\ place \in Seq(Names) /\ ahead \in Seq(Names)
    /\ Len(ahead) <= Len(place) /\ \A j \in 1..Len(ahead) : ahead[j] = place[j]
    /\ changes \in Nat /\ looked \in Nat /\ looked <= changes
    /\ guarded \in BOOLEAN /\ (guarded => source \in Dirs)

\* How far the command is.
StageInv ==
    /\ pc \in Unbound => ~guarded
    /\ pc \in Ahead => expected = Nothing /\ looked = 0
    /\ pc \in Ahead \cup {"ancestors", "open"} => pinned = Nothing
    /\ pc = "open" => ahead = <<>>

\* Until the names change, the paths that were compared lead where they led.
StillInv ==
    changes = 0 =>
        /\ single => Single
        /\ guarded /\ pc = "canonical" => Opened(SourcePath) = source
        /\ guarded /\ pc \in {"output", "ancestors"} =>
              \A c \in Seq(Names) : canon = c => Plain(c) = source
        /\ guarded /\ pc = "ancestors" =>
              \A c, p \in Seq(Names) : canon = c /\ place = p =>
                  Plain(p) \in Dirs /\ Apart(c, Append(p, OutputName))

\* A parent that was looked at before the names changed is outside.
ExpectInv ==
    guarded /\ looked = 0 /\ single /\ expected # Nothing => expected \in outside

\* Since the parent was looked at no name has changed: the ancestors looked at so far
\* are still what the path leads through.
LookInv ==
    guarded /\ changes = looked /\ pc \in {"ancestors", "open"} =>
        /\ \A p \in Seq(Names), s \in Dirs : place = p /\ source = s =>
              \A i \in (Len(ahead) + 1)..Len(p) : Found(p, i, s)
        /\ pc = "open" => Top # source

WalkInv == WalkTypes /\ StageInv /\ StillInv /\ ExpectInv /\ LookInv /\ OutputOutsideSource

\* The same names lead to the same places.
LEMMA SameNames ==
    ASSUME entry' = entry
    PROVE  /\ EntryInv' <=> EntryInv
           /\ Single' <=> Single
           /\ \A p : Plain(p)' = Plain(p)
           /\ \A p : Opened(p)' = Opened(p)
           /\ \A p, i, s : Found(p, i, s)' <=> Found(p, i, s)
           /\ \A s : Below(s)' = Below(s)
           /\ \A s : Enclosed(s)' <=> Enclosed(s)
<1>1. EntryInv' <=> EntryInv
  BY DEF EntryInv, MayStand
<1>2. Single' <=> Single
  BY DEF Single
<1>3. \A x, n : Child(x, n)' = Child(x, n)
  BY DEF Child
<1>4. \A p : PlainTo(p)' = PlainTo(p)
  BY Zenon DEF PlainTo, Child
<1>5. \A p : Plain(p)' = Plain(p)
  BY <1>4 DEF Plain
<1>6. \A p : ResolvedTo(p)' = ResolvedTo(p)
  <2>1. \A r, n : Follow(r, n)' = Follow(r, n)
    BY <1>3, <1>5 DEF Follow
  <2> QED BY <2>1, SMT DEF ResolvedTo
<1>7. \A p : Opened(p)' = Opened(p)
  BY <1>6 DEF Opened
<1>8. \A p, i, s : Found(p, i, s)' <=> Found(p, i, s)
  BY <1>3, <1>6 DEF Found
<1>9. \A s : Below(s)' = Below(s)
  BY DEF Below
<1>10. \A s : Enclosed(s)' <=> Enclosed(s)
  BY <1>9 DEF Enclosed
<1> QED BY <1>1, <1>2, <1>5, <1>7, <1>8, <1>9, <1>10

\* A command starts at the names as they are, bound to no source.
LEMMA WalkInit == Init => WalkInv
<1> SUFFICES ASSUME Init PROVE WalkInv
  OBVIOUS
<1>1. /\ entry \in Worlds /\ changes = 0 /\ single = Single /\ requested \in OutputDirs
      /\ guarded = FALSE /\ source = Nothing /\ canon = <<>> /\ place = <<>> /\ ahead = <<>>
      /\ expected = Nothing /\ pinned = Nothing /\ looked = 0 /\ pc = "start"
  BY DEF Init, PathInit
<1>2. EntryInv
  <2>1. entry \in [Dirs -> [Names -> Nodes]]
    BY <1>1, PathAssumptions
  <2>2. \A d \in Dirs, n \in Names : entry[d][n] \in MayStand(d)
    BY <1>1, PathAssumptions
  <2> QED BY <2>1, <2>2 DEF EntryInv
<1>3. WalkTypes
  <2>1. <<>> \in Seq(Names) /\ Len(<<>>) = 0 /\ 0 \in Nat /\ 0 <= 0
    OBVIOUS
  <2> QED BY <1>1, <1>2, <2>1 DEF WalkTypes
<1>4. StageInv /\ StillInv /\ ExpectInv /\ LookInv /\ OutputOutsideSource
  BY <1>1 DEF StageInv, StillInv, ExpectInv, LookInv, OutputOutsideSource, Ahead
<1> QED BY <1>3, <1>4 DEF WalkInv

WalkSame == UNCHANGED <<names, guarded, source, requested, canon, place, ahead, pins>>

\* A step that changes none of the walk's variables and starts no part of it keeps the
\* invariant.
LEMMA AsideStep ==
    ASSUME WalkInv, WalkSame,
           pc' \in {"canonical", "ancestors", "open", "pinned"} => pc' = pc,
           pc' \in Unbound => pc \in Unbound,
           pc' = "output" => pc' = pc \/ pc \in Unbound
    PROVE  WalkInv'
<1>1. /\ entry' = entry /\ changes' = changes /\ single' = single /\ guarded' = guarded
      /\ source' = source /\ requested' = requested /\ canon' = canon /\ place' = place
      /\ ahead' = ahead /\ expected' = expected /\ pinned' = pinned /\ looked' = looked
      /\ outside' = outside
  BY DEF WalkSame, names, pins
<1>2. WalkTypes'
  BY <1>1, SameNames DEF WalkInv, WalkTypes
<1>3. StageInv'
  BY <1>1 DEF WalkInv, StageInv, Ahead, Unbound
<1>4. StillInv'
  <2>1. StillInv /\ StageInv
    BY DEF WalkInv
  <2>2. pc \in Unbound => ~guarded'
    BY <1>1, <2>1 DEF StageInv
  <2>3. guarded' /\ pc' \in {"canonical", "output", "ancestors"} => pc' = pc
    BY <2>2
  <2> QED BY <1>1, <2>1, <2>3, SameNames DEF StillInv
<1>5. ExpectInv' /\ OutputOutsideSource'
  BY <1>1, SameNames DEF WalkInv, ExpectInv, OutputOutsideSource
<1>6. LookInv'
  <2>1. LookInv /\ (pc' \in {"ancestors", "open"} => pc' = pc)
    BY DEF WalkInv
  <2> QED BY <1>1, <2>1, SameNames DEF LookInv
<1> QED BY <1>2, <1>3, <1>4, <1>5, <1>6 DEF WalkInv

\* The source is bound before any name has changed, or after.
LEMMA BindStep == ASSUME WalkInv, PinWorkspace PROVE WalkInv'
<1>1. /\ pc = "pin" /\ pc' = "canonical" /\ guarded' = TRUE
      /\ source' = Opened(SourcePath) /\ source' \in Dirs
      /\ entry' = entry /\ changes' = changes /\ single' = single
      /\ requested' = requested /\ canon' = canon /\ place' = place
      /\ ahead' = ahead /\ expected' = expected /\ pinned' = pinned /\ looked' = looked
      /\ outside' = outside
  BY DEF PinWorkspace, PinSource, names, pins
<1>2. expected = Nothing /\ pinned = Nothing /\ looked = 0
  BY <1>1 DEF WalkInv, StageInv, Ahead, Unbound
<1>3. WalkTypes'
  BY <1>1, SameNames DEF WalkInv, WalkTypes
<1>4. StageInv'
  BY <1>1, <1>2 DEF StageInv, Ahead, Unbound
<1>5. StillInv'
  <2>1. changes = 0 => (single => Single)
    BY DEF WalkInv, StillInv
  <2>2. Opened(SourcePath)' = source'
    BY <1>1, SameNames
  <2> QED BY <1>1, <2>1, <2>2, SameNames DEF StillInv
<1>6. ExpectInv'
  BY <1>1, <1>2 DEF ExpectInv
<1>7. LookInv' /\ OutputOutsideSource'
  BY <1>1, <1>2 DEF LookInv, OutputOutsideSource
<1> QED BY <1>3, <1>4, <1>5, <1>6, <1>7 DEF WalkInv

\* Another program changes a name: nothing that was compared or looked at counts any more.
LEMMA ChangeStep ==
    ASSUME WalkInv, Restless, NEW altered, Change(altered),
           altered \in [Dirs -> [Names -> Nodes]],
           \A d \in Dirs, n \in Names : altered[d][n] \in MayStand(d)
    PROVE  WalkInv'
<1>1. /\ pc \in {"canonical", "output", "ancestors", "open"} /\ pc' = pc
      /\ entry' = altered /\ changes' = changes + 1 /\ single' = single /\ guarded' = guarded
      /\ source' = source /\ requested' = requested /\ canon' = canon /\ place' = place
      /\ ahead' = ahead /\ expected' = expected /\ pinned' = pinned /\ looked' = looked
      /\ outside' = outside
  BY DEF Restless, Change, pins
<1>2. EntryInv'
  BY <1>1 DEF EntryInv, MayStand
<1>3. WalkTypes /\ StageInv /\ ExpectInv
  BY DEF WalkInv
<1>4. changes' # 0 /\ changes' # looked' /\ WalkTypes'
  BY <1>1, <1>2, <1>3 DEF WalkTypes
<1>5. StageInv' /\ ExpectInv' /\ pinned' = Nothing
  BY <1>1, <1>3 DEF StageInv, ExpectInv, Ahead, Unbound
<1>6. StillInv' /\ LookInv' /\ OutputOutsideSource'
  BY <1>1, <1>4, <1>5 DEF StillInv, LookInv, OutputOutsideSource
<1> QED BY <1>4, <1>5, <1>6 DEF WalkInv

\* Whatever another program does to the names is such a change.
LEMMA OthersStep == ASSUME WalkInv, Others PROVE WalkInv'
<1>1. EntryInv
  BY DEF WalkInv, WalkTypes
<1>2. Restless /\ (Replace(Fitting) \/ Rename(Fitting))
  BY DEF Others
<1>3. \A x, d : <<x, d>> \in Fitting => x \in Nodes /\ x \in MayStand(d)
  BY DEF Fitting
<1>4. CASE Replace(Fitting)
  <2>1. PICK d \in Dirs, n \in Names, x \in Nodes :
            <<x, d>> \in Fitting /\ Change([entry EXCEPT ![d][n] = x])
    BY <1>4 DEF Replace
  <2> DEFINE altered == [entry EXCEPT ![d][n] = x]
  <2>2. altered \in [Dirs -> [Names -> Nodes]]
    BY <1>1, <2>1 DEF EntryInv
  <2>3. \A e \in Dirs, m \in Names : altered[e][m] = IF e = d /\ m = n THEN x ELSE entry[e][m]
    BY <1>1 DEF EntryInv
  <2>4. \A e \in Dirs, m \in Names : altered[e][m] \in MayStand(e)
    <3> HIDE DEF altered
    <3> QED BY <1>1, <1>3, <2>1, <2>3 DEF EntryInv
  <2>5. Change(altered)
    BY <2>1
  <2> HIDE DEF altered
  <2> QED BY <1>2, <2>2, <2>4, <2>5, ChangeStep
<1>5. CASE Rename(Fitting)
  <2>1. PICK d \in Dirs, e \in Dirs, n \in Names, m \in Names :
            /\ <<entry[d][n], e>> \in Fitting
            /\ \E left \in {Nothing, entry[e][m]} :
                  /\ <<left, d>> \in Fitting
                  /\ Change([entry EXCEPT ![d][n] = left, ![e][m] = entry[d][n]])
    BY <1>5 DEF Rename
  <2>2. PICK left \in {Nothing, entry[e][m]} :
            /\ <<left, d>> \in Fitting
            /\ Change([entry EXCEPT ![d][n] = left, ![e][m] = entry[d][n]])
    BY <2>1
  <2> DEFINE moved == [entry EXCEPT ![d][n] = left]
             altered == [moved EXCEPT ![e][m] = entry[d][n]]
  <2>3. left \in Nodes /\ left \in MayStand(d)
        /\ entry[d][n] \in Nodes /\ entry[d][n] \in MayStand(e)
    BY <1>3, <2>1, <2>2
  <2>4. moved \in [Dirs -> [Names -> Nodes]]
    BY <1>1, <2>3 DEF EntryInv
  <2>5. \A f \in Dirs, k \in Names :
            moved[f][k] = IF f = d /\ k = n THEN left ELSE entry[f][k]
    BY <1>1 DEF EntryInv
  <2>6. Change(altered)
    BY <2>2
  <2> HIDE DEF moved
  <2>7. altered \in [Dirs -> [Names -> Nodes]]
    BY <2>3, <2>4
  <2>8. \A f \in Dirs, k \in Names :
            altered[f][k] = IF f = e /\ k = m THEN entry[d][n] ELSE moved[f][k]
    BY <2>4
  <2> HIDE DEF altered
  <2>9. \A f \in Dirs, k \in Names : altered[f][k] \in MayStand(f)
    BY <1>1, <2>3, <2>5, <2>8 DEF EntryInv
  <2> QED BY <1>2, <2>6, <2>7, <2>9, ChangeStep
<1> QED BY <1>2, <1>4, <1>5

\* The source's path is taken once more, while its directory is already held.
LEMMA ResolveSourceStep == ASSUME WalkInv, ResolveSource PROVE WalkInv'
<1>1. /\ pc = "canonical" /\ pc' = "output" /\ Opened(SourcePath) \in Dirs
      /\ canon' = Canonical(SourcePath)
      /\ entry' = entry /\ changes' = changes /\ single' = single /\ guarded' = guarded
      /\ source' = source /\ requested' = requested /\ place' = place
      /\ ahead' = ahead /\ expected' = expected /\ pinned' = pinned /\ looked' = looked
      /\ outside' = outside
  BY DEF ResolveSource, names, pins
<1>2. WalkTypes /\ StageInv /\ StillInv /\ ExpectInv
  BY DEF WalkInv
<1>3. canon' \in Seq(Names) /\ Plain(canon') = Opened(SourcePath)
  <2>1. SourcePath \in Seq(Names) /\ EntryInv
    BY <1>2, PathAssumptions DEF WalkTypes
  <2> QED BY <1>1, <2>1, CanonicalIsPlain
<1>4. WalkTypes'
  BY <1>1, <1>2, <1>3, SameNames DEF WalkTypes
<1>5. StageInv' /\ ExpectInv' /\ LookInv' /\ OutputOutsideSource'
  BY <1>1, <1>2 DEF StageInv, ExpectInv, LookInv, OutputOutsideSource, Ahead, Unbound
<1>6. StillInv'
  <2>1. changes = 0 /\ guarded => Opened(SourcePath) = source
    BY <1>1, <1>2 DEF StillInv
  <2>2. \A c \in Seq(Names) : canon' = c /\ changes = 0 /\ guarded => Plain(c) = source
    BY <1>3, <2>1
  <2>3. changes = 0 /\ single => Single
    BY <1>2 DEF StillInv
  <2> QED BY <1>1, <2>2, <2>3, SameNames DEF StillInv
<1> QED BY <1>4, <1>5, <1>6 DEF WalkInv

\* The output's parent is resolved, and its path compared with the source's.
LEMMA ResolveOutputStep == ASSUME WalkInv, ResolveOutput PROVE WalkInv'
<1>1. /\ pc = "output" /\ pc' = "ancestors" /\ Opened(requested) \in Dirs
      /\ place' = Canonical(requested) /\ ahead' = place'
      /\ guarded => Apart(canon, Append(place', OutputName))
      /\ entry' = entry /\ changes' = changes /\ single' = single /\ guarded' = guarded
      /\ source' = source /\ requested' = requested /\ canon' = canon
      /\ expected' = expected /\ pinned' = pinned /\ looked' = looked
      /\ outside' = outside
  BY DEF ResolveOutput, names, pins
<1>2. WalkTypes /\ StageInv /\ StillInv /\ ExpectInv
  BY DEF WalkInv
<1>3. place' \in Seq(Names) /\ Plain(place') = Opened(requested)
  <2>1. requested \in Seq(Names) /\ EntryInv
    BY <1>2, PathAssumptions DEF WalkTypes
  <2> QED BY <1>1, <2>1, CanonicalIsPlain
<1>4. WalkTypes'
  BY <1>1, <1>2, <1>3, SameNames DEF WalkTypes
<1>5. expected = Nothing /\ looked = 0 /\ pinned = Nothing
  BY <1>1, <1>2 DEF StageInv, Ahead
<1>6. StageInv' /\ ExpectInv' /\ OutputOutsideSource'
  BY <1>1, <1>2, <1>5 DEF StageInv, ExpectInv, OutputOutsideSource, Ahead, Unbound
<1>7. StillInv'
  <2>1. \A c \in Seq(Names) : canon = c /\ changes = 0 /\ guarded => Plain(c) = source
    BY <1>1, <1>2 DEF StillInv
  <2>2. \A c, p \in Seq(Names) : guarded /\ canon = c /\ place' = p =>
            Plain(p) \in Dirs /\ Apart(c, Append(p, OutputName))
    BY <1>1, <1>3
  <2>3. changes = 0 /\ single => Single
    BY <1>2 DEF StillInv
  <2> QED BY <1>1, <2>1, <2>2, <2>3, SameNames DEF StillInv
<1>8. LookInv'
  <2>1. \A i \in (Len(ahead') + 1)..Len(place') : FALSE
    BY <1>1, <1>3
  <2>2. pc' # "open"
    BY <1>1
  <2> QED BY <2>1, <2>2 DEF LookInv
<1> QED BY <1>4, <1>6, <1>7, <1>8 DEF WalkInv

\* One ancestor is looked at, the parent first.
LEMMA CheckAncestorStep == ASSUME WalkInv, CheckAncestor PROVE WalkInv'
<1>1. /\ pc = "ancestors" /\ Safe(Lstat(ahead))
      /\ entry' = entry /\ changes' = changes /\ single' = single /\ guarded' = guarded
      /\ source' = source /\ requested' = requested /\ canon' = canon /\ place' = place
      /\ pinned' = pinned
  BY DEF CheckAncestor, names
<1>2. \/ /\ ahead = place /\ expected' = Lstat(ahead) /\ looked' = changes
         /\ outside' = IF guarded THEN Dirs \ Below(source) ELSE {}
      \/ /\ ahead # place /\ expected' = expected /\ looked' = looked
         /\ outside' = outside
  BY DEF CheckAncestor
<1>3. \/ ahead = <<>> /\ pc' = "open" /\ ahead' = ahead
      \/ ahead # <<>> /\ pc' = "ancestors" /\ ahead' = Front(ahead)
  BY <1>1 DEF CheckAncestor
<1>4. WalkTypes /\ StageInv /\ StillInv /\ ExpectInv /\ LookInv /\ pinned = Nothing
  BY <1>1 DEF WalkInv, StageInv
<1>5. /\ EntryInv /\ ahead \in Seq(Names) /\ place \in Seq(Names) /\ Len(ahead) <= Len(place)
      /\ \A j \in 1..Len(ahead) : ahead[j] = place[j]
      /\ changes \in Nat /\ looked \in Nat /\ looked <= changes /\ guarded \in BOOLEAN
      /\ guarded => source \in Dirs
  BY <1>4 DEF WalkTypes
<1>6. Lstat(ahead) \in Dirs /\ (guarded => Lstat(ahead) # source)
  BY <1>1 DEF Safe
<1>7. ahead # <<>> =>
        /\ Lstat(ahead) = ResolvedTo(place)[Len(ahead)].node
        /\ Lstat(ahead) = Child(ResolvedTo(place)[Len(ahead) - 1].node, place[Len(ahead)])
        /\ Front(ahead) \in Seq(Names) /\ Len(Front(ahead)) = Len(ahead) - 1
        /\ \A j \in 1..Len(Front(ahead)) : Front(ahead)[j] = place[j]
  BY <1>5, <1>6, LookAtAncestor
<1>8. ahead = <<>> => Lstat(ahead) = Top
  BY DEF Lstat
<1>9. ahead = place => Lstat(ahead) = Opened(place)
  <2>1. CASE ahead = <<>>
    <3>1. ahead = place => Len(place) = 0
      BY <2>1
    <3> QED BY <1>5, <1>8, <2>1, <3>1, ResolvedUnfolds DEF Opened
  <2>2. CASE ahead # <<>>
    BY <1>7, <2>2 DEF Opened
  <2> QED BY <2>1, <2>2
<1>10. WalkTypes'
  <2>1. /\ ahead' \in Seq(Names) /\ Len(ahead') <= Len(place)
        /\ \A j \in 1..Len(ahead') : ahead'[j] = place[j]
    BY <1>3, <1>5, <1>7
  <2>2. looked' \in Nat /\ looked' <= changes
    BY <1>2, <1>5
  <2> QED BY <1>1, <1>4, <2>1, <2>2, SameNames DEF WalkTypes
<1>11. StageInv' /\ OutputOutsideSource'
  BY <1>1, <1>3, <1>4 DEF StageInv, OutputOutsideSource, Ahead, Unbound
<1>12. StillInv'
  BY <1>1, <1>3, <1>4, SameNames DEF StillInv
<1>13. ExpectInv'
  <2>1. CASE ahead # place
    BY <1>1, <1>2, <1>4, <2>1 DEF ExpectInv
  <2>2. CASE ahead = place
    <3> SUFFICES ASSUME guarded, changes = 0, single
                 PROVE  expected' \in Dirs /\ expected' \notin Below(source)
      BY <1>1, <1>2, <2>2 DEF ExpectInv
    <3>1. Single /\ Plain(canon) = source /\ Plain(place) \in Dirs
          /\ Apart(canon, Append(place, OutputName)) /\ canon \in Seq(Names)
      BY <1>1, <1>4 DEF StillInv, WalkTypes
    <3>2. expected' = Plain(place)
      BY <1>2, <1>5, <1>9, <2>2, <3>1, PlainIsOpened
    <3> QED BY <1>5, <3>1, <3>2, OutsideByNames
  <2> QED BY <2>1, <2>2
<1>14. LookInv'
  <2> SUFFICES ASSUME guarded, changes = looked'
               PROVE  /\ \A p \in Seq(Names), s \in Dirs : place = p /\ source = s =>
                            \A i \in (Len(ahead') + 1)..Len(p) : Found(p, i, s)
                      /\ pc' = "open" => Top # source
    BY <1>1, SameNames DEF LookInv
  <2>1. \A i \in (Len(ahead) + 1)..Len(place) : Found(place, i, source)
    <3>1. CASE ahead = place
      BY <1>5, <3>1
    <3>2. CASE ahead # place
      BY <1>1, <1>2, <1>4, <1>5, <3>2 DEF LookInv
    <3> QED BY <3>1, <3>2
  <2>2. pc' = "open" => Top # source
    BY <1>3, <1>6, <1>8
  <2>3. \A i \in (Len(ahead') + 1)..Len(place) : Found(place, i, source)
    <3>1. CASE ahead = <<>>
      BY <1>3, <2>1, <3>1
    <3>2. CASE ahead # <<>>
      <4>1. Len(ahead') = Len(ahead) - 1 /\ Len(ahead) \in Nat
        BY <1>3, <1>5, <1>7, <3>2
      <4>2. \A i \in (Len(ahead') + 1)..Len(place) :
                i = Len(ahead) \/ i \in (Len(ahead) + 1)..Len(place)
        BY <1>5, <4>1
      <4>3. Found(place, Len(ahead), source)
        BY <1>6, <1>7, <3>2 DEF Found
      <4> QED BY <2>1, <4>2, <4>3
    <3> QED BY <3>1, <3>2
  <2> QED BY <2>2, <2>3
<1> QED BY <1>10, <1>11, <1>12, <1>13, <1>14 DEF WalkInv

\* The parent that is opened is the one that was looked at.
LEMMA PinParentStep == ASSUME WalkInv, PinParent PROVE WalkInv'
<1>1. /\ pc = "open" /\ pc' = "pinned" /\ Same(Opened(place)) /\ pinned' = Opened(place)
      /\ entry' = entry /\ changes' = changes /\ single' = single /\ guarded' = guarded
      /\ source' = source /\ requested' = requested /\ canon' = canon /\ place' = place
      /\ ahead' = ahead /\ expected' = expected /\ looked' = looked
      /\ outside' = outside
  BY DEF PinParent, names
<1>2. WalkTypes /\ StageInv /\ StillInv /\ ExpectInv /\ LookInv
  BY DEF WalkInv
<1>3. WalkTypes'
  BY <1>1, <1>2, SameNames DEF WalkTypes
<1>4. StageInv' /\ ExpectInv' /\ LookInv'
  BY <1>1, <1>2 DEF StageInv, ExpectInv, LookInv, Ahead, Unbound
<1>5. StillInv'
  BY <1>1, <1>2, SameNames DEF StillInv
<1>6. OutputOutsideSource'
  <2>1. ASSUME guarded, changes = looked, Enclosed(source)
        PROVE  pinned' \notin Below(source)
    <3>1. /\ Top # source /\ ahead = <<>> /\ source \in Dirs /\ place \in Seq(Names)
          /\ EntryInv /\ Enclosed(source)
      BY <1>1, <1>2, <2>1 DEF LookInv, StageInv, WalkTypes
    <3>2. \A i \in (Len(ahead) + 1)..Len(place) : Found(place, i, source)
      BY <1>1, <1>2, <2>1, <3>1 DEF LookInv
    <3>3. \A i \in 1..Len(place) : Found(place, i, source)
      BY <3>1, <3>2
    <3> QED BY <1>1, <3>1, <3>3, OutsideByLooks
  <2>2. ASSUME guarded, looked = 0, single PROVE pinned' \in outside
    <3>1. pinned' = expected /\ expected \in Dirs
      BY <1>1 DEF Same
    <3>2. expected # Nothing
      BY <3>1, PathAssumptions
    <3> QED BY <1>2, <2>2, <3>1, <3>2 DEF ExpectInv
  <2> QED BY <1>1, <2>1, <2>2, SameNames DEF OutputOutsideSource
<1> QED BY <1>3, <1>4, <1>5, <1>6 DEF WalkInv

\* Every other step of a command leaves the walk as it is.
LEMMA DispatchAside == ASSUME WalkInv, Dispatch \/ Reject PROVE WalkInv'
<1>1. WalkSame /\ pc = "start" /\ pc' \in {"ended", "elsewhere", "pin", "stream", "audit"}
  BY DEF Dispatch, Reject, DispatchTo, Branch, Continue, End, Goto, WalkSame
<1> QED BY <1>1, AsideStep DEF Unbound

\* One source: the audit and the comparison come before the walk.
LEMMA AuditAside == ASSUME WalkInv, AuditSource \/ CompareTexts PROVE WalkInv'
<1>1. /\ WalkSame /\ pc \in {"audit", "compare"}
      /\ pc' \in {"create", "print", "compare", "output", "ended"}
  BY DEF AuditSource, CompareTexts, Continue, End, Goto, WalkSame
<1> QED BY <1>1, AsideStep DEF Unbound

\* Refusals, deliveries and a crash come after it.
LEMMA DeliveryAside ==
    ASSUME WalkInv,
           \/ Refuse \/ PinWorkspaceFails \/ CreateReport \/ CreateRefused
           \/ StreamRecord \/ StreamStops \/ CloseReport \/ NoReport \/ RemoveReport
           \/ SettleDirectory \/ PrintReport \/ CreateFile \/ FillReport
           \/ MakeBundle \/ PublishFile \/ RollBackFile \/ CloseBundle
           \/ RemoveBundle \/ Crash
    PROVE  WalkInv'
<1> DEFINE After == {"refused", "ended", "stream", "finish", "settle", "remove", "fill", "rmdir",
                     "publish", "rollback", "present", "dead"}
<1>1. WalkSame
  BY DEF WalkSame, Refuse, PinWorkspaceFails, CreateReport, CreateRefused, StreamRecord,
     StreamStops, CloseReport, CloseCall, NoReport, RemoveReport, SettleDirectory, PrintReport,
     CreateFile, FillReport, MakeBundle, PublishFile, RollBackFile, CloseBundle, RemoveBundle,
     Crash, Continue, End, Goto
<1>2. pc' \in After
  BY DEF Refuse, PinWorkspaceFails, CreateReport, CreateRefused, StreamRecord,
     StreamStops, CloseReport, CloseCall, NoReport, RemoveReport, SettleDirectory, PrintReport,
     CreateFile, FillReport, MakeBundle, PublishFile, RollBackFile, CloseBundle, RemoveBundle,
     Crash, Continue, End, Goto
<1> QED BY <1>1, <1>2, AsideStep DEF Unbound

\* Every step of a command or of another program keeps the walk's invariant.
LEMMA WalkInvStep == WalkInv /\ [Next]_vars => WalkInv'
<1>1. ASSUME WalkInv, Next PROVE WalkInv'
  BY <1>1, DispatchAside, AuditAside, DeliveryAside, BindStep, OthersStep, ResolveSourceStep,
     ResolveOutputStep, CheckAncestorStep, PinParentStep
     DEF Next, WalkPath, PathSteps, Interfere
<1>2. ASSUME WalkInv, UNCHANGED vars PROVE WalkInv'
  <2>1. WalkSame /\ pc' = pc
    BY <1>2 DEF vars, pathVars, WalkSame, names, pins
  <2> QED BY <1>2, <2>1, AsideStep
<1> QED BY <1>1, <1>2

\* When the output's parent has been opened, it is neither the source directory nor in it
\* if the names have not changed since it was looked at and nothing of the source is
\* mounted elsewhere; and if the names changed only after that look, and gave no directory
\* a second one before, it is a directory that was outside then (corpusOutputParent).
THEOREM OutputIsOutside == Spec => []OutputOutsideSource
<1>1. Spec => []WalkInv
  BY WalkInit, WalkInvStep, PTL DEF Spec
<1>2. WalkInv => OutputOutsideSource
  BY DEF WalkInv
<1> QED BY <1>1, <1>2, PTL

=============================================================================
