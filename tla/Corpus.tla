------------------------------ MODULE Corpus ------------------------------
(***************************************************************************)
(* The corpus executor, run of internal/corpus/run.go: it discovers the    *)
(* entries of a pinned root, audits the candidates one after another under *)
(* a shared acquisition budget, tells an observer about every entry, and   *)
(* streams a header, one record per entry and a summary to a writer.  The  *)
(* summary is the completion marker.                                       *)
(*                                                                         *)
(* The context can be canceled or time out between any two steps, the      *)
(* writer can fail or run out of its byte budget, and the observer can     *)
(* refuse an entry.  An audit is one step, which returns what NativeAudit  *)
(* can return (Outcomes) and reads what Acquisition can read (Charges).    *)
(***************************************************************************)
EXTENDS Naturals, Sequences, FiniteSets, Outcomes

CONSTANTS
  Plans,             \* the sorted entries a discovery may find
  Schemas,           \* subset of {"1.0", "2.0"}
  InputBytes,        \* options.InputBytes, the per-file ceiling
  AcquisitionBytes,  \* options.AcquisitionBytes, capped
  OutputBytes,       \* options.OutputBytes, capped
  RecordBytes,       \* the lengths a serialized record may have
  Severities         \* the exit codes of finished audits, subset of 0..3

States == {"no_reported_findings", "requires_review", "unsupported", "failed",
           "skipped", "canceled"}
Audited == {"no_reported_findings", "requires_review"}
Incomplete == {"failed", "unsupported", "canceled"}

ASSUME CorpusAssumptions ==
  /\ Plans \subseteq Seq({"candidate", "skipped", "failed"})
  /\ Schemas \subseteq {"1.0", "2.0"}
  /\ InputBytes \in Nat \ {0}
  /\ AcquisitionBytes \in Nat \ {0, 1}
  /\ OutputBytes \in Nat \ {0}
  /\ RecordBytes \subseteq Nat \ {0}
  /\ Severities \subseteq 0..3

VARIABLES
  stage,      \* where run stands; "returned" at the end
  ctx,        \* the context: live, canceled or timeout
  schema,
  observed,   \* an observer is set
  plan,       \* discovered.Entries: their states, in path order
  at,         \* the entry being handled
  remaining,  \* remainingInput
  audit,      \* what the audit of this entry returned
  item,       \* the record of this entry
  exit,
  snapshot,   \* the observer will be given source and native report
  stream,     \* the records the writer has accepted
  room,       \* stream.remaining
  summary,
  err,        \* the error run returns
  visits,     \* what the observer was told, and what it answered
  late        \* audits that read the source although the context was done

vars == <<stage, ctx, schema, observed, plan, at, remaining, audit, item, exit,
          snapshot, stream, room, summary, err, visits, late>>
loopVars == <<at, remaining, audit, item, exit, snapshot, visits, late>>
fixed == <<schema, observed>>

NoAudit == [failure |-> "none", exit |-> 0, report |-> "ok"]
NoItem == [state |-> "skipped", reason |-> "", report |-> FALSE]
NewSummary == [state |-> "completed", reason |-> "", complete |-> FALSE, entries |-> 0,
               counts |-> [s \in States |-> 0], exit |-> 0]

Init ==
  /\ stage = "header"
  /\ ctx = "live"
  /\ schema \in Schemas
  /\ observed \in BOOLEAN
  /\ plan = <<>>
  /\ at = 1
  /\ remaining = AcquisitionBytes
  /\ audit = NoAudit
  /\ item = NoItem
  /\ exit = 0
  /\ snapshot = FALSE
  /\ stream = <<>>
  /\ room = OutputBytes
  /\ summary = NewSummary
  /\ err = "none"
  /\ visits = <<>>
  /\ late = 0

---------------------------------------------------------------------------
\* streamWriter.emit

Header == [type |-> "header", state |-> "", reason |-> "", report |-> FALSE]
EntryRecord == [type |-> "entry", state |-> item.state, reason |-> item.reason,
                report |-> item.report]
SummaryRecord == [type |-> "summary", state |-> summary.state,
                  reason |-> summary.reason, report |-> FALSE]

Emit(record) ==
  \E n \in RecordBytes :
    /\ n <= room
    /\ stream' = Append(stream, record)
    /\ room' = room - n

\* A record over the budget is not written; a write may fail or be short.
EmitFails ==
  /\ \/ \E n \in RecordBytes : n > room /\ err' = "output_limit"
     \/ err' = "write_failed"
  /\ UNCHANGED <<stream, room>>

Return == stage' = "returned"

---------------------------------------------------------------------------
\* Before the loop.

EmitHeader ==
  /\ stage = "header"
  /\ \/ Emit(Header) /\ stage' = "open" /\ UNCHANGED err
     \/ EmitFails /\ Return
  /\ UNCHANGED <<ctx, plan, summary, fixed, loopVars>>

Ended(c) == IF c = "timeout" THEN "execution.timeout" ELSE "execution.canceled"

\* finishFailure: nothing was discovered; the summary says so.
FinishFailure(state, why) ==
  /\ summary' = [summary EXCEPT !.state = state, !.reason = why, !.exit = 4]
  /\ stage' = "last"
  /\ UNCHANGED plan

\* The context is looked at, the root pinned and everything below it enumerated.
\* Discovery fails as a whole, or reports failed entries; those make it incomplete.
Discover ==
  /\ stage = "open"
  /\ \/ /\ ctx # "live"
        /\ FinishFailure("canceled", Ended(ctx))
     \/ \E why \in {"file.not_found", "execution.resource_limit",
                    "file.changed_during_read"} :
          FinishFailure("failed", why)
     \/ \E found \in Plans :
          /\ ctx = "live"
          /\ plan' = found
          /\ summary' = [summary EXCEPT
               !.complete = \A i \in 1..Len(found) : found[i] # "failed"]
          /\ stage' = IF observed THEN "prepare" ELSE "entry"
  /\ UNCHANGED <<ctx, stream, room, err, fixed, loopVars>>

\* Observer.Prepare
Prepare(ok) ==
  /\ stage = "prepare"
  /\ IF ok THEN stage' = "entry" /\ UNCHANGED err
     ELSE Return /\ err' = "observer"
  /\ UNCHANGED <<ctx, plan, stream, room, summary, fixed, loopVars>>

---------------------------------------------------------------------------
\* One entry.

\* Where an entry's record goes from here.
Reported(to) == stage' = IF observed THEN "visit" ELSE to

\* An entry that needs no audit, or can have none: not a candidate, the context is
\* done, or the acquisition budget is exhausted.
Passed(state, why) ==
  /\ item' = [state |-> state, reason |-> why, report |-> FALSE]
  /\ exit' = IF state \in Incomplete THEN 4 ELSE 0
  /\ snapshot' = FALSE
  /\ Reported("emit")
  /\ UNCHANGED <<at, remaining, audit, visits, late>>

\* Mutant of TakeEntry: a done context is only noticed by the audit itself.
TakeEntryBlindly ==
  /\ stage = "entry"
  /\ at <= Len(plan)
  /\ \/ /\ plan[at] # "candidate"
        /\ Passed(plan[at], "discovery")
     \/ /\ plan[at] = "candidate" /\ remaining <= 1
        /\ Passed("failed", "execution.resource_limit")
     \/ /\ plan[at] = "candidate" /\ remaining > 1
        /\ stage' = "audit"
        /\ UNCHANGED loopVars
  /\ UNCHANGED <<ctx, plan, stream, room, summary, err, fixed>>

\* Mutant of TakeEntry: an exhausted acquisition budget is waited out.
TakeEntryStarving ==
  /\ stage = "entry"
  /\ at <= Len(plan)
  /\ \/ /\ plan[at] # "candidate"
        /\ Passed(plan[at], "discovery")
     \/ /\ plan[at] = "candidate" /\ ctx # "live"
        /\ Passed("canceled", Ended(ctx))
     \/ /\ plan[at] = "candidate" /\ ctx = "live" /\ remaining > 1
        /\ stage' = "audit"
        /\ UNCHANGED loopVars
  /\ UNCHANGED <<ctx, plan, stream, room, summary, err, fixed>>

TakeEntry ==
  /\ stage = "entry"
  /\ at <= Len(plan)
  /\ \/ /\ plan[at] # "candidate"
        /\ Passed(plan[at], "discovery")
     \/ /\ plan[at] = "candidate" /\ ctx # "live"
        /\ Passed("canceled", Ended(ctx))
     \/ /\ plan[at] = "candidate" /\ ctx = "live" /\ remaining <= 1
        /\ Passed("failed", "execution.resource_limit")
     \/ /\ plan[at] = "candidate" /\ ctx = "live" /\ remaining > 1
        /\ stage' = "audit"
        /\ UNCHANGED loopVars
  /\ UNCHANGED <<ctx, plan, stream, room, summary, err, fixed>>

Lesser(a, b) == IF a < b THEN a ELSE b

\* One byte is reserved: a read may take one more than its limit.
AttemptLimit == Lesser(InputBytes, remaining - 1)

\* What an audit that acquired the whole file returns; making its report canonical can
\* still exceed a limit.
Analyses ==
  {o \in AuditOutcomes(schema, Severities, ctx # "live") : o.failure \notin Codes}
  \cup [failure : {"none"}, exit : Severities, report : {"limit"}]
Interrupted == [failure |-> "none", exit |-> 4, report |-> "ok"]

\* The audit: one acquisition and the operations on what it read.  Only schema 2.0
\* looks at the context, between operations, the first time before it reads.
Audit ==
  /\ stage = "audit"
  /\ \/ \E c \in Charges(AttemptLimit, InputBytes) :
          /\ remaining' = remaining - c.charge
          /\ IF c.code = "ok" THEN audit' \in Analyses
             ELSE audit' = [failure |-> c.code, exit |-> 4, report |-> "ok"]
          /\ late' = IF ctx # "live" /\ c.charge > 0 THEN late + 1 ELSE late
     \/ /\ schema = "2.0" /\ ctx # "live"
        /\ audit' = Interrupted
        /\ UNCHANGED <<remaining, late>>
  /\ stage' = "settle"
  /\ UNCHANGED <<ctx, plan, at, item, exit, snapshot, stream, room, summary, err,
                 visits, fixed>>

\* Mutant of Verdict: a report that cannot be built or kept does not make the entry
\* incomplete.
VerdictIgnoringReport ==
  IF audit.failure # "none"
  THEN [state |-> IF audit.failure = "unsupported_format" THEN "unsupported" ELSE "failed",
        reason |-> audit.failure]
  ELSE IF audit.exit = 4
  THEN IF ctx # "live" THEN [state |-> "canceled", reason |-> Ended(ctx)]
       ELSE [state |-> "failed", reason |-> "execution.failed"]
  ELSE [state |-> IF audit.exit > 0 THEN "requires_review" ELSE "no_reported_findings",
        reason |-> ""]

\* The state and reason of the audited entry: a report that cannot be built or kept,
\* then a typed failure, then an audit that stopped, then its findings.
Verdict ==
  IF audit.report # "ok"
  THEN IF ctx # "live" THEN [state |-> "canceled", reason |-> Ended(ctx)]
       ELSE [state |-> "failed",
             reason |-> IF audit.report = "limit" THEN "execution.report_limit"
                        ELSE "execution.failed"]
  ELSE IF audit.failure # "none"
  THEN [state |-> IF audit.failure = "unsupported_format" THEN "unsupported" ELSE "failed",
        reason |-> audit.failure]
  ELSE IF audit.exit = 4
  THEN IF ctx # "live" THEN [state |-> "canceled", reason |-> Ended(ctx)]
       ELSE [state |-> "failed", reason |-> "execution.failed"]
  ELSE [state |-> IF audit.exit > 0 THEN "requires_review" ELSE "no_reported_findings",
        reason |-> ""]

Settle ==
  /\ stage = "settle"
  /\ item' = [state |-> Verdict.state, reason |-> Verdict.reason,
              report |-> audit.report = "ok"]
  /\ exit' = IF Verdict.state \in Incomplete THEN 4 ELSE audit.exit
  /\ snapshot' = (observed /\ Verdict.state \in Audited)
  /\ audit' = NoAudit
  /\ Reported("emit")
  /\ UNCHANGED <<ctx, plan, at, remaining, stream, room, summary, err, visits, late,
                 fixed>>

Replies == {"ok", "source_limit", "error"}
Visited(reply) ==
  visits' = Append(visits, [state |-> item.state, reason |-> item.reason,
                            report |-> item.report, snapshot |-> snapshot,
                            reply |-> reply])

\* Mutant of Visit: the source limit is honoured, but the record still goes out as
\* the audit left it.
VisitKeepingState(reply) ==
  /\ stage = "visit"
  /\ Visited(reply)
  /\ IF reply = "ok" \/ (reply = "source_limit" /\ item.state \in Audited)
     THEN stage' = "emit" /\ UNCHANGED err
     ELSE Return /\ err' = "observer"
  /\ UNCHANGED <<ctx, plan, at, remaining, audit, item, exit, snapshot, stream, room,
                 summary, late, fixed>>

\* Observer.Visit: it may answer that a source it was given successfully exceeds its
\* own limits; any other error ends the run without a summary.
Visit(reply) ==
  /\ stage = "visit"
  /\ Visited(reply)
  /\ \/ /\ reply = "ok"
        /\ stage' = "emit"
        /\ UNCHANGED <<item, exit, err>>
     \/ /\ reply = "source_limit" /\ item.state \in Audited
        /\ item' = [item EXCEPT !.state = "failed", !.reason = "execution.resource_limit"]
        /\ exit' = 4
        /\ stage' = "emit"
        /\ UNCHANGED err
     \/ /\ reply # "ok"
        /\ reply = "source_limit" => item.state \notin Audited
        /\ Return
        /\ err' = "observer"
        /\ UNCHANGED <<item, exit>>
  /\ UNCHANGED <<ctx, plan, at, remaining, audit, snapshot, stream, room, summary, late,
                 fixed>>

\* Mutant of EmitEntry: a record that cannot be written is skipped.
EmitEntrySkipping ==
  /\ stage = "emit"
  /\ \/ /\ Emit(EntryRecord)
        /\ summary' = [summary EXCEPT
             !.entries = @ + 1, !.counts[item.state] = @ + 1,
             !.exit = IF exit > @ THEN exit ELSE @]
     \/ UNCHANGED <<stream, room, summary>>
  /\ at' = at + 1
  /\ stage' = "entry"
  /\ item' = NoItem /\ exit' = 0 /\ snapshot' = FALSE
  /\ UNCHANGED <<ctx, plan, remaining, audit, err, visits, late, fixed>>

EmitEntry ==
  /\ stage = "emit"
  /\ \/ /\ Emit(EntryRecord)
        /\ summary' = [summary EXCEPT
             !.entries = @ + 1, !.counts[item.state] = @ + 1,
             !.exit = IF exit > @ THEN exit ELSE @]
        /\ at' = at + 1
        /\ stage' = "entry"
        /\ UNCHANGED err
     \/ EmitFails /\ Return /\ UNCHANGED <<summary, at>>
  /\ item' = NoItem /\ exit' = 0 /\ snapshot' = FALSE
  /\ UNCHANGED <<ctx, plan, remaining, audit, visits, late, fixed>>

---------------------------------------------------------------------------
\* After the loop.

Conclude ==
  /\ stage = "entry"
  /\ at > Len(plan)
  /\ summary' =
       IF ctx # "live"
       THEN [summary EXCEPT !.state = "canceled", !.reason = Ended(ctx), !.exit = 4]
       ELSE IF ~summary.complete \/ summary.counts["failed"] > 0
                 \/ summary.counts["unsupported"] > 0
       THEN [summary EXCEPT !.state = "partial"]
       ELSE summary
  /\ stage' = "last"
  /\ UNCHANGED <<ctx, plan, stream, room, err, fixed, loopVars>>

EmitSummary ==
  /\ stage = "last"
  /\ \/ Emit(SummaryRecord) /\ UNCHANGED err
     \/ EmitFails
  /\ Return
  /\ UNCHANGED <<ctx, plan, summary, fixed, loopVars>>

---------------------------------------------------------------------------
\* The caller's context ends: a signal or a deadline.
EndContext ==
  /\ stage # "returned"
  /\ ctx = "live"
  /\ ctx' \in {"canceled", "timeout"}
  /\ UNCHANGED <<stage, plan, stream, room, summary, err, fixed, loopVars>>

Steps ==
  \/ EmitHeader \/ Discover \/ TakeEntry \/ Audit \/ Settle \/ EmitEntry
  \/ Conclude \/ EmitSummary
Callbacks == (\E ok \in BOOLEAN : Prepare(ok)) \/ (\E reply \in Replies : Visit(reply))

Next == Steps \/ Callbacks \/ EndContext

\* run is straight-line code and its calls return; nothing obliges the context to end.
Spec == Init /\ [][Next]_vars /\ WF_vars(Steps \/ Callbacks)

---------------------------------------------------------------------------
\* Properties

Delivered == stream # <<>> /\ stream[Len(stream)].type = "summary"
Lines == {i \in 1..Len(stream) : stream[i].type = "entry"}

\* The summary is the completion marker: it is in the stream exactly when run returns
\* without an error, it is last, and then every planned entry has its record before
\* it, in order.  A prefix is never mistaken for a completed scan.
SummaryCompletes ==
  /\ stage = "returned" => (Delivered <=> err = "none")
  /\ Delivered => /\ stage = "returned"
                  /\ Len(stream) = Len(plan) + 2
                  /\ Lines = 2..(Len(plan) + 1)

\* What the summary says is what the stream holds: the counts per state and their
\* sum; and exit code 4 exactly when something failed, is unsupported, was canceled
\* or was not enumerated.
SummaryAgrees ==
  Delivered =>
    /\ \A s \in States : summary.counts[s] = Cardinality({i \in Lines : stream[i].state = s})
    /\ summary.entries = Cardinality(Lines)
    /\ summary.exit = 4 <=>
         \/ summary.state # "completed"
         \/ \E i \in Lines : stream[i].state \in Incomplete
    /\ summary.state = "completed" => \A i \in Lines : stream[i].state \notin Incomplete

\* The summary can be trusted to be there and to be true, and no budget is overdrawn
\* on the way to it (run.go:138, 232 and 247).
SummaryTrue == SummaryCompletes /\ SummaryAgrees /\ remaining >= 0 /\ room >= 0

\* An exit below 4 vouches for every planned candidate: it was audited to the end
\* and its report is in the stream.  A run whose context ended earlier never exits
\* below 4.
LowExitVouches ==
  Delivered /\ summary.exit < 4 =>
    /\ summary.complete
    /\ \A i \in 1..Len(plan) :
         plan[i] = "candidate" => stream[i + 1].state \in Audited /\ stream[i + 1].report

\* Once a candidate is recorded as canceled, so is every later one, and the summary
\* says canceled (run.go:134, 188, 202 and 242 read the context at different times).
CancellationSticks ==
  \A i \in Lines : stream[i].state = "canceled" =>
    /\ \A j \in Lines : j > i /\ plan[j - 1] = "candidate" => stream[j].state = "canceled"
    /\ Delivered => summary.state = "canceled"

\* At most one audit, the one in progress, reads its source after the context ended.
OneLateRead == late <= 1

\* The end of the context is final: nothing after it is read or reported as audited.
EndIsFinal == CancellationSticks /\ OneLateRead

\* The observer and the reader of the stream are told the same: every record in the
\* stream is what the observer was told before, except that a source over the
\* observer's own limit is recorded as failed.  Only audited entries come with a
\* snapshot.
ObserverAgrees ==
  observed =>
    /\ \A i \in Lines :
         LET told == visits[i - 1]
         IN /\ i - 1 <= Len(visits)
            /\ stream[i].report = told.report
            /\ IF told.reply = "source_limit"
               THEN told.state \in Audited /\ stream[i].state = "failed"
               ELSE stream[i].state = told.state /\ stream[i].reason = told.reason
    /\ \A v \in 1..Len(visits) :
         visits[v].snapshot <=> visits[v].state \in Audited

\* run returns, whatever the context, the writer and the observer do.
Returns == <>(stage = "returned")
===========================================================================
