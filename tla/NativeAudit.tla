---------------------------- MODULE NativeAudit ----------------------------
(***************************************************************************)
(* One native audit: inspectWithTrace of internal/audit/audit.go, with the *)
(* trace of trace.go that schema 2.0 keeps, and the report that assembleV2 *)
(* of v2.go builds from the trace and has validated by                     *)
(* internal/evidence/v2 before anything is returned.                       *)
(*                                                                         *)
(* The audit acquires, parses and runs its analyzers in order.  Schema 2.0 *)
(* looks at the context before every operation and reports how far it got. *)
(* The context ends at any moment.  What acquisition reads is Acquisition's*)
(* matter; what an analyzer finds is a choice among small sets.            *)
(***************************************************************************)
EXTENDS Naturals, Sequences, Aggregate, Outcomes

CONSTANTS
  Checks,       \* the analyzers in the order of checks
  Declared,     \* capabilities the catalog only declares, disabled
  FindingSets,  \* what an analyzer may find: sets of [severity, viewed]
  Views         \* subset of {"audit", "filtered"}

Order == <<"acquire", "parse">> \o Checks
Native == {Order[i] : i \in 1..Len(Order)}
Analyzers == {Checks[i] : i \in 1..Len(Checks)}
Operations == Native \cup Declared

Severity == {"HIGH", "MEDIUM", "LOW", "INFO"}
ASSUME NativeAssumptions ==
  /\ Checks \in Seq(STRING)
  /\ "none" \notin Operations
  /\ \A i, j \in 1..Len(Order) : Order[i] = Order[j] => i = j
  /\ Native \cap Declared = {}
  /\ FindingSets \subseteq SUBSET [severity : Severity, viewed : BOOLEAN]
  /\ Views \subseteq {"audit", "filtered"}

VARIABLES
  schema,     \* "2.0" has a trace; "1.0" passes nil
  view, retain, available,  \* options.View, RetainSnapshot, acquisition's availability
  ctx,        \* live, canceled or timeout
  next,       \* the operation at hand, as an index of Order
  phase,      \* before, run, assemble or returned
  completed,  \* trace.completed: findings of the operations that ran to their end
  stopped,    \* trace.canceled and stopReason
  failure,    \* outcome.Failure: stage and code
  acquired,   \* outcome.Report.File.SHA256 is set
  report,     \* the assembled report
  answer      \* what the caller gets: failure, exit, report

vars == <<schema, view, retain, available, ctx, next, phase, completed, stopped,
          failure, acquired, report, answer>>
options == <<schema, view, retain, available>>

None == [stage |-> "none", code |-> "none"]
Running == [op |-> "none", reason |-> "none"]
NoReport == [status |-> "none"]
NoAnswer == [failure |-> "none", exit |-> 0, report |-> "none", snapshot |-> FALSE]

Init ==
  /\ schema \in {"1.0", "2.0"} /\ view \in Views /\ retain \in BOOLEAN
  /\ available \in BOOLEAN /\ (schema = "1.0" => available /\ view = "audit")
  /\ ctx = "live"
  /\ next = 1
  /\ phase = IF available THEN "before" ELSE "assemble"
  /\ completed = [op \in {} |-> {}]
  /\ stopped = Running
  /\ failure = None
  /\ acquired = FALSE
  /\ report = NoReport
  /\ answer = NoAnswer

---------------------------------------------------------------------------
\* The operations.

Op == Order[next]
Parsed == "parse" \in DOMAIN completed
Completes(op, findings) ==
  completed' = [o \in DOMAIN completed \cup {op} |->
                  IF o = op THEN findings ELSE completed[o]]

Proceed ==
  IF next = Len(Order) THEN phase' = "assemble" /\ UNCHANGED next
  ELSE phase' = "before" /\ next' = next + 1

\* trace.before
Before ==
  /\ phase = "before"
  /\ IF schema = "2.0" /\ ctx # "live"
     THEN /\ stopped' = [op |-> Op,
                         reason |-> IF ctx = "timeout" THEN "execution.timeout"
                                    ELSE "execution.canceled"]
          /\ phase' = "assemble"
     ELSE phase' = "run" /\ UNCHANGED stopped
  /\ UNCHANGED <<options, ctx, next, completed, failure, acquired, report, answer>>

Fails(stage, code) ==
  /\ failure' = [stage |-> stage, code |-> code]
  /\ phase' = "assemble"

Acquire ==
  /\ phase = "run" /\ Op = "acquire"
  /\ \/ /\ \E code \in Codes \ {"ok"} : Fails("acquisition", code)
        /\ UNCHANGED <<acquired, completed, next>>
     \/ /\ acquired' = TRUE
        /\ Completes("acquire", {})
        /\ Proceed
        /\ UNCHANGED failure
  /\ UNCHANGED <<options, ctx, stopped, report, answer>>

\* Mutant of Parse: a decoding error is not given a type.
ParseUntyped ==
  /\ phase = "run" /\ Op = "parse"
  /\ \/ /\ phase' = "assemble"
        /\ UNCHANGED <<failure, completed, next, answer>>
     \/ /\ Completes("parse", {})
        /\ Proceed
        /\ UNCHANGED <<failure, answer>>
  /\ UNCHANGED <<options, ctx, stopped, acquired, report>>

\* The format is identified and the text decoded; a text that cannot fit the report's
\* limits ends a traced audit with an error.
Parse ==
  /\ phase = "run" /\ Op = "parse"
  /\ \/ /\ \E code \in {"unsupported_format", "decode_failed"} : Fails("parsing", code)
        /\ UNCHANGED <<completed, next, answer>>
     \/ /\ Completes("parse", {})
        /\ Proceed
        /\ UNCHANGED <<failure, answer>>
     \/ /\ schema = "2.0"
        /\ Completes("parse", {})
        /\ phase' = "returned"
        /\ answer' = [NoAnswer EXCEPT !.report = "limit"]
        /\ UNCHANGED <<failure, next>>
  /\ UNCHANGED <<options, ctx, stopped, acquired, report>>

Analyze ==
  /\ phase = "run" /\ Op \in Analyzers
  /\ \E findings \in FindingSets : Completes(Op, findings)
  /\ Proceed
  /\ UNCHANGED <<options, ctx, stopped, failure, acquired, report, answer>>

---------------------------------------------------------------------------
\* evidence.Rank and the exit code; a failure adds one INFO finding.

Rank(severity) ==
  IF severity = "HIGH" THEN 3 ELSE IF severity = "MEDIUM" THEN 2 ELSE 1
Largest(ranks) == CHOOSE r \in ranks \cup {0} : \A q \in ranks : r >= q

\* What the analyzers of the trace found.
Found == {[op |-> op, severity |-> f.severity, viewed |-> f.viewed] :
            op \in DOMAIN completed, f \in UNION {completed[o] : o \in DOMAIN completed}}
Observed == {f \in Found : [severity |-> f.severity, viewed |-> f.viewed] \in completed[f.op]}

\* Report.Summarize of schema 1.0
LegacyExit ==
  IF failure # None THEN 4 ELSE Largest({Rank(f.severity) : f \in Observed})

---------------------------------------------------------------------------
\* assembleV2

Catalog == [op \in Operations |->
  [role |-> IF op = "acquire" THEN "acquisition" ELSE IF op = "parse" THEN "parser"
            ELSE "analyzer",
   participation |-> IF op \in Declared THEN "disabled" ELSE "required"]]
Scope(op) == IF Parsed /\ op \in Analyzers THEN "text" ELSE "source"

\* Mutant of FailedOperation: every typed failure is taken for the parser's.
FailedOperationParse == IF failure = None THEN "none" ELSE "parse"

FailedOperation ==
  IF failure = None THEN "none"
  ELSE IF failure.stage = "acquisition" THEN "acquire" ELSE "parse"

\* The state, reason and diagnostic of op's execution.
Execution(op) ==
  IF op \in Declared
  THEN [state |-> "not_run", reason |-> "execution.disabled", diagnostic |-> "none"]
  ELSE IF op = "acquire" /\ ~available
  THEN [state |-> "not_run", reason |-> "no_atime_unavailable", diagnostic |-> "none"]
  ELSE IF op = FailedOperation
  THEN [state |-> "failed", reason |-> failure.code, diagnostic |-> failure.code]
  ELSE IF op = stopped.op
  THEN [state |-> IF stopped.reason = "execution.timeout" THEN "failed" ELSE "canceled",
        reason |-> stopped.reason, diagnostic |-> stopped.reason]
  ELSE IF op \in DOMAIN completed
  THEN [state |-> "completed", reason |-> "none", diagnostic |-> "none"]
  ELSE [state |-> "not_run", reason |-> "prerequisite_failed", diagnostic |-> "none"]

\* assembleFindings: what completed operations found, and the failure's own finding,
\* on the execution that failed.
Findings ==
  {[op |-> f.op, id |-> "analysis", severity |-> f.severity, viewed |-> f.viewed] :
     f \in Observed}
  \cup (IF failure = None THEN {}
        ELSE {[op |-> FailedOperation, id |-> "parser.failure", severity |-> "INFO",
               viewed |-> TRUE]})

\* Mutant of Results: every planned analyzer gets its result.
ResultsOfAll == [op \in Analyzers |->
  IF op \in DOMAIN completed /\ completed[op] # {} THEN "observations_present"
  ELSE "no_observations"]

\* Every analyzer that completed has a result, whatever the view shows of it.
Results == [op \in {o \in Analyzers : Execution(o).state = "completed"} |->
  IF completed[op] # {} THEN "observations_present" ELSE "no_observations"]

Assembled ==
  LET executions == [op \in Operations |-> Execution(op)]
  IN [executions |-> executions,
      results |-> Results,
      findings |-> Findings,
      status |-> Status(Catalog, [op \in Operations |-> executions[op].state],
                        DOMAIN Results # {})]

Selected(r) == {f \in r.findings : view = "audit" \/ f.viewed}

\* Report.Recount
Recounted(r) ==
  IF r.status # "completed" THEN 4
  ELSE Largest({Rank(f.severity) : f \in Selected(r)})

\* The checks of Execution.Validate, Graph.Validate and Report.ValidateSemantics
\* that are about states and links.
Valid(r) ==
  /\ \A op \in Operations : LET e == r.executions[op] IN
       /\ Catalog[op].participation = "disabled" =>
            e.state = "not_run" /\ e.reason = "execution.disabled"
       /\ op = "acquire" /\ ~available =>
            e.state = "not_run" /\ e.reason = "no_atime_unavailable"
       /\ e.state = "completed" <=> e.reason = "none"
       /\ e.state = "canceled" => e.reason = "execution.canceled"
       /\ e.state = "failed" => e.diagnostic # "none"
       /\ e.state = "completed" => IF Scope(op) = "text" THEN Parsed ELSE acquired
  /\ \A op \in DOMAIN r.results :
       Catalog[op].role = "analyzer" /\ r.executions[op].state = "completed"
  /\ \A op \in Operations :
       r.executions[op].state = "completed" /\ Catalog[op].role = "analyzer" =>
         op \in DOMAIN r.results
  /\ \A f \in r.findings :
       IF f.id = "parser.failure"
       THEN /\ r.executions[f.op].state = "failed"
            /\ Catalog[f.op].role \in {"acquisition", "parser"}
            /\ r.executions[f.op].diagnostic = failure.code
       ELSE f.op \in DOMAIN r.results /\ r.results[f.op] = "observations_present"

\* Mutant of Retained: an interrupted audit hands its source over too.
RetainedStopped == retain /\ failure = None /\ acquired

\* What RunV2 hands over beside the report: source and native findings.
Retained == retain /\ failure = None /\ stopped = Running /\ acquired

\* assembleV2 and Encode: an error from a limit or the validator, or the report.
Assemble ==
  /\ phase = "assemble" /\ schema = "2.0"
  /\ phase' = "returned"
  /\ \/ /\ Valid(Assembled)
        /\ report' = Assembled
        /\ answer' = [failure |-> failure.code, exit |-> Recounted(Assembled),
                      report |-> "ok", snapshot |-> Retained]
     \/ /\ ~Valid(Assembled)
        /\ answer' = [NoAnswer EXCEPT !.report = "refused"]
        /\ UNCHANGED report
     \/ \* ordering keys, selection digests or the encoding exceed a limit
        /\ \E error \in {"limit", "error"} : answer' = [NoAnswer EXCEPT !.report = error]
        /\ UNCHANGED report
  /\ UNCHANGED <<options, ctx, next, completed, stopped, failure, acquired>>

\* Schema 1.0 returns its report as it stands; the source only if nothing failed.
Summarize ==
  /\ phase = "assemble" /\ schema = "1.0"
  /\ phase' = "returned"
  /\ answer' = [failure |-> failure.code, exit |-> LegacyExit, report |-> "ok",
                snapshot |-> failure = None]
  /\ UNCHANGED <<options, ctx, next, completed, stopped, failure, acquired, report>>

---------------------------------------------------------------------------
EndContext ==
  /\ phase # "returned" /\ ctx = "live"
  /\ ctx' \in {"canceled", "timeout"}
  /\ UNCHANGED <<options, next, phase, completed, stopped, failure, acquired, report,
                 answer>>

Steps == Before \/ Acquire \/ Parse \/ Analyze \/ Assemble \/ Summarize
Next == Steps \/ EndContext
Spec == Init /\ [][Next]_vars

---------------------------------------------------------------------------
\* Properties

Reported == report # NoReport
State(i) == report.executions[Order[i]].state

\* The executions of a report tell the history of the run: in the order in which
\* operations run, a completed prefix, then at most one that failed or was stopped,
\* then only operations that were not reached.  They explain each other: something
\* is missing only behind a failure, a stop or an unavailable reader.
CoverageIsHistory ==
  Reported =>
    \A i \in 1..Len(Order) :
      /\ State(i) = "completed" => Order[i] \in DOMAIN completed
                                   /\ \A j \in 1..i : State(j) = "completed"
      /\ State(i) \in {"failed", "canceled"} => \A j \in 1..(i - 1) : State(j) = "completed"
      /\ State(i) = "not_run" =>
           \/ i = 1 /\ ~available
           \/ i > 1 /\ State(i - 1) # "completed"

\* No run is refused by the report's own validator: whatever was canceled, timed out
\* or failed, what is assembled is a consistent graph.
NeverRefused == answer.report # "refused"

\* Exit 4 says that an enabled operation did not complete, and only that: also in a
\* view that shows no finding, and never because of a disabled declaration.
ExitTellsCoverage ==
  Reported => (answer.exit = 4 <=> \E op \in Native : report.executions[op].state # "completed")

\* The two report schemas agree on the exit code of an audit that was not interrupted.
SchemasAgree ==
  Reported /\ available /\ stopped = Running /\ view = "audit" => answer.exit = LegacyExit

\* The exit code means the same whichever of the places it is computed in
\* (Report.Recount, AggregateStatus, the legacy report).
ExitMeaning == ExitTellsCoverage /\ SchemasAgree

\* Source and findings are handed over exactly when the audit is complete: the reveal
\* observer fails the whole run if an audited entry comes without them
\* (directory_reveal.go:61) and must not get an unfinished one.
SnapshotWithCompletion ==
  Reported /\ retain => (answer.snapshot <=> report.status = "completed")

\* The caller gets one of the outcomes the corpus executor expects.
OutcomeExpected ==
  phase = "returned" /\ available =>
    [failure |-> answer.failure, exit |-> answer.exit, report |-> answer.report]
      \in AuditOutcomes(schema, 0..3, ctx # "live")
=============================================================================
