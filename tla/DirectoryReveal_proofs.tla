---------------------- MODULE DirectoryReveal_proofs ----------------------
(***************************************************************************)
(* Proofs about the corpus executor, for plans of any length, any budgets, *)
(* a writer and an observer that fail at any time and a context that ends  *)
(* at any time; and about the directory reveal that runs it, with an       *)
(* interrupt, a crash or a failing call at any time, and other programs    *)
(* writing into the output root.  Every step of the command is a step of   *)
(* the executor or leaves it alone, so what is shown of the executor holds *)
(* in the command too.                                                     *)
(***************************************************************************)
EXTENDS DirectoryReveal, SequenceTheorems, FiniteSetTheorems, TLAPS

---------------------------------------------------------------------------
(***************************************************************************)
(* The corpus executor (Corpus).                                           *)
(***************************************************************************)
(* The inductive invariant.                                                *)

EntryStates == {"candidate", "skipped", "failed"}
Failures == Codes \cup {"unsupported_format", "decode_failed"}
Reasons == Failures \cup
  {"", "discovery", "execution.timeout", "execution.canceled", "execution.resource_limit",
   "execution.report_limit", "execution.failed", "file.not_found",
   "file.changed_during_read"}
SummaryStates == {"completed", "partial", "failed", "canceled"}
Records == [type : {"header", "entry", "summary"}, state : States \cup SummaryStates \cup {""},
            reason : Reasons, report : BOOLEAN]
Tellings == [state : States, reason : Reasons, report : BOOLEAN, snapshot : BOOLEAN,
             reply : Replies]

Counts == [States -> Nat]
ExitCodes == 0..4
Summaries == [state : SummaryStates, reason : Reasons, complete : BOOLEAN, entries : Nat,
              counts : Counts, exit : ExitCodes]

TypeInv ==
  /\ stage \in {"header", "open", "prepare", "entry", "audit", "settle", "visit", "emit",
                "last", "returned"}
  /\ ctx \in {"live", "canceled", "timeout"}
  /\ schema \in {"1.0", "2.0"} /\ observed \in BOOLEAN
  /\ plan \in Seq(EntryStates)
  /\ at \in Nat \ {0} /\ remaining \in Nat /\ room \in Nat /\ late \in Nat
  /\ audit \in [failure : Failures \cup {"none"}, exit : 0..4, report : {"ok", "limit", "error"}]
  /\ item \in [state : States, reason : Reasons, report : BOOLEAN]
  /\ exit \in 0..4 /\ snapshot \in BOOLEAN
  /\ stream \in Seq(Records) /\ visits \in Seq(Tellings)
  /\ summary \in Summaries
  /\ err \in {"none", "output_limit", "write_failed", "observer"}

Loop == {"prepare", "entry", "audit", "settle", "visit", "emit"}
Pending == stage \in {"visit", "emit"}

\* The stream is a header, one record for each entry up to the one at hand, and a
\* summary only after all of them.
StreamInv ==
  /\ \A i \in 1..Len(stream) :
       stream[i].type = IF i = 1 THEN "header" ELSE IF i = Len(plan) + 2 THEN "summary"
                        ELSE "entry"
  /\ stage \in {"header", "open"} => plan = <<>> /\ visits = <<>> /\ at = 1
  /\ stage = "header" => Len(stream) = 0
  /\ stage = "open" => Len(stream) = 1
  /\ stage \in Loop => Len(stream) = at /\ at <= Len(plan) + 1
  /\ stage \in {"audit", "settle", "visit", "emit"} => at <= Len(plan)
  /\ stage = "last" => Len(stream) = Len(plan) + 1
  /\ stage # "returned" => err = "none"
  /\ stage = "returned" => IF err = "none" THEN Len(stream) = Len(plan) + 2
                           ELSE Len(stream) <= Len(plan) + 1

\* A state and a report flag that an entry of the plan can end with.
Fits(entry, state, reported) ==
  IF entry = "candidate" THEN state \in Incomplete \/ (state \in Audited /\ reported)
  ELSE state = entry

\* Every record fits its entry; so does the record still to be written.
LineInv ==
  /\ \A i \in Lines : Fits(plan[i - 1], stream[i].state, stream[i].report)
  /\ Pending => Fits(plan[at], item.state, item.report) /\ (exit = 4 <=> item.state \in Incomplete)
  /\ stage \in {"audit", "settle"} => plan[at] = "candidate"

\* The summary counts what the stream holds, and remembers the worst of it.
CountInv ==
  /\ \A s \in States : summary.counts[s] = Cardinality({i \in Lines : stream[i].state = s})
  /\ summary.entries = Cardinality(Lines)

HasIncomplete == \E i \in Lines : stream[i].state \in Incomplete

ExitInv ==
  /\ stage \in Loop =>
       /\ summary.complete <=> \A i \in 1..Len(plan) : plan[i] # "failed"
       /\ summary.exit = 4 <=> HasIncomplete
  /\ stage \in {"header", "open"} => summary.exit # 4
  /\ stage \in {"header", "open"} \cup Loop => summary.state = "completed"
  /\ stage = "last" \/ Delivered =>
       /\ summary.exit = 4 <=> summary.state # "completed" \/ HasIncomplete
       /\ summary.state = "completed" => summary.complete /\ ~HasIncomplete

\* Nothing is canceled but by the context, and after that only canceled candidates follow.
CancelInv ==
  /\ ctx = "live" => \A i \in Lines : stream[i].state # "canceled"
  /\ Pending /\ item.state = "canceled" => ctx # "live"
  /\ \A i, j \in Lines :
       stream[i].state = "canceled" /\ j > i /\ plan[j - 1] = "candidate" =>
         stream[j].state = "canceled"
  /\ (\E i \in Lines : stream[i].state = "canceled") =>
       /\ stage \notin {"audit", "settle"}
       /\ Pending /\ plan[at] = "candidate" => item.state = "canceled"
       /\ stage = "last" \/ Delivered => summary.state = "canceled"

LateInv ==
  late <= 1 /\ (late = 1 => ctx # "live" /\ stage # "audit")

BudgetInv == stage = "audit" => remaining > 1

\* What the observer was told and the record it became.
Became(told, state, reason, reported) ==
  /\ reported = told.report
  /\ IF told.reply = "source_limit" THEN told.state \in Audited /\ state = "failed"
     ELSE state = told.state /\ reason = told.reason

ObserverInv ==
  observed =>
    /\ stage \in Loop \ {"emit"} => Len(visits) = at - 1
    /\ stage = "emit" => /\ Len(visits) = at
                         /\ Became(visits[at], item.state, item.reason, item.report)
    /\ stage = "visit" => (snapshot <=> item.state \in Audited)
    /\ stage \notin Loop => \A i \in Lines : i - 1 <= Len(visits)
    /\ \A i \in Lines :
         Became(visits[i - 1], stream[i].state, stream[i].reason, stream[i].report)
    /\ \A v \in 1..Len(visits) : visits[v].snapshot <=> visits[v].state \in Audited

IInv ==
  /\ TypeInv /\ StreamInv /\ LineInv /\ CountInv /\ ExitInv
  /\ CancelInv /\ LateInv /\ BudgetInv /\ ObserverInv

---------------------------------------------------------------------------
(* Lemmas about the operators.                                             *)

\* What an acquisition may charge stays within its limit and the sentinel byte.
LEMMA ChargesType ==
  ASSUME NEW l \in Nat, NEW ceiling \in Nat, NEW c \in Charges(l, ceiling)
  PROVE  c.charge \in 0..(l + 1) /\ c.code \in Codes
  BY DEF Charges, Codes

\* So an audit never takes more than remains.
LEMMA AttemptFits ==
  ASSUME TypeInv, BudgetInv, stage = "audit"
  PROVE  AttemptLimit \in Nat /\ AttemptLimit + 1 <= remaining
  BY CorpusAssumptions DEF TypeInv, BudgetInv, AttemptLimit, Lesser

\* A verdict is one of the states an entry can end with; audited ones have a report
\* and an exit code below 4, canceled ones an ended context.
LEMMA VerdictType ==
  ASSUME TypeInv
  PROVE  /\ Verdict.state \in Audited \cup Incomplete /\ Verdict.reason \in Reasons
         /\ Verdict.state \in Audited => audit.report = "ok" /\ audit.exit # 4
         /\ Verdict.state = "canceled" => ctx # "live"
  <1>1. audit.failure \in Failures \cup {"none"} /\ audit.exit \in 0..4
    BY DEF TypeInv
  <1>2. Ended(ctx) \in Reasons
    BY DEF Ended, Reasons
  <1>3. QED
    BY <1>1, <1>2 DEF Verdict, Audited, Incomplete, Reasons

\* The entry records of a stream lie between the header and the summary.
LEMMA LinesFacts ==
  ASSUME TypeInv, StreamInv
  PROVE  /\ Len(stream) \in Nat /\ Len(plan) \in Nat /\ Len(visits) \in Nat
         /\ Len(stream) <= Len(plan) + 2
         /\ Lines = {i \in 1..Len(stream) : i >= 2 /\ i <= Len(plan) + 1}
         /\ IsFiniteSet(Lines)
         /\ Delivered <=> Len(stream) = Len(plan) + 2
         /\ \A i \in Lines : /\ stream[i] \in Records /\ i - 1 \in 1..Len(plan)
                             /\ plan[i - 1] \in EntryStates
  <1>1. Len(stream) \in Nat /\ Len(plan) \in Nat /\ Len(visits) \in Nat
    BY LenProperties DEF TypeInv
  <1>2. Len(stream) <= Len(plan) + 2
    BY <1>1 DEF StreamInv, TypeInv, Loop
  <1>3. Lines = {i \in 1..Len(stream) : i >= 2 /\ i <= Len(plan) + 1}
    BY <1>1, <1>2 DEF Lines, StreamInv
  <1>4. IsFiniteSet(Lines)
    <2>1. IsFiniteSet(1..Len(stream))
      BY <1>1, FS_Interval
    <2>2. Lines \subseteq 1..Len(stream)
      BY DEF Lines
    <2>3. QED
      BY <2>1, <2>2, FS_Subset
  <1>5. Delivered <=> Len(stream) = Len(plan) + 2
    <2>1. stream # <<>> <=> Len(stream) > 0
      BY <1>1, EmptySeq DEF TypeInv
    <2>2. QED
      BY <1>1, <1>2, <2>1 DEF Delivered, StreamInv
  <1>6. \A i \in Lines : stream[i] \in Records /\ plan[i - 1] \in EntryStates
    BY <1>1, <1>3, ElementOfSeq DEF TypeInv
  <1>7. QED
    BY <1>1, <1>2, <1>3, <1>4, <1>5, <1>6

\* One more record.
LEMMA EmitFacts ==
  ASSUME TypeInv, NEW record \in Records, Emit(record)
  PROVE  /\ stream' \in Seq(Records) /\ room' \in Nat
         /\ Len(stream') = Len(stream) + 1
         /\ \A i \in 1..Len(stream) : stream'[i] = stream[i]
         /\ stream'[Len(stream) + 1] = record
  <1>1. PICK n \in RecordBytes : n <= room /\ room' = room - n
    BY DEF Emit
  <1>2. n \in Nat
    BY CorpusAssumptions
  <1>3. room' \in Nat
    BY <1>1, <1>2 DEF TypeInv
  <1>4. stream' = Append(stream, record)
    BY DEF Emit
  <1>5. QED
    BY <1>3, <1>4, AppendProperties DEF TypeInv

\* A failed write names its reason and leaves the stream as it was.
LEMMA EmitFailsFacts ==
  ASSUME EmitFails
  PROVE  UNCHANGED <<stream, room>> /\ err' \in {"output_limit", "write_failed"}
  BY DEF EmitFails

\* A step that leaves stream and plan alone leaves the lines alone.
LEMMA SameLines ==
  ASSUME UNCHANGED <<stream, plan>>
  PROVE  /\ Lines' = Lines /\ (Delivered' <=> Delivered) /\ (HasIncomplete' <=> HasIncomplete)
         /\ \A s : {i \in Lines : stream[i].state = s}' = {i \in Lines : stream[i].state = s}
  <1>1. Lines' = Lines
    BY DEF Lines
  <1>2. QED
    BY <1>1 DEF Delivered, HasIncomplete

\* A stream without entries counts nothing.
LEMMA NoLines ==
  ASSUME TypeInv, StreamInv, Len(stream) <= 1
  PROVE  Lines = {} /\ ~HasIncomplete
  BY LinesFacts DEF HasIncomplete

---------------------------------------------------------------------------
(* The steps.                                                              *)

\* What the lines say is not disturbed by a step that leaves them and the summary's
\* counts alone.
LEMMA CountSame ==
  ASSUME CountInv, UNCHANGED <<stream, plan>>,
         summary'.counts = summary.counts, summary'.entries = summary.entries
  PROVE  CountInv'
  BY SameLines DEF CountInv

\* Before the header nothing is planned, counted or told.
LEMMA InitInv == Init => IInv
  <1> SUFFICES ASSUME Init PROVE IInv
    OBVIOUS
  <1> USE CorpusAssumptions
  <1>1. <<>> \in Seq(Records) /\ <<>> \in Seq(Tellings) /\ <<>> \in Seq(EntryStates)
        /\ Len(<<>>) = 0
    BY EmptySeq
  <1>2. TypeInv
    <2>1. NewSummary \in Summaries
      <3>1. [s \in States |-> 0] \in Counts
        BY DEF Counts
      <3>2. QED
        BY <3>1 DEF NewSummary, SummaryStates, Reasons, Summaries, ExitCodes
    <2>2. NoItem \in [state : States, reason : Reasons, report : BOOLEAN]
      BY DEF NoItem, States, Reasons
    <2>3. NoAudit \in [failure : Failures \cup {"none"}, exit : 0..4,
                       report : {"ok", "limit", "error"}]
      BY DEF NoAudit
    <2>4. schema \in {"1.0", "2.0"}
      BY DEF Init
    <2>5. /\ at = 1 /\ remaining \in Nat /\ room \in Nat /\ late = 0 /\ exit = 0
          /\ stage = "header" /\ ctx = "live" /\ err = "none" /\ snapshot = FALSE
          /\ plan = <<>> /\ stream = <<>> /\ visits = <<>> /\ observed \in BOOLEAN
          /\ audit = NoAudit /\ item = NoItem /\ summary = NewSummary
      BY DEF Init
    <2>6. at \in Nat \ {0} /\ late \in Nat /\ exit \in 0..4
      BY <2>5
    <2>7. plan \in Seq(EntryStates) /\ stream \in Seq(Records) /\ visits \in Seq(Tellings)
      BY <1>1, <2>5
    <2>8. QED
      BY <2>1, <2>2, <2>3, <2>4, <2>5, <2>6, <2>7, Zenon DEF TypeInv
  <1>3. StreamInv
    BY <1>1 DEF Init, StreamInv, Loop
  <1>4. Lines = {} /\ ~HasIncomplete /\ ~Delivered
    <2>1. Lines = {} /\ ~HasIncomplete
      BY <1>1, <1>2, <1>3, NoLines DEF Init
    <2>2. QED
      BY <2>1 DEF Init, Delivered
  <1>5. LineInv /\ CancelInv /\ LateInv /\ BudgetInv
    BY <1>4 DEF Init, LineInv, CancelInv, LateInv, BudgetInv, Pending
  <1>6. CountInv
    BY <1>4, FS_EmptySet DEF Init, CountInv, NewSummary
  <1>7. ExitInv
    <2>1. summary.exit = 0 /\ summary.state = "completed" /\ stage = "header"
      BY DEF Init, NewSummary
    <2>2. QED
      BY <1>4, <2>1 DEF ExitInv, Loop
  <1>8. ObserverInv
    BY <1>1, <1>4 DEF Init, ObserverInv, Loop
  <1>9. QED
    BY <1>2, <1>3, <1>5, <1>6, <1>7, <1>8 DEF IInv

\* A write or an observer that fails ends the run: nothing more is written.
LEMMA FailStep ==
  ASSUME IInv, stage # "returned", stage # "last", Return, err' # "none", TypeInv',
         UNCHANGED <<ctx, observed, plan, stream, summary, late>>,
         observed /\ stage \in Loop =>
           /\ Len(visits') >= at - 1
           /\ \A i \in 1..(at - 1) : visits'[i] = visits[i]
           /\ \A v \in 1..Len(visits') : visits'[v].snapshot <=> visits'[v].state \in Audited,
         stage \notin Loop => visits' = visits
  PROVE  IInv'
  <1>1. /\ Lines' = Lines /\ (Delivered' <=> Delivered) /\ (HasIncomplete' <=> HasIncomplete)
        /\ CountInv'
    BY SameLines, CountSame DEF IInv
  <1>2. TypeInv /\ StreamInv /\ Len(stream) <= Len(plan) + 1
    BY LinesFacts DEF IInv, TypeInv, StreamInv, Loop
  <1>3. StreamInv'
    BY <1>2 DEF StreamInv, Return, Loop
  <1>4. ~Delivered
    BY <1>2, LinesFacts
  <1>5. LineInv' /\ CancelInv' /\ LateInv' /\ BudgetInv'
    BY <1>1, <1>4 DEF Return, IInv, LineInv, Pending, CancelInv, LateInv, BudgetInv, Fits
  <1>6. ExitInv'
    BY <1>1, <1>4 DEF Return, ExitInv, Loop
  <1>7. ObserverInv'
    <2>1. SUFFICES ASSUME observed PROVE ObserverInv'
      BY DEF ObserverInv
    <2>2. CASE stage \in Loop
      <3>1. \A i \in Lines : i - 1 \in 1..(at - 1) /\ visits'[i - 1] = visits[i - 1]
        <4>1. Len(stream) = at /\ at \in Nat
          BY <1>2, <2>2 DEF StreamInv, TypeInv
        <4>2. \A i \in Lines : i \in 2..at
          BY <1>2, <4>1, LinesFacts
        <4>3. \A i \in 1..(at - 1) : visits'[i] = visits[i]
          BY <2>1, <2>2
        <4>4. QED
          BY <4>1, <4>2, <4>3
      <3>2. \A i \in Lines : i - 1 <= Len(visits')
        <4>1. Len(visits') \in Nat /\ at \in Nat
          BY <1>2, LenProperties DEF TypeInv
        <4>2. QED
          BY <2>1, <2>2, <3>1, <4>1
      <3>3. QED
        BY <1>1, <2>1, <2>2, <3>1, <3>2 DEF Return, IInv, ObserverInv, Loop
    <2>3. CASE stage \notin Loop
      BY <1>1, <2>1, <2>3 DEF Return, IInv, ObserverInv, Loop
    <2>4. QED
      BY <2>2, <2>3
  <1>8. QED
    BY <1>1, <1>3, <1>5, <1>6, <1>7 DEF IInv

\* The header is the first record, or the run ends with a writer's error.
LEMMA EmitHeaderStep == ASSUME IInv, EmitHeader PROVE IInv'
  <1>1. /\ stage = "header" /\ TypeInv /\ StreamInv /\ Lines = {} /\ ~HasIncomplete
        /\ Len(stream) = 0 /\ plan = <<>> /\ visits = <<>> /\ Len(plan) = 0
        /\ UNCHANGED <<ctx, plan, summary, fixed, loopVars>>
    BY NoLines, EmptySeq DEF EmitHeader, IInv, StreamInv
  <1>2. CASE Emit(Header) /\ stage' = "open" /\ UNCHANGED err
    <2>1. Header \in Records
      BY DEF Header, Records, Reasons
    <2>2. /\ stream' \in Seq(Records) /\ room' \in Nat /\ Len(stream') = 1
          /\ stream'[1] = Header
      BY <1>1, <1>2, <2>1, EmitFacts
    <2>3. stream'[1].type = "header"
      <3>1. Header.type = "header"
        BY DEF Header
      <3>2. QED
        BY <2>2, <3>1
    <2>4. TypeInv'
      BY <1>1, <1>2, <2>2 DEF TypeInv, fixed, loopVars
    <2>5. StreamInv'
      BY <1>1, <1>2, <2>2, <2>3 DEF StreamInv, Loop, loopVars, IInv, LateInv
    <2>6. Lines' = {} /\ ~HasIncomplete' /\ ~Delivered'
      <3>1. Lines' = {}
        BY <2>2, <2>3 DEF Lines
      <3>2. QED
        BY <2>2, <2>3, <3>1 DEF HasIncomplete, Delivered
    <2>7. LineInv' /\ CancelInv' /\ LateInv' /\ BudgetInv'
      BY <1>1, <1>2, <2>6 DEF loopVars, IInv, LineInv, Pending, CancelInv, LateInv, BudgetInv
    <2>8. CountInv'
      BY <1>1, <2>6 DEF IInv, CountInv
    <2>9. ExitInv'
      BY <1>1, <1>2, <2>6 DEF IInv, ExitInv, Loop
    <2>10. ObserverInv'
      BY <1>1, <1>2, <2>6 DEF IInv, ObserverInv, Loop, fixed, loopVars
    <2>11. QED
      BY <2>4, <2>5, <2>7, <2>8, <2>9, <2>10 DEF IInv
  <1>3. CASE EmitFails /\ Return
    <2>1. UNCHANGED <<stream, room>> /\ err' \in {"output_limit", "write_failed"}
      BY <1>3, EmitFailsFacts
    <2>2. TypeInv'
      BY <1>1, <1>3, <2>1 DEF TypeInv, Return, fixed, loopVars
    <2>3. QED
      BY <1>1, <1>3, <2>1, <2>2, FailStep DEF fixed, loopVars, Loop
  <1>4. QED
    BY <1>2, <1>3 DEF EmitHeader

\* Discovery fixes the plan and its completeness, or leads to a summary of nothing.
LEMMA DiscoverStep == ASSUME IInv, Discover PROVE IInv'
  <1>1. /\ stage = "open" /\ TypeInv /\ StreamInv /\ Lines = {} /\ ~HasIncomplete
        /\ Len(stream) = 1 /\ at = 1 /\ plan = <<>> /\ visits = <<>> /\ Len(plan) = 0
        /\ err = "none"
        /\ UNCHANGED <<ctx, stream, room, err, schema, observed, at, remaining, audit, item,
                       exit, snapshot, visits, late>>
    <2>1. stage = "open" /\ TypeInv /\ StreamInv
      BY DEF Discover, IInv
    <2>2. Len(stream) = 1 /\ at = 1 /\ plan = <<>> /\ visits = <<>> /\ err = "none"
      BY <2>1 DEF StreamInv
    <2>3. Lines = {} /\ ~HasIncomplete /\ Len(plan) = 0
      BY <2>1, <2>2, NoLines, EmptySeq
    <2>4. UNCHANGED <<ctx, stream, room, err, schema, observed, at, remaining, audit, item,
                      exit, snapshot, visits, late>>
      BY DEF Discover, fixed, loopVars
    <2>5. QED
      BY <2>1, <2>2, <2>3, <2>4
  <1>2. stream'[1].type = "header"
    BY <1>1 DEF StreamInv
  <1>3. Lines' = {} /\ ~HasIncomplete' /\ ~Delivered'
    <2>1. Lines' = {}
      BY <1>1, <1>2 DEF Lines
    <2>2. QED
      BY <1>1, <1>2, <2>1 DEF HasIncomplete, Delivered
  <1>4. CASE \E state \in {"canceled", "failed"}, why \in Reasons : FinishFailure(state, why)
    <2>1. PICK state \in {"canceled", "failed"}, why \in Reasons : FinishFailure(state, why)
      BY <1>4
    <2>2. /\ summary' \in Summaries
          /\ summary'.counts = summary.counts /\ summary'.entries = summary.entries
          /\ summary'.exit = 4 /\ summary'.state # "completed"
          /\ stage' = "last" /\ plan' = plan
      <3>1. /\ summary' = [summary EXCEPT !.state = state, !.reason = why, !.exit = 4]
            /\ stage' = "last" /\ plan' = plan
        BY <2>1 DEF FinishFailure
      <3>2. state \in SummaryStates /\ state # "completed"
        BY DEF SummaryStates
      <3>3. QED
        <4>1. summary \in Summaries
          BY <1>1 DEF TypeInv
        <4>2. 4 \in ExitCodes
          BY DEF ExitCodes
        <4>3. QED
          BY <3>1, <3>2, <4>1, <4>2 DEF Summaries
    <2>3. TypeInv'
      BY <1>1, <2>2 DEF TypeInv
    <2>4. StreamInv'
      <3>1. Len(stream') = Len(plan') + 1 /\ err' = "none"
        BY <1>1, <2>2
      <3>2. StreamInv
        BY <1>1
      <3>3. QED
        BY <1>1, <2>2, <3>1, <3>2 DEF StreamInv, Loop
    <2>5. LineInv' /\ CancelInv' /\ LateInv' /\ BudgetInv'
      BY <1>1, <1>3, <2>2 DEF IInv, LineInv, Pending, CancelInv, LateInv, BudgetInv
    <2>6. CountInv' /\ ExitInv'
      BY <1>1, <1>3, <2>2, CountSame DEF IInv, ExitInv, Loop
    <2>7. ObserverInv'
      BY <1>1, <1>3, <2>2 DEF IInv, ObserverInv, Loop
    <2>8. QED
      BY <2>3, <2>4, <2>5, <2>6, <2>7 DEF IInv
  <1>5. CASE \E found \in Plans :
               /\ ctx = "live"
               /\ plan' = found
               /\ summary' = [summary EXCEPT
                    !.complete = \A i \in 1..Len(found) : found[i] # "failed"]
               /\ stage' = IF observed THEN "prepare" ELSE "entry"
    <2>1. plan' \in Seq(EntryStates) /\ Len(plan') \in Nat
      BY <1>5, CorpusAssumptions, LenProperties DEF EntryStates
    <2>2. /\ summary' = [summary EXCEPT !.complete = \A i \in 1..Len(plan') : plan'[i] # "failed"]
          /\ stage' \in {"prepare", "entry"}
      BY <1>5
    <2>3. /\ summary' \in Summaries
          /\ summary'.counts = summary.counts /\ summary'.entries = summary.entries
          /\ summary'.exit = summary.exit /\ summary'.state = summary.state
          /\ summary'.complete <=> \A i \in 1..Len(plan') : plan'[i] # "failed"
      <3> DEFINE all == \A i \in 1..Len(plan') : plan'[i] # "failed"
      <3>1. all \in BOOLEAN
        OBVIOUS
      <3>2. summary' = [summary EXCEPT !.complete = all]
        BY <2>2
      <3> HIDE DEF all
      <3>3. /\ summary' \in Summaries
            /\ summary'.counts = summary.counts /\ summary'.entries = summary.entries
            /\ summary'.exit = summary.exit /\ summary'.state = summary.state
            /\ summary'.complete = all
        BY <1>1, <3>1, <3>2 DEF TypeInv, Summaries
      <3>4. QED
        BY <3>3 DEF all
    <2>4. TypeInv'
      BY <1>1, <2>1, <2>2, <2>3 DEF TypeInv
    <2>5. StreamInv'
      <3>1. \A i \in 1..1 : i = 1 /\ stream'[i].type = "header"
        BY <1>2
      <3>2. Len(stream') = 1 /\ Len(stream') = at' /\ at' <= Len(plan') + 1 /\ err' = "none"
        BY <1>1, <2>1
      <3>3. QED
        BY <2>2, <3>1, <3>2 DEF StreamInv, Loop
    <2>6. LineInv' /\ CancelInv' /\ LateInv' /\ BudgetInv'
      BY <1>1, <1>3, <2>2 DEF IInv, LineInv, Pending, CancelInv, LateInv, BudgetInv
    <2>7. CountInv'
      <3>1. \A s : /\ {i \in Lines : stream[i].state = s} = {}
                  /\ {i \in Lines' : stream'[i].state = s} = {}
        BY <1>1, <1>3
      <3>2. CountInv
        BY DEF IInv
      <3>3. QED
        <4>1. \A s \in States : summary'.counts[s] = Cardinality({})
          BY <2>3, <3>1, <3>2 DEF CountInv
        <4>2. \A s \in States :
                summary'.counts[s] = Cardinality({i \in Lines' : stream'[i].state = s})
          BY <3>1, <4>1
        <4>3. summary'.entries = Cardinality(Lines')
          BY <1>1, <1>3, <2>3, <3>2 DEF CountInv
        <4>4. QED
          BY <4>2, <4>3 DEF CountInv
    <2>8. ExitInv'
      BY <1>1, <1>3, <2>2, <2>3 DEF IInv, ExitInv, Loop
    <2>9. ObserverInv'
      BY <1>1, <1>3, <2>2 DEF IInv, ObserverInv, Loop
    <2>10. QED
      BY <2>4, <2>5, <2>6, <2>7, <2>8, <2>9 DEF IInv
  <1>6. QED
    <2>1. Ended(ctx) \in Reasons
      BY DEF Ended, Reasons
    <2>2. {"file.not_found", "execution.resource_limit", "file.changed_during_read"}
            \subseteq Reasons
      BY DEF Reasons
    <2>3. QED
      BY <1>4, <1>5, <2>1, <2>2 DEF Discover

\* A step that moves on within the loop without writing: what holds of the stream
\* carries over, and the record at hand is all there is to look at.
LEMMA LoopStep ==
  ASSUME IInv, stage \in Loop, stage' \in Loop, TypeInv', LateInv', BudgetInv',
         UNCHANGED <<ctx, schema, observed, plan, at, stream, summary, err>>,
         stage' \in {"audit", "settle", "visit", "emit"} => at <= Len(plan),
         stage' \in {"audit", "settle"} =>
           plan[at] = "candidate" /\ \A i \in Lines : stream[i].state # "canceled",
         Pending' =>
           /\ Fits(plan[at], item'.state, item'.report)
           /\ exit' = 4 <=> item'.state \in Incomplete
           /\ item'.state = "canceled" => ctx # "live"
           /\ (\E i \in Lines : stream[i].state = "canceled") /\ plan[at] = "candidate" =>
                item'.state = "canceled",
         observed =>
           /\ stage # "emit"
           /\ stage' # "emit" => visits' = visits
           /\ stage' = "visit" => (snapshot' <=> item'.state \in Audited)
           /\ stage' = "emit" =>
                \E told \in Tellings :
                  /\ visits' = Append(visits, told)
                  /\ told.snapshot <=> told.state \in Audited
                  /\ Became(told, item'.state, item'.reason, item'.report)
  PROVE  IInv'
  <1>1. /\ Lines' = Lines /\ (Delivered' <=> Delivered) /\ (HasIncomplete' <=> HasIncomplete)
        /\ CountInv'
    BY SameLines, CountSame DEF IInv
  <1>2. TypeInv /\ StreamInv /\ Len(stream) = at /\ at <= Len(plan) + 1
    BY DEF IInv, StreamInv
  <1>3. StreamInv'
    BY <1>2 DEF StreamInv, Loop
  <1>4. ~Delivered
    BY <1>2, LinesFacts DEF TypeInv
  <1>5. LineInv'
    BY <1>1 DEF IInv, LineInv, Pending, Fits
  <1>6. ExitInv'
    BY <1>1, <1>4 DEF IInv, ExitInv, Loop
  <1>7. CancelInv'
    BY <1>1, <1>4 DEF IInv, CancelInv, Loop, Pending
  <1>8. ObserverInv'
    <2>1. SUFFICES ASSUME observed PROVE ObserverInv'
      BY DEF ObserverInv
    <2>2. Len(visits) = at - 1 /\ at \in Nat /\ visits \in Seq(Tellings)
      BY <1>2, <2>1 DEF IInv, ObserverInv, TypeInv
    <2>3. CASE stage' = "emit"
      <3>1. PICK told \in Tellings :
              /\ visits' = Append(visits, told)
              /\ told.snapshot <=> told.state \in Audited
              /\ Became(told, item'.state, item'.reason, item'.report)
        BY <2>1, <2>3
      <3>2. /\ Len(visits') = at /\ visits'[at] = told
            /\ \A v \in 1..(at - 1) : visits'[v] = visits[v]
        BY <2>2, <3>1, AppendProperties
      <3>3. \A i \in Lines : i - 1 \in 1..(at - 1)
        BY <1>2, <2>2, LinesFacts
      <3>4. \A i \in Lines :
              Became(visits'[i - 1], stream[i].state, stream[i].reason, stream[i].report)
        BY <2>1, <3>2, <3>3 DEF IInv, ObserverInv
      <3>5. \A v \in 1..Len(visits') : visits'[v].snapshot <=> visits'[v].state \in Audited
        <4>1. \A v \in 1..(at - 1) : visits[v].snapshot <=> visits[v].state \in Audited
          BY <2>1, <2>2 DEF IInv, ObserverInv
        <4>2. \A v \in 1..at : v = at \/ v \in 1..(at - 1)
          BY <2>2
        <4>3. QED
          BY <3>1, <3>2, <4>1, <4>2
      <3>6. QED
        BY <1>1, <2>1, <2>3, <3>1, <3>2, <3>4, <3>5 DEF ObserverInv, Loop
    <2>4. CASE stage' # "emit"
      BY <1>1, <2>1, <2>2, <2>4 DEF IInv, ObserverInv, Loop, Became
    <2>5. QED
      BY <2>3, <2>4
  <1>9. QED
    BY <1>1, <1>3, <1>5, <1>6, <1>7, <1>8 DEF IInv

\* What canceled lines mean while the loop goes on.
LEMMA CanceledBefore ==
  ASSUME IInv, \E i \in Lines : stream[i].state = "canceled"
  PROVE  ctx # "live"
  BY DEF IInv, CancelInv, TypeInv

\* The observer accepts the plan before the first entry, or ends the run.
LEMMA PrepareStep ==
  ASSUME IInv, NEW ok \in BOOLEAN, Prepare(ok)
  PROVE  IInv'
  <1>1. /\ stage = "prepare" /\ err = "none" /\ at <= Len(plan) + 1
        /\ UNCHANGED <<ctx, plan, stream, room, summary, schema, observed, at, remaining, audit,
                       item, exit, snapshot, visits, late>>
    BY DEF Prepare, fixed, loopVars, IInv, StreamInv, Loop
  <1>2. CASE ok
    <2>1. stage' = "entry" /\ err' = err
      BY <1>2 DEF Prepare
    <2>2. TypeInv' /\ LateInv' /\ BudgetInv'
      BY <1>1, <2>1 DEF IInv, TypeInv, LateInv, BudgetInv
    <2>3. QED
      BY <1>1, <2>1, <2>2, LoopStep DEF Loop, Pending
  <1>3. CASE ~ok
    <2>1. stage' = "returned" /\ err' = "observer"
      BY <1>3 DEF Prepare, Return
    <2>2. TypeInv'
      BY <1>1, <2>1 DEF IInv, TypeInv
    <2>3. observed =>
            /\ Len(visits') >= at - 1
            /\ \A v \in 1..Len(visits') : visits'[v].snapshot <=> visits'[v].state \in Audited
      BY <1>1 DEF IInv, ObserverInv, Loop, TypeInv
    <2>4. QED
      BY <1>1, <2>1, <2>2, <2>3, FailStep DEF Loop, Return
  <1>4. QED
    BY <1>2, <1>3

\* An entry that is not audited gets its record at once.
LEMMA PassedStep ==
  ASSUME IInv, stage = "entry", at <= Len(plan), NEW state \in States, NEW why \in Reasons,
         Passed(state, why), UNCHANGED <<ctx, plan, stream, room, summary, err, fixed>>,
         Fits(plan[at], state, FALSE),
         state = "canceled" => ctx # "live",
         ctx # "live" /\ plan[at] = "candidate" => state = "canceled"
  PROVE  IInv'
  <1>1. /\ item' = [state |-> state, reason |-> why, report |-> FALSE]
        /\ exit' = IF state \in Incomplete THEN 4 ELSE 0
        /\ snapshot' = FALSE
        /\ stage' = IF observed THEN "visit" ELSE "emit"
        /\ UNCHANGED <<ctx, plan, stream, room, summary, err, schema, observed, at, remaining,
                       audit, visits, late>>
    BY DEF Passed, Reported, fixed
  <1>2. /\ item'.state = state /\ item'.report = FALSE /\ exit' \in 0..4
        /\ exit' = 4 <=> state \in Incomplete
        /\ item' \in [state : States, reason : Reasons, report : BOOLEAN]
        /\ stage' \in {"visit", "emit"}
        /\ observed => stage' = "visit"
    BY <1>1
  <1>3. TypeInv'
    <2>1. TypeInv
      BY DEF IInv
    <2>2. UNCHANGED <<plan, stream, room, summary, err>>
      OBVIOUS
    <2>3. stage' \in {"visit", "emit"} /\ exit' \in 0..4 /\ snapshot' \in BOOLEAN
          /\ item' \in [state : States, reason : Reasons, report : BOOLEAN]
      BY <1>1, <1>2
    <2>4. UNCHANGED <<ctx, schema, observed, at, remaining, audit, visits, late>>
      BY <1>1
    <2>5. QED
      BY <2>1, <2>2, <2>3, <2>4 DEF TypeInv
  <1>4. LateInv' /\ BudgetInv'
    BY <1>1, <1>2 DEF IInv, LateInv, BudgetInv
  <1>5. state \notin Audited
    <2>1. plan[at] \in EntryStates
      BY ElementOfSeq DEF IInv, TypeInv
    <2>2. QED
      BY <2>1 DEF Fits, Audited, Incomplete, EntryStates
  <1>6. Fits(plan[at], item'.state, item'.report)
    BY <1>2
  <1>7. observed => stage # "emit" /\ visits' = visits /\ (snapshot' <=> item'.state \in Audited)
    BY <1>1, <1>2, <1>5
  <1>8. (\E i \in Lines : stream[i].state = "canceled") /\ plan[at] = "candidate" =>
          item'.state = "canceled"
    BY <1>2, CanceledBefore
  <1>9. QED
    BY <1>1, <1>2, <1>3, <1>4, <1>6, <1>7, <1>8, LoopStep DEF Loop

\* An entry is settled without a read, or its audit starts with budget left.
LEMMA TakeEntryStep == ASSUME IInv, TakeEntry PROVE IInv'
  <1>1. /\ stage = "entry" /\ at <= Len(plan) /\ TypeInv /\ StreamInv
        /\ UNCHANGED <<ctx, plan, stream, room, summary, err, fixed>>
    BY DEF TakeEntry, IInv
  <1>2. plan[at] \in EntryStates
    BY <1>1, ElementOfSeq DEF TypeInv
  <1>3. {"discovery", "execution.resource_limit", Ended(ctx)} \subseteq Reasons
    BY DEF Reasons, Ended
  <1>4. CASE plan[at] # "candidate" /\ Passed(plan[at], "discovery")
    <2>1. /\ plan[at] \in States /\ plan[at] # "canceled"
          /\ Fits(plan[at], plan[at], FALSE)
      BY <1>2, <1>4 DEF EntryStates, States, Fits
    <2>2. QED
      BY <1>1, <1>3, <1>4, <2>1, PassedStep
  <1>5. CASE plan[at] = "candidate" /\ ctx # "live" /\ Passed("canceled", Ended(ctx))
    <2>1. "canceled" \in States /\ Fits(plan[at], "canceled", FALSE)
      BY <1>5 DEF States, Fits, Incomplete
    <2>2. QED
      BY <1>1, <1>3, <1>5, <2>1, PassedStep
  <1>6. CASE /\ plan[at] = "candidate" /\ ctx = "live"
             /\ Passed("failed", "execution.resource_limit")
    <2>1. "failed" \in States /\ Fits(plan[at], "failed", FALSE)
      BY <1>6 DEF States, Fits, Incomplete
    <2>2. QED
      BY <1>1, <1>3, <1>6, <2>1, PassedStep
  <1>7. CASE /\ plan[at] = "candidate" /\ ctx = "live" /\ remaining > 1
             /\ stage' = "audit" /\ UNCHANGED loopVars
    <2>1. UNCHANGED <<ctx, plan, stream, room, summary, err, schema, observed, at, remaining,
                      audit, item, exit, snapshot, visits, late>>
      BY <1>1, <1>7 DEF fixed, loopVars
    <2>2. TypeInv' /\ LateInv' /\ BudgetInv'
      BY <1>7, <2>1 DEF IInv, TypeInv, LateInv, BudgetInv
    <2>3. \A i \in Lines : stream[i].state # "canceled"
      BY <1>7, CanceledBefore
    <2>4. QED
      BY <1>1, <1>7, <2>1, <2>2, <2>3, LoopStep DEF Loop, Pending
  <1>8. QED
    BY <1>4, <1>5, <1>6, <1>7 DEF TakeEntry

\* The types of what an audit may return.
LEMMA AnalysesType ==
  Analyses \cup {Interrupted} \cup [failure : Codes, exit : {4}, report : {"ok"}]
    \subseteq [failure : Failures \cup {"none"}, exit : 0..4, report : {"ok", "limit", "error"}]
  <1> DEFINE T == [failure : Failures \cup {"none"}, exit : 0..4, report : {"ok", "limit", "error"}]
  <1>1. Severities \subseteq 0..4
    BY CorpusAssumptions
  <1>2. \A ended \in BOOLEAN : AuditOutcomes(schema, Severities, ended) \subseteq T
    <2>1. SUFFICES ASSUME NEW ended \in BOOLEAN, NEW o \in AuditOutcomes(schema, Severities, ended)
                   PROVE  o \in T
      OBVIOUS
    <2>2. CASE o \in [failure : {"none"}, exit : Severities, report : {"ok"}]
      BY <1>1, <2>2
    <2>3. CASE o \in [failure : Codes \ {"ok"}, exit : {4}, report : {"ok"}]
      BY <2>3 DEF Failures
    <2>4. CASE o \in [failure : {"unsupported_format", "decode_failed"}, exit : {4}, report : {"ok"}]
      BY <2>4 DEF Failures
    <2>5. CASE o \in [failure : {"none"}, exit : {0}, report : {"limit", "error"}]
      BY <2>5
    <2>6. CASE o \in [failure : {"none"}, exit : IF ended THEN {4} ELSE {}, report : {"ok"}]
      BY <2>6
    <2>7. QED
      BY <2>1, <2>2, <2>3, <2>4, <2>5, <2>6 DEF AuditOutcomes
  <1>3. [failure : {"none"}, exit : Severities, report : {"limit"}] \subseteq T
    BY <1>1
  <1>4. Analyses \subseteq T
    <2>1. AuditOutcomes(schema, Severities, ctx # "live") \subseteq T
      BY <1>2
    <2> HIDE DEF T
    <2>2. QED
      BY <1>3, <2>1 DEF Analyses
  <1>5. Interrupted \in T
    BY DEF Interrupted
  <1>6. [failure : Codes, exit : {4}, report : {"ok"}] \subseteq T
    BY DEF Failures
  <1>7. QED
    BY <1>4, <1>5, <1>6

\* An audit charges what it consumed; only the one in progress can be late.
LEMMA AuditStep == ASSUME IInv, Audit PROVE IInv'
  <1>1. /\ stage = "audit" /\ stage' = "settle" /\ TypeInv /\ StreamInv /\ BudgetInv
        /\ late = 0
        /\ UNCHANGED <<ctx, plan, at, item, exit, snapshot, stream, room, summary, err, visits,
                       schema, observed>>
    BY DEF Audit, fixed, IInv, LateInv, TypeInv
  <1>2. /\ remaining' \in Nat /\ late' \in {0, 1} /\ (late' = 1 => ctx # "live")
        /\ audit' \in Analyses \cup {Interrupted} \cup [failure : Codes, exit : {4}, report : {"ok"}]
    <2>1. CASE \E c \in Charges(AttemptLimit, InputBytes) :
                 /\ remaining' = remaining - c.charge
                 /\ IF c.code = "ok" THEN audit' \in Analyses
                    ELSE audit' = [failure |-> c.code, exit |-> 4, report |-> "ok"]
                 /\ late' = IF ctx # "live" /\ c.charge > 0 THEN late + 1 ELSE late
      <3>1. PICK c \in Charges(AttemptLimit, InputBytes) :
                 /\ remaining' = remaining - c.charge
                 /\ IF c.code = "ok" THEN audit' \in Analyses
                    ELSE audit' = [failure |-> c.code, exit |-> 4, report |-> "ok"]
                 /\ late' = IF ctx # "live" /\ c.charge > 0 THEN late + 1 ELSE late
        BY <2>1
      <3>2. AttemptLimit \in Nat /\ AttemptLimit + 1 <= remaining /\ InputBytes \in Nat
        BY <1>1, AttemptFits, CorpusAssumptions
      <3>3. c.charge \in 0..(AttemptLimit + 1) /\ c.code \in Codes
        BY <3>2, ChargesType
      <3>4. remaining' \in Nat
        BY <1>1, <3>1, <3>2, <3>3 DEF TypeInv
      <3>5. audit' \in Analyses \cup [failure : Codes, exit : {4}, report : {"ok"}]
        BY <3>1, <3>3
      <3>6. QED
        BY <1>1, <3>1, <3>4, <3>5
    <2>2. CASE ctx # "live" /\ audit' = Interrupted /\ UNCHANGED <<remaining, late>>
      BY <1>1, <2>2 DEF TypeInv
    <2>3. QED
      BY <2>1, <2>2 DEF Audit
  <1>3. audit' \in [failure : Failures \cup {"none"}, exit : 0..4, report : {"ok", "limit", "error"}]
    BY <1>2, AnalysesType
  <1>4. TypeInv' /\ LateInv' /\ BudgetInv'
    BY <1>1, <1>2, <1>3 DEF IInv, TypeInv, LateInv, BudgetInv
  <1>5. /\ at <= Len(plan) /\ plan[at] = "candidate"
        /\ \A i \in Lines : stream[i].state # "canceled"
    BY <1>1 DEF IInv, StreamInv, LineInv, CancelInv
  <1>6. QED
    BY <1>1, <1>4, <1>5, LoopStep DEF Loop, Pending

\* The audit's result becomes the item, under the context as it is read now.
LEMMA SettleStep == ASSUME IInv, Settle PROVE IInv'
  <1>1. /\ stage = "settle" /\ TypeInv /\ StreamInv
        /\ stage' = IF observed THEN "visit" ELSE "emit"
        /\ item' = [state |-> Verdict.state, reason |-> Verdict.reason,
                    report |-> audit.report = "ok"]
        /\ exit' = IF Verdict.state \in Incomplete THEN 4 ELSE audit.exit
        /\ snapshot' = (observed /\ Verdict.state \in Audited)
        /\ audit' = NoAudit
        /\ UNCHANGED <<ctx, plan, at, remaining, stream, room, summary, err, visits, late,
                       schema, observed>>
    BY DEF Settle, Reported, fixed, IInv
  <1>2. /\ Verdict.state \in Audited \cup Incomplete /\ Verdict.reason \in Reasons
        /\ Verdict.state \in Audited => audit.report = "ok" /\ audit.exit # 4
        /\ Verdict.state = "canceled" => ctx # "live"
    BY <1>1, VerdictType
  <1>3. /\ item'.state = Verdict.state /\ (item'.report <=> audit.report = "ok")
        /\ exit' \in 0..4 /\ (exit' = 4 <=> item'.state \in Incomplete)
        /\ item' \in [state : States, reason : Reasons, report : BOOLEAN]
        /\ stage' \in {"visit", "emit"} /\ (observed => stage' = "visit")
    <2>1. audit.exit \in 0..4
      BY <1>1 DEF TypeInv
    <2>2. Verdict.state \in States /\ (Verdict.state \in Audited <=> Verdict.state \notin Incomplete)
      BY <1>2 DEF Audited, Incomplete, States
    <2>3. exit' \in 0..4 /\ (exit' = 4 <=> Verdict.state \in Incomplete)
      BY <1>1, <1>2, <2>1, <2>2
    <2>4. (audit.report = "ok") \in BOOLEAN
      OBVIOUS
    <2>5. item' \in [state : States, reason : Reasons, report : BOOLEAN]
      BY <1>1, <1>2, <2>2, <2>4
    <2>6. QED
      BY <1>1, <2>3, <2>5
  <1>4. TypeInv'
    <2>1. NoAudit \in [failure : Failures \cup {"none"}, exit : 0..4, report : {"ok", "limit", "error"}]
      BY DEF NoAudit
    <2>2. snapshot' \in BOOLEAN
      BY <1>1
    <2>3. QED
      BY <1>1, <1>3, <2>1, <2>2 DEF TypeInv
  <1>5. LateInv' /\ BudgetInv'
    BY <1>1, <1>3 DEF IInv, LateInv, BudgetInv
  <1>6. /\ at <= Len(plan) /\ plan[at] = "candidate"
        /\ \A i \in Lines : stream[i].state # "canceled"
    BY <1>1 DEF IInv, StreamInv, LineInv, CancelInv
  <1>7. Fits(plan[at], item'.state, item'.report)
    BY <1>2, <1>3, <1>6 DEF Fits
  <1>8. observed => snapshot' <=> item'.state \in Audited
    BY <1>1, <1>3
  <1>9. QED
    BY <1>1, <1>2, <1>3, <1>4, <1>5, <1>6, <1>7, <1>8, LoopStep DEF Loop

\* The observer's answers.
LEMMA VisitStep ==
  ASSUME IInv, NEW reply \in Replies, Visit(reply)
  PROVE  IInv'
  <1> DEFINE told == [state |-> item.state, reason |-> item.reason, report |-> item.report,
                      snapshot |-> snapshot, reply |-> reply]
  <1>1. /\ stage = "visit" /\ TypeInv /\ StreamInv /\ err = "none"
        /\ visits' = Append(visits, told)
        /\ UNCHANGED <<ctx, plan, at, remaining, audit, snapshot, stream, room, summary, late,
                       schema, observed>>
    BY DEF Visit, Visited, fixed, IInv, StreamInv
  <1>2. told \in Tellings
    BY <1>1 DEF TypeInv, Tellings
  <1>3. visits' \in Seq(Tellings)
    BY <1>1, <1>2, AppendProperties DEF TypeInv
  <1>4. /\ at <= Len(plan) /\ Fits(plan[at], item.state, item.report)
        /\ exit = 4 <=> item.state \in Incomplete
        /\ item.state = "canceled" => ctx # "live"
        /\ (\E i \in Lines : stream[i].state = "canceled") /\ plan[at] = "candidate" =>
             item.state = "canceled"
    BY <1>1 DEF IInv, StreamInv, LineInv, CancelInv, Pending
  <1>5. observed => (told.snapshot <=> told.state \in Audited) /\ Len(visits) = at - 1
    BY <1>1 DEF IInv, ObserverInv, Loop
  <1>6. CASE reply = "ok" /\ stage' = "emit" /\ UNCHANGED <<item, exit, err>>
    <2>1. TypeInv' /\ LateInv' /\ BudgetInv'
      BY <1>1, <1>3, <1>6 DEF IInv, TypeInv, LateInv, BudgetInv
    <2>2. Became(told, item'.state, item'.reason, item'.report)
      BY <1>6 DEF Became
    <2> HIDE DEF told
    <2>3. QED
      BY <1>1, <1>2, <1>4, <1>5, <1>6, <2>1, <2>2, LoopStep DEF Loop
  <1>7. CASE /\ reply = "source_limit" /\ item.state \in Audited
             /\ item' = [item EXCEPT !.state = "failed", !.reason = "execution.resource_limit"]
             /\ exit' = 4 /\ stage' = "emit" /\ UNCHANGED err
    <2>1. /\ item' \in [state : States, reason : Reasons, report : BOOLEAN]
          /\ item'.state = "failed" /\ item'.report = item.report
      BY <1>1, <1>7 DEF TypeInv, States, Reasons
    <2>2. TypeInv' /\ LateInv' /\ BudgetInv'
      BY <1>1, <1>3, <1>7, <2>1 DEF IInv, TypeInv, LateInv, BudgetInv
    <2>3. Became(told, item'.state, item'.reason, item'.report)
      BY <1>7, <2>1 DEF Became
    <2>4. plan[at] = "candidate"
      <3>1. plan[at] \in EntryStates
        BY <1>1, <1>4, ElementOfSeq DEF TypeInv
      <3>2. QED
        BY <1>4, <1>7, <3>1 DEF Fits, EntryStates, Audited
    <2>5. /\ Fits(plan[at], item'.state, item'.report)
          /\ item'.state \in Incomplete /\ item'.state # "canceled"
      BY <2>1, <2>4 DEF Fits, Incomplete
    <2>6. ~\E i \in Lines : stream[i].state = "canceled"
      BY <1>4, <1>7, <2>4 DEF Audited
    <2> HIDE DEF told
    <2>7. QED
      BY <1>1, <1>2, <1>5, <1>4, <1>7, <2>2, <2>3, <2>5, <2>6, LoopStep DEF Loop
  <1>8. CASE Return /\ err' = "observer" /\ UNCHANGED <<item, exit>>
    <2>1. TypeInv'
      BY <1>1, <1>3, <1>8 DEF TypeInv, Return
    <2>2. ASSUME observed
          PROVE  /\ Len(visits') >= at - 1
                 /\ \A i \in 1..(at - 1) : visits'[i] = visits[i]
                 /\ \A v \in 1..Len(visits') :
                      visits'[v].snapshot <=> visits'[v].state \in Audited
      <3>1. at \in Nat /\ visits \in Seq(Tellings) /\ Len(visits) = at - 1
        BY <1>1, <1>5, <2>2 DEF TypeInv
      <3> HIDE DEF told
      <3>2. /\ Len(visits') = at /\ visits'[at] = told
            /\ \A v \in 1..(at - 1) : visits'[v] = visits[v]
        BY <1>1, <1>2, <3>1, AppendProperties
      <3>3. \A v \in 1..(at - 1) : visits[v].snapshot <=> visits[v].state \in Audited
        BY <2>2, <3>1 DEF IInv, ObserverInv
      <3>4. \A v \in 1..at : v = at \/ v \in 1..(at - 1)
        BY <3>1
      <3>5. QED
        BY <1>5, <2>2, <3>1, <3>2, <3>3, <3>4
    <2>3. QED
      BY <1>1, <1>8, <2>1, <2>2, FailStep DEF Loop
  <1>9. QED
    BY <1>6, <1>7, <1>8 DEF Visit

\* One more entry's record: one more line, counted under its state.
LEMMA EntryEmitted ==
  ASSUME IInv, stage = "emit", Emit(EntryRecord), UNCHANGED plan
  PROVE  /\ stream' \in Seq(Records) /\ room' \in Nat /\ Len(stream') = at + 1
         /\ at \in Nat \ {0} /\ at <= Len(plan) /\ Len(plan) \in Nat
         /\ \A i \in Lines : i \in 1..at /\ stream'[i] = stream[i]
         /\ \A i \in 1..at : stream'[i].type = stream[i].type
         /\ stream'[at + 1] = EntryRecord
         /\ Lines' = Lines \cup {at + 1} /\ at + 1 \notin Lines
         /\ ~Delivered'
  <1>1. TypeInv /\ StreamInv /\ Len(stream) = at /\ at <= Len(plan) /\ at \in Nat \ {0}
    BY DEF IInv, StreamInv, Loop, TypeInv
  <1>2. EntryRecord \in Records /\ EntryRecord.type = "entry"
    BY <1>1 DEF EntryRecord, Records, TypeInv
  <1>3. /\ stream' \in Seq(Records) /\ room' \in Nat /\ Len(stream') = at + 1
        /\ \A i \in 1..at : stream'[i] = stream[i]
        /\ stream'[at + 1] = EntryRecord
    BY <1>1, <1>2, EmitFacts
  <1>4. Len(plan) \in Nat /\ \A i \in Lines : i \in 1..at
    BY <1>1, LinesFacts
  <1>5. Lines' = Lines \cup {at + 1}
    <2>1. \A i \in 1..(at + 1) : i = at + 1 \/ i \in 1..at
      BY <1>1
    <2>2. stream'[at + 1].type = "entry" /\ at + 1 \in 1..(at + 1)
      BY <1>1, <1>2, <1>3
    <2>3. Lines = {i \in 1..at : stream[i].type = "entry"}
      BY <1>1 DEF Lines
    <2>4. Lines' = {i \in 1..(at + 1) : stream'[i].type = "entry"}
      BY <1>3 DEF Lines
    <2>5. \A i \in 1..at : i \in 1..(at + 1)
      BY <1>1
    <2>6. QED
      BY <1>3, <2>1, <2>2, <2>3, <2>4, <2>5
  <1>6. ~Delivered'
    BY <1>1, <1>2, <1>3 DEF Delivered
  <1>7. QED
    BY <1>1, <1>3, <1>4, <1>5, <1>6

\* The record of the entry at hand is counted, or the run ends with the writer's error.
LEMMA EmitEntryStep == ASSUME IInv, EmitEntry PROVE IInv'
  <1>1. /\ stage = "emit" /\ TypeInv /\ StreamInv /\ err = "none" /\ item' = NoItem
        /\ exit' = 0 /\ snapshot' = FALSE
        /\ UNCHANGED <<ctx, plan, remaining, audit, visits, late, schema, observed>>
    BY DEF EmitEntry, fixed, IInv, StreamInv
  <1>2. NoItem \in [state : States, reason : Reasons, report : BOOLEAN]
    BY DEF NoItem, States, Reasons
  <1>3. CASE /\ Emit(EntryRecord)
             /\ summary' = [summary EXCEPT
                  !.entries = @ + 1, !.counts[item.state] = @ + 1,
                  !.exit = IF exit > @ THEN exit ELSE @]
             /\ at' = at + 1 /\ stage' = "entry" /\ UNCHANGED err
    <2>1. /\ stream' \in Seq(Records) /\ room' \in Nat /\ Len(stream') = at + 1
          /\ at \in Nat \ {0} /\ at <= Len(plan) /\ Len(plan) \in Nat
          /\ \A i \in Lines : i \in 1..at /\ stream'[i] = stream[i]
          /\ \A i \in 1..at : stream'[i].type = stream[i].type
          /\ stream'[at + 1] = EntryRecord
          /\ Lines' = Lines \cup {at + 1} /\ at + 1 \notin Lines
          /\ ~Delivered'
      BY <1>1, <1>3, EntryEmitted
    <2>2. /\ EntryRecord.type = "entry" /\ EntryRecord.state = item.state
          /\ EntryRecord.reason = item.reason /\ EntryRecord.report = item.report
      BY DEF EntryRecord
    <2>3. /\ item.state \in States /\ exit \in 0..4 /\ summary \in Summaries
          /\ summary.exit \in 0..4
      BY <1>1 DEF TypeInv, Summaries, ExitCodes
    <2>4. /\ summary'.entries = summary.entries + 1
          /\ summary'.counts = [summary.counts EXCEPT ![item.state] = summary.counts[item.state] + 1]
          /\ summary'.exit = IF exit > summary.exit THEN exit ELSE summary.exit
          /\ summary'.state = summary.state /\ summary'.complete = summary.complete
      BY <1>3, <2>3 DEF Summaries
    <2>5. summary' \in Summaries
      <3> DEFINE larger == IF exit > summary.exit THEN exit ELSE summary.exit
                 counts == [summary.counts EXCEPT ![item.state] = summary.counts[item.state] + 1]
      <3>1. larger \in ExitCodes
        BY <2>3 DEF ExitCodes
      <3>2. counts \in Counts
        BY <2>3 DEF Summaries, Counts
      <3>3. summary.entries + 1 \in Nat
        BY <2>3 DEF Summaries
      <3>4. summary' = [summary EXCEPT !.entries = summary.entries + 1, !.counts = counts,
                                      !.exit = larger]
        BY <1>3, <2>3 DEF Summaries
      <3> HIDE DEF larger, counts
      <3>5. QED
        BY <2>3, <3>1, <3>2, <3>3, <3>4 DEF Summaries
    <2>6. TypeInv'
      <3>1. /\ item' \in [state : States, reason : Reasons, report : BOOLEAN]
            /\ exit' \in 0..4 /\ at' \in Nat \ {0} /\ snapshot' \in BOOLEAN
        <4>1. item' \in [state : States, reason : Reasons, report : BOOLEAN]
          BY <1>1, <1>2, Zenon
        <4>2. exit' \in 0..4 /\ at' \in Nat \ {0} /\ snapshot' \in BOOLEAN
          <5>1. exit' \in 0..4 /\ at' \in Nat \ {0}
            BY <1>1, <1>3, <2>1
          <5>2. snapshot' \in BOOLEAN
            BY <1>1, Zenon
          <5>3. QED
            BY <5>1, <5>2
        <4>3. QED
          BY <4>1, <4>2, Zenon
      <3>2. QED
        BY <1>1, <1>3, <2>1, <2>5, <3>1 DEF TypeInv
    <2>7. StreamInv'
      <3>1. \A i \in 1..(at + 1) : i = at + 1 \/ i \in 1..at
        BY <2>1
      <3>2. \A i \in 1..at : stream'[i].type = IF i = 1 THEN "header" ELSE "entry"
        BY <1>1, <2>1 DEF StreamInv, Loop
      <3>3. \A i \in 1..(at + 1) : stream'[i].type = IF i = 1 THEN "header" ELSE "entry"
        BY <2>1, <2>2, <3>1, <3>2
      <3>4. \A i \in 1..(at + 1) : i # Len(plan) + 2
        BY <2>1
      <3>5. QED
        BY <1>1, <1>3, <2>1, <3>3, <3>4 DEF StreamInv, Loop
    <2>8. LineInv'
      <3>1. Fits(plan[at], item.state, item.report)
        BY <1>1 DEF IInv, LineInv, Pending
      <3>2. \A i \in Lines : Fits(plan[i - 1], stream'[i].state, stream'[i].report)
        BY <2>1 DEF IInv, LineInv
      <3>3. Fits(plan[at + 1 - 1], stream'[at + 1].state, stream'[at + 1].report)
        BY <2>1, <2>2, <3>1
      <3>4. QED
        BY <1>1, <1>3, <2>1, <3>2, <3>3 DEF LineInv, Pending
    <2>9. CountInv'
      <3>1. IsFiniteSet(Lines)
        BY <1>1, LinesFacts
      <3>2. summary'.entries = Cardinality(Lines')
        <4>1. Cardinality(Lines \cup {at + 1}) = Cardinality(Lines) + 1
          BY <2>1, <3>1, FS_AddElement
        <4>2. QED
          BY <2>1, <2>4, <4>1 DEF IInv, CountInv
      <3>3. ASSUME NEW s \in States
            PROVE  summary'.counts[s] = Cardinality({i \in Lines' : stream'[i].state = s})
        <4> DEFINE old == {i \in Lines : stream[i].state = s}
                   new == {i \in Lines' : stream'[i].state = s}
        <4>1. IsFiniteSet(old) /\ at + 1 \notin old
          BY <2>1, <3>1, FS_Subset
        <4>2. summary.counts[s] = Cardinality(old)
          BY DEF IInv, CountInv
        <4>3. CASE s = item.state
          <5>1. new = old \cup {at + 1}
            BY <2>1, <2>2, <4>3
          <5>2. Cardinality(old \cup {at + 1}) = Cardinality(old) + 1
            BY <4>1, FS_AddElement
          <5>3. summary'.counts[s] = summary.counts[s] + 1
            BY <2>3, <2>4, <4>3 DEF Summaries, Counts
          <5>4. QED
            BY <4>2, <5>1, <5>2, <5>3
        <4>4. CASE s # item.state
          <5>1. new = old
            BY <2>1, <2>2, <4>4
          <5>2. summary'.counts[s] = summary.counts[s]
            BY <2>3, <2>4, <4>4 DEF Summaries, Counts
          <5>3. QED
            BY <4>2, <5>1, <5>2
        <4>5. QED
          BY <4>3, <4>4
      <3>4. QED
        BY <3>2, <3>3 DEF CountInv
    <2>10. ExitInv'
      <3>1. HasIncomplete' <=> HasIncomplete \/ item.state \in Incomplete
        BY <2>1, <2>2 DEF HasIncomplete
      <3>2. exit = 4 <=> item.state \in Incomplete
        BY <1>1 DEF IInv, LineInv, Pending
      <3>3. summary'.exit = 4 <=> exit = 4 \/ summary.exit = 4
        BY <2>3, <2>4
      <3>4. QED
        BY <1>1, <1>3, <2>1, <2>4, <3>1, <3>2, <3>3 DEF IInv, ExitInv, Loop
    <2>11. CancelInv'
      <3>1. /\ ctx = "live" => \A i \in Lines : stream[i].state # "canceled"
            /\ item.state = "canceled" => ctx # "live"
            /\ \A i, j \in Lines :
                 stream[i].state = "canceled" /\ j > i /\ plan[j - 1] = "candidate" =>
                   stream[j].state = "canceled"
            /\ (\E i \in Lines : stream[i].state = "canceled") /\ plan[at] = "candidate" =>
                 item.state = "canceled"
        BY <1>1 DEF IInv, CancelInv, Pending
      <3>2. stream'[at + 1].state = item.state /\ \A i \in Lines : stream'[i] = stream[i] /\ i <= at
        BY <2>1, <2>2
      <3>3. ctx = "live" => \A i \in Lines' : stream'[i].state # "canceled"
        BY <2>1, <3>1, <3>2
      <3>4. ASSUME NEW i \in Lines', NEW j \in Lines', stream'[i].state = "canceled", j > i,
                   plan[j - 1] = "candidate"
            PROVE  stream'[j].state = "canceled"
        <4>1. i \in Lines
          <5>1. at \in Nat /\ i \in 1..(at + 1) /\ j \in 1..(at + 1)
            BY <2>1
          <5>2. i # at + 1
            BY <3>4, <5>1
          <5>3. QED
            BY <2>1, <5>2
        <4>2. CASE j \in Lines
          BY <3>1, <3>2, <3>4, <4>1, <4>2
        <4>3. CASE j = at + 1
          BY <2>1, <3>1, <3>2, <3>4, <4>1, <4>3
        <4>4. QED
          BY <2>1, <4>2, <4>3
      <3>5. QED
        BY <1>1, <1>3, <2>1, <3>3, <3>4 DEF CancelInv, Pending
    <2>12. LateInv' /\ BudgetInv'
      BY <1>1, <1>3 DEF IInv, LateInv, BudgetInv
    <2>13. ObserverInv'
      <3>1. SUFFICES ASSUME observed PROVE ObserverInv'
        BY <1>1 DEF ObserverInv
      <3>2. Len(visits) = at /\ Became(visits[at], item.state, item.reason, item.report)
        BY <1>1, <3>1 DEF IInv, ObserverInv
      <3>3. \A i \in Lines :
              Became(visits[i - 1], stream'[i].state, stream'[i].reason, stream'[i].report)
        BY <2>1, <3>1 DEF IInv, ObserverInv
      <3>4. Became(visits[at + 1 - 1], stream'[at + 1].state, stream'[at + 1].reason,
                   stream'[at + 1].report)
        BY <2>1, <2>2, <3>2
      <3>5. \A v \in 1..Len(visits) : visits[v].snapshot <=> visits[v].state \in Audited
        BY <3>1 DEF IInv, ObserverInv
      <3>6. QED
        BY <1>1, <1>3, <2>1, <3>2, <3>3, <3>4, <3>5 DEF ObserverInv, Loop
    <2>14. QED
      BY <2>6, <2>7, <2>8, <2>9, <2>10, <2>11, <2>12, <2>13 DEF IInv
  <1>4. CASE EmitFails /\ Return /\ UNCHANGED <<summary, at>>
    <2>1. UNCHANGED <<stream, room>> /\ err' \in {"output_limit", "write_failed"}
      BY <1>4, EmitFailsFacts
    <2>2. TypeInv'
      <3>1. /\ item' \in [state : States, reason : Reasons, report : BOOLEAN]
            /\ exit' \in 0..4 /\ snapshot' \in BOOLEAN
        <4>1. item' \in [state : States, reason : Reasons, report : BOOLEAN]
          BY <1>1, <1>2, Zenon
        <4>2. exit' \in 0..4 /\ snapshot' \in BOOLEAN
          <5>1. exit' \in 0..4
            BY <1>1
          <5>2. snapshot' \in BOOLEAN
            BY <1>1, Zenon
          <5>3. QED
            BY <5>1, <5>2
        <4>3. QED
          BY <4>1, <4>2, Zenon
      <3>2. QED
        BY <1>1, <1>4, <2>1, <3>1 DEF TypeInv, Return
    <2>3. observed =>
            /\ Len(visits') >= at - 1
            /\ \A v \in 1..Len(visits') : visits'[v].snapshot <=> visits'[v].state \in Audited
      BY <1>1 DEF IInv, ObserverInv, TypeInv
    <2>4. QED
      BY <1>1, <1>4, <2>1, <2>2, <2>3, FailStep DEF Loop
  <1>5. QED
    BY <1>3, <1>4 DEF EmitEntry

\* After the last entry the summary takes its state from the records and the context.
LEMMA ConcludeStep == ASSUME IInv, Conclude PROVE IInv'
  <1>1. /\ stage = "entry" /\ stage' = "last" /\ at > Len(plan) /\ TypeInv /\ StreamInv
        /\ UNCHANGED <<ctx, plan, stream, room, err, schema, observed, at, remaining, audit, item,
                       exit, snapshot, visits, late>>
    BY DEF Conclude, fixed, loopVars, IInv
  <1>2. /\ Len(stream) = at /\ Len(plan) \in Nat /\ at = Len(plan) + 1 /\ err = "none"
    BY <1>1, LinesFacts DEF StreamInv, TypeInv, Loop
  <1>3. /\ Lines' = Lines /\ (Delivered' <=> Delivered) /\ (HasIncomplete' <=> HasIncomplete)
        /\ ~Delivered
    BY <1>1, <1>2, SameLines, LinesFacts
  <1>4. Lines = 2..(Len(plan) + 1)
    <2>1. Lines = {i \in 1..Len(stream) : i >= 2 /\ i <= Len(plan) + 1}
      BY <1>1, LinesFacts
    <2>2. \A i : i \in Lines <=> i \in 2..(Len(plan) + 1)
      BY <1>2, <2>1
    <2>3. QED
      BY <2>2
  <1>5. summary \in Summaries /\ summary.state = "completed"
        /\ (summary.complete <=> \A i \in 1..Len(plan) : plan[i] # "failed")
        /\ (summary.exit = 4 <=> HasIncomplete)
    BY <1>1 DEF IInv, TypeInv, ExitInv, Loop
  <1>6. ~summary.complete => HasIncomplete
    <2>1. ASSUME NEW i \in 1..Len(plan), plan[i] = "failed" PROVE HasIncomplete
      <3>1. i + 1 \in Lines /\ i + 1 - 1 = i
        BY <1>2, <1>4
      <3>2. Fits(plan[i + 1 - 1], stream[i + 1].state, stream[i + 1].report)
        BY <3>1 DEF IInv, LineInv
      <3>3. Fits("failed", stream[i + 1].state, stream[i + 1].report)
        BY <2>1, <3>1, <3>2
      <3>4. stream[i + 1].state = "failed"
        BY <3>3 DEF Fits
      <3>5. QED
        BY <3>1, <3>4 DEF HasIncomplete, Incomplete
    <2>2. QED
      BY <1>5, <2>1
  <1>7. \A s \in {"failed", "unsupported"} :
          summary.counts[s] > 0 <=> \E i \in Lines : stream[i].state = s
    <2>1. TAKE s \in {"failed", "unsupported"}
    <2> DEFINE of == {i \in Lines : stream[i].state = s}
    <2>2. summary.counts[s] = Cardinality(of)
      BY DEF IInv, CountInv, States
    <2>3. IsFiniteSet(of)
      BY <1>1, LinesFacts, FS_Subset
    <2>4. Cardinality(of) \in Nat /\ (Cardinality(of) = 0 <=> of = {})
      BY <2>3, FS_CardinalityType, FS_EmptySet
    <2>5. QED
      BY <2>2, <2>4
  <1>8. HasIncomplete <=> \/ summary.counts["failed"] > 0 \/ summary.counts["unsupported"] > 0
                          \/ \E i \in Lines : stream[i].state = "canceled"
    BY <1>7 DEF HasIncomplete, Incomplete
  <1>9. /\ summary' \in Summaries
        /\ summary'.counts = summary.counts /\ summary'.entries = summary.entries
        /\ summary'.complete = summary.complete
        /\ summary'.exit = IF ctx # "live" THEN 4 ELSE summary.exit
        /\ summary'.state = IF ctx # "live" THEN "canceled"
             ELSE IF ~summary.complete \/ summary.counts["failed"] > 0
                       \/ summary.counts["unsupported"] > 0
             THEN "partial" ELSE "completed"
    <2>1. Ended(ctx) \in Reasons
      BY DEF Ended, Reasons
    <2>2. "canceled" \in SummaryStates /\ "partial" \in SummaryStates /\ 4 \in ExitCodes
      BY DEF SummaryStates, ExitCodes
    <2>3. CASE ctx # "live"
      <3>1. summary' = [summary EXCEPT !.state = "canceled", !.reason = Ended(ctx), !.exit = 4]
        BY <2>3 DEF Conclude
      <3>2. QED
        BY <1>5, <2>1, <2>2, <2>3, <3>1 DEF Summaries
    <2>4. CASE ctx = "live" /\ (~summary.complete \/ summary.counts["failed"] > 0
                                 \/ summary.counts["unsupported"] > 0)
      <3>1. summary' = [summary EXCEPT !.state = "partial"]
        BY <2>4 DEF Conclude
      <3>2. QED
        BY <1>5, <2>2, <2>4, <3>1 DEF Summaries
    <2>5. CASE ctx = "live" /\ ~(~summary.complete \/ summary.counts["failed"] > 0
                                  \/ summary.counts["unsupported"] > 0)
      <3>1. summary' = summary
        BY <2>5 DEF Conclude
      <3>2. QED
        BY <1>5, <2>5, <3>1
    <2>6. QED
      BY <2>3, <2>4, <2>5
  <1>10. TypeInv'
    BY <1>1, <1>9 DEF TypeInv
  <1>11. StreamInv'
    BY <1>1, <1>2 DEF StreamInv, Loop
  <1>12. LineInv' /\ LateInv' /\ BudgetInv'
    BY <1>1, <1>3 DEF IInv, LineInv, LateInv, BudgetInv, Pending
  <1>13. CountInv'
    BY <1>1, <1>9, CountSame DEF IInv
  <1>14. ctx = "live" => \A i \in Lines : stream[i].state # "canceled"
    BY DEF IInv, CancelInv
  <1>15. ExitInv'
    BY <1>1, <1>3, <1>5, <1>6, <1>8, <1>9, <1>14 DEF ExitInv, Loop
  <1>16. CancelInv'
    BY <1>1, <1>3, <1>9, <1>14 DEF IInv, CancelInv, Pending
  <1>17. ObserverInv'
    BY <1>1, <1>2, <1>3, <1>4 DEF IInv, ObserverInv, Loop
  <1>18. QED
    BY <1>10, <1>11, <1>12, <1>13, <1>15, <1>16, <1>17 DEF IInv

\* The summary is the last record, or the run ends without one.
LEMMA EmitSummaryStep == ASSUME IInv, EmitSummary PROVE IInv'
  <1>1. /\ stage = "last" /\ stage' = "returned" /\ TypeInv /\ StreamInv /\ err = "none"
        /\ Len(stream) = Len(plan) + 1 /\ Len(plan) \in Nat
        /\ UNCHANGED <<ctx, plan, summary, schema, observed, at, remaining, audit, item, exit,
                       snapshot, visits, late>>
    BY LinesFacts DEF EmitSummary, Return, fixed, loopVars, IInv, StreamInv
  <1>2. CASE Emit(SummaryRecord) /\ UNCHANGED err
    <2>1. SummaryRecord \in Records /\ SummaryRecord.type = "summary"
      BY <1>1 DEF SummaryRecord, Records, TypeInv, Summaries
    <2>2. /\ stream' \in Seq(Records) /\ room' \in Nat /\ Len(stream') = Len(plan) + 2
          /\ \A i \in 1..(Len(plan) + 1) : stream'[i] = stream[i]
          /\ stream'[Len(plan) + 2] = SummaryRecord
      BY <1>1, <1>2, <2>1, EmitFacts
    <2>3. \A i \in 1..(Len(plan) + 2) : i = Len(plan) + 2 \/ i \in 1..(Len(plan) + 1)
      BY <1>1
    <2>4. Lines' = Lines /\ \A i \in Lines : stream'[i] = stream[i] /\ i \in 2..(Len(plan) + 1)
      <3>1. Lines = {i \in 1..(Len(plan) + 1) : stream[i].type = "entry"}
        BY <1>1 DEF Lines
      <3>2. Lines' = {i \in 1..(Len(plan) + 2) : stream'[i].type = "entry"}
        BY <2>2 DEF Lines
      <3>3. Lines' = Lines
        BY <1>1, <2>1, <2>2, <2>3, <3>1, <3>2
      <3>4. QED
        BY <1>1, <2>2, <3>1, <3>3, LinesFacts
    <2>5. HasIncomplete' <=> HasIncomplete
      BY <2>4 DEF HasIncomplete
    <2>6. TypeInv'
      BY <1>1, <1>2, <2>2 DEF TypeInv
    <2>7. StreamInv'
      <3>1. \A i \in 1..(Len(plan) + 2) :
              stream'[i].type = IF i = 1 THEN "header" ELSE IF i = Len(plan) + 2 THEN "summary"
                                ELSE "entry"
        BY <1>1, <2>1, <2>2, <2>3 DEF StreamInv
      <3>2. QED
        BY <1>1, <1>2, <2>2, <3>1 DEF StreamInv, Loop
    <2>8. LineInv' /\ LateInv' /\ BudgetInv'
      BY <1>1, <2>4 DEF IInv, LineInv, LateInv, BudgetInv, Pending
    <2>9. CountInv'
      <3>1. \A s : {i \in Lines' : stream'[i].state = s} = {i \in Lines : stream[i].state = s}
        BY <2>4
      <3>2. QED
        BY <1>1, <2>4, <3>1 DEF IInv, CountInv
    <2>10. ExitInv'
      BY <1>1, <2>5 DEF IInv, ExitInv, Loop
    <2>11. CancelInv'
      BY <1>1, <2>4 DEF IInv, CancelInv, Pending
    <2>12. ObserverInv'
      BY <1>1, <2>4 DEF IInv, ObserverInv, Loop
    <2>13. QED
      BY <2>6, <2>7, <2>8, <2>9, <2>10, <2>11, <2>12 DEF IInv
  <1>3. CASE EmitFails
    <2>1. UNCHANGED <<stream, room>> /\ err' \in {"output_limit", "write_failed"}
      BY <1>3, EmitFailsFacts
    <2>2. /\ Lines' = Lines /\ (Delivered' <=> Delivered) /\ (HasIncomplete' <=> HasIncomplete)
          /\ CountInv'
      BY <1>1, <2>1, SameLines, CountSame DEF IInv
    <2>3. TypeInv' /\ StreamInv'
      BY <1>1, <2>1 DEF TypeInv, StreamInv, Loop
    <2>4. LineInv' /\ LateInv' /\ BudgetInv' /\ CancelInv'
      BY <1>1, <2>1, <2>2 DEF IInv, LineInv, LateInv, BudgetInv, CancelInv, Pending
    <2>5. ExitInv' /\ ObserverInv'
      BY <1>1, <2>1, <2>2 DEF IInv, ExitInv, ObserverInv, Loop
    <2>6. QED
      BY <2>2, <2>3, <2>4, <2>5 DEF IInv
  <1>4. QED
    BY <1>2, <1>3 DEF EmitSummary

\* The context ends, or nothing happens.
LEMMA ContextStep ==
  ASSUME IInv, ctx' = ctx \/ ctx' \in {"canceled", "timeout"},
         UNCHANGED <<stage, plan, stream, room, summary, err, fixed, loopVars>>
  PROVE  IInv'
  <1>1. UNCHANGED <<stage, plan, stream, room, summary, err, schema, observed, at, remaining,
                    audit, item, exit, snapshot, visits, late>>
    BY DEF fixed, loopVars
  <1>2. /\ Lines' = Lines /\ (Delivered' <=> Delivered) /\ (HasIncomplete' <=> HasIncomplete)
        /\ CountInv'
    BY <1>1, SameLines, CountSame DEF IInv
  <1>3. TypeInv' /\ StreamInv'
    BY <1>1 DEF IInv, TypeInv, StreamInv
  <1>4. LineInv' /\ ExitInv' /\ BudgetInv' /\ ObserverInv'
    BY <1>1, <1>2 DEF IInv, LineInv, ExitInv, BudgetInv, ObserverInv, Pending, Fits, Became
  <1>5. CancelInv' /\ LateInv'
    BY <1>1, <1>2 DEF IInv, CancelInv, LateInv, Pending
  <1>6. QED
    BY <1>2, <1>3, <1>4, <1>5 DEF IInv

\* Every step of the executor keeps the invariant.
LEMMA StepInv == IInv /\ [Next]_vars => IInv'
  <1> SUFFICES ASSUME IInv, [Next]_vars PROVE IInv'
    OBVIOUS
  <1>1. CASE Steps
    BY <1>1, EmitHeaderStep, DiscoverStep, TakeEntryStep, AuditStep, SettleStep, EmitEntryStep,
      ConcludeStep, EmitSummaryStep DEF Steps
  <1>2. CASE Callbacks
    BY <1>2, PrepareStep, VisitStep DEF Callbacks
  <1>3. CASE EndContext
    BY <1>3, ContextStep DEF EndContext
  <1>4. CASE UNCHANGED vars
    BY <1>4, ContextStep DEF vars, fixed, loopVars
  <1>5. QED
    BY <1>1, <1>2, <1>3, <1>4 DEF Next

---------------------------------------------------------------------------
(* What the invariant says of the stream.                                  *)

\* By the shape of the stream and the counts, a delivered summary is true.
LEMMA SummaryOfRun == IInv => SummaryTrue
  <1> SUFFICES ASSUME IInv PROVE SummaryTrue
    OBVIOUS
  <1>1. TypeInv /\ StreamInv
    BY DEF IInv
  <1>2. /\ Delivered <=> Len(stream) = Len(plan) + 2
        /\ Lines = {i \in 1..Len(stream) : i >= 2 /\ i <= Len(plan) + 1}
        /\ Len(plan) \in Nat /\ Len(stream) \in Nat
    BY <1>1, LinesFacts
  <1>3. SummaryCompletes
    <2>1. stage = "returned" => (Delivered <=> err = "none")
      BY <1>1, <1>2 DEF StreamInv
    <2>2. Delivered => stage = "returned"
      BY <1>1, <1>2 DEF StreamInv, TypeInv, Loop
    <2>3. ASSUME Delivered PROVE Lines = 2..(Len(plan) + 1)
      <3>1. \A i : i \in Lines <=> i \in 2..(Len(plan) + 1)
        BY <1>2, <2>3
      <3>2. QED
        BY <3>1
    <2>4. QED
      BY <1>2, <2>1, <2>2, <2>3 DEF SummaryCompletes
  <1>4. SummaryAgrees
    BY DEF SummaryAgrees, IInv, CountInv, ExitInv, HasIncomplete
  <1>5. QED
    BY <1>1, <1>3, <1>4 DEF SummaryTrue, TypeInv

\* An exit below 4 leaves no incomplete record and no failed discovery.
LEMMA LowExitOfRun == IInv => LowExitVouches
  <1> SUFFICES ASSUME IInv, Delivered, summary.exit < 4
               PROVE  /\ summary.complete
                      /\ \A i \in 1..Len(plan) : plan[i] = "candidate" =>
                           stream[i + 1].state \in Audited /\ stream[i + 1].report
    BY DEF LowExitVouches
  <1>1. summary.complete /\ ~HasIncomplete
    BY DEF IInv, ExitInv
  <1>2. Lines = 2..(Len(plan) + 1) /\ Len(plan) \in Nat
    BY SummaryOfRun, LinesFacts DEF SummaryTrue, SummaryCompletes, IInv
  <1>3. ASSUME NEW i \in 1..Len(plan), plan[i] = "candidate"
        PROVE  stream[i + 1].state \in Audited /\ stream[i + 1].report
    <2>1. i + 1 \in Lines /\ i + 1 - 1 = i
      BY <1>2
    <2>2. Fits(plan[i + 1 - 1], stream[i + 1].state, stream[i + 1].report)
      BY <2>1 DEF IInv, LineInv
    <2>3. Fits("candidate", stream[i + 1].state, stream[i + 1].report)
      BY <1>3, <2>1, <2>2
    <2>4. stream[i + 1].state \notin Incomplete
      BY <1>1, <2>1 DEF HasIncomplete
    <2>5. QED
      BY <2>3, <2>4 DEF Fits
  <1>4. QED
    BY <1>1, <1>3

\* Canceled records are followed by canceled ones only, and one read is late at most.
LEMMA EndOfRun == IInv => EndIsFinal
  BY DEF EndIsFinal, CancellationSticks, OneLateRead, IInv, CancelInv, LateInv

\* Every record is what the observer was told and answered.
LEMMA ObserverOfRun == IInv => ObserverAgrees
  <1> SUFFICES ASSUME IInv, observed PROVE ObserverAgrees
    BY DEF ObserverAgrees
  <1>1. \A i \in Lines : i - 1 <= Len(visits)
    <2>1. TypeInv /\ StreamInv /\ ObserverInv
      BY DEF IInv
    <2>2. CASE stage \in Loop
      <3>1. Len(stream) = at /\ at \in Nat /\ Len(visits) >= at - 1
        BY <2>1, <2>2 DEF StreamInv, ObserverInv, TypeInv
      <3>2. \A i \in Lines : i \in 1..at
        BY <2>1, <3>1, LinesFacts
      <3>3. Len(visits) \in Nat
        BY <2>1, LinesFacts
      <3>4. QED
        BY <3>1, <3>2, <3>3
    <2>3. CASE stage \notin Loop
      BY <2>1, <2>3 DEF ObserverInv
    <2>4. QED
      BY <2>2, <2>3
  <1>2. QED
    BY <1>1 DEF ObserverAgrees, IInv, ObserverInv, Became

---------------------------------------------------------------------------
(* The theorems.                                                           *)

\* The inductive invariant holds: every record fits its entry, is counted, and is
\* what the observer was told (run.go).
THEOREM Invariance == Spec => []IInv
  BY InitInv, StepInv, PTL DEF Spec

\* A summary is in the stream exactly when run returns without an error; it stands
\* last, behind one record for every planned entry, its counts and exit code are
\* those of the records, and neither budget is overdrawn.
THEOREM SummaryIsTrue == Spec => []SummaryTrue
  BY Invariance, SummaryOfRun, PTL

\* An exit below 4 vouches for every planned candidate: audited to its end, its
\* report in the stream.
THEOREM LowExitIsEarned == Spec => []LowExitVouches
  BY Invariance, LowExitOfRun, PTL

\* After the end of the context one read at most is finished, and every candidate
\* after a canceled one is canceled, the summary too.
THEOREM EndStaysFinal == Spec => []EndIsFinal
  BY Invariance, EndOfRun, PTL

\* What the stream records is what the observer was told before.
THEOREM ObserverIsTold == Spec => []ObserverAgrees
  BY Invariance, ObserverOfRun, PTL

---------------------------------------------------------------------------
(***************************************************************************)
(* The command (DirectoryReveal).                                          *)
(***************************************************************************)
(* The inductive invariant.                                                *)

Receipts == [state : States \cup {"revealed"}, kinds : SUBSET AllKinds]
Calls == [state : States \cup {"revealed"}, reason : {"empty", "token"},
          hash : {"empty", "digest"}, kinds : SUBSET AllKinds, candidate : BOOLEAN]

DRTypeInv ==
  /\ step \in {"start", "run", "commit", "close", "withdraw", "replay", "exited", "crashed"}
  /\ tree \in {"none", "active", "aborted", "committed"}
  /\ ledger \in Seq(Receipts) /\ call \in Calls
  /\ root \in {"absent", "present"} /\ inside \subseteq {"ours", "foreign"}
  /\ replayed \in Nat
  /\ cause \in {"none", "no_plan", "output_limit", "write_failed", "observer",
                "publish_failed"}
  /\ message \in {"none", "input.open_failed", "output.create_failed", "output.close_failed",
                  "output.publish_failed", "output.cleanup_failed", "output.write_failed",
                  "execution.resource_limit"}
  /\ code \in ExitCodes

\* What the executor says of an entry that the observer is about to see.
VisitInv ==
  stage = "visit" =>
    /\ item.report => plan[at] = "candidate"
    /\ item.state \notin Audited => item.reason # ""

\* Where the command stands, seen from the executor: the tree is made by Prepare, and is
\* active for as long as entries are handled; without it the run can only report that
\* nothing was discovered.
TreeInv ==
  /\ observed
  /\ step = "start" => stage = "header"
  /\ stage \in {"header", "open", "prepare"} => tree = "none" /\ ledger = <<>> /\ visits = <<>>
  /\ stage \in Loop \ {"prepare"} => tree = "active"
  /\ stage = "last" => tree \in {"none", "active"}
  /\ stage = "last" /\ tree = "none" => summary.exit = 4
  /\ stage = "returned" /\ err = "none" /\ tree = "none" => summary.exit = 4
  /\ tree = "aborted" => stage = "returned"

\* Where the command stands, seen from the command: what each of its steps may rely on.
PhaseInv ==
  /\ step \in {"start", "run"} =>
       tree # "committed" /\ (tree = "aborted" => err = "observer")
  /\ step \in {"commit", "close", "withdraw", "replay"} => stage = "returned"
  /\ step = "commit" => tree = "active" /\ err = "none"
  /\ step = "close" => tree = "committed"
  /\ step = "withdraw" =>
       /\ tree # "committed"
       /\ cause = "no_plan" => tree = "none" /\ err = "none"
  /\ step = "replay" => tree = "committed" \/ (tree = "none" /\ root = "absent" /\ err = "none")
  /\ tree = "committed" => err = "none" /\ Len(ledger) = Len(plan)

\* The output root: there until it is withdrawn, and never withdrawn once published.
RootInv ==
  /\ step = "start" => root = "absent" /\ inside = {}
  /\ step \in {"run", "commit", "close", "withdraw"} => root = "present"
  /\ tree = "committed" => stage = "returned" /\ root = "present" /\ "ours" \in inside

\* The receipt of an entry is what the executor was answered about it.
Receipted(told, receipt) ==
  /\ receipt.state = IF told.reply = "source_limit" THEN "failed"
                     ELSE IF told.state \in Audited THEN "revealed" ELSE told.state
  /\ "report" \in receipt.kinds <=> told.report

\* While nothing has gone wrong between executor and tree, the ledger holds one receipt
\* for each entry the observer was told of.
LedgerInv ==
  tree \in {"active", "committed"} /\ err # "observer" =>
    /\ Len(ledger) = Len(visits)
    /\ \A i \in 1..Len(ledger) : Receipted(visits[i], ledger[i])

\* How the command ends.
CodeInv ==
  step = "exited" =>
    /\ tree # "committed" => code = 4
    /\ code < 4 => code = summary.exit /\ replayed = Len(stream)

DRInv ==
  /\ IInv /\ DRTypeInv /\ VisitInv /\ TreeInv /\ PhaseInv /\ RootInv /\ LedgerInv
  /\ CodeInv /\ CallsFit /\ NothingLeftUnsaid

---------------------------------------------------------------------------
(* The executor's part.                                                    *)

InLoop == Loop \ {"prepare"}

\* Where a step of the executor leads that the observer has no part in.
Moves ==
  \/ stage = "header" /\ stage' = "open"
  \/ stage = "open" /\ stage' = "prepare"
  \/ stage = "open" /\ stage' = "last" /\ summary'.exit = 4
  \/ stage \in InLoop /\ stage' \in InLoop
  \/ stage \in InLoop /\ stage' = "last"
  \/ stage = "last" /\ stage' = "returned" /\ summary' = summary
  \/ stage' = "returned" /\ err' # "none"

\* It leads there without telling the observer anything; and what it hands to the
\* observer next has a reason, unless it is an audited source.
LEMMA ExecutorMoves ==
  ASSUME IInv, VisitInv, observed, Steps
  PROVE  /\ IInv' /\ VisitInv' /\ observed' /\ stage # "returned"
         /\ visits' = visits /\ err' # "observer" /\ Moves
         /\ stage # "open" => plan' = plan
  <1>1. TypeInv /\ StreamInv /\ LineInv
    BY DEF IInv
  <1>2. stage # "returned"
    BY DEF Steps, EmitHeader, Discover, TakeEntry, Audit, Settle, EmitEntry, Conclude,
           EmitSummary
  <1>3. err = "none"
    BY <1>1, <1>2 DEF StreamInv
  <1>4. IInv'
    BY StepInv DEF Next
  <1>5. CASE EmitHeader
    BY <1>1, <1>2, <1>3, <1>4, <1>5, EmitFailsFacts
       DEF EmitHeader, fixed, loopVars, Return, VisitInv, Moves
  <1>6. CASE Discover
    <2>1. UNCHANGED <<observed, visits, err>> /\ stage = "open"
      BY <1>6 DEF Discover, fixed, loopVars
    <2>2. ASSUME NEW state, NEW why, FinishFailure(state, why)
          PROVE  stage' = "last" /\ summary'.exit = 4
      <3>1. summary' = [summary EXCEPT !.state = state, !.reason = why, !.exit = 4]
        BY <2>2 DEF FinishFailure
      <3>2. summary \in Summaries
        BY <1>1 DEF TypeInv
      <3>3. QED
        BY <2>2, <3>1, <3>2 DEF FinishFailure, Summaries
    <2>3. stage' = "prepare" \/ (stage' = "last" /\ summary'.exit = 4)
      BY <1>6, <2>2 DEF Discover
    <2>4. QED
      BY <1>2, <1>3, <1>4, <2>1, <2>3 DEF VisitInv, Moves
  <1>7. CASE TakeEntry
    <2>1. UNCHANGED <<observed, plan, visits, err>> /\ stage = "entry" /\ at' = at
      BY <1>7 DEF TakeEntry, fixed, loopVars, Passed
    <2>2. ASSUME NEW state, NEW why, why # "", Passed(state, why)
          PROVE  /\ stage' = "visit" /\ ~item'.report /\ item'.reason # ""
      BY <2>2 DEF Passed, Reported
    <2>3. Ended(ctx) # ""
      BY DEF Ended
    <2>4. \/ stage' = "visit" /\ ~item'.report /\ item'.reason # ""
          \/ stage' = "audit"
      BY <1>7, <2>2, <2>3 DEF TakeEntry
    <2>5. QED
      BY <1>2, <1>3, <1>4, <2>1, <2>4 DEF VisitInv, Moves, InLoop, Loop
  <1>8. CASE Audit
    BY <1>2, <1>3, <1>4, <1>8 DEF Audit, fixed, VisitInv, Moves, InLoop, Loop
  <1>9. CASE Settle
    <2>1. UNCHANGED <<observed, plan, visits, err, at>> /\ stage = "settle"
          /\ stage' = "visit"
      BY <1>9 DEF Settle, fixed, Reported
    <2>2. plan[at] = "candidate"
      BY <1>1, <2>1 DEF LineInv
    <2>3. Verdict.state \notin Audited => Verdict.reason # ""
      <3>1. Ended(ctx) # ""
        BY DEF Ended
      <3>2. audit.failure # ""
        BY <1>1 DEF TypeInv, Failures, Codes
      <3>3. QED
        BY <3>1, <3>2 DEF Verdict, Audited
    <2>4. item'.state = Verdict.state /\ item'.reason = Verdict.reason
      BY <1>9 DEF Settle
    <2>5. QED
      BY <1>2, <1>3, <1>4, <2>1, <2>2, <2>3, <2>4 DEF VisitInv, Moves, InLoop, Loop
  <1>10. CASE EmitEntry
    BY <1>2, <1>3, <1>4, <1>10, EmitFailsFacts
       DEF EmitEntry, fixed, Return, VisitInv, Moves, InLoop, Loop
  <1>11. CASE Conclude
    BY <1>2, <1>3, <1>4, <1>11
       DEF Conclude, fixed, loopVars, VisitInv, Moves, InLoop, Loop
  <1>12. CASE EmitSummary
    BY <1>2, <1>3, <1>4, <1>12, EmitFailsFacts
       DEF EmitSummary, fixed, loopVars, Return, VisitInv, Moves
  <1>13. QED
    BY <1>5, <1>6, <1>7, <1>8, <1>9, <1>10, <1>11, <1>12 DEF Steps

---------------------------------------------------------------------------
(* The steps of the command.                                               *)

\* Before the command starts there is no root and no tree.
LEMMA DRInitInv == DRInit => DRInv
  <1> SUFFICES ASSUME DRInit PROVE DRInv
    OBVIOUS
  <1>1. /\ observed /\ step = "start" /\ tree = "none" /\ ledger = <<>> /\ call = NoCall
        /\ root = "absent" /\ inside = {} /\ replayed = 0
        /\ cause = "none" /\ message = "none" /\ code = 0
        /\ stage = "header" /\ err = "none" /\ visits = <<>>
    BY DEF DRInit, Init
  <1>2. IInv
    BY InitInv DEF DRInit
  <1>3. DRTypeInv
    <2>1. <<>> \in Seq(Receipts)
      OBVIOUS
    <2>2. NoCall \in Calls
      BY DEF NoCall, Calls, States
    <2>3. code \in ExitCodes /\ replayed \in Nat
      BY <1>1 DEF ExitCodes
    <2>4. QED
      BY <1>1, <2>1, <2>2, <2>3 DEF DRTypeInv
  <1>4. VisitInv /\ TreeInv /\ PhaseInv /\ RootInv /\ LedgerInv /\ CodeInv
    BY <1>1 DEF VisitInv, TreeInv, PhaseInv, RootInv, LedgerInv, CodeInv, Loop
  <1>5. CallsFit
    BY <1>1 DEF CallsFit, NoCall
  <1>6. NothingLeftUnsaid
    BY <1>1 DEF NothingLeftUnsaid
  <1>7. QED
    BY <1>2, <1>3, <1>4, <1>5, <1>6 DEF DRInv

\* A step of the command that leaves executor, tree and ledger alone disturbs only what
\* is said of the command itself.
LEMMA RestingStep ==
  ASSUME DRInv, UNCHANGED vars, UNCHANGED treeVars, DRTypeInv', PhaseInv', RootInv',
         CodeInv', NothingLeftUnsaid', step' = "start" => step = "start"
  PROVE  DRInv'
  <1>1. IInv'
    BY StepInv DEF DRInv
  <1>2. VisitInv' /\ CallsFit'
    BY DEF DRInv, VisitInv, CallsFit, vars, treeVars
  <1>3. TreeInv' /\ LedgerInv'
    BY DEF DRInv, TreeInv, LedgerInv, vars, treeVars
  <1>4. QED
    BY <1>1, <1>2, <1>3 DEF DRInv

\* The output root is created, or the command ends without one.
LEMMA StartStep == ASSUME DRInv, Start PROVE DRInv'
  <1>1. /\ step = "start" /\ tree = "none" /\ stage = "header" /\ root = "absent" /\ inside = {}
        /\ UNCHANGED <<inside, replayed, cause, tree, ledger, call, stage>>
        /\ UNCHANGED vars /\ UNCHANGED treeVars
    BY DEF Start, DRInv, TreeInv, PhaseInv, RootInv, treeVars, vars
  <1>2. /\ step' \in {"run", "exited"} /\ root' \in {"absent", "present"}
        /\ step' = "run" => root' = "present" /\ code' = code /\ message' = message
        /\ step' = "exited" => /\ code' = 4
                               /\ message' \in {"input.open_failed", "output.create_failed"}
                               /\ root' = "present" => message' = "output.create_failed"
    BY <1>1 DEF Start, Exit
  <1>3. DRTypeInv'
    BY <1>1, <1>2 DEF DRInv, DRTypeInv, ExitCodes
  <1>4. PhaseInv' /\ RootInv' /\ CodeInv' /\ NothingLeftUnsaid'
    BY <1>1, <1>2 DEF PhaseInv, RootInv, CodeInv, NothingLeftUnsaid
  <1>5. QED
    BY <1>1, <1>2, <1>3, <1>4, RestingStep

\* What the executor does on its own leaves tree and root alone.
LEMMA ExecutingStep == ASSUME DRInv, Executing PROVE DRInv'
  <1>1. step = "run" /\ Steps /\ observed /\ IInv /\ VisitInv
    BY DEF Executing, DRInv, TreeInv
  <1>2. UNCHANGED <<tree, ledger, call, step, root, inside, replayed, cause, message, code>>
    BY DEF Executing, treeVars, cliVars
  <1>3. /\ IInv' /\ VisitInv' /\ observed' /\ stage # "returned"
        /\ visits' = visits /\ err' # "observer" /\ Moves
    BY <1>1, ExecutorMoves
  <1>4. err = "none"
    BY <1>1, <1>3 DEF IInv, StreamInv
  <1>5. tree \in {"none", "active"}
    BY <1>3 DEF DRInv, DRTypeInv, TreeInv, RootInv
  <1>6. DRTypeInv' /\ CallsFit'
    BY <1>2 DEF DRInv, DRTypeInv, CallsFit
  <1>7. TreeInv'
    BY <1>1, <1>2, <1>3, <1>5 DEF DRInv, TreeInv, Moves, InLoop, Loop
  <1>8. PhaseInv' /\ RootInv' /\ CodeInv' /\ NothingLeftUnsaid'
    BY <1>1, <1>2, <1>5 DEF DRInv, PhaseInv, RootInv, CodeInv, NothingLeftUnsaid
  <1>9. LedgerInv'
    BY <1>2, <1>3, <1>4 DEF DRInv, LedgerInv
  <1>10. QED
    BY <1>3, <1>6, <1>7, <1>8, <1>9 DEF DRInv

\* The plan is accepted and the tree active, or the run ends with an observer's error.
LEMMA PrepareTreeStep == ASSUME DRInv, PrepareTree PROVE DRInv'
  <1>1. PICK ok \in BOOLEAN : Prepare(ok) /\ tree' = IF ok THEN "active" ELSE "none"
    BY DEF PrepareTree
  <1>2. /\ step = "run" /\ stage = "prepare" /\ observed /\ tree = "none" /\ ledger = <<>>
        /\ UNCHANGED <<ledger, call, step, root, inside, replayed, cause, message, code>>
        /\ UNCHANGED <<observed, visits>>
    BY <1>1 DEF PrepareTree, Prepare, DRInv, TreeInv, cliVars, fixed, loopVars
  <1>3. \/ ok /\ stage' = "entry" /\ err' = err
        \/ ~ok /\ stage' = "returned" /\ err' = "observer"
    BY <1>1 DEF Prepare, Return
  <1>4. IInv'
    BY <1>1, StepInv DEF DRInv, Next, Callbacks
  <1>5. tree' \in {"none", "active"} /\ (tree' = "none" <=> ~ok)
    BY <1>1
  <1>6. DRTypeInv' /\ CallsFit'
    BY <1>2, <1>5 DEF DRInv, DRTypeInv, CallsFit
  <1>7. VisitInv' /\ TreeInv'
    BY <1>2, <1>3, <1>5 DEF VisitInv, TreeInv, Loop
  <1>8. PhaseInv' /\ RootInv' /\ CodeInv' /\ NothingLeftUnsaid'
    BY <1>2, <1>5 DEF DRInv, PhaseInv, RootInv, CodeInv, NothingLeftUnsaid
  <1>9. LedgerInv'
    <2>1. ledger' = <<>> /\ visits' = <<>> /\ Len(<<>>) = 0
      BY <1>2, EmptySeq DEF DRInv, TreeInv
    <2>2. QED
      BY <2>1 DEF LedgerInv
  <1>10. QED
    BY <1>4, <1>6, <1>7, <1>8, <1>9 DEF DRInv

\* A receipt that was accepted joins the ledger, and one that was not ends the tree.
LEMMA RecordingFacts ==
  ASSUME DRTypeInv, tree = "active", NEW c \in Calls, Recording(c)
  PROVE  /\ call' = c /\ inside' \subseteq {"ours", "foreign"}
         /\ ledger' \in Seq(Receipts) /\ tree' \in {"active", "aborted"}
         /\ tree' = "active" =>
              /\ Len(ledger') = Len(ledger) + 1
              /\ \A i \in 1..Len(ledger) : ledger'[i] = ledger[i]
              /\ ledger'[Len(ledger) + 1] = [state |-> c.state, kinds |-> c.kinds]
  <1>1. [state |-> c.state, kinds |-> c.kinds] \in Receipts
    BY DEF Calls, Receipts
  <1>2. ledger \in Seq(Receipts)
    BY DEF DRTypeInv
  <1>3. CASE tree' = tree /\ ledger' = Append(ledger, [state |-> c.state, kinds |-> c.kinds])
             /\ inside' = inside
    BY <1>1, <1>2, <1>3, AppendProperties DEF Recording, DRTypeInv
  <1>4. CASE RollBack /\ UNCHANGED ledger
    BY <1>2, <1>4 DEF Recording, RollBack, DRTypeInv
  <1>5. QED
    BY <1>3, <1>4 DEF Recording

\* The reply that goes with a receipt.
Answer(c, reply) ==
  Recording(c) /\ Visit(IF Recorded THEN reply ELSE "error")

\* What may be recorded of the entry at hand, and what the executor is answered.
Recordable(c, reply) ==
  /\ c \in Calls
  /\ Receipted([state |-> item.state, reason |-> item.reason, report |-> item.report,
                snapshot |-> snapshot, reply |-> reply],
               [state |-> c.state, kinds |-> c.kinds])
  /\ reply \in {"ok", "source_limit"}
  /\ reply = "source_limit" => item.state \in Audited

\* One answer of the observer, with a call that the tree has no reason to refuse.
LEMMA AnswerStep ==
  ASSUME DRInv, step = "run", stage = "visit", NEW c, NEW reply, Recordable(c, reply),
         CallsFit', Answer(c, reply),
         UNCHANGED <<step, root, replayed, cause, message, code>>
  PROVE  DRInv'
  <1> DEFINE given == IF tree' = "active" THEN reply ELSE "error"
  <1>1. tree = "active" /\ observed /\ TypeInv /\ StreamInv /\ err = "none"
    BY DEF DRInv, TreeInv, IInv, StreamInv, Loop
  <1>2. Visit(given) /\ given \in Replies
    BY DEF Answer, Recorded, Recordable, Replies
  <1>3. IInv'
    BY <1>2, StepInv DEF DRInv, Next, Callbacks
  <1>4. /\ call' = c /\ inside' \subseteq {"ours", "foreign"}
        /\ ledger' \in Seq(Receipts) /\ tree' \in {"active", "aborted"}
        /\ tree' = "active" =>
             /\ Len(ledger') = Len(ledger) + 1
             /\ \A i \in 1..Len(ledger) : ledger'[i] = ledger[i]
             /\ ledger'[Len(ledger) + 1] = [state |-> c.state, kinds |-> c.kinds]
    BY <1>1, RecordingFacts DEF Answer, Recordable, DRInv
  <1>5. observed' = observed /\ plan' = plan /\ stage' \in {"emit", "returned"}
        /\ (stage' = "emit" => err' = "none")
        /\ (stage' = "returned" => err' = "observer")
    BY <1>1, <1>2 DEF Visit, Return, fixed
  <1>6. tree' = "aborted" => stage' = "returned" /\ err' = "observer"
    BY <1>2, <1>4, <1>5 DEF Visit
  <1>7. tree' = "active" => stage' = "emit" /\ err' = "none"
    BY <1>2, <1>5 DEF Visit, Recordable
  <1>8. DRTypeInv'
    BY <1>4 DEF DRInv, DRTypeInv, Recordable
  <1>9. VisitInv' /\ TreeInv'
    BY <1>1, <1>4, <1>5, <1>6, <1>7 DEF VisitInv, TreeInv, Loop, DRInv
  <1>10. PhaseInv' /\ RootInv' /\ CodeInv' /\ NothingLeftUnsaid'
    BY <1>4, <1>6 DEF DRInv, PhaseInv, RootInv, CodeInv, NothingLeftUnsaid
  <1>11. LedgerInv'
    <2>1. SUFFICES ASSUME tree' = "active" PROVE LedgerInv'
      BY <1>4, <1>6 DEF LedgerInv
    <2>2. Len(ledger) = Len(visits) /\ Len(visits) \in Nat
          /\ \A i \in 1..Len(ledger) : Receipted(visits[i], ledger[i])
      BY <1>1, LenProperties DEF DRInv, LedgerInv, TypeInv
    <2> DEFINE told == [state |-> item.state, reason |-> item.reason, report |-> item.report,
                        snapshot |-> snapshot, reply |-> reply]
    <2>3. visits' = Append(visits, told) /\ told \in Tellings /\ visits \in Seq(Tellings)
      BY <1>1, <1>2, <2>1 DEF Visit, Visited, TypeInv, Tellings
    <2>4. /\ Len(visits') = Len(visits) + 1
          /\ \A i \in 1..Len(visits) : visits'[i] = visits[i]
          /\ visits'[Len(visits) + 1] = told
      BY <2>3, AppendProperties
    <2>5. Receipted(told, [state |-> c.state, kinds |-> c.kinds])
      BY DEF Recordable
    <2> HIDE DEF told
    <2>6. \A i \in 1..Len(ledger') : Receipted(visits'[i], ledger'[i])
      <3>1. TAKE i \in 1..Len(ledger')
      <3>2. CASE i = Len(ledger) + 1
        BY <1>4, <2>1, <2>2, <2>4, <2>5, <3>2
      <3>3. CASE i # Len(ledger) + 1
        <4>1. i \in 1..Len(ledger)
          BY <1>4, <2>1, <2>2, <3>3
        <4>2. ledger'[i] = ledger[i] /\ visits'[i] = visits[i]
          BY <1>4, <2>1, <2>2, <2>4, <4>1
        <4>3. QED
          BY <2>2, <4>1, <4>2
      <3>4. QED
        BY <3>2, <3>3
    <2>7. QED
      BY <1>4, <2>1, <2>2, <2>4, <2>6 DEF LedgerInv
  <1>12. QED
    BY <1>3, <1>8, <1>9, <1>10, <1>11 DEF DRInv

\* The observer's call fits, and its receipt is what the executor is answered.
LEMMA VisitTreeStep == ASSUME DRInv, VisitTree PROVE DRInv'
  <1>1. /\ step = "run" /\ stage = "visit" /\ tree = "active"
        /\ UNCHANGED <<step, root, replayed, cause, message, code>>
    BY DEF VisitTree, DRInv, TreeInv, Loop
  <1>2. /\ item \in [state : States, reason : Reasons, report : BOOLEAN]
        /\ Fits(plan[at], item.state, item.report)
        /\ item.report => plan[at] = "candidate"
        /\ item.state \notin Audited => item.reason # ""
    BY <1>1 DEF DRInv, IInv, TypeInv, LineInv, Pending, VisitInv
  <1>3. plan[at] \in EntryStates
    <2>1. at \in 1..Len(plan) /\ plan \in Seq(EntryStates)
      BY <1>1, LenProperties DEF DRInv, IInv, TypeInv, StreamInv
    <2>2. QED
      BY <2>1, ElementOfSeq
  <1>4. /\ item.state \in Audited => plan[at] = "candidate" /\ item.report = TRUE
        /\ plan[at] = "candidate" => item.state # "skipped"
    BY <1>2, <1>3 DEF Fits, EntryStates, Audited, Incomplete
  <1>5. CASE item.state \in Audited /\ VisitLimited
    <2> DEFINE c == RecordCall("failed", "execution.resource_limit", {"report"}, "digest")
    <2>1. c = [state |-> "failed", reason |-> "token", hash |-> "digest",
               kinds |-> {"report"}, candidate |-> TRUE]
      BY <1>4, <1>5 DEF RecordCall
    <2>2. Answer(c, "source_limit") /\ call' = c
      BY <1>5 DEF VisitLimited, Answer, Recording
    <2> HIDE DEF c
    <2>3. c \in Calls
      BY <2>1 DEF Calls, States, AllKinds
    <2>4. c.state = "failed" /\ c.kinds = {"report"}
      BY <2>1
    <2>5. Recordable(c, "source_limit")
      BY <1>4, <1>5, <2>3, <2>4 DEF Recordable, Receipted
    <2>6. CallsFit'
      BY <2>1, <2>2 DEF CallsFit
    <2>7. QED
      BY <1>1, <2>2, <2>5, <2>6, AnswerStep
  <1>6. CASE item.state \in Audited /\ Visit("error") /\ UNCHANGED <<treeVars, inside>>
    <2>1. UNCHANGED <<tree, ledger, call, inside, observed>> /\ stage' = "returned"
          /\ err' = "observer"
      BY <1>6 DEF treeVars, Visit, Return, fixed
    <2>2. IInv'
      BY <1>6, StepInv DEF DRInv, Next, Callbacks, Replies
    <2>3. DRTypeInv' /\ CallsFit'
      BY <1>1, <2>1 DEF DRInv, DRTypeInv, CallsFit
    <2>4. VisitInv' /\ TreeInv' /\ LedgerInv'
      BY <1>1, <2>1 DEF DRInv, VisitInv, TreeInv, LedgerInv, Loop
    <2>5. PhaseInv' /\ RootInv' /\ CodeInv' /\ NothingLeftUnsaid'
      BY <1>1, <2>1 DEF DRInv, PhaseInv, RootInv, CodeInv, NothingLeftUnsaid
    <2>6. QED
      BY <2>2, <2>3, <2>4, <2>5 DEF DRInv
  <1>7. CASE /\ item.state \in Audited
             /\ Recording(RecordCall("revealed", "", AllKinds, "digest"))
             /\ Visit(IF Recorded THEN "ok" ELSE "error")
    <2> DEFINE c == RecordCall("revealed", "", AllKinds, "digest")
    <2>1. c = [state |-> "revealed", reason |-> "empty", hash |-> "digest",
               kinds |-> AllKinds, candidate |-> TRUE]
      BY <1>4, <1>7 DEF RecordCall
    <2>2. Answer(c, "ok") /\ call' = c
      BY <1>7 DEF Answer, Recording
    <2> HIDE DEF c
    <2>3. c \in Calls
      BY <2>1 DEF Calls
    <2>4. c.state = "revealed" /\ c.kinds = AllKinds /\ "report" \in AllKinds
      BY <2>1 DEF AllKinds
    <2>5. Recordable(c, "ok")
      BY <1>4, <1>7, <2>3, <2>4 DEF Recordable, Receipted
    <2>6. CallsFit'
      <3>1. c.candidate /\ c.hash = "digest" /\ c.reason = "empty"
        BY <2>1
      <3>2. QED
        BY <2>2, <2>4, <3>1 DEF CallsFit
    <2>7. QED
      BY <1>1, <2>2, <2>5, <2>6, AnswerStep
  <1>8. CASE /\ item.state \notin Audited
             /\ \E hash \in Hashes :
                  Recording(RecordCall(item.state, item.reason, ReportKinds, hash))
             /\ Visit(IF Recorded THEN "ok" ELSE "error")
    <2>1. PICK hash \in Hashes :
            Recording(RecordCall(item.state, item.reason, ReportKinds, hash))
      BY <1>8
    <2> DEFINE c == RecordCall(item.state, item.reason, ReportKinds, hash)
    <2>2. c = [state |-> item.state, reason |-> "token", hash |-> hash,
               kinds |-> ReportKinds, candidate |-> plan[at] = "candidate"]
      BY <1>2, <1>8 DEF RecordCall
    <2>3. /\ ReportKinds \subseteq {"report"} /\ ("report" \in ReportKinds <=> item.report)
          /\ hash \in {"empty", "digest"} /\ (ReportKinds = {} => hash = "empty")
      BY DEF ReportKinds, Hashes
    <2>4. Recordable(c, "ok")
      <3>1. c \in Calls
        <4>1. item.state \in States \cup {"revealed"} /\ ReportKinds \in SUBSET AllKinds
          BY <1>2, <2>3 DEF AllKinds
        <4>2. (plan[at] = "candidate") \in BOOLEAN
          OBVIOUS
        <4>3. QED
          BY <2>2, <2>3, <4>1, <4>2 DEF Calls
      <3>2. c.state = item.state /\ c.kinds = ReportKinds
        BY <2>2
      <3> HIDE DEF c
      <3>3. QED
        BY <1>8, <2>3, <3>1, <3>2 DEF Recordable, Receipted
    <2>5. Answer(c, "ok") /\ call' = c
      BY <1>8, <2>1 DEF Answer, Recording
    <2>6. CallsFit'
      <3>1. c.state # "revealed" /\ c.reason = "token" /\ c.kinds = ReportKinds
            /\ c.hash = hash /\ c.state = item.state /\ (c.candidate <=> plan[at] = "candidate")
        <4>1. item.state # "revealed"
          BY <1>2 DEF States
        <4> HIDE DEF c
        <4>2. QED
          BY <2>2, <4>1
      <3> HIDE DEF c
      <3>2. ReportKinds # {} => item.report
        BY <2>3
      <3>3. QED
        BY <1>2, <1>4, <2>3, <2>5, <3>1, <3>2 DEF CallsFit
    <2> HIDE DEF c
    <2>7. QED
      BY <1>1, <2>4, <2>5, <2>6, AnswerStep
  <1>9. QED
    BY <1>5, <1>6, <1>7, <1>8 DEF VisitTree

\* When the executor has returned, the command commits, withdraws or replays.
LEMMA ResumeStep == ASSUME DRInv, Resume PROVE DRInv'
  <1>1. /\ step = "run" /\ stage = "returned" /\ step' \in {"commit", "withdraw"}
        /\ cause' \in {"none", "no_plan", "output_limit", "write_failed", "observer"}
        /\ UNCHANGED <<root, inside, replayed, message, code, tree, ledger, call>>
        /\ UNCHANGED vars /\ UNCHANGED treeVars /\ UNCHANGED <<stage, err, plan>>
    BY DEF Resume, DRInv, IInv, TypeInv, treeVars, vars
  <1>2. /\ step' = "commit" => err = "none" /\ tree # "none"
        /\ cause' = "no_plan" => err = "none" /\ tree = "none"
    BY DEF Resume, DRInv, IInv, TypeInv
  <1>3. tree # "committed" /\ root = "present" /\ (tree = "aborted" => err = "observer")
    BY <1>1 DEF DRInv, PhaseInv, RootInv
  <1>4. DRTypeInv'
    BY <1>1 DEF DRInv, DRTypeInv
  <1>5. PhaseInv' /\ RootInv' /\ CodeInv' /\ NothingLeftUnsaid'
    BY <1>1, <1>2, <1>3, <1>4 DEF PhaseInv, RootInv, CodeInv, NothingLeftUnsaid, DRTypeInv
  <1>6. QED
    BY <1>1, <1>4, <1>5, RestingStep

\* A commit follows a run without an error, with a receipt for every entry.
LEMMA CommitTreeStep == ASSUME DRInv, CommitTree PROVE DRInv'
  <1>1. /\ step = "commit" /\ stage = "returned" /\ tree = "active" /\ err = "none"
        /\ UNCHANGED <<ledger, call, root, replayed, message, code>> /\ root = "present"
        /\ UNCHANGED vars /\ UNCHANGED <<stage, err, plan, summary, stream, item, observed,
                                         visits, at>>
    BY DEF CommitTree, DRInv, PhaseInv, RootInv, vars
  <1>2. \/ /\ Len(ledger) = Len(plan) /\ tree' = "committed" /\ step' = "close"
           /\ inside' = inside \cup {"ours"} /\ cause' = cause
        \/ /\ tree' = "aborted" /\ step' = "withdraw" /\ cause' = "publish_failed"
           /\ inside' \in {inside, inside \cup {"ours"}}
    BY DEF CommitTree, RollBack
  <1>3. IInv'
    BY <1>1, StepInv DEF DRInv
  <1>4. DRTypeInv' /\ CallsFit'
    BY <1>1, <1>2 DEF DRInv, DRTypeInv, CallsFit
  <1>5. VisitInv' /\ TreeInv' /\ LedgerInv'
    BY <1>1, <1>2 DEF DRInv, VisitInv, TreeInv, LedgerInv, Loop
  <1>6. PhaseInv' /\ RootInv' /\ CodeInv' /\ NothingLeftUnsaid'
    BY <1>1, <1>2 DEF PhaseInv, RootInv, CodeInv, NothingLeftUnsaid
  <1>7. QED
    BY <1>3, <1>4, <1>5, <1>6 DEF DRInv

\* Closing the root of a committed tree does not withdraw it.
LEMMA CloseRootStep == ASSUME DRInv, CloseRoot PROVE DRInv'
  <1>1. /\ step = "close" /\ tree = "committed" /\ stage = "returned"
        /\ UNCHANGED <<root, inside, replayed, cause, tree, ledger, call, stage, err, plan>>
        /\ UNCHANGED vars /\ UNCHANGED treeVars
        /\ root = "present" /\ "ours" \in inside /\ err = "none" /\ Len(ledger) = Len(plan)
    BY DEF CloseRoot, DRInv, PhaseInv, RootInv, treeVars, vars
  <1>2. \/ step' = "replay" /\ message' = message /\ code' = code
        \/ step' = "exited" /\ code' = 4 /\ message' = "output.close_failed"
    BY DEF CloseRoot, Exit
  <1>3. DRTypeInv'
    BY <1>1, <1>2 DEF DRInv, DRTypeInv, ExitCodes
  <1>4. PhaseInv' /\ RootInv' /\ CodeInv' /\ NothingLeftUnsaid'
    BY <1>1, <1>2 DEF PhaseInv, RootInv, CodeInv, NothingLeftUnsaid
  <1>5. QED
    BY <1>1, <1>2, <1>3, <1>4, RestingStep

\* A withdrawal removes the root, or the message says that it could not.
LEMMA WithdrawStep == ASSUME DRInv, Withdraw PROVE DRInv'
  <1>1. /\ step = "withdraw" /\ tree # "committed" /\ stage = "returned"
        /\ cause = "no_plan" => tree = "none" /\ err = "none"
        /\ UNCHANGED <<ledger, call, replayed, cause>>
        /\ UNCHANGED vars /\ UNCHANGED <<stage, err, plan, summary, stream, item, observed,
                                         visits, at>>
    BY DEF Withdraw, DRInv, PhaseInv, vars
  <1>2. /\ tree' \in {"none", "aborted"} /\ (tree' = "none" <=> tree = "none")
        /\ inside' \subseteq {"ours", "foreign"}
        /\ root' \in {"absent", "present"}
    BY <1>1 DEF Withdraw, DRInv, DRTypeInv
  <1>3. \/ step' = "replay" /\ cause = "no_plan" /\ root' = "absent"
           /\ message' = message /\ code' = code
        \/ step' = "exited" /\ code' = 4 /\ root' = "absent"
           /\ message' \in {"execution.resource_limit", "output.publish_failed"}
        \/ step' = "exited" /\ code' = 4 /\ message' = "output.cleanup_failed"
    BY DEF Withdraw, Exit, Because
  <1>4. IInv'
    BY <1>1, StepInv DEF DRInv
  <1>5. DRTypeInv' /\ CallsFit'
    <2>1. CallsFit'
      BY <1>1 DEF DRInv, CallsFit
    <2>2. step' \in {"replay", "exited"} /\ code' \in ExitCodes
          /\ message' \in {message, "execution.resource_limit", "output.publish_failed",
                           "output.cleanup_failed"}
      BY <1>3 DEF DRInv, DRTypeInv, ExitCodes
    <2>3. DRTypeInv'
      BY <1>1, <1>2, <2>2 DEF DRInv, DRTypeInv
    <2>4. QED
      BY <2>1, <2>3
  <1>6. VisitInv' /\ TreeInv' /\ LedgerInv'
    BY <1>1, <1>2, <1>3 DEF DRInv, VisitInv, TreeInv, LedgerInv, Loop
  <1>7. PhaseInv' /\ RootInv' /\ CodeInv' /\ NothingLeftUnsaid'
    BY <1>1, <1>2, <1>3 DEF PhaseInv, RootInv, CodeInv, NothingLeftUnsaid
  <1>8. QED
    BY <1>4, <1>5, <1>6, <1>7 DEF DRInv

\* The stream is replayed record by record, or the exit code is 4.
LEMMA ReplayStep == ASSUME DRInv, Replay PROVE DRInv'
  <1>1. /\ step = "replay"
        /\ UNCHANGED <<root, inside, cause, tree, ledger, call, stage, err, plan>>
        /\ UNCHANGED vars /\ UNCHANGED treeVars
        /\ tree = "committed" \/ (tree = "none" /\ root = "absent" /\ err = "none")
        /\ stage = "returned"
    BY DEF Replay, DRInv, PhaseInv, treeVars, vars
  <1>2. \/ replayed' = replayed + 1 /\ UNCHANGED <<step, message, code>>
        \/ step' = "exited" /\ code' = 4 /\ message' = "output.write_failed"
           /\ replayed' = replayed
    BY DEF Replay, Exit
  <1>3. DRTypeInv'
    BY <1>1, <1>2 DEF DRInv, DRTypeInv, ExitCodes
  <1>4. PhaseInv' /\ RootInv' /\ CodeInv' /\ NothingLeftUnsaid'
    BY <1>1, <1>2 DEF DRInv, PhaseInv, RootInv, CodeInv, NothingLeftUnsaid
  <1>5. QED
    BY <1>1, <1>2, <1>3, <1>4, RestingStep

\* A replay that reached its end takes the summary's exit code, or 4.
LEMMA FinishStep == ASSUME DRInv, Finish PROVE DRInv'
  <1>1. /\ step = "replay" /\ step' = "exited" /\ message' = "none"
        /\ replayed = Len(stream)
        /\ UNCHANGED <<root, inside, replayed, cause, tree, ledger, call, stage, err, plan,
                       stream, summary>>
        /\ UNCHANGED vars /\ UNCHANGED treeVars
        /\ tree = "committed" \/ (tree = "none" /\ root = "absent" /\ err = "none")
        /\ stage = "returned"
    BY DEF Finish, Exit, DRInv, PhaseInv, treeVars, vars
  <1>2. code' \in {summary.exit, 4} /\ summary.exit \in ExitCodes
    BY DEF Finish, Exit, DRInv, IInv, TypeInv, Summaries
  <1>3. tree = "none" => summary.exit = 4
    BY <1>1 DEF DRInv, TreeInv
  <1>4. DRTypeInv'
    BY <1>1, <1>2 DEF DRInv, DRTypeInv, ExitCodes
  <1>5. PhaseInv' /\ RootInv' /\ CodeInv' /\ NothingLeftUnsaid'
    BY <1>1, <1>2, <1>3 DEF DRInv, PhaseInv, RootInv, CodeInv, NothingLeftUnsaid
  <1>6. QED
    BY <1>1, <1>4, <1>5, RestingStep

\* The end of the context changes neither tree nor root.
LEMMA InterruptStep == ASSUME DRInv, Interrupt PROVE DRInv'
  <1>1. /\ EndContext /\ step = "run"
        /\ UNCHANGED <<tree, ledger, call, step, root, inside, replayed, cause, message, code>>
        /\ UNCHANGED <<stage, plan, stream, summary, err, at, item, visits, observed>>
    BY DEF Interrupt, treeVars, cliVars, EndContext, fixed, loopVars
  <1>2. IInv'
    BY <1>1, StepInv DEF DRInv, Next
  <1>3. DRTypeInv' /\ CallsFit' /\ VisitInv' /\ TreeInv' /\ LedgerInv'
    <2>1. DRTypeInv' /\ CallsFit'
      BY <1>1 DEF DRInv, DRTypeInv, CallsFit
    <2>2. VisitInv' /\ TreeInv'
      BY <1>1 DEF DRInv, VisitInv, TreeInv
    <2>3. LedgerInv'
      BY <1>1 DEF DRInv, LedgerInv
    <2>4. QED
      BY <2>1, <2>2, <2>3
  <1>4. PhaseInv' /\ RootInv' /\ CodeInv' /\ NothingLeftUnsaid'
    BY <1>1 DEF DRInv, PhaseInv, RootInv, CodeInv, NothingLeftUnsaid
  <1>5. QED
    BY <1>2, <1>3, <1>4 DEF DRInv

\* Other programs' files and a crash leave the tree as it is.
LEMMA OutsideStep == ASSUME DRInv, Litter \/ Crash PROVE DRInv'
  <1>1. /\ UNCHANGED <<root, replayed, cause, message, code, tree, ledger, call, stage, err, plan>>
        /\ UNCHANGED vars /\ UNCHANGED treeVars
        /\ step \notin {"start", "exited", "crashed"} /\ step' \in {step, "crashed"}
        /\ inside' \in {inside, inside \cup {"foreign"}}
    BY DEF Litter, Crash, Running, treeVars, vars
  <1>2. DRTypeInv'
    BY <1>1 DEF DRInv, DRTypeInv
  <1>3. PhaseInv' /\ RootInv' /\ CodeInv' /\ NothingLeftUnsaid'
    BY <1>1 DEF DRInv, PhaseInv, RootInv, CodeInv, NothingLeftUnsaid
  <1>4. QED
    BY <1>1, <1>2, <1>3, RestingStep

\* Every step of the command keeps the invariant.
LEMMA DRStepInv == DRInv /\ [DRNext]_drVars => DRInv'
  <1>1. ASSUME DRInv, DRNext PROVE DRInv'
    BY <1>1, StartStep, ExecutingStep, PrepareTreeStep, VisitTreeStep, ResumeStep,
       CommitTreeStep, CloseRootStep, WithdrawStep, ReplayStep, FinishStep, InterruptStep,
       OutsideStep DEF DRNext, Command
  <1>2. ASSUME DRInv, UNCHANGED drVars PROVE DRInv'
    <2>1. /\ UNCHANGED vars /\ UNCHANGED treeVars /\ UNCHANGED cliVars
          /\ UNCHANGED <<tree, ledger, call, step, root, inside, replayed, cause, message,
                         code, stage, err, plan, summary, stream>>
      BY <1>2 DEF drVars, vars, treeVars, cliVars
    <2>2. DRTypeInv' /\ PhaseInv' /\ RootInv' /\ CodeInv' /\ NothingLeftUnsaid'
      BY <1>2, <2>1 DEF DRInv, DRTypeInv, PhaseInv, RootInv, CodeInv, NothingLeftUnsaid
    <2>3. QED
      BY <1>2, <2>1, <2>2, RestingStep
  <1>3. QED
    BY <1>1, <1>2

---------------------------------------------------------------------------
(* What the invariant says of a published tree.                            *)

\* The ledger has a receipt for each entry of the plan, and each is in the stream.
LEMMA LedgerOfRun == DRInv => LedgerFits
  <1> SUFFICES ASSUME DRInv, tree = "committed" PROVE LedgerAgrees
    BY DEF LedgerFits, LedgerAgrees, DRInv
  <1>1. /\ IInv /\ TypeInv /\ StreamInv /\ LineInv /\ observed /\ err = "none"
        /\ stage = "returned" /\ Len(ledger) = Len(plan)
    BY DEF DRInv, IInv, PhaseInv, RootInv, TreeInv
  <1>2. /\ Len(plan) \in Nat /\ Len(stream) = Len(plan) + 2 /\ Delivered
        /\ Lines = {i \in 1..Len(stream) : i >= 2 /\ i <= Len(plan) + 1}
    BY <1>1, LinesFacts DEF StreamInv
  <1>3. ASSUME NEW i \in 1..Len(plan)
        PROVE  /\ ledger[i].state = IF stream[i + 1].state \in Audited THEN "revealed"
                                    ELSE stream[i + 1].state
               /\ "report" \in ledger[i].kinds <=> stream[i + 1].report
    <2>1. i + 1 \in Lines /\ (i + 1) - 1 = i
      BY <1>2
    <2>2. Became(visits[i], stream[i + 1].state, stream[i + 1].reason, stream[i + 1].report)
      BY <1>1, <2>1 DEF IInv, ObserverInv
    <2>3. Receipted(visits[i], ledger[i])
      BY <1>1 DEF DRInv, LedgerInv
    <2>4. QED
      BY <2>2, <2>3 DEF Became, Receipted, Audited
  <1>4. QED
    BY <1>1, <1>2, <1>3 DEF LedgerAgrees

\* An exit code below 4 is the summary's, of a tree that was published.
LEMMA LowExitOfTree == DRInv => LowExitPublished
  <1> SUFFICES ASSUME DRInv, step = "exited", code < 4
               PROVE  /\ tree = "committed" /\ replayed = Len(stream)
                      /\ \A i \in 1..Len(plan) :
                           plan[i] = "candidate" => ledger[i].state = "revealed"
    BY DEF LowExitPublished
  <1>1. tree = "committed" /\ code = summary.exit /\ replayed = Len(stream)
    BY DEF DRInv, CodeInv
  <1>2. LedgerAgrees /\ Delivered
    BY <1>1, LedgerOfRun DEF LedgerFits, LedgerAgrees
  <1>3. \A i \in 1..Len(plan) : plan[i] = "candidate" => stream[i + 1].state \in Audited
    BY <1>1, <1>2, LowExitOfRun DEF DRInv, LowExitVouches
  <1>4. QED
    BY <1>1, <1>2, <1>3 DEF LedgerAgrees

\* No step takes a published tree back.
LEMMA CommittedStep ==
  ASSUME DRInv, [DRNext]_drVars, tree = "committed"
  PROVE  tree' = "committed" /\ root' = "present" /\ "ours" \in inside'
  <1>1. step \notin {"start", "run", "commit", "withdraw"}
    BY DEF DRInv, PhaseInv
  <1>2. tree' = "committed"
    BY <1>1 DEF DRNext, Command, Start, Executing, PrepareTree, VisitTree, Resume, CommitTree,
       CloseRoot, Withdraw, Replay, Finish, Interrupt, Litter, Crash, treeVars, drVars
  <1>3. DRInv'
    BY DRStepInv
  <1>4. QED
    BY <1>2, <1>3 DEF DRInv, RootInv

---------------------------------------------------------------------------
(* The theorems.                                                           *)

\* The inductive invariant holds of every behaviour of runDirectoryReveal.
THEOREM RevealInvariance == DRSpec => []DRInv
  BY DRInitInv, DRStepInv, PTL DEF DRSpec

\* The published ledger agrees with the published corpus stream, and treeObserver never
\* makes a call that Record refuses for its arguments.
THEOREM LedgerIsTrue == DRSpec => []LedgerFits
  BY RevealInvariance, LedgerOfRun, PTL

\* A command that publishes nothing leaves no output root or says that it could not clean
\* up, unless it could not even open the root it made: then it leaves at most a root that
\* holds nothing of its own, and says that it could not be opened (cleanup).
THEOREM NothingIsLeft == DRSpec => []NothingLeftUnsaid
  <1>1. DRInv => NothingLeftUnsaid
    BY DEF DRInv
  <1>2. QED
    BY <1>1, RevealInvariance, PTL

\* An exit code below 4 means: published, delivered to the last record, and every
\* candidate revealed.
THEOREM LowExitMeansPublished == DRSpec => []LowExitPublished
  BY RevealInvariance, LowExitOfTree, PTL

\* After the commit, nothing the command does withdraws the tree or its root.
THEOREM PublishedTreeStays == DRSpec => CommittedStays
  <1>1. DRInv /\ [DRNext]_drVars =>
          [tree = "committed" =>
             tree' = "committed" /\ root' = "present" /\ "ours" \in inside']_drVars
    BY CommittedStep
  <1>2. QED
    BY <1>1, RevealInvariance, PTL DEF DRSpec, CommittedStays

=============================================================================
