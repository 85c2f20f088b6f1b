------------------------ MODULE NativeAudit_proofs ------------------------
(***************************************************************************)
(* Proofs about NativeAudit, for any analyzers, any findings, and a        *)
(* context that ends at any moment, and about Acquisition, the reading of  *)
(* the snapshot such an audit is made of.                                  *)
(***************************************************************************)
EXTENDS NativeAudit, Acquisition, SequenceTheorems, TLAPS

---------------------------------------------------------------------------
(* The inductive invariant.                                                *)

Findable == [severity : Severity, viewed : BOOLEAN]
Unreadable == {"unsupported_format", "decode_failed"}
Interruptions == {"execution.timeout", "execution.canceled"}

TypeInv ==
  /\ schema \in {"1.0", "2.0"} /\ view \in {"audit", "filtered"}
  /\ retain \in BOOLEAN /\ available \in BOOLEAN /\ acquired \in BOOLEAN
  /\ ctx \in {"live", "canceled", "timeout"}
  /\ next \in 1..Len(Order)
  /\ phase \in {"before", "run", "assemble", "returned"}
  /\ DOMAIN completed \subseteq Native
  /\ \A op \in DOMAIN completed : completed[op] \subseteq Findable

\* The operations before the one at hand.
Behind == {Order[i] : i \in 1..(next - 1)}

\* Only analyzers find anything, and a source that was read is one that was acquired.
CompletedInv ==
  /\ \A op \in DOMAIN completed : completed[op] # {} => op \in Analyzers
  /\ acquired <=> "acquire" \in DOMAIN completed

\* While the audit runs, all before the operation at hand is completed and nothing
\* has gone wrong.
RunningInv ==
  phase \in {"before", "run"} =>
    /\ available /\ failure = None /\ stopped = Running
    /\ DOMAIN completed = Behind

\* The audit went to its end.
Whole ==
  /\ available /\ failure = None /\ stopped = Running
  /\ DOMAIN completed = Native

\* It ended at the operation at hand: no reader, a typed failure, or the context.
Unavailable ==
  ~available /\ next = 1 /\ failure = None /\ stopped = Running
Failed ==
  /\ available /\ stopped = Running
  /\ \/ next = 1 /\ failure \in [stage : {"acquisition"}, code : Codes \ {"ok"}]
     \/ next = 2 /\ failure \in [stage : {"parsing"}, code : Unreadable]
Stopped ==
  /\ available /\ failure = None /\ schema = "2.0" /\ ctx # "live"
  /\ stopped \in [op : {Op}, reason : Interruptions]
CutShort ==
  /\ Unavailable \/ Failed \/ Stopped
  /\ DOMAIN completed = Behind

EndingInv == phase = "assemble" \/ Reported => Whole \/ CutShort

\* What is returned was built from the trace as it stands.
ReturnInv ==
  /\ phase # "returned" => ~Reported /\ answer = NoAnswer
  /\ Reported =>
       /\ schema = "2.0" /\ report = Assembled
       /\ answer = [failure |-> failure.code, exit |-> Recounted(Assembled),
                    report |-> "ok", snapshot |-> Retained]

IInv ==
  /\ TypeInv /\ CompletedInv /\ RunningInv /\ EndingInv /\ ReturnInv
  /\ NeverRefused /\ OutcomeExpected

---------------------------------------------------------------------------
(* Lemmas about the operators.                                             *)

\* The order of the operations: acquire, parse, then the analyzers, each once.
LEMMA OrderFacts ==
  /\ Len(Order) \in Nat /\ Len(Order) >= 2
  /\ Order[1] = "acquire" /\ Order[2] = "parse"
  /\ \A i \in 1..Len(Order) :
       /\ Order[i] \in Native
       /\ i >= 3 <=> Order[i] \in Analyzers
  /\ \A op \in Native : \E i \in 1..Len(Order) : op = Order[i]
  /\ \A i, j \in 1..Len(Order) : Order[i] = Order[j] => i = j
  /\ Analyzers \subseteq Native
  <1> DEFINE Names == STRING \cup {"acquire", "parse"}
  <1>1. <<"acquire", "parse">> \in Seq(Names) /\ Checks \in Seq(Names)
    <2>1. "acquire" \in Names /\ "parse" \in Names /\ STRING \subseteq Names
      OBVIOUS
    <2> HIDE DEF Names
    <2>2. Checks \in Seq(Names)
      BY <2>1, NativeAssumptions, SeqMonotonic
    <2>3. QED
      BY <2>1, <2>2
  <1> HIDE DEF Names
  <1>2. /\ Len(Checks) \in Nat
        /\ Len(<<"acquire", "parse">>) = 2
        /\ <<"acquire", "parse">>[1] = "acquire" /\ <<"acquire", "parse">>[2] = "parse"
    BY <1>1, LenProperties
  <1>3. /\ Len(Order) = 2 + Len(Checks)
        /\ \A i \in 1..(2 + Len(Checks)) :
             Order[i] = IF i <= 2 THEN <<"acquire", "parse">>[i] ELSE Checks[i - 2]
    BY <1>1, <1>2, ConcatProperties DEF Order
  <1>4. Order[1] = "acquire" /\ Order[2] = "parse"
    BY <1>2, <1>3
  <1>5. \A i \in 1..Len(Order) : i >= 3 => Order[i] \in Analyzers
    <2>1. \A i \in 1..Len(Order) : i >= 3 => Order[i] = Checks[i - 2] /\ i - 2 \in 1..Len(Checks)
      BY <1>2, <1>3
    <2>2. QED
      BY <2>1 DEF Analyzers
  <1>6. \A op \in Analyzers : \E i \in 3..Len(Order) : op = Order[i]
    <2>1. TAKE op \in Analyzers
    <2>2. PICK k \in 1..Len(Checks) : op = Checks[k]
      BY DEF Analyzers
    <2>3. k + 2 \in 3..Len(Order) /\ Order[k + 2] = Checks[k]
      BY <1>2, <1>3
    <2>4. QED
      BY <2>2, <2>3
  <1>7. \A i, j \in 1..Len(Order) : Order[i] = Order[j] => i = j
    BY NativeAssumptions
  <1>8. \A i \in 1..Len(Order) : Order[i] \in Analyzers => i >= 3
    BY <1>2, <1>3, <1>6, <1>7
  <1>9. Analyzers \subseteq Native
    BY <1>2, <1>3, <1>6 DEF Native
  <1>10. QED
    BY <1>2, <1>3, <1>4, <1>5, <1>7, <1>8, <1>9 DEF Native

\* No operation of the audit is one that the catalog only declares.
LEMMA NativeNotDeclared == \A op \in Native : op \notin Declared /\ op # "none"
  BY NativeAssumptions DEF Operations

\* An aggregate is completed exactly when every counted operation is.
LEMMA StatusCompleted ==
  ASSUME NEW plan, NEW state, NEW usable \in BOOLEAN
  PROVE  /\ Status(plan, state, usable) \in Statuses
         /\ Status(plan, state, usable) = "completed" <=>
              \A op \in Counted(plan) : state[op] = "completed"
  BY DEF Status, Statuses

\* The largest rank is one of the four the exit codes 0 to 3 stand for.
LEMMA LargestType ==
  ASSUME NEW ranks, ranks \subseteq 0..3
  PROVE  Largest(ranks) \in 0..3
  <1>1. \E r \in ranks \cup {0} : \A q \in ranks : r >= q
    <2>1. CASE 3 \in ranks
      BY <2>1
    <2>2. CASE 3 \notin ranks /\ 2 \in ranks
      BY <2>2
    <2>3. CASE 3 \notin ranks /\ 2 \notin ranks /\ 1 \in ranks
      BY <2>3
    <2>4. CASE 3 \notin ranks /\ 2 \notin ranks /\ 1 \notin ranks
      BY <2>4
    <2>5. QED
      BY <2>1, <2>2, <2>3, <2>4
  <1> DEFINE largest == Largest(ranks)
  <1>2. largest \in ranks \cup {0}
    BY <1>1 DEF Largest
  <1> HIDE DEF largest
  <1>3. largest \in 0..3
    BY <1>2
  <1>4. QED
    BY <1>3 DEF largest

\* What the analyzers found is there: each finding belongs to its operation's result.
LEMMA ObservedType ==
  ASSUME TypeInv, CompletedInv
  PROVE  /\ \A f \in Observed : f.op \in DOMAIN completed /\ f.op \in Analyzers
                                /\ completed[f.op] # {}
         /\ {Rank(f.severity) : f \in Observed} \subseteq 0..3
  <1>1. \A f \in Found : f.op \in DOMAIN completed
    BY DEF Found
  <1>2. \A f \in Observed : f.op \in DOMAIN completed /\ completed[f.op] # {}
    BY <1>1 DEF Observed
  <1>3. \A severity : Rank(severity) \in 0..3
    BY DEF Rank
  <1>4. QED
    BY <1>2, <1>3 DEF CompletedInv

---------------------------------------------------------------------------
(* Lemmas about the report that is assembled.                              *)

Done == [state |-> "completed", reason |-> "none", diagnostic |-> "none"]
Unreached == [state |-> "not_run", reason |-> "prerequisite_failed", diagnostic |-> "none"]
Skipped == [state |-> "not_run", reason |-> "execution.disabled", diagnostic |-> "none"]

\* The execution of the operation at which the audit ended.
Interrupted(e) ==
  \/ /\ Unavailable
     /\ e = [state |-> "not_run", reason |-> "no_atime_unavailable", diagnostic |-> "none"]
  \/ /\ Failed /\ FailedOperation = Op
     /\ e = [state |-> "failed", reason |-> failure.code, diagnostic |-> failure.code]
  \/ /\ Stopped
     /\ e.diagnostic = e.reason
     /\ \/ e.state = "failed" /\ e.reason = "execution.timeout"
        \/ e.state = "canceled" /\ e.reason = "execution.canceled"

\* What is only declared is always skipped.
LEMMA DeclaredExecutions == \A op \in Declared : Execution(op) = Skipped
  BY DEF Execution, Skipped

\* A whole audit has completed all of its operations.
LEMMA WholeExecutions ==
  ASSUME Whole
  PROVE  \A op \in Native : Execution(op) = Done
  <1>1. TAKE op \in Native
  <1>2. op \notin Declared /\ op # "none"
    BY NativeNotDeclared
  <1>3. QED
    BY <1>2 DEF Whole, Execution, FailedOperation, Running, Done

\* A report of an audit cut short: completed before the end, unreached after it.
LEMMA CutExecutions ==
  ASSUME TypeInv, CutShort, NEW i \in 1..Len(Order)
  PROVE  /\ i < next => Execution(Order[i]) = Done
         /\ i = next => Interrupted(Execution(Order[i]))
         /\ i > next => Execution(Order[i]) = Unreached
  <1>1. /\ next \in 1..Len(Order) /\ Len(Order) \in Nat /\ Len(Order) >= 2
        /\ Order[i] \notin Declared /\ Order[i] # "none"
        /\ Order[1] = "acquire" /\ Order[2] = "parse"
    BY OrderFacts, NativeNotDeclared DEF TypeInv
  <1>2. \A j \in 1..Len(Order) : Order[i] = Order[j] <=> i = j
    BY OrderFacts
  <1>3. Order[i] \in DOMAIN completed <=> i < next
    BY <1>1, <1>2 DEF CutShort, Behind
  <1>4. Order[i] = "acquire" <=> i = 1
    BY <1>1, <1>2
  <1>5. Order[i] = "parse" <=> i = 2
    BY <1>1, <1>2
  <1>6. CASE Unavailable
    <2>1. FailedOperation = "none" /\ stopped.op = "none"
      BY <1>6 DEF Unavailable, FailedOperation, Running
    <2>2. QED
      BY <1>1, <1>3, <1>4, <1>6, <2>1 DEF Unavailable, Execution, Interrupted, Unreached
  <1>7. CASE Failed
    <2>1. stopped.op = "none" /\ available /\ failure # None
      BY <1>7 DEF Failed, Running, None
    <2>2. FailedOperation = Order[next]
      BY <1>1, <1>7, <2>1 DEF Failed, FailedOperation
    <2>3. Order[i] = FailedOperation <=> i = next
      BY <1>1, <1>2, <2>2
    <2>4. QED
      BY <1>1, <1>3, <1>7, <2>1, <2>2, <2>3 DEF Execution, Interrupted, Unreached, Done, Op
  <1>8. CASE Stopped
    <2>1. /\ FailedOperation = "none" /\ stopped.op = Order[next] /\ available
          /\ stopped.reason \in Interruptions
      BY <1>8 DEF Stopped, FailedOperation, Op
    <2>2. Order[i] = stopped.op <=> i = next
      BY <1>1, <1>2, <2>1
    <2>3. CASE i = next
      <3>1. Execution(Order[i]) =
              [state |-> IF stopped.reason = "execution.timeout" THEN "failed" ELSE "canceled",
               reason |-> stopped.reason, diagnostic |-> stopped.reason]
        BY <1>1, <2>1, <2>2, <2>3 DEF Execution
      <3>2. Interrupted(Execution(Order[i]))
        BY <1>8, <2>1, <3>1 DEF Interrupted, Interruptions
      <3>3. QED
        BY <1>1, <2>3, <3>2
    <2>4. CASE i # next
      BY <1>1, <1>3, <2>1, <2>2, <2>4 DEF Execution, Unreached, Done
    <2>5. QED
      BY <2>3, <2>4
  <1>9. QED
    BY <1>6, <1>7, <1>8 DEF CutShort

\* What holds of the report, in one place: an execution is completed exactly if its
\* operation is, and the status is completed exactly if the audit went to its end.
LEMMA ReportFacts ==
  ASSUME TypeInv, Whole \/ CutShort
  PROVE  /\ \A op \in Native : Execution(op).state = "completed" <=> op \in DOMAIN completed
         /\ Assembled.status \in Statuses
         /\ Assembled.status = "completed" <=> Whole
         /\ Assembled.status = "completed" <=>
              \A op \in Native : Execution(op).state = "completed"
  <1>1. ASSUME Whole
        PROVE  \A op \in Native : Execution(op).state = "completed" /\ op \in DOMAIN completed
    BY <1>1, WholeExecutions DEF Whole, Done
  <1>2. ASSUME CutShort, NEW i \in 1..Len(Order)
        PROVE  Execution(Order[i]).state = "completed" <=> i < next
    <2>1. next \in Int /\ i \in Int
      BY OrderFacts DEF TypeInv
    <2>2. CASE i < next
      BY <1>2, <2>2, CutExecutions DEF Done
    <2>3. CASE i = next
      BY <1>2, <2>3, CutExecutions DEF Interrupted
    <2>4. CASE i > next
      BY <1>2, <2>1, <2>4, CutExecutions DEF Unreached
    <2>5. QED
      BY <2>1, <2>2, <2>3, <2>4
  <1>3. ASSUME CutShort, NEW i \in 1..Len(Order)
        PROVE  Order[i] \in DOMAIN completed <=> i < next
    BY <1>3, OrderFacts DEF CutShort, Behind, TypeInv
  <1>4. \A op \in Native : Execution(op).state = "completed" <=> op \in DOMAIN completed
    <2>1. TAKE op \in Native
    <2>2. CASE Whole
      BY <1>1, <2>2
    <2>3. CASE CutShort
      <3>1. PICK i \in 1..Len(Order) : op = Order[i]
        BY OrderFacts
      <3>2. QED
        BY <1>2, <1>3, <2>3, <3>1
    <2>4. QED
      BY <2>2, <2>3
  <1>5. Whole <=> \A op \in Native : Execution(op).state = "completed"
    <2>1. ASSUME CutShort PROVE ~Whole /\ Execution(Order[next]).state # "completed"
                                 /\ Order[next] \in Native
      <3>1. next \in 1..Len(Order) /\ Order[next] \in Native
        BY OrderFacts DEF TypeInv
      <3>2. Execution(Order[next]).state # "completed"
        BY <1>2, <2>1, <3>1
      <3>3. QED
        BY <1>1, <3>1, <3>2
    <2>2. QED
      BY <1>1, <2>1
  <1>6. Counted(Catalog) = Native
    BY NativeNotDeclared DEF Counted, Catalog, Operations
  <1>7. \A op \in Native : [o \in Operations |-> Execution(o).state][op] = Execution(op).state
    BY DEF Operations
  <1> DEFINE states == [o \in Operations |-> Execution(o).state]
             usable == DOMAIN Results # {}
  <1>8. Assembled.status = Status(Catalog, states, usable)
    BY DEF Assembled
  <1>9. usable \in BOOLEAN
    OBVIOUS
  <1> HIDE DEF usable
  <1>10. /\ Status(Catalog, states, usable) \in Statuses
         /\ Status(Catalog, states, usable) = "completed" <=>
              \A op \in Counted(Catalog) : states[op] = "completed"
    BY <1>9, StatusCompleted
  <1>11. QED
    BY <1>4, <1>5, <1>6, <1>7, <1>8, <1>10

\* An analysis result exists for exactly the analyzers that completed.
LEMMA ResultsDomain ==
  ASSUME TypeInv, Whole \/ CutShort
  PROVE  DOMAIN Results = Analyzers \cap DOMAIN completed
  BY ReportFacts, OrderFacts DEF Results

\* The report's own validator finds nothing to refuse.
LEMMA AssembledValid ==
  ASSUME TypeInv, CompletedInv, Whole \/ CutShort
  PROVE  Valid(Assembled)
  <1> DEFINE executions == [op \in Operations |-> Execution(op)]
  <1>1. /\ Assembled.executions = executions
        /\ Assembled.results = Results
        /\ Assembled.findings = Findings
    BY DEF Assembled
  <1>2. \A op \in Operations : executions[op] = Execution(op)
    OBVIOUS
  <1> HIDE DEF executions
  <1>3. ASSUME NEW op \in Operations, NEW e, e = Execution(op)
        PROVE  /\ Catalog[op].participation = "disabled" =>
                    e.state = "not_run" /\ e.reason = "execution.disabled"
               /\ op = "acquire" /\ ~available =>
                    e.state = "not_run" /\ e.reason = "no_atime_unavailable"
               /\ e.state = "completed" <=> e.reason = "none"
               /\ e.state = "canceled" => e.reason = "execution.canceled"
               /\ e.state = "failed" => e.diagnostic # "none"
               /\ e.state = "completed" => IF Scope(op) = "text" THEN Parsed ELSE acquired
    <2>1. CASE op \in Declared
      <3>1. e = Skipped
        BY <1>3, <2>1, DeclaredExecutions
      <3>2. op # "acquire"
        BY <2>1, OrderFacts, NativeNotDeclared
      <3>3. QED
        BY <3>1, <3>2 DEF Skipped
    <2>2. CASE op \in Native
      <3>1. Catalog[op].participation = "required"
        BY <2>2, NativeNotDeclared DEF Catalog, Operations
      <3>2. \/ e = Done
            \/ e = Unreached /\ (op = "acquire" => available)
            \/ Interrupted(e) /\ (op = "acquire" /\ ~available => Unavailable)
        <4>1. CASE Whole
          BY <1>3, <2>2, <4>1, WholeExecutions
        <4>2. CASE CutShort
          <5>1. PICK i \in 1..Len(Order) : op = Order[i]
            BY <2>2, OrderFacts
          <5>2. next \in 1..Len(Order) /\ Len(Order) \in Nat
            BY OrderFacts DEF TypeInv
          <5>3. i > next => op # "acquire"
            BY <5>1, <5>2, OrderFacts
          <5>4. ~available => Unavailable
            BY <4>2 DEF CutShort, Failed, Stopped
          <5>5. QED
            BY <1>3, <4>2, <5>1, <5>2, <5>3, <5>4, CutExecutions
        <4>3. QED
          BY <4>1, <4>2
      <3>3. e.state = "completed" => op \in DOMAIN completed
        BY <1>3, <2>2, ReportFacts
      <3>4. op = "acquire" /\ e = Done => available
        <4>1. SUFFICES ASSUME op = "acquire", e = Done, ~available PROVE FALSE
          OBVIOUS
        <4>2. Unavailable /\ CutShort
          BY <4>1 DEF Whole, CutShort, Failed, Stopped
        <4>3. DOMAIN completed = {}
          BY <4>2 DEF CutShort, Unavailable, Behind
        <4>4. QED
          BY <3>3, <4>1, <4>3 DEF Done
      <3>5. op \in DOMAIN completed => IF Scope(op) = "text" THEN Parsed ELSE acquired
        <4>1. "acquire" \in Native /\ "parse" \in Native
          BY OrderFacts
        <4>2. op \in DOMAIN completed => "acquire" \in DOMAIN completed
          <5>1. CASE Whole
            BY <4>1, <5>1 DEF Whole
          <5>2. CASE CutShort
            BY <5>2, OrderFacts DEF CutShort, Behind, TypeInv
          <5>3. QED
            BY <5>1, <5>2
        <4>3. QED
          BY <4>2 DEF Scope, Parsed, CompletedInv
      <3>6. failure # None => failure.code # "none"
        BY DEF Whole, CutShort, Unavailable, Failed, Stopped, Codes, Unreadable
      <3>7. CASE e = Done
        BY <3>1, <3>3, <3>4, <3>5, <3>7 DEF Done
      <3>8. CASE e = Unreached /\ (op = "acquire" => available)
        BY <3>1, <3>8 DEF Unreached
      <3>9. CASE Interrupted(e) /\ Unavailable
        <4>1. e = [state |-> "not_run", reason |-> "no_atime_unavailable", diagnostic |-> "none"]
          BY <3>9 DEF Interrupted, Unavailable, Failed, Stopped
        <4>2. QED
          BY <3>1, <4>1
      <3>10. CASE Interrupted(e) /\ ~Unavailable
        <4>1. op = "acquire" => available
          BY <3>2, <3>4, <3>10 DEF Unreached
        <4>2. CASE Failed
          <5>1. e = [state |-> "failed", reason |-> failure.code, diagnostic |-> failure.code]
            BY <3>10, <4>2 DEF Interrupted, Failed, Stopped, None
          <5>2. failure.code # "none"
            BY <3>6, <4>2 DEF Failed, None
          <5>3. QED
            BY <3>1, <4>1, <5>1, <5>2
        <4>3. CASE ~Failed
          BY <3>1, <3>10, <4>1, <4>3 DEF Interrupted
        <4>4. QED
          BY <4>2, <4>3
      <3>11. QED
        BY <3>2, <3>7, <3>8, <3>9, <3>10
    <2>3. QED
      BY <2>1, <2>2 DEF Operations
  <1>4. \A op \in DOMAIN Results :
          Catalog[op].role = "analyzer" /\ Execution(op).state = "completed"
    <2>1. TAKE op \in DOMAIN Results
    <2>2. op \in Analyzers /\ op \in Native /\ op \in DOMAIN completed
      BY ResultsDomain, OrderFacts
    <2>3. op # "acquire" /\ op # "parse"
      BY <2>2, OrderFacts
    <2>4. QED
      BY <2>2, <2>3, ReportFacts DEF Catalog, Operations
  <1>5. \A op \in Operations :
          Execution(op).state = "completed" /\ Catalog[op].role = "analyzer" =>
            op \in DOMAIN Results
    <2>1. SUFFICES ASSUME NEW op \in Operations, Execution(op).state = "completed",
                          Catalog[op].role = "analyzer"
                   PROVE  op \in DOMAIN Results
      OBVIOUS
    <2>2. op \in Native
      BY <2>1, DeclaredExecutions DEF Operations, Skipped
    <2>3. op # "acquire" /\ op # "parse"
      BY <2>1 DEF Catalog
    <2>4. op \in Analyzers
      BY <2>2, <2>3, OrderFacts
    <2>5. QED
      BY <2>1, <2>2, <2>4, ResultsDomain, ReportFacts
  <1>6. \A f \in Findings :
          IF f.id = "parser.failure"
          THEN /\ f.op \in Operations
               /\ Execution(f.op).state = "failed"
               /\ Catalog[f.op].role \in {"acquisition", "parser"}
               /\ Execution(f.op).diagnostic = failure.code
          ELSE f.op \in DOMAIN Results /\ Results[f.op] = "observations_present"
    <2>1. TAKE f \in Findings
    <2>2. CASE f.id = "parser.failure"
      <3>1. failure # None /\ f.op = FailedOperation
        BY <2>2 DEF Findings
      <3>2. Failed /\ CutShort
        BY <3>1 DEF Whole, CutShort, Unavailable, Stopped
      <3>3. next \in 1..Len(Order) /\ FailedOperation = Order[next]
        BY <3>1, <3>2, OrderFacts DEF TypeInv, Failed, FailedOperation
      <3>4. Interrupted(Execution(Order[next]))
        BY <3>2, <3>3, CutExecutions
      <3>5. /\ Execution(FailedOperation).state = "failed"
            /\ Execution(FailedOperation).diagnostic = failure.code
        BY <3>1, <3>2, <3>3, <3>4 DEF Interrupted, Failed, Unavailable, Stopped
      <3>6. FailedOperation \in {"acquire", "parse"} /\ FailedOperation \in Native
        BY <3>1, <3>3, OrderFacts DEF FailedOperation
      <3>7. QED
        BY <2>2, <3>1, <3>5, <3>6 DEF Catalog, Operations
    <2>3. CASE f.id # "parser.failure"
      <3>1. PICK g \in Observed : f.op = g.op
        BY <2>3 DEF Findings
      <3>2. f.op \in DOMAIN completed /\ f.op \in Analyzers /\ completed[f.op] # {}
        BY <3>1, ObservedType
      <3>3. f.op \in DOMAIN Results
        BY <3>2, ResultsDomain
      <3>4. Results[f.op] = "observations_present"
        BY <3>2, <3>3 DEF Results
      <3>5. QED
        BY <2>3, <3>3, <3>4
    <2>4. QED
      BY <2>2, <2>3
  <1>7. QED
    <2>1. \A op \in DOMAIN Results : op \in Operations
      BY ResultsDomain, OrderFacts DEF Operations
    <2>2. QED
      BY <1>1, <1>2, <1>3, <1>4, <1>5, <1>6, <2>1 DEF Valid

\* A report that is handed over has an exit code of AuditOutcomes.
LEMMA RecountType ==
  ASSUME TypeInv, CompletedInv, Whole \/ CutShort
  PROVE  /\ Whole => Recounted(Assembled) \in 0..3
         /\ Whole /\ view = "audit" => Recounted(Assembled) = LegacyExit
         /\ ~Whole => Recounted(Assembled) = 4
  <1> DEFINE ranks == {Rank(f.severity) : f \in Selected(Assembled)}
  <1>1. Recounted(Assembled) = IF Whole THEN Largest(ranks) ELSE 4
    BY ReportFacts DEF Recounted
  <1>2. \A severity : Rank(severity) \in 0..3
    BY DEF Rank
  <1>3. ranks \subseteq 0..3
    BY <1>2
  <1>4. Largest(ranks) \in 0..3
    BY <1>3, LargestType
  <1>5. ASSUME Whole, view = "audit" PROVE ranks = {Rank(f.severity) : f \in Observed}
    <2>1. Selected(Assembled) = Findings
      BY <1>5 DEF Selected, Assembled
    <2>2. Findings = {[op |-> f.op, id |-> "analysis", severity |-> f.severity,
                       viewed |-> f.viewed] : f \in Observed}
      BY <1>5 DEF Findings, Whole
    <2> DEFINE found(f) == [op |-> f.op, id |-> "analysis", severity |-> f.severity,
                            viewed |-> f.viewed]
    <2>3. \A f \in Observed : found(f) \in Findings /\ found(f).severity = f.severity
      BY <2>2
    <2>4. \A g \in Findings : \E f \in Observed : g = found(f)
      BY <2>2
    <2> HIDE DEF found
    <2>5. \A g \in Findings : \E f \in Observed : Rank(g.severity) = Rank(f.severity)
      BY <2>3, <2>4
    <2>6. \A f \in Observed : \E g \in Findings : Rank(g.severity) = Rank(f.severity)
      BY <2>3
    <2>7. QED
      BY <2>1, <2>5, <2>6
  <1>6. Whole => LegacyExit = Largest({Rank(f.severity) : f \in Observed})
    BY DEF Whole, LegacyExit
  <1>7. QED
    BY <1>1, <1>4, <1>5, <1>6

---------------------------------------------------------------------------
(* The steps.                                                              *)

\* What the report is built from.
trace == <<options, ctx, next, completed, stopped, failure, acquired>>

\* The same trace gives the same report.
LEMMA SameTrace ==
  ASSUME UNCHANGED trace
  PROVE  /\ Assembled' = Assembled /\ Recounted(Assembled)' = Recounted(Assembled)
         /\ Retained' = Retained /\ (Whole' <=> Whole) /\ (CutShort' <=> CutShort)
  <1> USE DEF trace, options
  <1>1. \A op : Execution(op)' = Execution(op)
    BY DEF Execution, FailedOperation
  <1>2. Results' = Results
    BY <1>1 DEF Results
  <1>3. Observed' = Observed
    BY DEF Observed, Found
  <1>4. Findings' = Findings
    BY <1>3 DEF Findings, FailedOperation
  <1>5. Assembled' = Assembled
    BY <1>1, <1>2, <1>4 DEF Assembled
  <1>6. Selected(Assembled)' = Selected(Assembled)
    BY <1>5 DEF Selected
  <1>7. Recounted(Assembled)' = Recounted(Assembled)
    BY <1>5, <1>6 DEF Recounted
  <1>8. Whole' <=> Whole
    BY DEF Whole
  <1>9. CutShort' <=> CutShort
    BY DEF CutShort, Unavailable, Failed, Stopped, Behind, Op
  <1>10. QED
    BY <1>5, <1>7, <1>8, <1>9 DEF Retained

\* A step of an audit that goes on answers nothing yet.
LEMMA QuietStep ==
  ASSUME IInv, phase # "returned", phase' # "returned", UNCHANGED <<report, answer>>
  PROVE  ReturnInv' /\ NeverRefused' /\ OutcomeExpected' /\ ~Reported'
  BY DEF IInv, ReturnInv, NeverRefused, OutcomeExpected, Reported, NoAnswer

\* Before the first operation nothing is completed and nothing has gone wrong.
LEMMA InitInv == Init => IInv
  <1> SUFFICES ASSUME Init PROVE IInv
    OBVIOUS
  <1>1. DOMAIN completed = {}
    BY DEF Init
  <1>2. TypeInv
    <2>1. next \in 1..Len(Order)
      BY OrderFacts DEF Init
    <2>2. view \in {"audit", "filtered"}
      BY NativeAssumptions DEF Init
    <2>3. QED
      BY <1>1, <2>1, <2>2 DEF Init, TypeInv
  <1>3. Behind = {}
    BY DEF Init, Behind
  <1>4. CompletedInv /\ RunningInv /\ EndingInv
    BY <1>1, <1>3 DEF Init, CompletedInv, RunningInv, EndingInv, CutShort, Unavailable, Reported
  <1>5. ReturnInv /\ NeverRefused /\ OutcomeExpected
    BY DEF Init, ReturnInv, Reported, NeverRefused, NoAnswer, OutcomeExpected
  <1>6. QED
    BY <1>2, <1>4, <1>5 DEF IInv

\* The context is looked at between operations: the audit goes on or is stopped here.
LEMMA BeforeStep == ASSUME IInv, Before PROVE IInv'
  <1>1. ReturnInv' /\ NeverRefused' /\ OutcomeExpected' /\ ~Reported'
    BY QuietStep DEF Before
  <1>2. TypeInv' /\ CompletedInv'
    BY DEF Before, options, IInv, TypeInv, CompletedInv
  <1>3. RunningInv'
    BY DEF Before, options, IInv, RunningInv, Behind
  <1>4. EndingInv'
    <2>1. phase' = "assemble" => Stopped'
      BY DEF Before, options, IInv, RunningInv, TypeInv, Stopped, Op, Interruptions
    <2>2. DOMAIN completed' = Behind'
      BY DEF Before, IInv, RunningInv, Behind
    <2>3. QED
      BY <1>1, <2>1, <2>2 DEF EndingInv, CutShort
  <1>5. QED
    BY <1>1, <1>2, <1>3, <1>4 DEF IInv

\* An operation that runs to its end is recorded, and the audit goes on to the next.
LEMMA CompleteStep ==
  ASSUME IInv, phase = "run", NEW findings \in SUBSET Findable,
         findings # {} => Op \in Analyzers,
         Completes(Op, findings), Proceed,
         UNCHANGED <<options, ctx, stopped, failure, report, answer>>,
         acquired' = (acquired \/ Op = "acquire")
  PROVE  IInv'
  <1>1. /\ next \in 1..Len(Order) /\ Len(Order) \in Nat /\ Op \in Native
        /\ DOMAIN completed = Behind
        /\ available /\ failure = None /\ stopped = Running
    BY OrderFacts DEF IInv, TypeInv, RunningInv, Op
  <1>2. /\ DOMAIN completed' = DOMAIN completed \cup {Op}
        /\ \A op \in DOMAIN completed' :
             completed'[op] = IF op = Op THEN findings ELSE completed[op]
    BY DEF Completes
  <1>3. ReturnInv' /\ NeverRefused' /\ OutcomeExpected' /\ ~Reported'
    BY QuietStep DEF Proceed
  <1>4. next' \in 1..Len(Order) /\ phase' \in {"before", "assemble"}
    BY <1>1 DEF Proceed
  <1>5. TypeInv'
    BY <1>1, <1>2, <1>4 DEF IInv, TypeInv, options
  <1>6. CompletedInv'
    BY <1>2 DEF IInv, CompletedInv
  <1>7. DOMAIN completed' = {Order[i] : i \in 1..next}
    BY <1>1, <1>2 DEF Behind, Op
  <1>8. CASE next = Len(Order)
    <2>1. DOMAIN completed' = Native
      BY <1>7, <1>8 DEF Native
    <2>2. QED
      BY <1>1, <1>3, <1>5, <1>6, <1>8, <2>1
        DEF Proceed, IInv, RunningInv, EndingInv, Whole, options
  <1>9. CASE next # Len(Order)
    <2>1. DOMAIN completed' = Behind'
      BY <1>1, <1>7, <1>9 DEF Behind, Proceed
    <2>2. QED
      BY <1>1, <1>3, <1>5, <1>6, <1>9, <2>1
        DEF Proceed, IInv, RunningInv, EndingInv, options
  <1>10. QED
    BY <1>8, <1>9

\* A typed failure ends the audit at the operation at hand.
LEMMA FailStep ==
  ASSUME IInv, phase = "run", NEW where, NEW code, Fails(where, code),
         \/ Op = "acquire" /\ where = "acquisition" /\ code \in Codes \ {"ok"}
         \/ Op = "parse" /\ where = "parsing" /\ code \in Unreadable,
         UNCHANGED <<options, ctx, next, completed, stopped, acquired, report, answer>>
  PROVE  IInv'
  <1>1. /\ next \in 1..Len(Order) /\ DOMAIN completed = Behind
        /\ available /\ stopped = Running
        /\ Op = "acquire" => next = 1
        /\ Op = "parse" => next = 2
    BY OrderFacts DEF IInv, TypeInv, RunningInv, Op
  <1>2. ReturnInv' /\ NeverRefused' /\ OutcomeExpected' /\ ~Reported'
    BY QuietStep DEF Fails
  <1>3. TypeInv' /\ CompletedInv' /\ RunningInv'
    BY DEF Fails, options, IInv, TypeInv, CompletedInv, RunningInv
  <1>4. Failed'
    BY <1>1 DEF Fails, options, Failed
  <1>5. DOMAIN completed' = Behind'
    BY <1>1 DEF Behind
  <1>6. QED
    BY <1>2, <1>3, <1>4, <1>5 DEF IInv, EndingInv, CutShort

\* The acquisition completes, or fails with one of its codes.
LEMMA AcquireStep == ASSUME IInv, Acquire PROVE IInv'
  <1>1. CASE \E code \in Codes \ {"ok"} : Fails("acquisition", code)
    <2>1. PICK code \in Codes \ {"ok"} : Fails("acquisition", code)
      BY <1>1
    <2>2. UNCHANGED <<acquired, completed, next>>
      BY <2>1 DEF Acquire, Fails, Completes, Proceed, IInv, RunningInv, None
    <2>3. QED
      BY <2>1, <2>2, FailStep DEF Acquire
  <1>2. CASE ~\E code \in Codes \ {"ok"} : Fails("acquisition", code)
    <2>1. /\ acquired' = TRUE /\ Completes("acquire", {}) /\ Proceed /\ UNCHANGED failure
          /\ phase = "run" /\ Op = "acquire"
          /\ UNCHANGED <<options, ctx, stopped, report, answer>>
      BY <1>2 DEF Acquire
    <2>2. {} \in SUBSET Findable
      OBVIOUS
    <2>3. Completes(Op, {})
      BY <2>1
    <2>4. acquired' = (acquired \/ Op = "acquire")
      BY <2>1
    <2>5. QED
      BY <2>1, <2>2, <2>3, <2>4, CompleteStep
  <1>3. QED
    BY <1>1, <1>2

\* A step that returns: the properties of what is returned are all there is to show.
LEMMA ReturnStep ==
  ASSUME phase' = "returned",
         TypeInv', CompletedInv', EndingInv', ReturnInv', NeverRefused', OutcomeExpected'
  PROVE  IInv'
  BY DEF IInv, RunningInv

\* The source is parsed, fails as unsupported or not decodable, or exceeds a report's limits.
LEMMA ParseStep == ASSUME IInv, Parse PROVE IInv'
  <1>1. /\ phase = "run" /\ Op = "parse" /\ Op # "acquire"
        /\ UNCHANGED <<options, ctx, stopped, acquired, report>>
    BY DEF Parse
  <1>2. {} \in SUBSET Findable /\ acquired \in BOOLEAN
    BY DEF IInv, TypeInv
  <1>3. CASE \E code \in Unreadable : Fails("parsing", code)
    <2>1. PICK code \in Unreadable : Fails("parsing", code)
      BY <1>3
    <2>2. UNCHANGED <<completed, next, answer>>
      BY <2>1 DEF Parse, Fails, IInv, RunningInv, None
    <2>3. QED
      BY <1>1, <2>1, <2>2, FailStep
  <1>4. CASE Completes("parse", {}) /\ Proceed /\ UNCHANGED <<failure, answer>>
    <2>1. Completes(Op, {})
      BY <1>1, <1>4
    <2>2. acquired' = (acquired \/ Op = "acquire")
      BY <1>1, <1>2
    <2>3. QED
      BY <1>1, <1>2, <1>4, <2>1, <2>2, CompleteStep
  <1>5. CASE /\ schema = "2.0"
             /\ Completes("parse", {})
             /\ phase' = "returned"
             /\ answer' = [NoAnswer EXCEPT !.report = "limit"]
             /\ UNCHANGED <<failure, next>>
    <2>1. /\ next \in 1..Len(Order) /\ Op \in Native /\ ~Reported
      BY <1>1, OrderFacts DEF IInv, TypeInv, ReturnInv, Op
    <2>2. /\ DOMAIN completed' = DOMAIN completed \cup {"parse"}
          /\ \A op \in DOMAIN completed' :
               completed'[op] = IF op = "parse" THEN {} ELSE completed[op]
      BY <1>5 DEF Completes
    <2>3. TypeInv' /\ CompletedInv'
      BY <1>1, <1>5, <2>1, <2>2 DEF IInv, TypeInv, CompletedInv, options
    <2>4. answer' = [failure |-> "none", exit |-> 0, report |-> "limit", snapshot |-> FALSE]
      BY <1>5 DEF NoAnswer
    <2>5. ~Reported'
      BY <1>1, <2>1 DEF Reported, NoReport
    <2>6. EndingInv' /\ ReturnInv' /\ NeverRefused'
      BY <1>5, <2>4, <2>5 DEF EndingInv, ReturnInv, NeverRefused
    <2>7. OutcomeExpected'
      BY <1>1, <1>5, <2>4 DEF OutcomeExpected, AuditOutcomes, options
    <2>8. QED
      BY <1>1, <1>5, <2>1, <2>3, <2>6, <2>7, ReturnStep
  <1>6. QED
    BY <1>3, <1>4, <1>5 DEF Parse, Unreadable

\* An analyzer completes with whatever it found.
LEMMA AnalyzeStep == ASSUME IInv, Analyze PROVE IInv'
  <1>1. PICK findings \in FindingSets : Completes(Op, findings)
    BY DEF Analyze
  <1>2. findings \in SUBSET Findable
    BY NativeAssumptions DEF Findable
  <1>3. Op # "acquire"
    BY OrderFacts DEF Analyze, IInv, TypeInv, Op
  <1>4. acquired' = (acquired \/ Op = "acquire")
    BY <1>3 DEF Analyze, IInv, TypeInv
  <1>5. /\ phase = "run" /\ Op \in Analyzers /\ Proceed
        /\ UNCHANGED <<options, ctx, stopped, failure, report, answer>>
    BY DEF Analyze
  <1>6. QED
    BY <1>1, <1>2, <1>4, <1>5, CompleteStep

\* The report is built from the trace as it stands, and accepted unless it exceeds a limit.
LEMMA AssembleStep == ASSUME IInv, Assemble PROVE IInv'
  <1>1. /\ TypeInv /\ CompletedInv /\ (Whole \/ CutShort) /\ schema = "2.0"
        /\ phase = "assemble" /\ phase' = "returned" /\ report = NoReport
        /\ UNCHANGED trace
    BY DEF Assemble, IInv, EndingInv, ReturnInv, Reported, trace
  <1>2. /\ Assembled' = Assembled /\ Recounted(Assembled)' = Recounted(Assembled)
        /\ Retained' = Retained /\ (Whole' \/ CutShort')
    BY <1>1, SameTrace
  <1>3. TypeInv' /\ CompletedInv' /\ EndingInv'
    BY <1>1, <1>2 DEF trace, options, TypeInv, CompletedInv, EndingInv
  <1>4. CASE /\ report' = Assembled
             /\ answer' = [failure |-> failure.code, exit |-> Recounted(Assembled),
                           report |-> "ok", snapshot |-> Retained]
    <2>1. ReturnInv' /\ NeverRefused'
      BY <1>1, <1>2, <1>4 DEF trace, options, ReturnInv, NeverRefused
    <2>2. OutcomeExpected'
      <3>1. SUFFICES ASSUME available
                     PROVE  [failure |-> failure.code, exit |-> Recounted(Assembled), report |-> "ok"]
                              \in AuditOutcomes(schema, 0..3, ctx # "live")
        BY <1>1, <1>4 DEF OutcomeExpected, trace, options
      <3>2. CASE Whole
        <4>1. failure.code = "none" /\ Recounted(Assembled) \in 0..3
          BY <1>1, <3>2, RecountType DEF Whole, None
        <4>2. QED
          BY <4>1 DEF AuditOutcomes
      <3>3. CASE ~Whole
        <4>1. Recounted(Assembled) = 4
          BY <1>1, <3>3, RecountType
        <4>2. CASE Failed
          <5>1. failure.code \in (Codes \ {"ok"}) \cup Unreadable
            BY <4>2 DEF Failed
          <5>2. QED
            BY <4>1, <5>1 DEF AuditOutcomes, Unreadable
        <4>3. CASE Stopped
          BY <1>1, <4>1, <4>3 DEF Stopped, None, AuditOutcomes
        <4>4. QED
          BY <1>1, <3>1, <3>3, <4>2, <4>3 DEF CutShort, Unavailable
      <3>4. QED
        BY <3>2, <3>3
    <2>3. QED
      BY <1>1, <1>3, <2>1, <2>2, ReturnStep
  <1>5. CASE /\ \E error \in {"limit", "error"} : answer' = [NoAnswer EXCEPT !.report = error]
             /\ UNCHANGED report
    <2>1. PICK error \in {"limit", "error"} : answer' = [NoAnswer EXCEPT !.report = error]
      BY <1>5
    <2>2. answer' = [failure |-> "none", exit |-> 0, report |-> error, snapshot |-> FALSE]
      BY <2>1 DEF NoAnswer
    <2>3. ReturnInv' /\ NeverRefused'
      BY <1>1, <1>5, <2>2 DEF ReturnInv, NeverRefused, Reported, NoReport
    <2>4. OutcomeExpected'
      BY <1>1, <2>2 DEF trace, options, OutcomeExpected, AuditOutcomes
    <2>5. QED
      BY <1>1, <1>3, <2>3, <2>4, ReturnStep
  <1>6. Valid(Assembled)
    BY <1>1, AssembledValid
  <1>7. QED
    BY <1>4, <1>5, <1>6 DEF Assemble

\* Schema 1.0 returns its summary without a trace.
LEMMA SummarizeStep == ASSUME IInv, Summarize PROVE IInv'
  <1>1. /\ TypeInv /\ CompletedInv /\ (Whole \/ CutShort) /\ schema = "1.0"
        /\ phase = "assemble" /\ phase' = "returned" /\ ~Reported /\ UNCHANGED report
        /\ UNCHANGED trace
    BY DEF Summarize, IInv, EndingInv, ReturnInv, trace
  <1>2. answer' = [failure |-> failure.code, exit |-> LegacyExit, report |-> "ok",
                   snapshot |-> failure = None]
    BY DEF Summarize
  <1>3. TypeInv' /\ CompletedInv'
    BY <1>1 DEF trace, options, TypeInv, CompletedInv
  <1>4. EndingInv' /\ ReturnInv' /\ NeverRefused'
    BY <1>1, <1>2 DEF EndingInv, ReturnInv, NeverRefused, Reported
  <1>5. OutcomeExpected'
    <2>1. SUFFICES ASSUME available
                   PROVE  [failure |-> failure.code, exit |-> LegacyExit, report |-> "ok"]
                            \in AuditOutcomes(schema, 0..3, ctx # "live")
      BY <1>1, <1>2 DEF OutcomeExpected, trace, options
    <2>2. CASE Failed
      <3>1. failure.code \in (Codes \ {"ok"}) \cup Unreadable /\ LegacyExit = 4
        BY <2>2 DEF Failed, None, LegacyExit
      <3>2. QED
        BY <3>1 DEF AuditOutcomes, Unreadable
    <2>3. CASE ~Failed
      <3>1. failure = None
        BY <1>1, <2>1, <2>3 DEF Whole, CutShort, Unavailable, Stopped
      <3>2. LegacyExit \in 0..3
        BY <1>1, <3>1, ObservedType, LargestType DEF LegacyExit
      <3>3. QED
        BY <3>1, <3>2 DEF None, AuditOutcomes
    <2>4. QED
      BY <2>2, <2>3
  <1>6. QED
    BY <1>1, <1>3, <1>4, <1>5, ReturnStep

\* The end of the context alone changes nothing that is recorded.
LEMMA EndContextStep == ASSUME IInv, EndContext PROVE IInv'
  <1>1. /\ phase # "returned" /\ phase' = phase /\ ctx = "live"
        /\ ctx' \in {"canceled", "timeout"}
        /\ UNCHANGED <<options, next, completed, stopped, failure, acquired, report, answer>>
    BY DEF EndContext
  <1>2. ReturnInv' /\ NeverRefused' /\ OutcomeExpected' /\ ~Reported'
    BY <1>1, QuietStep
  <1>3. TypeInv' /\ CompletedInv'
    BY <1>1 DEF IInv, TypeInv, CompletedInv, options
  <1>4. RunningInv'
    BY <1>1 DEF IInv, RunningInv, Behind, options
  <1>5. EndingInv'
    BY <1>1, <1>2 DEF IInv, EndingInv, Whole, CutShort, Unavailable, Failed, Stopped, Behind,
      Op, options
  <1>6. QED
    BY <1>2, <1>3, <1>4, <1>5 DEF IInv

\* Every step of the audit keeps the invariant.
LEMMA StepInv == IInv /\ [Next]_vars => IInv'
  <1> SUFFICES ASSUME IInv, [Next]_vars PROVE IInv'
    OBVIOUS
  <1>1. CASE Steps
    BY <1>1, BeforeStep, AcquireStep, ParseStep, AnalyzeStep, AssembleStep, SummarizeStep
      DEF Steps
  <1>2. CASE EndContext
    BY <1>2, EndContextStep
  <1>3. CASE UNCHANGED vars
    <2>1. UNCHANGED trace
      BY <1>3 DEF vars, options, trace
    <2>2. /\ Assembled' = Assembled /\ Recounted(Assembled)' = Recounted(Assembled)
          /\ Retained' = Retained /\ (Whole' <=> Whole) /\ (CutShort' <=> CutShort)
      BY <2>1, SameTrace
    <2>3. TypeInv' /\ CompletedInv'
      BY <1>3 DEF vars, IInv, TypeInv, CompletedInv
    <2>4. RunningInv' /\ EndingInv'
      BY <1>3, <2>2 DEF vars, IInv, RunningInv, EndingInv, Reported, Behind
    <2>5. ReturnInv'
      BY <1>3, <2>2 DEF vars, IInv, ReturnInv, Reported
    <2>6. NeverRefused' /\ OutcomeExpected'
      BY <1>3 DEF vars, IInv, NeverRefused, OutcomeExpected
    <2>7. QED
      BY <2>3, <2>4, <2>5, <2>6 DEF IInv
  <1>4. QED
    BY <1>1, <1>2, <1>3 DEF Next

---------------------------------------------------------------------------
(* What the invariant says of a report.                                    *)

\* A report that was returned is the one assembled from a whole or cut short audit.
LEMMA ReportedFacts ==
  ASSUME IInv, Reported
  PROVE  /\ TypeInv /\ CompletedInv /\ (Whole \/ CutShort)
         /\ report = Assembled
         /\ \A op \in Native : report.executions[op] = Execution(op)
         /\ answer.exit = Recounted(Assembled)
         /\ answer.snapshot = Retained
  BY DEF IInv, EndingInv, ReturnInv, Assembled, Operations

\* Its executions are a completed prefix, at most one that ended it, and the rest.
LEMMA HistoryOfReport == IInv => CoverageIsHistory
  <1> SUFFICES ASSUME IInv, Reported, NEW i \in 1..Len(Order)
               PROVE  /\ State(i) = "completed" => Order[i] \in DOMAIN completed
                                                   /\ \A j \in 1..i : State(j) = "completed"
                      /\ State(i) \in {"failed", "canceled"} =>
                           \A j \in 1..(i - 1) : State(j) = "completed"
                      /\ State(i) = "not_run" =>
                           \/ i = 1 /\ ~available
                           \/ i > 1 /\ State(i - 1) # "completed"
    BY DEF CoverageIsHistory
  <1>1. \A j \in 1..Len(Order) : State(j) = Execution(Order[j]).state
    BY ReportedFacts, OrderFacts DEF State
  <1>2. Len(Order) \in Nat /\ next \in 1..Len(Order) /\ Order[i] \in Native
    BY ReportedFacts, OrderFacts DEF TypeInv
  <1>3. CASE Whole
    <2>1. \A j \in 1..Len(Order) : State(j) = "completed"
      BY <1>1, <1>3, WholeExecutions, OrderFacts DEF Done
    <2>2. QED
      BY <1>2, <1>3, <2>1 DEF Whole
  <1>4. CASE CutShort
    <2>1. \A j \in 1..Len(Order) :
            /\ j < next => State(j) = "completed"
            /\ j > next => State(j) = "not_run"
      BY <1>1, <1>4, ReportedFacts, CutExecutions DEF Done, Unreached
    <2>2. /\ State(next) # "completed"
          /\ State(next) = "not_run" => Unavailable
      <3>1. Interrupted(Execution(Order[next]))
        BY <1>2, <1>4, ReportedFacts, CutExecutions
      <3>2. QED
        BY <1>1, <1>2, <3>1 DEF Interrupted
    <2>3. State(i) = "completed" => Order[i] \in DOMAIN completed
      BY <1>1, <1>2, ReportedFacts, ReportFacts
    <2>4. QED
      BY <1>2, <2>1, <2>2, <2>3 DEF Unavailable
  <1>5. QED
    BY <1>3, <1>4, ReportedFacts

\* Its exit code is 4 exactly when an execution is missing, and the legacy one else.
LEMMA ExitOfReport == IInv => ExitMeaning
  <1> SUFFICES ASSUME IInv, Reported PROVE ExitMeaning
    BY DEF ExitMeaning, ExitTellsCoverage, SchemasAgree
  <1>1. ExitTellsCoverage
    <2>1. answer.exit = 4 <=> ~Whole
      BY ReportedFacts, RecountType
    <2>2. QED
      BY <2>1, ReportedFacts, ReportFacts DEF ExitTellsCoverage
  <1>2. SchemasAgree
    <2>1. SUFFICES ASSUME available, stopped = Running, view = "audit"
                   PROVE  Recounted(Assembled) = LegacyExit
      BY ReportedFacts DEF SchemasAgree
    <2>2. CASE Whole
      BY <2>1, <2>2, ReportedFacts, RecountType
    <2>3. CASE ~Whole
      <3>1. Failed
        <4>1. stopped # Running \/ ~Stopped
          BY <2>1, OrderFacts, NativeNotDeclared, ReportedFacts
            DEF Stopped, Running, Op, TypeInv
        <4>2. QED
          BY <2>1, <2>3, <4>1, ReportedFacts DEF CutShort, Unavailable
      <3>2. QED
        BY <2>3, <3>1, ReportedFacts, RecountType DEF Failed, None, LegacyExit
    <2>4. QED
      BY <2>2, <2>3
  <1>3. QED
    BY <1>1, <1>2 DEF ExitMeaning

\* Its source goes with it exactly when it is completed.
LEMMA SnapshotOfReport == IInv => SnapshotWithCompletion
  <1> SUFFICES ASSUME IInv, Reported, retain
               PROVE  answer.snapshot <=> report.status = "completed"
    BY DEF SnapshotWithCompletion
  <1>1. report.status = "completed" <=> Whole
    BY ReportedFacts, ReportFacts
  <1>2. Whole => Retained
    BY OrderFacts, ReportedFacts DEF Whole, Retained, CompletedInv
  <1>3. Retained => Whole
    <2>1. Unavailable /\ CutShort => ~acquired
      BY ReportedFacts DEF Unavailable, CutShort, Behind, CompletedInv
    <2>2. Failed => failure # None
      BY DEF Failed, None
    <2>3. Stopped => stopped # Running
      BY OrderFacts, NativeNotDeclared, ReportedFacts DEF Stopped, Running, Op, TypeInv
    <2>4. QED
      BY <2>1, <2>2, <2>3, ReportedFacts DEF Retained, CutShort
  <1>4. QED
    BY <1>1, <1>2, <1>3, ReportedFacts

---------------------------------------------------------------------------
(* The theorems.                                                           *)

\* The inductive invariant holds: what is completed is a prefix of the order, and
\* one cause at most ends the audit (trace.go, audit.go).
THEOREM Invariance == Spec => []IInv
  BY InitInv, StepInv, PTL DEF Spec

\* A report's executions tell the run's history: a completed prefix, one failed or
\* stopped operation at most, then operations that were not reached.
THEOREM CoverageTellsHistory == Spec => []CoverageIsHistory
  BY Invariance, HistoryOfReport, PTL

\* The report's own validator refuses no report assembleV2 builds, whatever failed,
\* timed out or was canceled (v2.go; graph.go, report.go).
THEOREM NoReportRefused == Spec => []NeverRefused
  BY Invariance, PTL DEF IInv

\* Exit 4 and a gap in the coverage of the enabled operations are the same thing in
\* every view, and both schemas give an uninterrupted audit the same exit code.
THEOREM ExitMeansCoverage == Spec => []ExitMeaning
  BY Invariance, ExitOfReport, PTL

\* Source and findings go to the caller exactly with a completed report.
THEOREM SnapshotsAreComplete == Spec => []SnapshotWithCompletion
  BY Invariance, SnapshotOfReport, PTL

\* An audit returns one of the outcomes Corpus counts on, for any analyzers.
THEOREM OutcomesAreExpected == Spec => []OutcomeExpected
  BY Invariance, PTL DEF IInv

---------------------------------------------------------------------------
(* The acquisition of a snapshot (Acquisition), which the audit starts as  *)
(* its first operation and takes by Charges: for every ceiling and         *)
(* allowance, files of any length and any number of changes and ticks.     *)

Files == [kind : {"regular", "other"}, content : Seq(Nat), mtime : Nat, ctime : Nat]

SnapshotTypes ==
  /\ limit \in 1..FileLimit
  /\ file \in Files /\ before \in Files
  /\ clock \in Nat /\ changes \in Nat /\ peak \in Nat /\ consumed \in Nat
  /\ blurred \in BOOLEAN
  /\ stage \in {"open", "stat", "read", "settle", "done"}
  /\ data \in Seq(Nat)
  /\ result \in Codes \cup {"none"}

---------------------------------------------------------------------------
(* The inductive invariant of the acquisition.                             *)

\* The world's own: change times come from the clock, peak is the largest size.
WorldInv == file.ctime <= clock /\ Len(file.content) <= peak

\* What was read was there, is charged, and exceeds the allowance by the sentinel at most.
ReadInv ==
  /\ consumed = Len(data)
  /\ Len(data) <= limit + 1
  /\ Len(data) <= peak
  /\ stage \in {"open", "stat"} => consumed = 0
  /\ stage # "done" => result = "none"

Reading == stage \in {"read", "settle"}

\* The stat that let the read begin stays behind the file: without a change the
\* file is as it was, and a change shows in the change time or blurs it.
StatInv ==
  Reading =>
    /\ Len(before.content) <= limit
    /\ before.ctime <= file.ctime
    /\ changes = 0 => file = before

\* As long as the change time tells of no change, what was read is the beginning of
\* the file as it was at the stat, and after the last read all of it.
PrefixInv ==
  Reading /\ ~blurred /\ file.ctime = before.ctime =>
    /\ file.content = before.content
    /\ Len(data) <= Len(before.content)
    /\ \A i \in 1..Len(data) : data[i] = before.content[i]
    /\ stage = "settle" => Len(data) = Len(before.content)

SnapshotInv ==
  /\ SnapshotTypes /\ WorldInv /\ ReadInv /\ StatInv /\ PrefixInv
  /\ SnapshotConsistent /\ CodesTellTruth /\ ChargeExpected

---------------------------------------------------------------------------
(* Lemmas about the operators.                                             *)

\* One read appends what stands in the file at the offset.
LEMMA ReadAppends ==
  ASSUME NEW d \in Seq(Nat), NEW c \in Seq(Nat), NEW n \in Nat \ {0},
         Len(d) + n <= Len(c)
  PROVE  /\ d \o SubSeq(c, Len(d) + 1, Len(d) + n) \in Seq(Nat)
         /\ Len(d \o SubSeq(c, Len(d) + 1, Len(d) + n)) = Len(d) + n
         /\ \A i \in 1..(Len(d) + n) :
              (d \o SubSeq(c, Len(d) + 1, Len(d) + n))[i] = IF i <= Len(d) THEN d[i] ELSE c[i]
  <1> DEFINE part == SubSeq(c, Len(d) + 1, Len(d) + n)
  <1>1. Len(d) \in Nat /\ Len(c) \in Nat
    BY LenProperties
  <1>2. \A i \in (Len(d) + 1)..(Len(d) + n) : c[i] \in Nat
    BY <1>1, ElementOfSeq
  <1>3. /\ part \in Seq(Nat)
        /\ Len(part) = n
        /\ \A i \in 1..n : part[i] = c[Len(d) + i]
    BY <1>1, <1>2, SubSeqProperties
  <1> HIDE DEF part
  <1>4. /\ d \o part \in Seq(Nat)
        /\ Len(d \o part) = Len(d) + n
        /\ \A i \in 1..(Len(d) + n) :
             (d \o part)[i] = IF i <= Len(d) THEN d[i] ELSE part[i - Len(d)]
    BY <1>3, ConcatProperties
  <1>5. \A i \in 1..(Len(d) + n) : i > Len(d) => part[i - Len(d)] = c[i]
    BY <1>1, <1>3
  <1>6. QED
    BY <1>1, <1>4, <1>5 DEF part

\* Whatever other programs write is a file of the model's type.
LEMMA ChangeType ==
  ASSUME SnapshotTypes, WorldInv, Overwrite \/ Extend \/ Truncate \/ SetTimes
  PROVE  \E content \in Seq(Nat), mtime \in Nat : Change(content, mtime)
  <1>1. file.content \in Seq(Nat) /\ Len(file.content) \in Nat
    BY LenProperties DEF SnapshotTypes, Files
  <1>2. CASE Overwrite
    <2>1. PICK i \in 1..Len(file.content) :
            Change([file.content EXCEPT ![i] = changes + 1], clock)
      BY <1>2 DEF Overwrite
    <2>2. [file.content EXCEPT ![i] = changes + 1] \in Seq(Nat)
      BY <1>1, ExceptSeq DEF SnapshotTypes
    <2>3. QED
      BY <2>1, <2>2 DEF SnapshotTypes
  <1>3. CASE Extend
    <2>1. Append(file.content, changes + 1) \in Seq(Nat)
      BY <1>1, AppendProperties DEF SnapshotTypes
    <2>2. QED
      BY <1>3, <2>1 DEF SnapshotTypes, Extend
  <1>4. CASE Truncate
    <2>1. PICK n \in 0..(Len(file.content) - 1) : Change(SubSeq(file.content, 1, n), clock)
      BY <1>4 DEF Truncate
    <2>2. \A i \in 1..n : file.content[i] \in Nat
      BY <1>1, <2>1, ElementOfSeq
    <2>3. SubSeq(file.content, 1, n) \in Seq(Nat)
      BY <1>1, <2>1, <2>2, SubSeqProperties
    <2>4. QED
      BY <2>1, <2>3 DEF SnapshotTypes
  <1>5. CASE SetTimes
    BY <1>1, <1>5 DEF SetTimes, SnapshotTypes
  <1>6. QED
    BY <1>2, <1>3, <1>4, <1>5

---------------------------------------------------------------------------
(* The steps of the acquisition.                                           *)

\* Before the file is opened nothing is read, and the file's own times are in the past.
LEMMA SnapshotInitInv == SnapshotInit => SnapshotInv
  <1> SUFFICES ASSUME SnapshotInit PROVE SnapshotInv
    OBVIOUS
  <1> USE LimitAssumption
  <1>1. PICK n \in 0..MaxSize, kind \in {"regular", "other"} :
          /\ file = [kind |-> kind, content |-> [i \in 1..n |-> 0], mtime |-> 0, ctime |-> 0]
          /\ peak = n
    BY DEF SnapshotInit
  <1>2. [i \in 1..n |-> 0] \in Seq(Nat) /\ Len([i \in 1..n |-> 0]) = n
    BY <1>1
  <1>3. <<>> \in Seq(Nat) /\ Len(<<>>) = 0
    BY EmptySeq
  <1>4. SnapshotTypes
    <2>1. file \in Files
      BY <1>1, <1>2 DEF Files
    <2>2. data \in Seq(Nat)
      BY <1>3 DEF SnapshotInit
    <2>3. /\ limit \in 1..FileLimit /\ clock = 0 /\ stage = "open" /\ before = file
          /\ consumed = 0 /\ result = "none" /\ changes = 0 /\ blurred = FALSE
      BY DEF SnapshotInit
    <2>4. peak \in Nat
      BY <1>1
    <2>5. QED
      BY <2>1, <2>2, <2>3, <2>4 DEF SnapshotTypes
  <1>5. WorldInv /\ ReadInv /\ StatInv /\ PrefixInv
    BY <1>1, <1>2, <1>3 DEF SnapshotInit, WorldInv, ReadInv, StatInv, PrefixInv, Reading
  <1>6. SnapshotConsistent /\ CodesTellTruth /\ ChargeExpected
    BY <1>3 DEF SnapshotInit, SnapshotConsistent, CodesTellTruth, ChargeExpected
  <1>7. QED
    BY <1>4, <1>5, <1>6 DEF SnapshotInv

\* A step that ends the acquisition without reading on keeps everything but the verdict.
LEMMA EndStep ==
  ASSUME SnapshotInv, stage # "done", World, UNCHANGED <<before, data, consumed>>,
         NEW code \in Codes, End(code),
         code = "ok" /\ ~blurred => data = before.content,
         code = "too_large" => peak > FileLimit,
         code = "resource_limit" => limit < FileLimit /\ peak > limit,
         code = "changed" => changes > 0,
         [code |-> code, charge |-> consumed] \in Charges(limit, FileLimit)
  PROVE  SnapshotInv'
  <1>1. SnapshotTypes'
    BY DEF SnapshotInv, SnapshotTypes, World, End
  <1>2. WorldInv' /\ ReadInv'
    BY DEF SnapshotInv, WorldInv, ReadInv, World, End
  <1>3. StatInv' /\ PrefixInv'
    BY DEF StatInv, PrefixInv, Reading, End
  <1>4. SnapshotConsistent' /\ CodesTellTruth' /\ ChargeExpected'
    BY DEF SnapshotInv, ReadInv, SnapshotConsistent, CodesTellTruth, ChargeExpected, World, End
  <1>5. QED
    BY <1>1, <1>2, <1>3, <1>4 DEF SnapshotInv

\* Opening reads nothing: it succeeds, or ends without a charge.
LEMMA OpenStep == ASSUME SnapshotInv, Open PROVE SnapshotInv'
  <1> USE LimitAssumption
  <1>1. CASE End("io")
    <2>1. [code |-> "io", charge |-> consumed] \in Charges(limit, FileLimit)
      BY DEF SnapshotInv, SnapshotTypes, ReadInv, Open, Charges
    <2>2. QED
      BY <1>1, <2>1, EndStep DEF Open, Codes
  <1>2. CASE stage' = "stat" /\ UNCHANGED result
    BY <1>2 DEF Open, World, SnapshotInv, SnapshotTypes, WorldInv, ReadInv, StatInv, PrefixInv,
      Reading, SnapshotConsistent, CodesTellTruth, ChargeExpected
  <1>3. QED
    BY <1>1, <1>2 DEF Open

\* The first stat takes the file as it is; a file too large for the allowance ends here.
LEMMA StatStep == ASSUME SnapshotInv, StatBefore PROVE SnapshotInv'
  <1> USE LimitAssumption
  <1> DEFINE size == Len(file.content)
  <1>1. /\ size \in Nat /\ consumed = 0 /\ data \in Seq(Nat) /\ Len(data) = 0
        /\ result = "none" /\ stage # "done" /\ size <= peak /\ limit \in 1..FileLimit
    BY LenProperties DEF SnapshotInv, SnapshotTypes, Files, WorldInv, ReadInv, StatBefore
  <1>2. data = <<>>
    BY <1>1, EmptySeq
  <1>3. CASE End("io") /\ UNCHANGED before
    <2>1. [code |-> "io", charge |-> consumed] \in Charges(limit, FileLimit)
      BY <1>1 DEF Charges
    <2>2. QED
      BY <1>1, <1>3, <2>1, EndStep DEF StatBefore, Codes
  <1>4. CASE before' = file /\ stage' = "done" /\ result' # "io"
    <2>1. result' = IF file.kind # "regular" THEN "not_regular"
                    ELSE IF size > FileLimit THEN "too_large" ELSE "resource_limit"
      BY <1>4 DEF StatBefore, End
    <2>2. result' = "too_large" => peak > FileLimit
      BY <1>1, <2>1 DEF SnapshotInv, SnapshotTypes
    <2>3. result' = "resource_limit" => limit < FileLimit /\ peak > limit
      BY <1>1, <1>4, <2>1 DEF SnapshotInv, SnapshotTypes, StatBefore, End
    <2>4. [code |-> result', charge |-> 0] \in Charges(limit, FileLimit)
      BY <1>1, <2>1, <2>3 DEF Charges
    <2>5. SnapshotTypes' /\ WorldInv' /\ ReadInv'
      BY <1>1, <1>4, <2>1 DEF StatBefore, World, SnapshotInv, SnapshotTypes, WorldInv, ReadInv, Codes
    <2>6. StatInv' /\ PrefixInv'
      BY <1>4 DEF StatInv, PrefixInv, Reading
    <2>7. SnapshotConsistent' /\ CodesTellTruth' /\ ChargeExpected'
      BY <1>1, <1>4, <2>1, <2>2, <2>3, <2>4
        DEF StatBefore, World, SnapshotConsistent, CodesTellTruth, ChargeExpected
    <2>8. QED
      BY <2>5, <2>6, <2>7 DEF SnapshotInv
  <1>5. CASE before' = file /\ stage' = "read" /\ UNCHANGED result
    <2>1. size <= limit
      BY <1>1, <1>5 DEF StatBefore, End
    <2>2. SnapshotTypes' /\ WorldInv' /\ ReadInv'
      BY <1>1, <1>5 DEF StatBefore, World, SnapshotInv, SnapshotTypes, WorldInv, ReadInv
    <2>3. StatInv'
      BY <1>5, <2>1 DEF StatBefore, World, StatInv, SnapshotInv, SnapshotTypes, Files
    <2>4. PrefixInv'
      BY <1>1, <1>5 DEF StatBefore, World, PrefixInv
    <2>5. SnapshotConsistent' /\ CodesTellTruth' /\ ChargeExpected'
      BY <1>1, <1>5 DEF StatBefore, World, SnapshotConsistent, CodesTellTruth, ChargeExpected
    <2>6. QED
      BY <2>2, <2>3, <2>4, <2>5 DEF SnapshotInv
  <1>6. QED
    BY <1>3, <1>4, <1>5 DEF StatBefore, End

\* A read appends what stands in the file: the beginning stays the file's beginning.
LEMMA ReadStep == ASSUME SnapshotInv, Read PROVE SnapshotInv'
  <1> USE LimitAssumption
  <1>1. /\ limit \in 1..FileLimit /\ peak \in Nat
        /\ data \in Seq(Nat) /\ Len(data) \in Nat /\ consumed = Len(data)
        /\ file.content \in Seq(Nat) /\ Len(file.content) \in Nat
        /\ Len(file.content) <= peak
        /\ before.content \in Seq(Nat) /\ Len(before.content) \in Nat
        /\ result = "none" /\ stage = "read"
    BY LenProperties DEF SnapshotInv, SnapshotTypes, Files, WorldInv, ReadInv, Read
  <1>2. CASE End("io")
    <2>1. UNCHANGED <<data, consumed>>
      BY <1>1, <1>2 DEF Read, End
    <2>2. [code |-> "io", charge |-> consumed] \in Charges(limit, FileLimit)
      BY <1>1 DEF SnapshotInv, ReadInv, Charges
    <2>3. QED
      BY <1>1, <1>2, <2>1, <2>2, EndStep DEF Read, Codes
  <1>3. CASE ~End("io")
    <2>1. PICK n \in 1..(Quota - Len(data)) :
            /\ Len(data) + n <= Len(file.content)
            /\ data' = data \o SubSeq(file.content, Len(data) + 1, Len(data) + n)
            /\ consumed' = consumed + n
            /\ UNCHANGED <<stage, result>>
      BY <1>3 DEF Read
    <2>2. n \in Nat \ {0} /\ Len(data) + n <= limit + 1
      BY <1>1, <2>1 DEF Quota
    <2>3. /\ data' \in Seq(Nat) /\ Len(data') = Len(data) + n
          /\ \A i \in 1..(Len(data) + n) :
               data'[i] = IF i <= Len(data) THEN data[i] ELSE file.content[i]
      <3> DEFINE longer == data \o SubSeq(file.content, Len(data) + 1, Len(data) + n)
      <3>1. /\ longer \in Seq(Nat) /\ Len(longer) = Len(data) + n
            /\ \A i \in 1..(Len(data) + n) :
                 longer[i] = IF i <= Len(data) THEN data[i] ELSE file.content[i]
        <4>1. Len(data) + n <= Len(file.content)
          BY <2>1
        <4>2. n \in Nat \ {0} /\ data \in Seq(Nat) /\ file.content \in Seq(Nat)
          BY <1>1, <2>2
        <4>3. QED
          BY <4>1, <4>2, ReadAppends, ZenonT(60)
      <3>2. data' = longer
        BY <2>1
      <3> HIDE DEF longer
      <3>3. QED
        BY <3>1, <3>2
    <2>4. SnapshotTypes'
      BY <1>1, <2>1, <2>2, <2>3 DEF Read, World, SnapshotInv, SnapshotTypes
    <2>5. WorldInv' /\ StatInv'
      BY <1>1, <2>1 DEF Read, World, SnapshotInv, WorldInv, StatInv, Reading
    <2>6. ReadInv'
      BY <1>1, <2>1, <2>2, <2>3 DEF Read, World, ReadInv
    <2>7. PrefixInv'
      <3>1. /\ stage' = "read"
            /\ UNCHANGED <<file, before, blurred>>
        BY <1>1, <2>1 DEF Read, World
      <3>2. SUFFICES ASSUME ~blurred, file.ctime = before.ctime
                     PROVE  /\ file.content = before.content
                            /\ Len(data') <= Len(before.content)
                            /\ \A i \in 1..Len(data') : data'[i] = before.content[i]
        BY <3>1 DEF PrefixInv
      <3>3. /\ file.content = before.content
            /\ \A i \in 1..Len(data) : data[i] = before.content[i]
        BY <1>1, <3>2 DEF SnapshotInv, PrefixInv, Reading
      <3>4. Len(data') <= Len(before.content)
        BY <2>1, <2>3, <3>3
      <3>5. ASSUME NEW i \in 1..Len(data') PROVE data'[i] = before.content[i]
        <4>1. i \in 1..(Len(data) + n) /\ i \in Nat /\ i >= 1
          BY <1>1, <2>2, <2>3, <3>5
        <4>2. CASE i <= Len(data)
          <5>1. i \in 1..Len(data) /\ data'[i] = data[i]
            BY <1>1, <2>3, <4>1, <4>2
          <5>2. QED
            BY <3>3, <5>1
        <4>3. CASE ~(i <= Len(data))
          BY <2>3, <3>3, <4>1, <4>3
        <4>4. QED
          BY <4>2, <4>3
      <3>6. QED
        BY <3>3, <3>4, <3>5
    <2>8. SnapshotConsistent' /\ CodesTellTruth' /\ ChargeExpected'
      BY <1>1, <2>1, <2>2 DEF Read, World, SnapshotConsistent, CodesTellTruth, ChargeExpected
    <2>9. QED
      BY <2>4, <2>5, <2>6, <2>7, <2>8 DEF SnapshotInv
  <1>4. QED
    BY <1>2, <1>3

\* The read ends at the end of the file or with the sentinel byte.
LEMMA ReadEndsStep == ASSUME SnapshotInv, ReadEnds PROVE SnapshotInv'
  <1>1. /\ stage = "read" /\ stage' = "settle" /\ result = "none" /\ limit \in Nat
        /\ Len(data) \in Nat /\ Len(before.content) \in Nat
        /\ UNCHANGED <<before, data, consumed, result>> /\ World
    BY LenProperties, LimitAssumption DEF SnapshotInv, SnapshotTypes, Files, ReadInv, ReadEnds
  <1>2. SnapshotTypes' /\ WorldInv' /\ ReadInv' /\ StatInv'
    BY <1>1 DEF World, SnapshotInv, SnapshotTypes, WorldInv, ReadInv, StatInv, Reading
  <1>3. PrefixInv'
    BY <1>1 DEF World, ReadEnds, SnapshotInv, PrefixInv, StatInv, Reading, Quota
  <1>4. SnapshotConsistent' /\ CodesTellTruth' /\ ChargeExpected'
    BY <1>1 DEF World, SnapshotInv, ReadInv, SnapshotConsistent, CodesTellTruth, ChargeExpected
  <1>5. QED
    BY <1>2, <1>3, <1>4 DEF SnapshotInv

\* The verdict: without a change the second stat can see, what was read is the file.
LEMMA SettleStep == ASSUME SnapshotInv, Settle PROVE SnapshotInv'
  <1> USE LimitAssumption
  <1>1. /\ limit \in 1..FileLimit /\ stage = "settle" /\ consumed = Len(data)
        /\ data \in Seq(Nat) /\ Len(data) \in Nat /\ Len(data) <= limit + 1
        /\ before.content \in Seq(Nat) /\ Len(data) <= peak /\ peak \in Nat
        /\ changes \in Nat
    BY LenProperties DEF SnapshotInv, SnapshotTypes, Files, ReadInv, Settle
  <1>2. CASE End("io")
    <2>1. [code |-> "io", charge |-> consumed] \in Charges(limit, FileLimit)
      BY <1>1 DEF Charges
    <2>2. QED
      BY <1>1, <1>2, <2>1, EndStep DEF Settle, Codes
  <1>3. CASE End(Verdict)
    <2>1. Verdict \in Codes
      BY DEF Verdict, Oversize, Codes
    <2>2. ASSUME Verdict = "ok", ~blurred PROVE data = before.content
      <3>1. file.ctime = before.ctime
        BY <2>2 DEF Verdict, Oversize, Unchanged
      <3>2. Len(data) = Len(before.content)
            /\ \A i \in 1..Len(data) : data[i] = before.content[i]
        BY <1>1, <2>2, <3>1 DEF SnapshotInv, PrefixInv, Reading
      <3>3. QED
        BY <1>1, <3>2, SeqEqual
    <2>3. /\ Verdict = "too_large" => peak > FileLimit
          /\ Verdict = "resource_limit" => limit < FileLimit /\ peak > limit
      BY <1>1 DEF Verdict, Oversize
    <2>4. Verdict = "changed" => changes > 0
      BY <1>1 DEF Verdict, Oversize, Unchanged, SnapshotInv, StatInv, Reading
    <2>5. [code |-> Verdict, charge |-> consumed] \in Charges(limit, FileLimit)
      <3>1. CASE Len(data) > limit
        <4>1. consumed = limit + 1 /\ Verdict = Oversize
          BY <1>1, <3>1 DEF Verdict
        <4>2. QED
          BY <1>1, <4>1 DEF Oversize, Charges
      <3>2. CASE ~(Len(data) > limit)
        <4>1. consumed \in 0..limit /\ Verdict \in {"ok", "changed"}
          BY <1>1, <3>2 DEF Verdict
        <4>2. QED
          BY <4>1 DEF Charges
      <3>3. QED
        BY <3>1, <3>2
    <2>6. QED
      BY <1>1, <1>3, <2>1, <2>2, <2>3, <2>4, <2>5, EndStep DEF Settle
  <1>4. QED
    BY <1>2, <1>3 DEF Settle

---------------------------------------------------------------------------
(* The steps of the others.                                                *)

\* A change by another program shows in the change time, or is blurred.
LEMMA ChangeStep ==
  ASSUME SnapshotInv, NEW content \in Seq(Nat), NEW mtime \in Nat, Change(content, mtime)
  PROVE  SnapshotInv'
  <1>1. /\ file \in Files /\ before \in Files /\ Len(content) \in Nat /\ peak \in Nat
        /\ clock \in Nat /\ changes \in Nat /\ result = "none"
        /\ UNCHANGED <<limit, clock, stage, before, data, consumed, result>>
    BY LenProperties DEF SnapshotInv, SnapshotTypes, ReadInv, Change
  <1>2. /\ file' \in Files
        /\ file'.content = content /\ file'.ctime = clock
    BY <1>1 DEF Files, Change
  <1>3. /\ peak' \in Nat /\ peak' >= peak /\ peak' >= Len(content)
        /\ changes' \in Nat /\ changes' > 0
    BY <1>1 DEF Change
  <1>4. SnapshotTypes'
    BY <1>1, <1>2, <1>3 DEF SnapshotInv, SnapshotTypes, Change, Reading
  <1>5. WorldInv'
    BY <1>1, <1>2, <1>3 DEF WorldInv
  <1>6. ReadInv'
    BY <1>1, <1>3, LenProperties, LimitAssumption DEF SnapshotInv, SnapshotTypes, ReadInv
  <1>7. StatInv'
    BY <1>1, <1>2, <1>3 DEF SnapshotInv, WorldInv, StatInv, Reading, Files
  <1>8. PrefixInv'
    BY <1>1, <1>2 DEF PrefixInv, Reading, Change
  <1>9. SnapshotConsistent' /\ CodesTellTruth' /\ ChargeExpected'
    BY <1>1 DEF Change, SnapshotInv, SnapshotConsistent, CodesTellTruth, ChargeExpected
  <1>10. QED
    BY <1>4, <1>5, <1>6, <1>7, <1>8, <1>9 DEF SnapshotInv

\* Time passing changes nothing that was read or seen.
LEMMA TickStep == ASSUME SnapshotInv, Tick PROVE SnapshotInv'
  <1>1. /\ clock \in Nat /\ file \in Files
        /\ clock' = clock + 1
        /\ UNCHANGED <<limit, file, stage, before, data, consumed, result, changes, blurred, peak>>
    BY DEF SnapshotInv, SnapshotTypes, Tick
  <1>2. SnapshotTypes' /\ WorldInv'
    BY <1>1 DEF SnapshotInv, SnapshotTypes, WorldInv, Files
  <1>3. ReadInv' /\ StatInv' /\ PrefixInv'
    BY <1>1 DEF SnapshotInv, ReadInv, StatInv, PrefixInv, Reading
  <1>4. SnapshotConsistent' /\ CodesTellTruth' /\ ChargeExpected'
    BY <1>1 DEF SnapshotInv, SnapshotConsistent, CodesTellTruth, ChargeExpected
  <1>5. QED
    BY <1>2, <1>3, <1>4 DEF SnapshotInv

\* Every step, the reader's or another program's, keeps the invariant.
LEMMA SnapshotStepInv == SnapshotInv /\ [SnapshotNext]_snapshotVars => SnapshotInv'
  <1> SUFFICES ASSUME SnapshotInv, [SnapshotNext]_snapshotVars PROVE SnapshotInv'
    OBVIOUS
  <1>1. CASE AcquireSteps
    BY <1>1, OpenStep, StatStep, ReadStep, ReadEndsStep, SettleStep DEF AcquireSteps
  <1>2. CASE Overwrite \/ Extend \/ Truncate \/ SetTimes
    BY <1>2, ChangeType, ChangeStep DEF SnapshotInv
  <1>3. CASE Tick
    BY <1>3, TickStep
  <1>4. CASE UNCHANGED snapshotVars
    BY <1>4 DEF snapshotVars, SnapshotInv, SnapshotTypes, WorldInv, ReadInv, StatInv, PrefixInv, Reading,
      SnapshotConsistent, CodesTellTruth, ChargeExpected
  <1>5. QED
    BY <1>1, <1>2, <1>3, <1>4 DEF SnapshotNext, Others

---------------------------------------------------------------------------
(* The theorems.                                                           *)

\* The inductive invariant holds: read_linux.go's two stats and its counted reads
\* keep what was read a beginning of what the first stat saw.
THEOREM SnapshotInvariance == SnapshotSpec => []SnapshotInv
  BY SnapshotInitInv, SnapshotStepInv, PTL DEF SnapshotSpec

\* Evidence the acquisition accepts is the file as it stood at the first stat, for
\* files of any length and any number of writes, truncations and re-stamps by
\* others, unless one fell in the tick of the change time already seen.
THEOREM SnapshotIsConsistent == SnapshotSpec => []SnapshotConsistent
  BY SnapshotInvariance, PTL DEF SnapshotInv

\* too_large, resource_limit and changed each tell the truth about the file and
\* whose limit it was (read_linux.go:53-58 and 67-75).
THEOREM CodesAreTrue == SnapshotSpec => []CodesTellTruth
  BY SnapshotInvariance, PTL DEF SnapshotInv

\* An acquisition reads the allowance and one byte at most, and ends with a charge
\* and a code that Charges, which Corpus relies on, contains.
THEOREM ChargesAreExpected == SnapshotSpec => []ChargeExpected
  BY SnapshotInvariance, PTL DEF SnapshotInv
=============================================================================
