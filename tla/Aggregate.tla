----------------------------- MODULE Aggregate -----------------------------
(***************************************************************************)
(* The operational status of a report: Graph.AggregateStatus of            *)
(* internal/evidence/v2/aggregate.go, as an operator on the planned        *)
(* operations and their executions.                                        *)
(***************************************************************************)

Roles == {"acquisition", "parser", "analyzer", "verifier"}
Participations == {"required", "optional", "disabled"}
ExecutionStates == {"not_run", "completed", "partial", "failed", "canceled"}
Statuses == {"completed", "partial", "failed", "canceled"}

\* A disabled declaration is skipped, whatever its execution says.
Counted(plan) == {op \in DOMAIN plan : plan[op].participation # "disabled"}

\* Mutant of Status: disabled declarations are counted like the others.
StatusOfAll(plan, state, usable) ==
  LET stands(s) == \E op \in DOMAIN plan : state[op] = s
      operational == \E op \in DOMAIN plan :
        state[op] = "failed" /\ plan[op].role \in {"acquisition", "parser"}
      incomplete == \E op \in DOMAIN plan : state[op] # "completed"
  IN IF operational THEN "failed"
     ELSE IF stands("partial") THEN "partial"
     ELSE IF stands("canceled") THEN IF usable THEN "partial" ELSE "canceled"
     ELSE IF incomplete THEN IF usable THEN "partial" ELSE "failed"
     ELSE "completed"

\* plan gives each operation's role and participation, state its execution's state,
\* usable whether any result exists.
Status(plan, state, usable) ==
  LET stands(s) == \E op \in Counted(plan) : state[op] = s
      operational == \E op \in Counted(plan) :
        state[op] = "failed" /\ plan[op].role \in {"acquisition", "parser"}
      incomplete == \E op \in Counted(plan) : state[op] # "completed"
      optional == \E op \in Counted(plan) :
        state[op] # "completed" /\ plan[op].participation = "optional"
  IN IF operational THEN "failed"
     ELSE IF stands("partial") THEN "partial"
     ELSE IF stands("canceled") THEN IF usable THEN "partial" ELSE "canceled"
     ELSE IF incomplete THEN IF usable \/ optional THEN "partial" ELSE "failed"
     ELSE "completed"
=============================================================================
