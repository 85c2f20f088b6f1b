--------------------------- MODULE MCNativeAudit ---------------------------
(***************************************************************************)
(* Four analyzers, one declared capability, and findings that the exit     *)
(* code, the order of severities and the view tell apart.                  *)
(***************************************************************************)
EXTENDS NativeAudit

CheckSequence == <<"inventory", "emoji", "text", "patterns">>
FindingChoices ==
  {{}, {[severity |-> "INFO", viewed |-> TRUE]}, {[severity |-> "MEDIUM", viewed |-> FALSE]},
   {[severity |-> "HIGH", viewed |-> FALSE], [severity |-> "LOW", viewed |-> TRUE]}}
MCChecks == CheckSequence
MCFindingSets == FindingChoices
=============================================================================
