------------------------------ MODULE Outcomes ------------------------------
(***************************************************************************)
(* What one native audit may return to the corpus executor: its typed      *)
(* failure, its exit code, and whether its report could be built.          *)
(* NativeAudit shows that it never returns anything else; Corpus relies on *)
(* it (internal/corpus/run.go:149-171).                                    *)
(***************************************************************************)
EXTENDS Charges

\* Findings, an acquisition that failed, a format or encoding it cannot read; under
\* schema 2.0 an error building the report, or an audit that stopped because the
\* context had ended.
AuditOutcomes(schema, severities, ended) ==
  [failure : {"none"}, exit : severities, report : {"ok"}]
  \cup [failure : Codes \ {"ok"}, exit : {4}, report : {"ok"}]
  \cup [failure : {"unsupported_format", "decode_failed"}, exit : {4}, report : {"ok"}]
  \cup IF schema = "1.0" THEN {}
       ELSE [failure : {"none"}, exit : {0}, report : {"limit", "error"}]
            \cup [failure : {"none"}, exit : IF ended THEN {4} ELSE {}, report : {"ok"}]
=============================================================================
