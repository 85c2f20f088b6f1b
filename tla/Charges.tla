------------------------------ MODULE Charges ------------------------------
(***************************************************************************)
(* What one bounded acquisition may report, for those who start one: the   *)
(* bytes it charges and how it ends (internal/audit/read_linux.go and      *)
(* root_linux.go).  Acquisition shows that it never reports anything else; *)
(* Corpus relies on it.                                                    *)
(***************************************************************************)
EXTENDS Naturals

Codes == {"ok", "io", "not_regular", "too_large", "resource_limit", "changed"}

\* limit is what this read may take, ceiling the configured per-file limit.  A read
\* takes one byte more than limit at most, the sentinel that shows there is more.
\* Rejections before the first read charge nothing.
Charges(limit, ceiling) ==
  [code : {"ok", "changed"}, charge : 0..limit]
  \cup [code : {"io"}, charge : 0..(limit + 1)]
  \cup [code : {"not_regular", "too_large"}, charge : {0}]
  \cup IF limit < ceiling
       THEN [code : {"resource_limit"}, charge : {0, limit + 1}]
       ELSE [code : {"too_large"}, charge : {limit + 1}]
=============================================================================
