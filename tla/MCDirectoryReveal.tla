------------------------- MODULE MCDirectoryReveal -------------------------
(***************************************************************************)
(* Roots with two entries, at least one of them a candidate.               *)
(***************************************************************************)
EXTENDS DirectoryReveal

PlanSet == {<<"candidate", "candidate">>, <<"candidate", "failed">>}
MCPlans == PlanSet
=============================================================================
