------------------------------ MODULE MCCorpus ------------------------------
(***************************************************************************)
(* Roots with up to two entries, and a budget two small files exhaust.     *)
(***************************************************************************)
EXTENDS Corpus

PlanSet == {<<>>, <<"candidate">>, <<"skipped", "candidate">>, <<"candidate", "failed">>,
            <<"candidate", "candidate">>}
MCPlans == PlanSet
=============================================================================
