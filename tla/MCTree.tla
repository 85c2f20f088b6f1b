------------------------------ MODULE MCTree ------------------------------
(***************************************************************************)
(* A root for two sources: the candidate d/a, whose artifacts need nested  *)
(* directories, and the candidate b, whose artifacts share the outer ones. *)
(***************************************************************************)
EXTENDS Tree, TLC

MCSources == {"d/a", "b"}
MCUnplanned == "x"

Kind == {"faithful", "display", "mapping", "report", "revealed"}
Paths ==
  "d/a" :> [faithful |-> "diffs/d/a.diff", display |-> "display-diffs/d/a.diff",
            mapping |-> "mappings/d/a.json", report |-> "reports/d/a.json",
            revealed |-> "revealed/d/a"]
  @@ "b" :> [faithful |-> "diffs/b.diff", display |-> "display-diffs/b.diff",
             mapping |-> "mappings/b.json", report |-> "reports/b.json",
             revealed |-> "revealed/b"]

\* The directories of d/a's artifacts, outermost first.
Chains ==
  [faithful |-> <<"diffs", "diffs/d">>, display |-> <<"display-diffs", "display-diffs/d">>,
   mapping |-> <<"mappings", "mappings/d">>, report |-> <<"reports", "reports/d">>,
   revealed |-> <<"revealed", "revealed/d">>]
DirSet == UNION {{Chains[k][1], Chains[k][2]} : k \in Kind}
AboveOf(k) == Chains[k][1] :> {} @@ Chains[k][2] :> {Chains[k][1]}
                @@ Paths["d/a"][k] :> {Chains[k][1], Chains[k][2]}
                @@ Paths["b"][k] :> {Chains[k][1]}
Ancestors == AboveOf("faithful") @@ AboveOf("display") @@ AboveOf("mapping")
               @@ AboveOf("report") @@ AboveOf("revealed")
               @@ "corpus.jsonl" :> {} @@ "manifest.json" :> {}

Revealed(kinds, hash, length) ==
  [state |-> "revealed", reason |-> "empty", hash |-> hash, kinds |-> kinds,
   length |-> length]
Other(state, reason, hash, kinds, length) ==
  [state |-> state, reason |-> reason, hash |-> hash, kinds |-> kinds,
   length |-> length]

\* Every form callers use, and one of each kind of bad argument.
OfferSet ==
  { Revealed(Kind, "digest", 1), Revealed(Kind, "digest", 2),
    Other("failed", "token", "digest", {"report"}, 1),
    Other("skipped", "token", "empty", {}, 0),
    Revealed(Kind \ {"mapping"}, "digest", 1),
    Revealed(Kind, "malformed", 1), Revealed(Kind, "empty", 1),
    Other("failed", "token", "digest", {"report"}, 0),
    Other("failed", "token", "digest", {}, 0),
    Other("skipped", "token", "digest", {"report"}, 1),
    Other("canceled", "malformed", "empty", {}, 0),
    Other("unsupported", "token", "digest", {"report", "revealed"}, 1),
    Other("other", "token", "empty", {}, 0) }

\* TLC evaluates a definition once, but one that a cfg substitutes at every use: the cfg
\* names these, which only refer to the tables above.
MCPathOf == Paths
MCDirs == DirSet
MCAbove == Ancestors
MCOffers == OfferSet
===========================================================================
