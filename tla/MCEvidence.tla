---------------------------- MODULE MCEvidence ----------------------------
(* What native audits make of small texts, and reports that differ from    *)
(* such a report in the coverage of an execution, in the spans of anchors  *)
(* and positions of findings, in the artifacts' lineage, and in states and *)
(* kinds of records.                                                       *)
EXTENDS NativeAnchors

Offsets(start, encoding, scalars) ==
    [i \in 1..(Len(scalars) + 1) |->
        start + Sum([j \in 1..(i - 1) |-> Width(encoding, scalars[j])])]
TextIn(encoding, scalars) ==
    [source |-> "file", digest |-> "text", encoding |-> encoding, scalars |-> scalars,
     offsets |-> Offsets(0, encoding, scalars)]
FileOf(t) == [sha |-> "file", size |-> Last(t.offsets)]

----------------------------------------------------------------------------
(* Observations: one or two findings, of single scalars or of tokens.      *)
Long == TextIn("utf-16-le", <<3, 1, 4, 1, 2, 1>>)
Ascending(S) == SortSeq(SetToSeq(S), <)
Apart(S, w) == \A x, y \in S : x < y => x + w <= y
Finding(by, id, S, w) == [by |-> by, id |-> id, positions |-> Ascending(S), width |-> w]
Singles == {Finding(2, "scalar", S, 1) : S \in (SUBSET (0..5)) \ {{}}}
Tokens == UNION {{Finding(by, "token", S, w) :
                    S \in {X \in (SUBSET (0..(6 - w))) \ {{}} : Apart(X, w)}, by \in 2..3} :
                 w \in 2..5}
Bom == [by |-> 2, id |-> "text.bom", positions |-> None, width |-> 1]
Observation(n, fs) == [file |-> FileOf(Long), text |-> Long, analyzers |-> n, findings |-> fs]
MCObservations ==
    {Observation(0, <<>>), Observation(1, <<Bom>>)}
    \cup {Observation(1, <<f>>) : f \in Singles}
    \cup {Observation(2, <<f, g>>) : f \in Singles, g \in Tokens}

----------------------------------------------------------------------------
Short == TextIn("utf-16-be", <<1, 2, 1>>)
Base == MadeOf([file |-> FileOf(Short), text |-> Short, analyzers |-> 2, findings |-> <<>>])

Scope(unit, rs) == [artifact |-> <<"artifact", 1>>, unit |-> unit, regions |-> rs]
Seqs(S) == {<<>>} \cup {<<x>> : x \in S} \cup {<<x, y>> : x, y \in S}
Whole == Scope("whole_artifact", <<>>)
Scopes1 == {Whole, Scope("byte", <<Region(0, 2)>>), Scope("byte", <<Region(1, 3)>>),
            Scope("byte", <<Region(2, 4)>>), Scope("byte", <<Region(3, 4)>>),
            Scope("byte", <<Region(0, 1), Region(2, 3)>>),
            Scope("scalar", <<Region(0, 2)>>), Scope("scalar", <<Region(2, 3)>>)}
Requests == {Whole, Scope("byte", <<Region(0, 2), Region(2, 4)>>),
             Scope("byte", <<Region(1, 4)>>), Scope("scalar", <<Region(0, 3)>>)}
Exclude(s) == [scope |-> s, unknown |-> FALSE]
Remainder == [scope |-> None, unknown |-> TRUE]

\* The last analyzer with another coverage, and a result for each scope.
Covering(state, requested, analyzed, exclusions) ==
    LET executions == [Base.executions EXCEPT ![4] = [@ EXCEPT
            !.requested = requested, !.analyzed = analyzed, !.exclusions = exclusions,
            !.state = state, !.reason = CASE state = "completed" -> None [] state = "canceled" -> "execution.canceled"
                         [] OTHER -> "limit",
            !.diagnostics = IF state = "completed" THEN <<>> ELSE <<<<"diagnostic", 0>>>>]]
        results == <<Base.results[1]>> \o [i \in DOMAIN analyzed |->
            [Base.results[2] EXCEPT !.ref = <<"result", i + 1>>, !.scope = analyzed[i],
                                    !.outcome = "observations_present"]]
    IN  [Base EXCEPT !.executions = executions, !.results = results,
         !.diagnostics = IF state = "completed" THEN <<>>
            ELSE <<[ref |-> <<"diagnostic", 0>>, execution |-> <<"exec", 3>>, code |-> "limit",
                    scope |-> requested, stage |-> "execution", details |-> "limit"]>>,
         !.status = Status(Catalog, [i \in 1..4 |-> executions[i].state], TRUE)]

Partials(r) ==
    \E req \in Requests, a \in Seqs(Scopes1),
       x \in Seqs({Exclude(s) : s \in Scopes1} \cup {Remainder}) :
          r = Covering("partial", req, a, x)
Others(r) ==
    \/ \E req \in Requests, a \in Seqs(Scopes1 \cup Requests), x \in {<<>>, <<Remainder>>} :
          r = Covering("completed", req, a, x)
    \/ \E st \in {"failed", "canceled"}, req \in Requests, a \in {<<>>, <<Whole>>} :
          r = Covering(st, req, a, <<Remainder>>)

----------------------------------------------------------------------------
(* Findings of the last analyzer, with anchors of one or two spans.        *)
Regions1 == {Region(0, 1), Region(0, 2), Region(1, 2), Region(1, 3), Region(2, 3), Region(2, 4)}
Offset(n) == Short.offsets[(IF n < 3 THEN n ELSE 3) + 1]
Span(x) == [scalar |-> x, byte |-> Region(Offset(x.start), Offset(x.end))]
SpanLists == {<<Span(x)>> : x \in Regions1} \cup {<<Span(x), Span(y)>> : x, y \in Regions1}
Anchor(n, kind, spans) ==
    [ref |-> <<"anchor", n>>, kind |-> kind, artifact |-> <<"artifact", 1>>,
     execution |-> <<"exec", 3>>, mapping |-> NativeMapping, segment |-> 1, spans |-> spans,
     digest |-> spans, manifest |-> <<"artifact", 0>>, verification |-> None,
     sample |-> <<"artifact", 1>>, scope |-> Whole, diagnostic |-> <<"diagnostic", 0>>]
Anchors1 == {<<Anchor(0, "text", s)>> : s \in SpanLists}
    \cup {<<Anchor(0, "text", <<Span(x)>>), Anchor(1, "text", <<Span(y)>>)>> :
             x, y \in {Region(0, 1), Region(0, 2), Region(1, 3), Region(2, 3)}}
    \cup {<<[Anchor(0, "text", <<Span(Region(0, 1))>>) EXCEPT !.execution = <<"exec", 2>>]>>,
          <<[Anchor(0, "text", <<Span(Region(0, 1))>>) EXCEPT !.segment = 2]>>,
          <<[Anchor(0, "text", <<Span(Region(0, 1))>>) EXCEPT !.digest = <<>>]>>}
Found1(anchors, positions, late) ==
    [ref |-> <<"finding", 0>>, id |-> "scalar", execution |-> <<"exec", 3>>,
     mechanism |-> "structural", code |-> None, source |-> "file", positions |-> positions,
     offsets |-> IF positions = None THEN None
                 ELSE [i \in DOMAIN positions |-> Offset(positions[i]) + late],
     count |-> None, anchors |-> [i \in DOMAIN anchors |-> anchors[i].ref]]
Positions1 == {None, <<0>>, <<1>>, <<2>>, <<3>>, <<0, 1>>, <<1, 2>>, <<0, 2>>, <<2, 0>>, <<1, 1>>}
Covers == {Covering("completed", s, <<s>>, <<>>) : s \in Scopes1 \cup Requests}
    \cup {Covering("partial", Whole, <<s>>, <<Remainder>>) : s \in Scopes1}
FindingReports(r) ==
    \E c \in Covers, a \in Anchors1, p \in Positions1, late \in {0, 1} :
        r = [c EXCEPT !.anchors = a, !.findings = <<Found1(a, p, late)>>]

----------------------------------------------------------------------------
(* A third artifact, and other parents of the text.                        *)
Parents1 == Seqs({<<"artifact", n>> : n \in 0..3})
Third(kind, parents, sha) ==
    [ref |-> <<"artifact", 2>>, kind |-> kind, sha |-> sha,
     length |-> IF sha = None THEN None ELSE 4, content |-> IF kind = "manifest" /\ sha # None THEN Blob ELSE None,
     unavailable |-> IF kind = "manifest" /\ sha # None THEN None ELSE "not_retained", encoding |-> None,
     parents |-> parents, transform |-> None, mapping |-> Unavailable]
OtherAnchors(r) ==
    \E kind \in {"structural_object", "credential", "statistical_sample", "legacy_unknown"},
       third \in {"manifest", "sample"}, sha \in {None, "blob"}, v \in {None, <<"exec", 5>>},
       end \in {4, 5} :
        r = [Covering("partial", Whole, <<Whole>>, <<Remainder>>) EXCEPT
                !.artifacts = Append(@, Third(third, <<>>, sha)),
                !.anchors = <<[Anchor(0, kind, <<>>) EXCEPT
                    !.artifact = <<"artifact", 2>>, !.manifest = <<"artifact", 2>>,
                    !.sample = <<"artifact", 2>>, !.verification = v,
                    !.scope = [artifact |-> <<"artifact", 2>>, unit |-> "byte",
                               regions |-> <<Region(0, end)>>]]>>]
Lineages(r) ==
    \E p \in Parents1, q \in Parents1, kind \in {"source", "manifest", "sample"},
       sha \in {None, "blob"} :
        r = [Base EXCEPT !.artifacts[2].parents = p, !.artifacts[2].transform = None,
                         !.artifacts = Append(@, Third(kind, q, sha))]

----------------------------------------------------------------------------
(* Operations that were not to run, could not, or failed.                  *)
Plans1 == {[Base EXCEPT !.capabilities[4].participation = p,
                        !.capabilities[4].available = a,
                        !.capabilities[4].reason = IF a THEN None ELSE "missing",
                        !.executions[4] = [@ EXCEPT !.state = s, !.reason = r,
                            !.analyzed = IF s = "completed" THEN @ ELSE <<>>],
                        !.results = IF s = "completed" THEN @ ELSE <<@[1]>>,
                        !.status = st] :
            p \in Participations, a \in BOOLEAN, s \in {"completed", "not_run"},
            r \in {None, "missing", "execution.disabled"}, st \in {"completed", "partial"}}
ParserFailed(code) ==
    [Base EXCEPT !.executions[2] = [@ EXCEPT !.state = "failed", !.reason = "decode",
                    !.analyzed = <<>>, !.diagnostics = <<<<"diagnostic", 0>>>>],
                 !.diagnostics = <<[ref |-> <<"diagnostic", 0>>, execution |-> <<"exec", 1>>,
                    code |-> "decode", scope |-> None, stage |-> "parsing", details |-> "decode"]>>,
                 !.status = "failed",
                 !.findings = <<[ref |-> <<"finding", 0>>, id |-> "parser.failure",
                    execution |-> <<"exec", 1>>, mechanism |-> None, code |-> code,
                    source |-> None, positions |-> None, offsets |-> None, count |-> None,
                    anchors |-> <<>>]>>]

MCOffered(r) ==
    \/ Partials(r) \/ OtherAnchors(r) \/ Others(r) \/ FindingReports(r) \/ Lineages(r)
    \/ r \in Plans1 \cup {ParserFailed("decode"), ParserFailed("other")}
=============================================================================
