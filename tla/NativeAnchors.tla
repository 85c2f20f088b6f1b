--------------------------- MODULE NativeAnchors ---------------------------
(***************************************************************************)
(* The report a native audit assembles of its observations (audit/v2.go    *)
(* and audit/v2_findings.go), offered to the validator like any other: the *)
(* extents of the occurrences are joined to spans and the spans gathered   *)
(* into anchors of bounded size, and the validator finds both again.       *)
(***************************************************************************)
EXTENDS Evidence

CONSTANTS
    Observations,   \* what the analyzers that completed observed, see MadeOf
    MaxExtent,      \* spans joined by coalescing are at most this long
    MaxSpans,       \* spans of an anchor
    MaxScalars      \* scalars of an anchor of more than one span

VARIABLE observed
nativeVars == <<vars, observed>>

----------------------------------------------------------------------------
(* nativeSpans                                                             *)

Positions(f) == IF f.positions # None THEN f.positions
                ELSE IF f.id = "text.bom" THEN <<0>> ELSE <<>>
Occurrences(f) ==
    [i \in DOMAIN Positions(f) |-> Region(Positions(f)[i], Positions(f)[i] + f.width)]

\* The errors: a token beyond the text's end, extents that overlap.
Spannable(f, t) ==
    /\ \A x \in Range(Occurrences(f)) : x.end <= Len(t.scalars)
    /\ \A i \in DOMAIN Occurrences(f) :
          EndBefore(Occurrences(f), i) <= Occurrences(f)[i].start

Coalesce(extents, x) ==
    IF extents # <<>> /\ Last(extents).end = x.start
         /\ x.end - Last(extents).start <= MaxExtent
    THEN [extents EXCEPT ![Len(extents)].end = x.end] ELSE Append(extents, x)
SpanOf(t, x) == [scalar |-> x, byte |-> Region(t.offsets[x.start + 1], t.offsets[x.end + 1])]
NativeSpans(f, t) ==
    LET extents == Loop(Coalesce, <<>>, Occurrences(f))[Len(Occurrences(f))]
    IN  [i \in DOMAIN extents |-> SpanOf(t, extents[i])]

\* anchorGroups
Size(span) == span.scalar.end - span.scalar.start
FullFor(group, span) ==
    Len(group) = MaxSpans \/ Sum([i \in DOMAIN group |-> Size(group[i])]) + Size(span) > MaxScalars

\* Mutant of Gather: the group that is full is not kept.
GatherDropping(groups, span) ==
    IF groups = <<>> THEN <<<<span>>>>
    ELSE IF FullFor(Last(groups), span) THEN [groups EXCEPT ![Len(groups)] = <<span>>]
    ELSE [groups EXCEPT ![Len(groups)] = Append(@, span)]

Gather(groups, span) ==
    IF groups = <<>> \/ FullFor(Last(groups), span) THEN Append(groups, <<span>>)
    ELSE [groups EXCEPT ![Len(groups)] = Append(@, span)]
AnchorGroups(f, t) == Loop(Gather, <<>>, NativeSpans(f, t))[Len(NativeSpans(f, t))]

----------------------------------------------------------------------------
(* assembleV2 and assembleFindings; the report's order is left open where  *)
(* it follows canonical keys.                                              *)

Unavailable == [quality |-> "unavailable", from |-> None, to |-> None, data |-> None]
NativeMapping == [quality |-> "exact", from |-> <<"artifact", 1>>, to |-> <<"artifact", 0>>,
                  data |-> 1]
WholeOf(n) == [artifact |-> <<"artifact", n>>, unit |-> "whole_artifact", regions |-> <<>>]

SourceArtifact(file) ==
    [ref |-> <<"artifact", 0>>, kind |-> "source", sha |-> file.sha, length |-> file.size,
     content |-> None, unavailable |-> "not_retained", encoding |-> None,
     parents |-> <<>>, transform |-> None, mapping |-> Unavailable]
TextArtifact(t) ==
    [ref |-> <<"artifact", 1>>, kind |-> "text", sha |-> t.digest,
     length |-> Sum(t.scalars), content |-> 1, unavailable |-> None, encoding |-> "utf-8",
     parents |-> <<<<"artifact", 0>>>>,
     transform |-> [inputs |-> <<<<"artifact", 0>>>>, exclusions |-> <<>>],
     mapping |-> NativeMapping]

Planned(id, role) ==
    [id |-> id, role |-> role, mechanism |-> IF role = "analyzer" THEN "structural" ELSE None,
     purpose |-> None, participation |-> "required", available |-> TRUE,
     implementation |-> id, reason |-> None]
Catalog == <<Planned("acquire", "acquisition"), Planned("parse", "parser"),
             Planned("text", "analyzer"), Planned("patterns", "analyzer")>>
Ran(o, i) == i <= 2 + o.analyzers
NativeExecution(o, i) ==
    LET scope == WholeOf(IF i > 2 THEN 1 ELSE 0) IN
    [ref |-> <<"exec", i - 1>>, capability |-> Catalog[i].id, requested |-> scope,
     analyzed |-> IF Ran(o, i) THEN <<scope>> ELSE <<>>, exclusions |-> <<>>,
     state |-> IF Ran(o, i) THEN "completed" ELSE "not_run",
     reason |-> IF Ran(o, i) THEN None ELSE "prerequisite", diagnostics |-> <<>>]

\* Anchors of equal place and execution are one.
AnchorKeys(o) ==
    UNION {{<<f.by, g>> : g \in Range(AnchorGroups(f, o.text))} : f \in Range(o.findings)}
NativeAnchor(n, key) ==
    [ref |-> <<"anchor", n>>, kind |-> "text", artifact |-> <<"artifact", 1>>,
     execution |-> <<"exec", key[1]>>, mapping |-> NativeMapping, segment |-> 1,
     spans |-> key[2], digest |-> key[2]]
NativeFinding(o, keys, n) ==
    LET f == o.findings[n]
        groups == AnchorGroups(f, o.text)
    IN  [ref |-> <<"finding", n>>, id |-> f.id, execution |-> <<"exec", f.by>>,
         mechanism |-> "structural", code |-> None, source |-> "file",
         positions |-> f.positions,
         offsets |-> IF f.positions = None THEN None
                     ELSE [i \in DOMAIN f.positions |-> o.text.offsets[f.positions[i] + 1]],
         count |-> IF f.positions = None THEN None ELSE Len(f.positions),
         anchors |-> [i \in DOMAIN groups |->
                        <<"anchor", CHOOSE k \in DOMAIN keys : keys[k] = <<f.by, groups[i]>>>>]]
NativeResult(o, anchors, n) ==
    LET e == <<"exec", n + 1>> IN
    [ref |-> <<"result", n>>, execution |-> e, operation |-> Catalog[n + 2].id,
     scope |-> WholeOf(1),
     anchors |-> SetToSeq({a.ref : a \in {x \in Range(anchors) : x.execution = e}}),
     outcome |-> IF \E f \in Range(o.findings) : f.by = n + 1
                 THEN "observations_present" ELSE "no_observations"]

MadeOf(o) ==
    LET keys == SetToSeq(AnchorKeys(o))
        anchors == [k \in DOMAIN keys |-> NativeAnchor(k, keys[k])]
        executions == [i \in DOMAIN Catalog |-> NativeExecution(o, i)]
        results == [n \in 1..o.analyzers |-> NativeResult(o, anchors, n)]
    IN  [file |-> o.file, texts |-> <<o.text>>, capabilities |-> Catalog,
         executions |-> executions, anchors |-> anchors, results |-> results,
         artifacts |-> <<SourceArtifact(o.file), TextArtifact(o.text)>>,
         diagnostics |-> <<>>,
         findings |-> [n \in DOMAIN o.findings |-> NativeFinding(o, keys, n)],
         status |-> Status(Catalog, [i \in DOMAIN Catalog |-> executions[i].state],
                           results # <<>>)]

----------------------------------------------------------------------------
\* What the parser makes of a file, and what analyzers find in it: occurrences that
\* are in order and apart.
Observed(o) ==
    /\ o.file.sha # None /\ o.file.size \in Nat
    /\ o.text.source = "file" /\ o.text.digest # None
    /\ TextRead(o.text) /\ TextStands(o.text, o.file)
    /\ o.analyzers \in 0..2 /\ List(o.findings)
    /\ \A f \in Range(o.findings) :
          /\ f.by \in 2..(o.analyzers + 1) /\ f.id # "parser.failure"
          /\ f.width \in Nat \ {0} /\ (f.positions # None => f.positions \in Seq(Nat))
          /\ Spannable(f, o.text)

ASSUME ObservationsAssumption == \A o \in Observations : o # None /\ Observed(o)

\* Null is neither a reference nor one of the values the report is made with.
ASSUME NullAssumption ==
    /\ None \notin {"artifact", "exec", "anchor", "result", "finding"} \X Nat
    /\ None \notin {"structural", "statistical", "not_retained", "prerequisite", "file"}
    /\ None \notin {"acquire", "parse", "text", "patterns"}

NativeInit ==
    \/ Init /\ observed = None
    \/ observed \in Observations /\ pc = "assemble" /\ report = None

Assemble ==
    /\ pc = "assemble"
    /\ IF \A f \in Range(observed.findings) : Spannable(f, observed.text)
       THEN report' = MadeOf(observed) /\ pc' = "index"
       ELSE pc' = "refused" /\ UNCHANGED report
    /\ UNCHANGED observed

NativeNext == Assemble \/ (Next /\ UNCHANGED observed)
NativeSpec == NativeInit /\ [][NativeNext]_nativeVars

----------------------------------------------------------------------------
(* Whatever the analyzers observe, and wherever an extent or a group of    *)
(* spans reaches its bound, the report made of it is one the validator     *)
(* accepts: no occurrence loses its anchor, and none is refused for an     *)
(* anchor too many (nativeSpans, anchorGroups, against findingAnchors).    *)
NativeAccepted == observed # None => ~Refused
=============================================================================
