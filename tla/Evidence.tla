----------------------------- MODULE Evidence -----------------------------
(***************************************************************************)
(* The validation of a report in schema 2.0: Graph.index and Graph.Validate *)
(* of evidence/v2/graph.go and what Report.ValidateSemantics of report.go   *)
(* asks of findings.  Every report that is written or read in passes here,  *)
(* and a reader of an accepted one relies on what it says of coverage and   *)
(* of coordinates.                                                          *)
(*                                                                          *)
(* A text's scalars are known by the length of their UTF-8 form; its        *)
(* offsets are the source's bytes between which they lie.  The digest of a  *)
(* selection is the selection.                                              *)
(***************************************************************************)
EXTENDS Records, Aggregate

CONSTANTS
    Offered(_),     \* is this a report that is offered for validation?
    Blob            \* contents kept outside the report

ASSUME BlobAssumption == Blob \notin Nat

VARIABLES report, pc
vars == <<report, pc>>

\* What decoding leaves: numbers are unsigned in Go, or the schema refuses negative ones.
Regions == [start : Nat, end : Nat]
List(seq) == seq \in Seq(Range(seq))
ScopeRead(s) == s.regions \in Seq(Regions)
ExecutionRead(e) ==
    /\ ScopeRead(e.requested)
    /\ List(e.analyzed) /\ \A s \in Range(e.analyzed) : ScopeRead(s)
    /\ List(e.exclusions) /\ \A x \in Range(e.exclusions) : x.scope # None => ScopeRead(x.scope)
TextRead(t) == t.scalars \in Seq(1..4) /\ t.offsets \in Seq(Nat)
FindingRead(f) ==
    f.positions # None => f.positions \in Seq(Nat) /\ f.offsets \in Seq(Nat)
AnchorRead(a) == a.kind = "text" => a.spans \in Seq([scalar : Regions, byte : Regions])
Read(r) ==
    /\ r.file.size \in Nat \cup {None}
    /\ List(r.texts) /\ \A t \in Range(r.texts) : TextRead(t)
    /\ \A a \in Range(r.artifacts) : a.length \in Nat \cup {None}
    /\ \A e \in Range(r.executions) : ExecutionRead(e)
    /\ \A a \in Range(r.anchors) : AnchorRead(a)
    /\ \A f \in Range(r.findings) : FindingRead(f)

Init == Offered(report) /\ Read(report) /\ pc = "index"

----------------------------------------------------------------------------
(* Graph.index, and the lookups in what it builds.                         *)

Unique(seq, Key(_)) == \A i, j \in DOMAIN seq : Key(seq[i]) = Key(seq[j]) => i = j
AllOf(seq, Valid(_)) == \A x \in Range(seq) : Valid(x)
RefOf(x) == x.ref
Indexed ==
    /\ AllOf(report.capabilities, CapabilityValid)
    /\ Unique(report.capabilities, LAMBDA c : c.id)
    /\ AllOf(report.executions, ExecutionValid) /\ Unique(report.executions, RefOf)
    /\ AllOf(report.artifacts, ArtifactValid) /\ Unique(report.artifacts, RefOf)
    /\ AllOf(report.anchors, AnchorValid) /\ Unique(report.anchors, RefOf)
    /\ AllOf(report.diagnostics, DiagnosticValid) /\ Unique(report.diagnostics, RefOf)
    /\ AllOf(report.results, ResultValid) /\ Unique(report.results, RefOf)

Refs(seq) == {x.ref : x \in Range(seq)}
Named(seq, ref) == CHOOSE x \in Range(seq) : x.ref = ref
Known(seq, ref) == ref \in Refs(seq)
ArtifactAt(ref) == Named(report.artifacts, ref)
ExecutionAt(ref) == Named(report.executions, ref)
CapabilityIds == {c.id : c \in Range(report.capabilities)}
CapabilityOf(e) == CHOOSE c \in Range(report.capabilities) : c.id = e.capability

MappingResolved(m) ==
    m.quality # "unavailable" =>
        /\ Known(report.artifacts, m.from) /\ Known(report.artifacts, m.to)
        /\ m.data # None => m.data \in DOMAIN report.texts

TextOf(a) == report.texts[a.content]
Retained(a) == a.content \notin {None, Blob}
Plus(m, n) == m + n
Totals(seq) == Loop(Plus, 0, seq)
Sum(seq) == Totals(seq)[Len(seq)]

\* The size of a scope's artifact in the scope's unit, or null.
Extent(s) ==
    IF s.unit = "scalar" THEN Len(TextOf(ArtifactAt(s.artifact)).scalars)
    ELSE ArtifactAt(s.artifact).length

\* The errors of intervals; what has been analysed must be known in size.
Measured(s, known) ==
    /\ Known(report.artifacts, s.artifact)
    /\ s.unit = "scalar" =>
          /\ Retained(ArtifactAt(s.artifact))
          /\ ArtifactAt(s.artifact).content \in DOMAIN report.texts
    /\ (known \/ s.unit # "whole_artifact") => Extent(s) # None
    /\ \A r \in Range(s.regions) : r.end <= Extent(s)

\* Its result.
RegionsOf(s) ==
    IF s.unit # "whole_artifact" THEN s.regions
    ELSE IF Extent(s) = None THEN <<>> ELSE <<Region(0, Extent(s))>>

----------------------------------------------------------------------------
(* Graph.Validate                                                          *)

Parented(i) ==
    \A p \in Range(report.artifacts[i].parents) :
        \E j \in 1..(i - 1) : report.artifacts[j].ref = p

SourceAgrees(a) == a.kind = "source" => a.sha = report.file.sha /\ a.length = report.file.size

TextAgrees(a) ==
    Retained(a) =>
        /\ a.content \in DOMAIN report.texts
        /\ a.encoding = "utf-8"
        /\ a.sha = TextOf(a).digest /\ a.length = Sum(TextOf(a).scalars)

ArtifactsStand ==
    /\ {"acquisition", "parser"} \subseteq {c.role : c \in Range(report.capabilities)}
    /\ \A i \in DOMAIN report.artifacts : LET a == report.artifacts[i] IN
          /\ Parented(i) /\ MappingResolved(a.mapping) /\ SourceAgrees(a) /\ TextAgrees(a)
          /\ a.transform # None => \A x \in Range(a.transform.exclusions) :
                x.scope # None => Measured(x.scope, FALSE)
    /\ Cardinality({i \in DOMAIN report.artifacts : report.artifacts[i].kind = "source"}) = 1

Encodings == {"utf-8", "utf-16-le", "utf-16-be", "utf-32-le", "utf-32-be"}

\* Bytes of a scalar in its encoding; four in UTF-8 are a pair in UTF-16.
Width(encoding, scalar) ==
    CASE encoding = "utf-8" -> scalar
      [] encoding \in {"utf-16-le", "utf-16-be"} -> IF scalar = 4 THEN 4 ELSE 2
      [] encoding \in {"utf-32-le", "utf-32-be"} -> 4

TextStands(t, file) ==
    /\ file.size # None
    /\ t.encoding \in Encodings
    /\ Len(t.offsets) = Len(t.scalars) + 1
    /\ \A b \in Range(t.offsets) : b <= file.size
    /\ \A i \in DOMAIN t.scalars :
          t.offsets[i + 1] = t.offsets[i] + Width(t.encoding, t.scalars[i])
TextsStand == \A t \in Range(report.texts) : TextStands(t, report.file)

\* What was not to run, or could not, did not.
Runnable(e, c) ==
    CASE c.participation = "disabled" -> e.state = "not_run" /\ e.reason = "execution.disabled"
      [] c.participation # "disabled" /\ ~c.available ->
            e.state = "not_run" /\ e.reason = c.reason
      [] OTHER -> TRUE

WithRegions(all, s) == all \o RegionsOf(s)
RegionsOfAll(scopes) == Loop(WithRegions, <<>>, scopes)[Len(scopes)]
Accounted(e) ==
    e.state = "partial" /\ (\A x \in Range(e.exclusions) : ~x.unknown) =>
        MergedEqual(RegionsOfAll(Parts(e)), RegionsOf(e.requested))

ExecutionsStand ==
    /\ \A e \in Range(report.executions) :
          /\ e.capability \in CapabilityIds
          /\ Runnable(e, CapabilityOf(e))
          /\ Measured(e.requested, FALSE)
          /\ \A s \in Range(Parts(e)) : Measured(s, TRUE)
          /\ Accounted(e)
          /\ \A d \in Range(e.diagnostics) :
                /\ Known(report.diagnostics, d)
                /\ Named(report.diagnostics, d).execution = e.ref
    /\ CapabilityIds = {e.capability : e \in Range(report.executions)}

\* The offset of a scalar in the artifact's UTF-8 form.
Utf8Offset(t, n) == Totals(t.scalars)[n]

\* Mutant of Covered: a scope in bytes is compared with scalar positions.
CoveredInScalars(t, scope, r) ==
    scope.unit = "whole_artifact" \/ \E o \in Range(scope.regions) : Lies(r, o)

\* Scopes in bytes are about the artifact, not about the source.
Covered(t, scope, r) ==
    CASE scope.unit = "whole_artifact" -> TRUE
      [] scope.unit = "scalar" -> \E o \in Range(scope.regions) : Lies(r, o)
      [] scope.unit = "byte" ->
            LET bytes == Region(Utf8Offset(t, r.start), Utf8Offset(t, r.end))
            IN  \E o \in Range(scope.regions) : Lies(bytes, o)

SpanStands(t, a, span) ==
    /\ span.scalar.end <= Len(t.scalars)
    /\ span.byte = Region(t.offsets[span.scalar.start + 1], t.offsets[span.scalar.end + 1])
    /\ \E scope \in Range(ExecutionAt(a.execution).analyzed) :
          scope.artifact = a.artifact /\ Covered(t, scope, span.scalar)

LocatorStands(a) ==
    CASE a.kind = "text" ->
            /\ a.segment \in DOMAIN report.texts
            /\ ArtifactAt(a.artifact).kind = "text"
            /\ ArtifactAt(a.artifact).content = a.segment
            /\ \A span \in Range(a.spans) : SpanStands(report.texts[a.segment], a, span)
            /\ a.digest = a.spans
      [] a.kind = "credential" ->
            /\ Known(report.artifacts, a.manifest) /\ ArtifactAt(a.manifest).kind = "manifest"
            /\ a.verification # None => Known(report.executions, a.verification)
      [] a.kind = "statistical_sample" ->
            /\ Known(report.artifacts, a.sample) /\ ArtifactAt(a.sample).kind = "sample"
            /\ ArtifactAt(a.sample).sha # None
            /\ Measured(a.scope, TRUE)
      [] a.kind = "legacy_unknown" -> Known(report.diagnostics, a.diagnostic)
      [] a.kind = "structural_object" -> TRUE

AnchorsStand ==
    \A a \in Range(report.anchors) :
        /\ a.artifact # None => Known(report.artifacts, a.artifact)
        /\ a.execution # None => Known(report.executions, a.execution)
        /\ MappingResolved(a.mapping)
        /\ LocatorStands(a)

Usable(e) == e.state \in {"completed", "partial"}
Structural(c) == c.role = "analyzer" /\ c.mechanism = "structural"
BelongsTo(ref, e) == Known(report.anchors, ref) /\ Named(report.anchors, ref).execution = e.ref
ResultScopes(e) == {r.scope : r \in {x \in Range(report.results) : x.execution = e.ref}}

ResultsStand ==
    /\ \A r \in Range(report.results) :
          /\ Known(report.executions, r.execution)
          /\ LET e == ExecutionAt(r.execution) IN
                /\ Usable(e) /\ Structural(CapabilityOf(e))
                /\ r.operation = e.capability
                /\ r.scope \in Range(e.analyzed)
                /\ \A a \in Range(r.anchors) : BelongsTo(a, e)
    /\ \A e \in Range(report.executions) :
          /\ e.state = "partial" => ResultScopes(e) # {}
          /\ Usable(e) /\ Structural(CapabilityOf(e)) =>
                Range(e.analyzed) \subseteq ResultScopes(e)

DiagnosticsStand ==
    \A d \in Range(report.diagnostics) :
        /\ d.execution # None => Known(report.executions, d.execution)
        /\ d.scope # None => Measured(d.scope, FALSE)

----------------------------------------------------------------------------
(* Report.ValidateSemantics                                                *)

StatusStands ==
    LET runs == report.executions
    IN  report.status = Status([i \in DOMAIN runs |-> CapabilityOf(runs[i])],
                               [i \in DOMAIN runs |-> runs[i].state],
                               report.results # <<>>)

Positive(e) == \E r \in Range(report.results) :
                  r.execution = e.ref /\ r.outcome = "observations_present"
OriginStands(f, e, c) ==
    /\ f.mechanism = c.mechanism
    /\ Distinct(f.anchors) /\ \A a \in Range(f.anchors) : BelongsTo(a, e)
    /\ IF f.id = "parser.failure"
       THEN /\ e.state = "failed" /\ c.role \in {"acquisition", "parser"}
            /\ \E d \in Range(e.diagnostics) : Named(report.diagnostics, d).code = f.code
       ELSE Usable(e) /\ c.role = "analyzer" /\ Positive(e)

\* The one text of a source's name.
Segments(source) == {i \in DOMAIN report.texts : report.texts[i].source = source}
Segment(f) == CHOOSE i \in DOMAIN report.texts : report.texts[i].source = f.source

\* findingCoordinates: positions and offsets in the source agree.
CoordinatesStand(f) ==
    f.positions # None =>
        /\ Len(f.positions) = Len(f.offsets) /\ f.count \in {None, Len(f.positions)}
        /\ f.source # None /\ Cardinality(Segments(f.source)) = 1
        /\ \A i \in DOMAIN f.positions : LET t == report.texts[Segment(f)] IN
              /\ f.positions[i] + 1 < Len(t.offsets)
              /\ t.offsets[f.positions[i] + 1] = f.offsets[i]

\* findingAnchors: every occurrence in a span, every span at an occurrence.
Spans(f) == UNION {Range(Named(report.anchors, a).spans) : a \in Range(f.anchors)}
At(p, span) == span.scalar.start <= p /\ p < span.scalar.end
AnchorsOf(f) ==
    f.source # None =>
        /\ Cardinality(Segments(f.source)) = 1
        /\ f.positions # None =>
              /\ \A a \in Range(f.anchors) : LET x == Named(report.anchors, a) IN
                    x.kind = "text" /\ x.segment = Segment(f)
              /\ \A s \in Spans(f) : \E p \in Range(f.positions) : At(p, s)
              /\ \A p \in Range(f.positions) : \E s \in Spans(f) : At(p, s)

FindingsStand ==
    /\ Unique(report.findings, RefOf)
    /\ \A f \in Range(report.findings) :
          /\ Ref(f.ref, "finding") /\ Known(report.executions, f.execution)
          /\ LET e == ExecutionAt(f.execution) IN OriginStands(f, e, CapabilityOf(e))
          /\ CoordinatesStand(f) /\ AnchorsOf(f)

----------------------------------------------------------------------------
Step(here, stands, next) ==
    /\ pc = here
    /\ pc' = IF stands THEN next ELSE "refused"
    /\ UNCHANGED report

Next ==
    \/ Step("index", Indexed, "artifacts")
    \/ Step("artifacts", ArtifactsStand, "texts")
    \/ Step("texts", TextsStand, "executions")
    \/ Step("executions", ExecutionsStand, "anchors")
    \/ Step("anchors", AnchorsStand, "results")
    \/ Step("results", ResultsStand, "diagnostics")
    \/ Step("diagnostics", DiagnosticsStand, "status")
    \/ Step("status", StatusStands, "findings")
    \/ Step("findings", FindingsStand, "accepted")

Accepted == pc = "accepted"
Refused == pc = "refused"
Spec == Init /\ [][Next]_vars

----------------------------------------------------------------------------
\* The units of an artifact that a scope speaks of.
Units(s) == UNION {r.start..(r.end - 1) : r \in Range(RegionsOf(s))}

(* In an accepted report no unit of an artifact is both analysed and left  *)
(* out, or either of them twice, none lies outside what was requested, and *)
(* a partial execution that names no unknown remainder accounts for every  *)
(* unit of its request (Execution.Validate, intervals, mergeRegions).      *)
AccountedOnce ==
    Accepted => \A e \in Range(report.executions) :
        LET all == UNION {Units(s) : s \in Range(Parts(e))} IN
        /\ \A i, j \in DOMAIN Parts(e) :
              i # j => Units(Parts(e)[i]) \cap Units(Parts(e)[j]) = {}
        /\ all \subseteq Units(e.requested)
        /\ Usable(e) /\ (\A x \in Range(e.exclusions) : ~x.unknown) => all = Units(e.requested)

\* The scalars of text i that an execution analysed, counted one by one.
Analyzed(e, i, n) ==
    \E s \in Range(e.analyzed) :
        /\ ArtifactAt(s.artifact).content = i
        /\ IF s.unit = "scalar" THEN n \in Units(s)
           ELSE \A b \in Utf8Offset(report.texts[i], n)..(Utf8Offset(report.texts[i], n + 1) - 1) :
                   b \in Units(s)

(* An accepted finding with positions rests on what was analysed: each of  *)
(* its occurrences is a scalar that the finding's own execution analysed,  *)
(* and its bytes at the place the finding names lie in the source          *)
(* (Graph.Validate with findingCoordinates and findingAnchors).            *)
OccurrencesAnalyzed ==
    Accepted => \A f \in Range(report.findings) : f.positions # None =>
        LET t == report.texts[Segment(f)]  e == ExecutionAt(f.execution) IN
        \A i \in DOMAIN f.positions :
            /\ Analyzed(e, Segment(f), f.positions[i])
            /\ f.offsets[i] + Width(t.encoding, t.scalars[f.positions[i] + 1])
                  <= report.file.size
=============================================================================
