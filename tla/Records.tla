------------------------------ MODULE Records ------------------------------
(***************************************************************************)
(* The records of a schema 2.0 report and what each must satisfy by itself: *)
(* the Validate methods of evidence/v2 (model.go, artifact.go, anchor.go,   *)
(* result.go, diagnostic.go).                                               *)
(*                                                                          *)
(* A reference is <<kind, number>>.  Names, versions, digests and codes are *)
(* values that can only be equal or not; a text, and what a pointer         *)
(* designates, is known by its number in the report's evidence.             *)
(***************************************************************************)
EXTENDS Scopes

Kinds == {"source", "text", "package_part", "stream", "object", "manifest", "sample",
          "binding_text", "detector_response"}
Ref(x, kind) == x # None /\ x[1] = kind
RefOrNull(x, kind) == x = None \/ x[1] = kind
Distinct(seq) == IsInjective(seq)

CapabilityValid(c) ==
    /\ c.mechanism = None <=> c.role \in {"acquisition", "parser"}
    /\ c.purpose # None <=> c.mechanism = "statistical"
    /\ IF c.available THEN c.implementation # None /\ c.reason = None ELSE c.reason # None

MappingValid(m) ==
    IF m.quality = "unavailable" THEN {m.from, m.to, m.data} = {None}
    ELSE Ref(m.from, "artifact") /\ Ref(m.to, "artifact")

\* An exclusion names a scope or stands for an unknown remainder.
ExclusionValid(x) == (x.scope = None <=> x.unknown) /\ (x.scope # None => ScopeValid(x.scope))

\* An artifact without a digest has neither a length nor contents.
ArtifactValid(a) ==
    /\ Ref(a.ref, "artifact") /\ a.kind \in Kinds
    /\ a.sha = None <=> a.length = None
    /\ a.sha = None => a.content = None
    /\ a.content = None <=> a.unavailable # None
    /\ \A p \in Range(a.parents) : Ref(p, "artifact") /\ p # a.ref
    /\ Distinct(a.parents)
    /\ a.kind = "source" => a.parents = <<>> /\ a.transform = None
    /\ a.transform # None =>
          /\ a.transform.inputs = a.parents
          /\ \A x \in Range(a.transform.exclusions) : ExclusionValid(x)
    /\ MappingValid(a.mapping)

\* The scopes an execution accounts for.
WithScope(parts, x) == IF x.scope = None THEN parts ELSE Append(parts, x.scope)
Parts(e) == Loop(WithScope, e.analyzed, e.exclusions)[Len(e.exclusions)]

StateFits(e) ==
    CASE e.state \in {"not_run", "failed", "canceled"} ->
            /\ e.analyzed = <<>> /\ e.reason # None
            /\ e.state = "canceled" => e.reason = "execution.canceled"
            /\ e.state = "failed" => e.diagnostics # <<>>
      [] e.state = "completed" ->
            e.reason = None /\ e.exclusions = <<>> /\ e.analyzed = <<e.requested>>
      [] e.state = "partial" ->
            /\ e.analyzed # <<>> /\ e.exclusions # <<>> /\ e.diagnostics # <<>>
            /\ e.reason # None

ExecutionValid(e) ==
    /\ Ref(e.ref, "exec")
    /\ ScopeValid(e.requested)
    /\ \A x \in Range(e.exclusions) : ExclusionValid(x)
    /\ \A s \in Range(Parts(e)) : ScopeValid(s) /\ Within(s, e.requested)
    /\ \A i, j \in DOMAIN Parts(e) : i < j => ~Overlap(Parts(e)[i], Parts(e)[j])
    /\ \A d \in Range(e.diagnostics) : Ref(d, "diagnostic")
    /\ StateFits(e)

\* The kind of a locator: text spans, or a manifest, a sample, a diagnostic.
LocatorValid(a) ==
    CASE a.kind = "text" ->
            /\ a.spans # <<>>
            /\ Increasing([i \in DOMAIN a.spans |-> a.spans[i].scalar])
            /\ Increasing([i \in DOMAIN a.spans |-> a.spans[i].byte])
      [] a.kind = "structural_object" -> TRUE
      [] a.kind = "credential" ->
            Ref(a.manifest, "artifact") /\ RefOrNull(a.verification, "exec")
      [] a.kind = "statistical_sample" ->
            /\ Ref(a.sample, "artifact") /\ a.sample = a.artifact
            /\ a.scope.artifact = a.sample /\ ScopeValid(a.scope)
      [] a.kind = "legacy_unknown" -> Ref(a.diagnostic, "diagnostic")

AnchorValid(a) ==
    /\ Ref(a.ref, "anchor")
    /\ RefOrNull(a.artifact, "artifact") /\ RefOrNull(a.execution, "exec")
    /\ a.kind # "legacy_unknown" => a.artifact # None /\ a.execution # None
    /\ MappingValid(a.mapping)
    /\ LocatorValid(a)

ResultValid(r) ==
    /\ Ref(r.ref, "result") /\ Ref(r.execution, "exec")
    /\ \A a \in Range(r.anchors) : Ref(a, "anchor")
    /\ Distinct(r.anchors)
    /\ r.outcome \in {"observations_present", "no_observations"}
    /\ ScopeValid(r.scope)

\* Every stage has one kind of details, parsing two.
DetailsOf == [acquisition |-> {"error"}, parsing |-> {"error", "decode"},
              audit |-> {"error"}, execution |-> {"limit"}, import |-> {"pointer"},
              output |-> {"operation"}]
DiagnosticValid(d) ==
    /\ Ref(d.ref, "diagnostic") /\ RefOrNull(d.execution, "exec")
    /\ d.scope # None => ScopeValid(d.scope)
    /\ d.stage \in DOMAIN DetailsOf /\ d.details \in DetailsOf[d.stage]
=============================================================================
