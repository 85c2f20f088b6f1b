------------------------------- MODULE Scopes -------------------------------
(***************************************************************************)
(* Scopes of evidence schema 2.0: the part of an artifact that an operation *)
(* was asked to analyse, has analysed or has left out.  Scope.Validate,     *)
(* within and scopesOverlap of evidence/v2/model.go, and mergeRegions of    *)
(* evidence/v2/graph.go.                                                    *)
(*                                                                          *)
(* A scope names an artifact and the whole of it or a sequence of regions,  *)
(* in bytes or in scalars.  A region is [start |-> n, end |-> m], end       *)
(* excluded.                                                                *)
(***************************************************************************)
EXTENDS Naturals, Sequences, FiniteSets, SequencesExt

CONSTANT None       \* a null field

ASSUME NoneAssumption == None \notin Nat

\* What a loop over a sequence has made of base after each of its rounds.
Loop(Round(_, _), base, seq) ==
    LET after[i \in 0..Len(seq)] == IF i = 0 THEN base ELSE Round(after[i - 1], seq[i])
    IN  after

Region(n, m) == [start |-> n, end |-> m]
EndBefore(s, i) == IF i = 1 THEN 0 ELSE s[i - 1].end

\* Increasing, disjoint, none of them empty.
Increasing(regions) ==
    \A i \in DOMAIN regions :
        EndBefore(regions, i) <= regions[i].start /\ regions[i].start < regions[i].end

ScopeValid(s) ==
    IF s.unit = "whole_artifact" THEN s.regions = <<>>
    ELSE s.unit \in {"byte", "scalar"} /\ s.regions # <<>> /\ Increasing(s.regions)

Lies(r, o) == o.start <= r.start /\ r.end <= o.end

\* Every region within a single one of the outer scope's.
Within(s, outer) ==
    /\ s.artifact = outer.artifact
    /\ IF outer.unit = "whole_artifact" THEN s.unit \in {"whole_artifact", "byte"}
       ELSE /\ s.unit = outer.unit
            /\ \A r \in Range(s.regions) : \E o \in Range(outer.regions) : Lies(r, o)

\* Mutant of Overlap: the regions alone are compared.
OverlapOfRegions(a, b) ==
    /\ a.artifact = b.artifact
    /\ \E x \in Range(a.regions), y \in Range(b.regions) : x.start < y.end /\ y.start < x.end

\* Scopes in different units are taken to overlap.
Overlap(a, b) ==
    /\ a.artifact = b.artifact
    /\ \/ "whole_artifact" \in {a.unit, b.unit}
       \/ a.unit # b.unit
       \/ \E x \in Range(a.regions), y \in Range(b.regions) : x.start < y.end /\ y.start < x.end

Join(merged, r) ==
    IF merged # <<>> /\ Last(merged).end = r.start
    THEN [merged EXCEPT ![Len(merged)].end = r.end] ELSE Append(merged, r)
Sorted(regions) ==
    {order \in Bijection(DOMAIN regions, DOMAIN regions) :
        \A i, j \in DOMAIN regions :
            i < j => regions[order[i]].start <= regions[order[j]].start}
InOrder(regions, order) == [i \in DOMAIN regions |-> regions[order[i]]]
Merged(regions, order) == Loop(Join, <<>>, InOrder(regions, order))[Len(regions)]

\* Where no regions overlap there is one order to sort them in.
MergedEqual(a, b) ==
    \E p \in Sorted(a), q \in Sorted(b) : Merged(a, p) = Merged(b, q)
=============================================================================
