-------------------------- MODULE OpcRelationships --------------------------
(***************************************************************************)
(* The relationship inventory of a package: Inspect and readPart of        *)
(* opcrels/relationships.go.  Relationship parts are read in the order of  *)
(* the package while the budgets over all of them last; what a parse that  *)
(* fails has used is not known, so its whole allowance is charged.         *)
(*                                                                         *)
(* A part has an xml document as the parser would give it: the error it    *)
(* ends in, the tokens and bytes of values read until then, its elements   *)
(* in document order, each with its parent's place, and the elements with  *)
(* text that is not blank.  `other` marks an element with attributes that  *)
(* its reader does not know.                                               *)
(***************************************************************************)
EXTENDS PartNames, FiniteSets, FiniteSetsExt

CONSTANTS
    Offered(_),                 \* is this a package Read returns?
    DocTokens, DocValues,       \* limits of one document
    MaxParts, MaxBytes, MaxTokens, MaxValues, MaxRelationships

ASSUME BudgetsAssumption ==
    {DocTokens, DocValues, MaxParts, MaxBytes, MaxTokens, MaxValues, MaxRelationships}
        \subseteq Nat

VARIABLES package, turn, left, spent, inventory, relationships
opcVars == <<package, turn, left, spent, inventory, relationships>>

\* What the readers of packages and of XML return: names are unique, a document
\* that has no error has a root, and an element comes after its parent.
Parsed(xml) ==
    /\ xml.tokens \in Nat /\ xml.values \in Nat
    /\ xml.elements \in Seq(Range(xml.elements))
    /\ xml.error = None => xml.elements # <<>>
    /\ \A j \in DOMAIN xml.elements :
          xml.elements[j].parent \in 0..(j - 1) /\ (xml.elements[j].parent = 0 => j = 1)
Package(p) ==
    /\ p \in Seq(Range(p))
    /\ \A i, j \in DOMAIN p : p[i].name = p[j].name => i = j
    /\ \A part \in Range(p) : part.size \in Nat /\ Parsed(part.xml)

OpcInit ==
    /\ Offered(package) /\ Package(package)
    /\ turn = 1
    /\ left = [parts |-> MaxParts, bytes |-> MaxBytes, tokens |-> MaxTokens, values |-> MaxValues]
    /\ spent = [tokens |-> 0, values |-> 0]     \* by the parser; for the properties
    /\ inventory = <<>> /\ relationships = <<>>

\* The first of the conditions that does not hold names the outcome.
Unless(stands, outcome, next) == IF stands THEN next ELSE outcome

Least(a, b) == IF a <= b THEN a ELSE b

Files == {i \in DOMAIN package : ~package[i].directory}
Find(name) == {i \in Files : Same(package[i].name, name)}

Exceeds(xml, limits) == xml.tokens > limits.tokens \/ xml.values > limits.values
ParseCode(xml, limits) == IF Exceeds(xml, limits) THEN "xml.resource_limit" ELSE xml.error

----------------------------------------------------------------------------
(* One relationship part.                                                  *)
IsRelationship(xml, i) ==
    /\ xml.elements[i].parent = 1
    /\ xml.elements[i].ns = "relationships" /\ xml.elements[i].name = "Relationship"
\* The relationships among the first n elements, and all of them.
RecordsTo(xml) ==
    LET upto[n \in 0..Len(xml.elements)] ==
          IF n = 0 THEN <<>>
          ELSE IF IsRelationship(xml, n) THEN Append(upto[n - 1], n) ELSE upto[n - 1]
    IN  upto
Records(xml) == RecordsTo(xml)[Len(xml.elements)]

UnknownContent(xml, i) ==
    \/ i \in xml.texts
    \/ \E j \in DOMAIN xml.elements : xml.elements[j].parent = i /\ ~IsRelationship(xml, j)

SourceCode(owner) ==
    IF owner = <<>> THEN None
    ELSE Unless(ResolveInternalTarget(<<>>, Target(FALSE, owner)).code = None,
                "opc.source_syntax_unsupported",
         Unless(Find(owner) # {}, "opc.source_missing",
         Unless(Cardinality(Find(owner)) = 1, "opc.source_ambiguous", None)))
\* The source is named as its part is, once it is found.
Source(owner) ==
    IF owner = <<>> \/ SourceCode(owner) # None THEN owner
    ELSE package[CHOOSE i \in Find(owner) : TRUE].name

As(state, code) == [state |-> state, code |-> code, part |-> None]

TargetOutcome(target) ==
    LET to == ResolveInternalTarget(target.source, target.to)
        found == Find(to.name)
    IN  Unless(to.code = None, As("unresolved", to.code),
        Unless(found # {}, As("missing", "opc.target_missing"),
        Unless(Cardinality(found) = 1, As("ambiguous", "opc.target_ambiguous"),
        [state |-> "resolved", code |-> None, part |-> CHOOSE i \in found : TRUE])))

Outcome(xml, i, owner) ==
    LET e == xml.elements[i] IN
    Unless(e.id # None /\ e.type # None /\ e.target # NoTarget,
           As("invalid", "opc.relationship_required_attribute"),
    Unless(\A j \in Range(Records(xml)) : j # i => xml.elements[j].id # e.id,
           As("invalid", "opc.relationship_id_ambiguous"),
    Unless(~e.other /\ ~xml.elements[1].other /\ ~UnknownContent(xml, i),
           As("unsupported", "opc.relationship_structure_unknown"),
    Unless(SourceCode(owner) = None, As("unresolved", SourceCode(owner)),
    Unless(e.mode # "External", As("external", None),
    Unless(e.mode \in {"Internal", None}, As("invalid", "opc.target_mode_invalid"),
    TargetOutcome([source |-> Source(owner), to |-> e.target])))))))

RootStands(xml) ==
    xml.elements[1].ns = "relationships" /\ xml.elements[1].name = "Relationships"

\* The relationships there is still room for, with what becomes of each.
Relationship(i, e) ==
    LET xml == package[i].xml
        out == Outcome(xml, e, OwnerOf(package[i].name))
    IN  [from |-> i, element |-> e, type |-> xml.elements[e].type,
         state |-> out.state, code |-> out.code, part |-> out.part]
Gathered(i) ==
    LET records == Records(package[i].xml)
    IN  [k \in 1..Least(MaxRelationships - Len(relationships), Len(records)) |->
            Relationship(i, records[k])]

PartCode(i) ==
    LET xml == package[i].xml
        gathered == Gathered(i)
    IN  Unless(RootStands(xml), "opc.relationship_root_invalid",
        Unless(~UnknownContent(xml, 1) /\ ~xml.elements[1].other, "opc.relationship_structure_unknown",
        Unless(SourceCode(OwnerOf(package[i].name)) = None, SourceCode(OwnerOf(package[i].name)),
        Unless(\A r \in Range(gathered) : r.state \in {"resolved", "external"},
               "opc.relationship_unresolved",
        Unless(Len(gathered) = Len(Records(xml)), "opc.resource_limit", None)))))

----------------------------------------------------------------------------
Report(i, state, code) == Append(inventory, [part |-> i, state |-> state, code |-> code])
Candidate(i) == ~package[i].directory /\ IsRels(package[i].name)
Exhausted(p) == left.parts = 0 \/ p.size > left.bytes \/ left.tokens = 0 \/ left.values = 0

Allowance == [tokens |-> Least(DocTokens, left.tokens), values |-> Least(DocValues, left.values)]
Used(xml, a) == [tokens |-> Least(xml.tokens, a.tokens), values |-> Least(xml.values, a.values)]

\* Mutant of Charge: only a document that was parsed is charged.
ChargeParsed(xml, a) ==
    IF ParseCode(xml, a) = None THEN Used(xml, a) ELSE [tokens |-> 0, values |-> 0]
Charge(xml, a) == IF ParseCode(xml, a) = None THEN Used(xml, a) ELSE a

ReadRelationships(i) ==
    LET p == package[i]
        a == Allowance
        failure == ParseCode(p.xml, a)
        charge == Charge(p.xml, a)
    IN  /\ left' = [parts |-> left.parts - 1, bytes |-> left.bytes - p.size,
                    tokens |-> left.tokens - charge.tokens, values |-> left.values - charge.values]
        /\ spent' = [tokens |-> spent.tokens + Used(p.xml, a).tokens,
                     values |-> spent.values + Used(p.xml, a).values]
        /\ IF failure # None
           THEN inventory' = Report(i, "failed", failure) /\ UNCHANGED relationships
           ELSE LET code == PartCode(i) IN
                /\ inventory' = Report(i, IF code = None THEN "completed"
                                          ELSE IF RootStands(p.xml) THEN "partial" ELSE "failed", code)
                /\ relationships' =
                     IF RootStands(p.xml) THEN relationships \o Gathered(i) ELSE relationships

LeaveOut(i, state, code) ==
    inventory' = Report(i, state, code) /\ UNCHANGED <<left, spent, relationships>>

InspectPart ==
    /\ turn <= Len(package)
    /\ turn' = turn + 1 /\ UNCHANGED package
    /\ IF ~Candidate(turn) THEN UNCHANGED <<left, spent, inventory, relationships>>
       ELSE IF ~HasOwner(package[turn].name)
       THEN LeaveOut(turn, "unsupported", "opc.relationship_name_unsupported")
       ELSE IF Cardinality(Find(package[turn].name)) # 1
       THEN LeaveOut(turn, "failed", "opc.relationship_part_ambiguous")
       ELSE IF Exhausted(package[turn])
       THEN LeaveOut(turn, "not_run", "opc.resource_limit")
       ELSE ReadRelationships(turn)

Inspected == turn > Len(package)
InventoryState ==
    IF inventory = <<>> THEN "not_applicable"
    ELSE IF \A r \in Range(inventory) : r.state = "completed" THEN "completed" ELSE "partial"
=============================================================================
