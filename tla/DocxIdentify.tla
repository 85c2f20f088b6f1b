---------------------------- MODULE DocxIdentify ----------------------------
(***************************************************************************)
(* Whether a package is a Word document: Inspect, readTypes and assign of  *)
(* docxidentify/identify.go, over a finished relationship inventory.       *)
(*                                                                         *)
(* The package's one part named [Content_Types].xml declares types for     *)
(* parts by name (Override) or by extension (Default).  A media type is    *)
(* what it denotes, or "malformed".                                        *)
(***************************************************************************)
EXTENDS OpcRelationships

CONSTANT MaxDeclarations

TypesName == << <<"[Content_Types]", "xml">> >>
Types == package[CHOOSE i \in Find(TypesName) : TRUE]
Limits == [tokens |-> DocTokens, values |-> DocValues]
Elements == Types.xml.elements

(* One issue: a code, and the element or part that it is about, 0 for the  *)
(* package or the part being read; the code tells which.                   *)
Issue(code, about) == [code |-> code, about |-> about]

(* readTypes.  A declaration is a child of the root.                       *)
Declared == {i \in DOMAIN Elements : Elements[i].parent = 1}
Malformed(i) ==
    \/ i \in Types.xml.texts
    \/ i # 1 /\ \E j \in DOMAIN Elements : Elements[j].parent = i
IsTypeDeclaration(i) ==
    Elements[i].ns = "types" /\ Elements[i].name \in {"Default", "Override"}
NoKey(i) ==
    IF Elements[i].name = "Override" THEN Elements[i].key = NoTarget ELSE Elements[i].key = ""

\* The faults of a declaration, in the order in which they are found.
KeyFault(i) ==
    IF Elements[i].name = "Default"
    THEN Unless(Elements[i].key \notin Odd, "opc.extension_unsupported", None)
    ELSE LET to == ResolveInternalTarget(<<>>, Elements[i].key)
         IN  Unless(/\ Elements[i].key.absolute /\ to.code = None
                    /\ to.name = Elements[i].key.segments,
                    "opc.override_name_unsupported", None)
Faults(i) ==
    Unless(IsTypeDeclaration(i) /\ ~Elements[i].other /\ ~Malformed(i),
           <<"opc.content_types_structure_unknown">>,
    Unless(~NoKey(i) /\ Elements[i].type # None, <<"opc.content_type_required_attribute">>,
    (IF Elements[i].type = "malformed" THEN <<"opc.media_type_unsupported">> ELSE <<>>)
    \o (IF KeyFault(i) # None THEN <<KeyFault(i)>> ELSE <<>>)))

\* Mutant of KeyOf: an override is looked up with the slash it is written with.
KeyAsWritten(i) ==
    IF Elements[i].name = "Override"
    THEN <<"Override", Elements[i].key.absolute, Fold(Elements[i].key.segments)>>
    ELSE <<"Default", FALSE, Fold(<< <<Elements[i].key>> >>)>>
KeyOf(i) ==
    IF Elements[i].name = "Override"
    THEN <<"Override", FALSE, Fold(Elements[i].key.segments)>>
    ELSE <<"Default", FALSE, Fold(<< <<Elements[i].key>> >>)>>
Ambiguous(i) ==
    /\ IsTypeDeclaration(i) /\ ~NoKey(i)
    /\ \E j \in Declared \ {i} : IsTypeDeclaration(j) /\ KeyOf(j) = KeyOf(i)
Accepted(i) == Faults(i) = <<>> /\ ~Ambiguous(i)
Rejection(i) == IF Ambiguous(i) THEN "opc.content_type_ambiguous" ELSE Head(Faults(i))

FaultsOf(ds) == UNION {{Issue(c, i) : c \in Range(Faults(i))} : i \in ds}
TypesIssues ==
    FaultsOf(Declared)
    \cup {Issue("opc.content_type_ambiguous", i) : i \in {j \in Declared : Ambiguous(j)}}

----------------------------------------------------------------------------
(* assign: what declares a part, the override for its name before the      *)
(* default for its extension.  Among several, the last.                    *)
Extension(name) == IF Len(Last(name)) > 1 THEN Last(Last(name)) ELSE None
OverridesOf(name) ==
    {i \in Declared : /\ IsTypeDeclaration(i) /\ Elements[i].name = "Override"
                      /\ Same(Elements[i].key.segments, name)}
DefaultsOf(name) ==
    {i \in Declared : /\ IsTypeDeclaration(i) /\ Elements[i].name = "Default"
                      /\ Extension(name) # None
                      /\ Same(<< <<Elements[i].key>> >>, << <<Extension(name)>> >>)}
Governing(name) ==
    IF OverridesOf(name) # {} THEN OverridesOf(name) ELSE DefaultsOf(name)

Assignable == {p \in Files : package[p].name # Types.name}
Assigned(p) ==
    /\ p \in Assignable /\ Cardinality(Find(package[p].name)) = 1
    /\ Governing(package[p].name) # {} /\ Accepted(Max(Governing(package[p].name)))
TypeOf(p) == Elements[Max(Governing(package[p].name))].type

AssignIssues ==
    UNION {LET name == package[p].name IN
           Unless(Cardinality(Find(name)) = 1, {Issue("opc.part_name_ambiguous", p)},
           Unless(Governing(name) # {}, {Issue("opc.part_type_missing", p)},
           Unless(Accepted(Max(Governing(name))),
                  {Issue(Rejection(Max(Governing(name))), p)},
           {}))) : p \in Assignable}
    \cup {Issue("opc.override_target_missing", i) : i \in
            {j \in Declared : /\ IsTypeDeclaration(j) /\ Elements[j].name = "Override"
                              /\ Accepted(j) /\ Find(Elements[j].key.segments) = {}}}

----------------------------------------------------------------------------
(* Inspect.                                                                *)
Answer(format, main, issues) == [format |-> format, main |-> main, issues |-> issues,
    state |-> IF issues = {} THEN "completed" ELSE "partial"]
Stop(code, issues) == Answer(None, None, issues \cup {Issue(code, 0)})

RootPart(i) == Same(package[i].name, RootRels)
RootRead == \E r \in Range(inventory) : RootPart(r.part) /\ r.state = "completed"
RootTyped == \E p \in Files : RootPart(p) /\ Assigned(p) /\ TypeOf(p) = "relationships"
Variants == {"transitional", "strict"}
ToDocument == {k \in DOMAIN relationships :
                 RootPart(relationships[k].from) /\ relationships[k].type \in Variants}
Bodies(doc, ns) == {i \in DOMAIN doc.elements :
    doc.elements[i].parent = 1 /\ doc.elements[i].ns = ns /\ doc.elements[i].name = "body"}

Document(issues) ==
    LET rel == relationships[CHOOSE k \in ToDocument : TRUE]
        main == rel.part
        doc == package[main].xml
    IN  Unless(rel.state = "resolved", Stop("docx.main_relationship_unresolved", issues),
        Unless(Assigned(main), Stop("docx.main_type_unknown", issues),
        Unless(TypeOf(main) = "document", Stop("docx.main_type_unsupported", issues),
        Unless(ParseCode(doc, Limits) = None, Stop(ParseCode(doc, Limits), issues),
        Unless(doc.elements[1].ns = rel.type /\ doc.elements[1].name = "document",
               Stop("docx.main_root_mismatch", issues),
        Unless(Cardinality(Bodies(doc, rel.type)) = 1, Stop("docx.main_body_ambiguous", issues),
        Answer("docx", main, issues \cup
               IF InventoryState = "partial"
               THEN {Issue("opc.relationship_inventory_partial", 0)} ELSE {})))))))

Relations(issues) ==
    Unless(RootTyped, Stop("docx.root_relationship_type_unknown", issues),
    Unless(RootRead, Stop("docx.root_relationships_incomplete", issues),
    Unless(ToDocument # {}, Stop("docx.main_relationship_missing", issues),
    Unless(Cardinality(ToDocument) = 1, Stop("docx.main_relationship_ambiguous", issues),
    Document(issues)))))

Docx ==
    IF Find(TypesName) = {}
    THEN IF InventoryState = "not_applicable" THEN [Answer(None, None, {}) EXCEPT !.state = "not_applicable"]
         ELSE Stop("opc.content_types_missing", {})
    ELSE Unless(Cardinality(Find(TypesName)) = 1, Stop("opc.content_types_ambiguous", {}),
         Unless(Types.name = TypesName, Stop("opc.content_types_name_unsupported", {}),
         Unless(ParseCode(Types.xml, Limits) = None, Stop(ParseCode(Types.xml, Limits), {}),
         Unless(Elements[1].ns = "types" /\ Elements[1].name = "Types",
                Stop("opc.content_types_root_invalid", {}),
         Unless(~Malformed(1) /\ ~Elements[1].other, Stop("opc.content_types_structure_unknown", {}),
         Unless(Cardinality(Declared) <= MaxDeclarations,
                Stop("opc.content_types_limit",
                     FaultsOf({i \in Declared : Cardinality({j \in Declared : j < i}) < MaxDeclarations})),
         Relations(TypesIssues \cup AssignIssues)))))))
=============================================================================
