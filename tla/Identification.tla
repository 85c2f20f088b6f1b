--------------------------- MODULE Identification ---------------------------
(***************************************************************************)
(* What a package is taken for: the relationship inventory, one part at a  *)
(* time, then docxidentify.Inspect on it and odtidentify.Inspect on the    *)
(* same package.  A canceled call returns nothing.                         *)
(***************************************************************************)
EXTENDS OdtIdentify

VARIABLES docx, odt, pc
vars == <<opcVars, docx, odt, pc>>

Init == OpcInit /\ docx = None /\ odt = None /\ pc = "inventory"

Inventory ==
    /\ pc = "inventory" /\ InspectPart
    /\ UNCHANGED <<docx, odt, pc>>
IdentifyDocx ==
    /\ pc = "inventory" /\ Inspected
    /\ docx' = Docx /\ pc' = "docx" /\ UNCHANGED <<opcVars, odt>>
IdentifyOdt ==
    /\ pc = "docx"
    /\ odt' = Odt /\ pc' = "done" /\ UNCHANGED <<opcVars, docx>>
Cancel ==
    /\ pc \in {"inventory", "docx"}
    /\ pc' = "canceled" /\ UNCHANGED <<opcVars, docx, odt>>

Next == Inventory \/ IdentifyDocx \/ IdentifyOdt \/ Cancel
Spec == Init /\ [][Next]_vars

----------------------------------------------------------------------------
(* The budgets over all relationship parts bound what the parser was made  *)
(* to do, failed parses included; no relationship part of the package goes *)
(* unmentioned; and an inventory called completed has dropped nothing:     *)
(* every relationship of every part is in it once, and either points out   *)
(* of the package or at the one part that any reading of its target finds  *)
(* (opcrels.Inspect).                                                      *)
InventoryHonest ==
    /\ spent.tokens <= MaxTokens /\ spent.values <= MaxValues
    /\ Len(relationships) <= MaxRelationships
    /\ pc = "docx" =>
         /\ \A i \in DOMAIN package : Candidate(i) =>
               \E k \in DOMAIN inventory : \A l \in DOMAIN inventory :
                   inventory[l].part = i <=> l = k
         /\ InventoryState = "completed" =>
               \A i \in {j \in DOMAIN package : Candidate(j)} :
               \A e \in DOMAIN package[i].xml.elements :
                   package[i].xml.elements[e].name = "Relationship" =>
                   \E k \in DOMAIN relationships :
                       /\ \A l \in DOMAIN relationships :
                             (relationships[l].from = i /\ relationships[l].element = e) <=> l = k
                       /\ \/ package[i].xml.elements[e].mode = "External"
                          \/ Find(ResolveInternalTarget(Source(OwnerOf(package[i].name)),
                                    package[i].xml.elements[e].target).name)
                               = {relationships[k].part}

----------------------------------------------------------------------------
(* The parts a reader may take for the document that is less careful about *)
(* names, about which relationship it follows and which declaration it     *)
(* believes, of those that speak of the same thing.                        *)
RootElements == UNION {Range(package[i].xml.elements) : i \in Find(RootRels)}
MainTargets == {e.target : e \in {x \in RootElements : x.name = "Relationship" /\ x.type \in Variants}}
TypesSaid(p, said) ==
    LET name == package[p].name
        overrides == {d \in said : d.name = "Override" /\ Same(d.key.segments, name)}
        defaults == {d \in said : d.name = "Default" /\ Same(<< <<d.key>> >>, << <<Extension(name)>> >>)}
    IN  {d.type : d \in IF overrides # {} THEN overrides ELSE defaults}

(* A package is called a docx only if every such reader comes to the same  *)
(* part and the same type for it, whatever it takes for a declaration if   *)
(* nothing is reported; it is called an odt only if every entry            *)
(* for the package and for its content says so, and the content is there   *)
(* to be read; and then, if nothing is reported, every stored part is      *)
(* listed once and every entry is there as it says                         *)
(* (docxidentify.Inspect, odtidentify.Inspect).                            *)
FormatsUnambiguous ==
    /\ pc = "docx" /\ docx.format = "docx" =>
         /\ Cardinality(Find(TypesName)) = 1 /\ Cardinality(Find(RootRels)) = 1
         /\ \E t \in MainTargets : MainTargets = {t}
                /\ Find(ResolveInternalTarget(<<>>, t).name) = {docx.main}
         /\ TypesSaid(docx.main, {Elements[i] : i \in {j \in Declared : Elements[j].ns = "types"}})
               = {"document"}
         /\ docx.state = "completed" => TypesSaid(docx.main, Range(Elements)) = {"document"}
    /\ pc = "done" /\ odt.format = "odt" =>
         LET entries(path) == {i \in DOMAIN Rows : IsEntry(i) /\ Rows[i].parent = 1
                                                     /\ Rows[i].path = path}
             here == entries(Path(ContentName, FALSE))
         IN  /\ {Rows[i].type : i \in entries(RootPath)} = {"odt"}
             /\ {Rows[i].type : i \in here} = {"text/xml"}
             /\ \A i \in here, j \in DOMAIN Rows : Rows[j].parent = i => Rows[j].name # "encryption-data"
             /\ At(ContentName) = {odt.main}
             /\ \A i \in here : Rows[i].size \in {None, package[odt.main].size}
             /\ odt.state = "completed" =>
                  /\ \A p \in Files : Exempt(package[p].name) \/
                        Cardinality({i \in Members : Rows[i].path = Path(package[p].name, FALSE)}) = 1
                  /\ \A i \in Members : Rows[i].path.slash \/ Present(Rows[i].path.segments)
=============================================================================
