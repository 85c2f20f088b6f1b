----------------------------- MODULE PartNames -----------------------------
(***************************************************************************)
(* Names of package parts and the references to them: fold, owner and      *)
(* ResolveInternalTarget of opcrels/relationships.go.  A name is a         *)
(* sequence of segments, a segment the sequence of its pieces between      *)
(* dots: "_rels/.rels" is << <<"_rels">>, <<"", "rels">> >>.               *)
(***************************************************************************)
EXTENDS Naturals, Sequences, SequencesExt

CONSTANTS
    None,
    Lower,      \* the lower case of the pieces that have upper-case letters
    Odd         \* pieces with characters that no internal target may have

\* None is no format, and none of the codes that say why something does not stand.
ASSUME NoneAssumption ==
    None \notin {"docx", "odt", "xml.resource_limit", "opc.resource_limit",
                 "opc.relationship_root_invalid", "opc.relationship_structure_unknown",
                 "opc.relationship_unresolved", "odt.manifest_structure_unknown",
                 "odt.manifest_entry_invalid", "odt.manifest_entry_forbidden"}

Fold(name) ==
    LET Small(piece) == IF piece \in DOMAIN Lower THEN Lower[piece] ELSE piece
    IN  [i \in DOMAIN name |-> [j \in DOMAIN name[i] |-> Small(name[i][j])]]
Same(a, b) == Fold(a) = Fold(b)

Empty == <<"">>
Dot == <<"", "">>
DotDot == <<"", "", "">>

RootRels == << <<"_rels">>, <<"", "rels">> >>
IsRels(name) == LET s == Last(Fold(name)) IN Len(s) > 1 /\ Last(s) = "rels"

\* Whose relationships a part named thus holds; the package's own are <<>>'s.
HasOwner(name) ==
    \/ Same(name, RootRels)
    \/ /\ Len(name) > 1 /\ Fold(name)[Len(name) - 1] = <<"_rels">>
       /\ IsRels(name) /\ Front(Last(name)) # Empty
OwnerOf(name) ==
    IF Same(name, RootRels) THEN <<>>
    ELSE Append(Front(Front(name)), Front(Last(name)))

----------------------------------------------------------------------------
(* A target is relative to the part it is read in, or absolute.            *)
Target(absolute, segments) == [absolute |-> absolute, segments |-> segments]
NoTarget == Target(FALSE, <<Empty>>)

Step(walk, s) ==
    CASE walk.code # None -> walk
      [] walk.code = None /\ s = Empty -> [walk EXCEPT !.code = "opc.target_syntax_unsupported"]
      [] walk.code = None /\ s = Dot -> walk
      [] walk.code = None /\ s = DotDot ->
            IF walk.name = <<>> THEN [walk EXCEPT !.code = "opc.target_outside_package"]
            ELSE [walk EXCEPT !.name = Front(@)]
      [] OTHER -> [walk EXCEPT !.name = Append(@, s)]

ResolveInternalTarget(source, t) ==
    LET from == IF t.absolute \/ source = <<>> THEN <<>> ELSE Front(source)
        end == FoldLeft(Step, [name |-> from, code |-> None], t.segments)
        unsupported == [name |-> <<>>, code |-> "opc.target_syntax_unsupported"]
    IN  CASE t = NoTarget -> [name |-> <<>>, code |-> "opc.target_empty"]
          [] t # NoTarget /\ Odd \cap UNION {Range(s) : s \in Range(t.segments)} # {} -> unsupported
          [] OTHER -> IF end.code = None /\ (end.name = <<>> \/ Last(t.segments) \in {Dot, DotDot})
                      THEN unsupported ELSE end
=============================================================================
