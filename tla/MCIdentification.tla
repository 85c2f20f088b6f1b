-------------------------- MODULE MCIdentification --------------------------
(* Packages that are nearly a Word document or nearly an OpenDocument text *)
(* and packages with more relationship parts than the budgets last for.    *)
EXTENDS Identification

MCLower == [x \in {"WORD", "RELS", "Document"} |->
              CASE x = "WORD" -> "word" [] x = "RELS" -> "rels" [] OTHER -> "document"]

Doc(error, tokens, values, elements, texts) ==
    [error |-> error, tokens |-> tokens, values |-> values, elements |-> elements, texts |-> texts]
Xml(elements) == Doc(None, 1, 1, elements, {})
NoXml == Doc("xml.invalid", 1, 1, <<>>, {})
Part(name, xml) == [name |-> name, directory |-> FALSE, size |-> 1, xml |-> xml,
                    text |-> None, leads |-> FALSE]
El(parent, ns, name, other) == [parent |-> parent, ns |-> ns, name |-> name, other |-> other]
\* Up to n elements below a root, each after its parent.
UpTo(n, S) == UNION {[1..k -> S] : k \in 0..n}
Below(n, S) == {es \in UpTo(n, S) : \A k \in DOMAIN es : es[k].parent <= k}

DocumentName == << <<"word">>, <<"document", "xml">> >>
Shouted == << <<"WORD">>, <<"Document", "xml">> >>
DocumentRels == << <<"word">>, <<"_rels">>, <<"document", "xml", "rels">> >>

----------------------------------------------------------------------------
Rel(id, type, target, mode, other) ==
    El(1, "relationships", "Relationship", other)
    @@ [id |-> id, type |-> type, target |-> target, mode |-> mode]
RelsXml(rs) == Xml(<<El(0, "relationships", "Relationships", FALSE)>> \o rs)

ToMain == Rel("r1", "transitional", Target(FALSE, DocumentName), None, FALSE)
RelChoices ==
    {ToMain, [ToMain EXCEPT !.id = "r2", !.target = Target(TRUE, Shouted)],
     [ToMain EXCEPT !.type = "strict"], [ToMain EXCEPT !.id = None],
     [ToMain EXCEPT !.id = "r2", !.type = "image", !.mode = "External"],
     [ToMain EXCEPT !.id = "r2", !.mode = "Elsewhere"], [ToMain EXCEPT !.other = TRUE],
     [ToMain EXCEPT !.parent = 2], [ToMain EXCEPT !.name = "Other"]}
    \cup {[ToMain EXCEPT !.id = "r3", !.type = "image", !.target = t] :
            t \in {NoTarget, Target(FALSE, <<DotDot, <<"x">> >>),
                   Target(FALSE, <<Dot, <<"word">>, DotDot, <<"word">>, <<"document", "xml">> >>),
                   Target(FALSE, << <<"word">>, DotDot>>), Target(FALSE, << <<"no">> >>),
                   Target(FALSE, << <<"a b">> >>), Target(TRUE, << <<"word">>, Empty>>)}}

Decl(name, key, type) == El(1, "types", name, FALSE) @@ [key |-> key, type |-> type]
TypesXml(ds) == Xml(<<El(0, "types", "Types", FALSE)>> \o ds)
RelsType == Decl("Default", "rels", "relationships")
MainType == Decl("Override", Target(TRUE, DocumentName), "document")
DeclChoices ==
    {MainType, [MainType EXCEPT !.type = "other"],
     Decl("Override", Target(TRUE, Shouted), "document"),
     Decl("Override", Target(FALSE, DocumentName), "other"),
     Decl("Override", Target(TRUE, << <<"no">> >>), "malformed"),
     Decl("Default", "xml", "document"), Decl("Default", "RELS", "other"),
     Decl("Default", "", "document"), Decl("Default", "a b", "malformed"),
     Decl("Other", "xml", "document"), [MainType EXCEPT !.other = TRUE],
     [MainType EXCEPT !.type = None], [MainType EXCEPT !.parent = 2]}

WordXml(ns, bodies) ==
    Xml(<<El(0, ns, "document", FALSE)>> \o [k \in 1..bodies |-> El(1, ns, "body", FALSE)])
Words == {WordXml("transitional", 1), WordXml("strict", 1), WordXml("transitional", 2), NoXml}

Twins == {Part(Shouted, NoXml), Part(<< <<"_rels">>, <<"", "RELS">> >>, RelsXml(<<>>)),
          [Part(<< <<"word">> >>, NoXml) EXCEPT !.directory = TRUE],
          Part(<< <<"no">>, <<"", "rels">> >>, NoXml)}
WordPackage(ds, rs, word, own, extra) ==
    <<Part(TypesName, TypesXml(ds)), Part(RootRels, RelsXml(rs))>> \o extra
    \o <<Part(DocumentRels, RelsXml(own)), Part(DocumentName, word)>>

WordOffered(p) ==
    \/ \E ds \in Below(2, DeclChoices), rs \in {<<>>, <<ToMain>>}, first \in BOOLEAN :
         p = WordPackage(IF first THEN <<RelsType>> \o ds ELSE Append(ds, RelsType), rs,
                         WordXml("transitional", 1), <<>>, <<>>)
    \/ \E d \in DeclChoices :
         p = WordPackage(<<RelsType, MainType, Decl("Default", "bin", "other"), [d EXCEPT !.parent = 4]>>,
                         <<ToMain>>, WordXml("transitional", 1), <<>>, <<>>)
    \/ \E rs \in Below(2, RelChoices), own \in Below(1, RelChoices), word \in Words, t \in UpTo(1, Twins) :
         /\ rs = <<ToMain>> \/ (t = <<>> /\ (own = <<>> \/ word = WordXml("strict", 1)))
         /\ p = WordPackage(<<RelsType, MainType>>, rs, word, own, t)
    \/ \E x \in {NoXml, TypesXml(<<RelsType, MainType, MainType, MainType>>), WordXml("types", 1),
                 Doc(None, 5, 1, TypesXml(<<>>).elements, {}),
                 Doc(None, 1, 1, TypesXml(<<RelsType, MainType>>).elements, {1})},
         n \in {TypesName, << <<"[Content_Types]", "XML">> >>, << <<"none">> >>} :
         p = <<Part(n, x), Part(RootRels, RelsXml(<<ToMain>>))>>

----------------------------------------------------------------------------
Entry(path, type, version, size) == El(1, "manifest", "file-entry", FALSE)
    @@ [path |-> path, type |-> type, version |-> version, size |-> size]
Root == Entry(RootPath, "odt", None, None)
Contents == Entry(Path(ContentName, FALSE), "text/xml", None, None)
Cipher(parent) == El(parent, "manifest", "encryption-data", FALSE)
EntryChoices ==
    {Root, [Root EXCEPT !.type = "other"], [Root EXCEPT !.version = "1.3"], Contents,
     [Contents EXCEPT !.size = 1], [Contents EXCEPT !.size = 2], [Contents EXCEPT !.type = None],
     [Contents EXCEPT !.other = TRUE], [Contents EXCEPT !.parent = 2], Cipher(2), Cipher(3),
     [Contents EXCEPT !.path = Path(<< <<"pictures">> >>, FALSE)],
     [Contents EXCEPT !.path = Path(<< <<"pictures">> >>, TRUE)],
     [Contents EXCEPT !.path = Path(<< <<"gone">> >>, TRUE)],
     [Contents EXCEPT !.path = Path(Mimetype, FALSE)],
     [Contents EXCEPT !.path = Path(<<Dot>>, FALSE)]}
ManifestXml(version, rows, texts) ==
    Doc(None, 1, 1, <<El(0, "manifest", "manifest", FALSE) @@ [version |-> version]>> \o rows, texts)
OfficeXml(version, bodies) ==
    Xml(<<El(0, "office", "document-content", FALSE) @@ [version |-> version]>> \o bodies)
Body(b) == <<El(1, "office", "body", FALSE)>> \o b
Written == OfficeXml("1.2", Body(<<El(2, "office", "text", FALSE)>>))

OdtPackage(text, leads, manifest, content, extra) ==
    <<Part(ManifestName, manifest), Part(ContentName, content),
      [Part(Mimetype, NoXml) EXCEPT !.text = text, !.leads = leads]>> \o extra

OdtOffered(p) ==
    \/ \E rows \in Below(3, EntryChoices), texts \in {{}, {1}, {3}} :
         p = OdtPackage("odt", TRUE, ManifestXml("1.2", rows, texts), Written, <<>>)
    \/ \E rows \in {<<Root, Contents, e>> : e \in EntryChoices}, version \in {None, "1.2", "1.3"},
          content \in {Written, NoXml, OfficeXml("1.3", <<>>), OfficeXml("1.2", Body(<<>>)),
                       WordXml("office", 1)},
          extra \in {<<>>, <<Part(<< <<"pictures">>, <<"x">> >>, NoXml)>>,
                     <<[Part(<< <<"pictures">> >>, NoXml) EXCEPT !.directory = TRUE]>>} :
         p = OdtPackage("odt", TRUE, ManifestXml(version, rows, {}), content, extra)
    \/ \E text \in {"odt", "other"}, leads \in BOOLEAN, x \in {NoXml, Written} :
         p = OdtPackage(text, leads, x, Written, <<>>)
    \/ \E i \in 1..3 :
         p = RemoveAt(OdtPackage("odt", TRUE, ManifestXml("1.2", <<Root, Contents>>, {}), Written, <<>>), i)
    \/ p = OdtPackage("odt", TRUE, ManifestXml("1.2", [i \in 1..5 |-> Root], {}), Written, <<>>)

----------------------------------------------------------------------------
RelsNames == << RootRels, << <<"_rels">>, <<"a", "rels">> >>, << <<"_rels">>, <<"b", "rels">> >>,
                << <<"_rels">>, <<"a b", "rels">> >> >>
Image(n) == Rel(n, "image", NoTarget, "External", FALSE)
CostlyPart(n, error, tokens, values, size, count) ==
    [Part(n, Doc(error, tokens, values,
                 RelsXml([k \in 1..count |-> [Image(k) EXCEPT !.target = Target(FALSE, << <<"x">> >>)]]).elements, {}))
     EXCEPT !.size = size]
BudgetOffered(p) ==
    \E es \in [1..4 -> {None, "xml.invalid"}], ts \in [1..4 -> {1, 3, 5}], v \in {1, 5},
       size \in {1, 3}, count \in 0..2 :
       p = [i \in 1..4 |-> CostlyPart(RelsNames[i], es[i], ts[i], v, size, count)]
           \o <<Part(<< <<"a">> >>, NoXml), Part(<< <<"b">> >>, NoXml)>>

MCOffered(p) == WordOffered(p) \/ OdtOffered(p) \/ BudgetOffered(p)
=============================================================================
