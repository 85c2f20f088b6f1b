---------------------------- MODULE OdtIdentify ----------------------------
(***************************************************************************)
(* Whether a package is an OpenDocument text: Inspect, readManifest and    *)
(* membership of odtidentify/identify.go.  Names are compared exactly.     *)
(*                                                                         *)
(* A manifest path is [segments, slash]: the package's own is "/", and a   *)
(* directory's ends in a slash.  A part may be the text of a media type,   *)
(* and `leads` when it is stored, first in the file and without extra      *)
(* fields.                                                                 *)
(***************************************************************************)
EXTENDS DocxIdentify

CONSTANT MaxManifest

Path(segments, slash) == [segments |-> segments, slash |-> slash]
RootPath == Path(<<>>, TRUE)
NoPath == Path(<<>>, FALSE)
ValidPath(p) ==
    \/ p = RootPath
    \/ p.segments # <<>> /\ \A s \in Range(p.segments) : s \notin {Empty, Dot, DotDot}

Mimetype == << <<"mimetype">> >>
ManifestName == << <<"META-INF">>, <<"manifest", "xml">> >>
ContentName == << <<"content", "xml">> >>

At(name) == {i \in Files : package[i].name = name}
The(name) == package[CHOOSE i \in At(name) : TRUE]
Present(name) == At(name) # {}

Rows == The(ManifestName).xml.elements

----------------------------------------------------------------------------
(* readManifest.                                                           *)
IsEntry(i) == Rows[i].ns = "manifest" /\ Rows[i].name = "file-entry"
Encryption(i) ==
    /\ Rows[i].ns = "manifest" /\ Rows[i].name = "encryption-data"
    /\ Rows[i].parent > 1 /\ Rows[Rows[i].parent].parent = 1 /\ IsEntry(Rows[i].parent)
\* What an encryption description contains is not looked into.
Opaque[i \in Nat] ==
    i > 1 /\ i <= Len(Rows) /\ (Encryption(i) \/ Opaque[Rows[i].parent])

Listed == {i \in DOMAIN Rows : Rows[i].parent = 1}
Encrypted(i) == \E j \in DOMAIN Rows : Rows[j].parent = i /\ Encryption(j)
Unread(i) ==
    \/ i \in The(ManifestName).xml.texts /\ ~Opaque[i]
    \/ i # 1 /\ \E j \in DOMAIN Rows : Rows[j].parent = i /\ ~Opaque[j]

EntryFault(i) ==
    Unless(IsEntry(i) /\ ~Rows[i].other /\ ~Unread(i), "odt.manifest_structure_unknown",
    Unless(ValidPath(Rows[i].path) /\ Rows[i].type # None, "odt.manifest_entry_invalid",
    Unless(Rows[i].path \notin {Path(Mimetype, FALSE), Path(ManifestName, FALSE)},
           "odt.manifest_entry_forbidden", None)))

Rivals(i) == {j \in Listed \ {i} : IsEntry(j) /\ Rows[j].path = Rows[i].path}
Contested(i) == IsEntry(i) /\ Rows[i].path # NoPath /\ Rivals(i) # {}

FaultsAmong(is) == {Issue(EntryFault(i), i) : i \in {j \in is : EntryFault(j) # None}}
FirstListed == {i \in Listed : Cardinality({j \in Listed : j < i}) < MaxManifest}
HeadIssues ==
    (IF Rows[1].version \in {"1.2", "1.3"} THEN {}
     ELSE {Issue("odt.manifest_version_unsupported", 1)})
    \cup (IF Rows[1].other \/ Unread(1) THEN {Issue("odt.manifest_structure_unknown", 1)} ELSE {})
ManifestIssues ==
    HeadIssues \cup FaultsAmong(Listed)
    \cup {Issue("odt.manifest_path_ambiguous", i) : i \in {j \in Listed : Contested(j)}}

----------------------------------------------------------------------------
(* membership: what an entry stands for.                                   *)
Declares(i) == IsEntry(i) /\ EntryFault(i) = None /\ ~Contested(i)
Stored(i) == ~Rows[i].path.slash /\ Present(Rows[i].path.segments)
Under(path) == {p \in DOMAIN package :
    \/ IsStrictPrefix(path.segments, package[p].name)
    \/ package[p].directory /\ package[p].name = path.segments}

Reach(i) ==
    IF Rows[i].path = RootPath THEN "package"
    ELSE IF Stored(i) THEN "resolved"
    ELSE IF Rows[i].path.slash /\ Under(Rows[i].path) # {} THEN "directory" ELSE "missing"
SizeAgrees(i) ==
    Rows[i].size \in {None, The(Rows[i].path.segments).size}

EncryptedState(i) ==
    IF Reach(i) = "resolved" THEN "encrypted"
    ELSE IF Reach(i) = "missing" THEN "missing" ELSE "unsupported"
EntryState(i) ==
    Unless(~Contested(i), "ambiguous",
    Unless(Declares(i), "rejected",
    Unless(~Encrypted(i), EncryptedState(i),
    Unless(Reach(i) = "resolved" => SizeAgrees(i), "unresolved", Reach(i)))))

Exempt(name) == name = Mimetype \/ Head(name) = <<"META-INF">>
Members == {i \in Listed : IsEntry(i)}
Unlisted == {p \in Files : /\ ~\E i \in Members : Rows[i].path = Path(package[p].name, FALSE)
                           /\ ~Exempt(package[p].name)}

\* An entry that is not there as it says is an issue, named for its state.
MembershipIssues ==
    {Issue(EntryState(i), i) : i \in {j \in Members :
        Declares(j) /\ EntryState(j) \notin {"package", "resolved", "directory"}}}
    \cup {Issue("odt.part_unlisted", p) : p \in Unlisted}

----------------------------------------------------------------------------
(* Inspect.                                                                *)
EntriesFor(path) == {i \in Listed : Declares(i) /\ Rows[i].path = path}

TextBody(doc) ==
    LET children(i) == {j \in DOMAIN doc.elements : doc.elements[j].parent = i}
        bodies == {j \in children(1) : doc.elements[j].ns = "office" /\ doc.elements[j].name = "body"}
    IN  \E b \in bodies : /\ bodies = {b} /\ Cardinality(children(b)) = 1
                          /\ \A t \in children(b) : /\ doc.elements[t].ns = "office"
                                                    /\ doc.elements[t].name = "text"

Content(issues) ==
    LET version == Rows[1].version
        content == The(ContentName)
    IN  Unless(ParseCode(content.xml, Limits) = None, Stop(ParseCode(content.xml, Limits), issues),
        Unless(/\ content.xml.elements[1].ns = "office"
               /\ content.xml.elements[1].name = "document-content",
               Stop("odt.content_root_mismatch", issues),
        Unless(version = None \/ content.xml.elements[1].version = version,
               Stop("odt.content_version_mismatch", issues),
        Unless(TextBody(content.xml), Stop("odt.text_body_ambiguous", issues),
        Answer("odt", CHOOSE i \in At(ContentName) : TRUE, issues)))))

Manifest(issues) ==
    LET roots == EntriesFor(RootPath)
        contents == EntriesFor(Path(ContentName, FALSE))
        root == CHOOSE i \in roots : TRUE
        content == CHOOSE i \in contents : TRUE
    IN  Unless(roots # {}, Stop("odt.root_entry_missing", issues),
        Unless(EntryState(root) = "package" /\ Rows[root].type = "odt",
               Stop("odt.root_identity_mismatch", issues),
        Unless(Rows[root].version \in {None, Rows[1].version} \/ Rows[1].version = None,
               Stop("odt.root_version_mismatch", issues),
        Unless(contents # {}, Stop("odt.content_entry_missing", issues),
        Unless(~Encrypted(content), Stop("odt.content_encrypted", issues),
        Unless(EntryState(content) = "resolved" /\ Rows[content].type = "text/xml",
               Stop("odt.content_identity_unavailable", issues),
        Content(issues)))))))

Odt ==
    IF ~Present(Mimetype) /\ ~Present(ManifestName)
    THEN [Answer(None, None, {}) EXCEPT !.state = "not_applicable"]
    ELSE Unless(Present(Mimetype), Stop("odt.mimetype_missing", {}),
         Unless(The(Mimetype).text = "odt", Stop("odt.mimetype_unsupported", {}),
         Unless(The(Mimetype).leads, Stop("odt.mimetype_layout_invalid", {}),
         Unless(Present(ManifestName), Stop("odt.manifest_missing", {}),
         Unless(ParseCode(The(ManifestName).xml, Limits) = None,
                Stop(ParseCode(The(ManifestName).xml, Limits), {}),
         Unless(Rows[1].ns = "manifest" /\ Rows[1].name = "manifest",
                Stop("odt.manifest_root_mismatch", {}),
         Unless(Cardinality(Listed) <= MaxManifest,
                Stop("odt.manifest_entry_limit", HeadIssues \cup FaultsAmong(FirstListed)),
         Manifest(ManifestIssues \cup MembershipIssues))))))))
=============================================================================
