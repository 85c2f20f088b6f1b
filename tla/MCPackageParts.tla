-------------------------- MODULE MCPackageParts --------------------------
(* Files of up to three entries anywhere in a few positions, in which one  *)
(* entry's two records may disagree, or the entry may be one the reader    *)
(* does not take; and every place a descriptor's signature may stand.      *)
EXTENDS PackageParts

A == <<"a">>
B == <<"b">>
AB == <<"a", "b">>
Crc == 3

Placed == [name : {A, B, AB}, at : 0..3, compressed : 0..1, streamed : BOOLEAN]
Kinds == {"plain", "zeroed", "headless", "renamed", "resized", "longer", "unsupported",
          "invalid", "big", "directory", "fulldirectory"}

EntryOf(d, kind) ==
    LET folder == kind \in {"directory", "fulldirectory"}
        size == IF kind = "big" THEN 4 ELSE d.compressed
    IN  [name |-> d.name, directory |-> folder, at |-> d.at,
         compressed |-> d.compressed, size |-> size,
         crc |-> IF kind = "directory" THEN 0 ELSE Crc, streamed |-> d.streamed,
         valid |-> kind # "invalid", supported |-> kind # "unsupported",
         yields |-> IF kind = "longer" THEN size + 1 ELSE size]

HeaderOf(d, kind) ==
    LET e == EntryOf(d, kind) IN
    IF kind = "headless" THEN NoHeader
    ELSE [name |-> IF kind = "renamed" THEN <<"c">> ELSE e.name,
          directory |-> e.directory, streamed |-> e.streamed,
          crc |-> IF kind = "zeroed" THEN 0 ELSE e.crc,
          compressed |-> IF kind = "zeroed" THEN 0 ELSE e.compressed,
          size |-> CASE kind = "zeroed" -> 0 [] kind = "resized" -> e.size + 1
                     [] OTHER -> e.size]

\* The header at a position is that of the last of the entries placed there.
Packed(ds, ks, central, declared, marks) ==
    [central |-> central, declared |-> declared,
     entries |-> [i \in DOMAIN ds |-> EntryOf(ds[i], ks[i])],
     locals |-> [p \in 0..3 |->
        LET here == {i \in DOMAIN ds : ds[i].at = p} IN
        IF here = {} THEN NoHeader ELSE HeaderOf(ds[Max(here)], ks[Max(here)])],
     marks |-> marks]

Marks == {[p \in 0..6 |-> IF p = s THEN Signature ELSE c] : s \in 1..6, c \in {Crc}}
         \cup {[p \in 0..6 |-> 0]}

MCOffered(a) ==
    \/ \E central \in 0..2, n \in 0..5 : a = Packed(<<>>, <<>>, central, n, [p \in 0..6 |-> 0])
    \/ \E d, e \in Placed, k \in Kinds, central \in 2..6, m \in Marks, first \in BOOLEAN :
          /\ <<d.name, e.name>> \in {<<A, B>>, <<AB, A>>, <<A, AB>>, <<A, A>>}
          /\ 0 \in {d.at, e.at} /\ (k = "plain" => first)
          /\ a = Packed(<<d, e>>, IF first THEN <<k, "plain">> ELSE <<"plain", k>>, central, 2, m)
    \/ \E d, e, f \in {x \in Placed : ~x.streamed}, k \in {"plain", "directory"}, central \in 3..6 :
          /\ {d.name, e.name, f.name} = {A, B, AB} /\ 0 \in {d.at, e.at, f.at}
          /\ a = Packed(<<d, e, f>>, <<k, "plain", "plain">>, central, 3, [p \in 0..6 |-> 0])
=============================================================================
