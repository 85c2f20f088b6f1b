---------------------------- MODULE MCPathPlan ----------------------------
(* Every list of up to four sources whose names are each other's           *)
(* directories, suffixes and other spellings.                              *)
EXTENDS PathPlan

MCFolded == [x \in {"A", "con"} |-> IF x = "A" THEN "a" ELSE "CON"]

Named(pieces) == << pieces >>
Inside(d, pieces) == << d, pieces >>
Clashing == {Named(<<"a">>), Named(<<"b">>), Named(<<"A">>), Named(<<"a", "json">>), Inside(<<"a">>, <<"b">>),
             Inside(<<"A">>, <<"c">>), Inside(<<"a", "json">>, <<"b">>), Inside(<<"a", "diff">>, <<"A">>)}
Refused == {Named(<<"a", "">>), Named(<<"con", "b">>), Named(<<"a?">>), Named(<<"", "">>),
            Named(<<"a", "a", "a", "a", "a">>), Inside(<<"a", "a">>, <<"a", "a", "a">>)}
Source1(r, c) == [relative |-> r, candidate |-> c]

Lists(n) == [1..n -> {Source1(r, c) : r \in Clashing, c \in BOOLEAN}]
MCOffered ==
    UNION {Lists(n) : n \in 0..3}
    \cup {<<Source1(r, c), Source1(q, TRUE)>> : r \in Refused \cup Clashing, c \in BOOLEAN, q \in Refused}
    \cup {[i \in 1..4 |-> Source1(rs[i], i = 4)] : rs \in [1..4 -> Clashing]}
=============================================================================
