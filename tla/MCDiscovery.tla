---------------------------- MODULE MCDiscovery ----------------------------
(***************************************************************************)
(* Small instances of Discovery: a root and two directories, and the trees *)
(* they may form with files, links and special entries.                    *)
(***************************************************************************)
EXTENDS Discovery

CONSTANTS d1, d2

Tree(root, first, second) ==
  LET Filled(pairs) == [n \in Names |->
        IF \E p \in pairs : p[1] = n THEN (CHOOSE p \in pairs : p[1] = n)[2] ELSE "absent"]
  IN [d \in Dirs |-> IF d = Root THEN Filled(root)
                     ELSE IF d = d1 THEN Filled(first) ELSE Filled(second)]

\* Siblings; a directory in a directory; a directory beside a link and one outside the
\* root; a special entry and an invalid name.
TreeSet ==
  { Tree({<<1, d1>>, <<2, d2>>}, {<<1, "file">>}, {<<2, "link">>}),
    Tree({<<1, d1>>, <<2, "file">>}, {<<1, d2>>, <<2, "file">>}, {<<1, "file">>}),
    Tree({<<1, d1>>, <<2, "link">>}, {<<1, "file">>, <<2, "file">>}, {<<1, "file">>}),
    Tree({<<1, "special">>, <<2, d1>>}, {<<3, "file">>}, {}) }
MCWorlds == TreeSet
===========================================================================
