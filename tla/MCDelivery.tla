---------------------------- MODULE MCDelivery ----------------------------
(* A file system of six directories: the source with a directory in it,    *)
(* and a chain of two beside it, in which the source may be mounted a      *)
(* second time; the output's parent may be named directly or through a     *)
(* link, is up to three directories deep, and may be moved into the source. *)
EXTENDS Delivery

CONSTANTS root, src, inner, home, nested, deep, none

MCDirs == {root, src, inner, home, nested, deep}
MCNames == {"s", "a", "b"}
MCLinks == {[to |-> <<"s", "a">>], [to |-> <<"s", "b">>]}
Empty == [n \in MCNames |-> none]

MCStanding == [d \in MCDirs |->
    IF d = root THEN {src, home} ELSE IF d = src THEN {inner, nested, deep}
    ELSE IF d = inner THEN {deep} ELSE IF d = home THEN {nested, src, inner}
    ELSE IF d = nested THEN {deep, src} ELSE {}]

Plainly == [d \in MCDirs |->
    IF d = root THEN [Empty EXCEPT !["s"] = src, !["a"] = home]
    ELSE IF d = src THEN [Empty EXCEPT !["b"] = inner]
    ELSE IF d = home THEN [Empty EXCEPT !["b"] = nested]
    ELSE IF d = nested THEN [Empty EXCEPT !["b"] = deep] ELSE Empty]
ByLink == [Plainly EXCEPT ![home]["a"] = [to |-> <<"s", "b">>]]
Mounted == [Plainly EXCEPT ![home]["b"] = src, ![nested]["b"] = [to |-> <<"s", "b">>]]
\* One exchange of names moves the parent into the source and leaves a link to it.
Lured == [Plainly EXCEPT ![src]["a"] = [to |-> <<"s", "a">>]]
MCWorlds == {Plainly, ByLink, Mounted, Lured}

MCSourcePath == <<"s">>
MCOutputDirs == {<<"a", "b">>, <<"a", "a">>, <<"a", "b", "b">>}

Base == [command |-> "audit", directory |-> FALSE, json |-> FALSE, jsonl |-> FALSE,
         recursive |-> FALSE, jsonArray |-> FALSE, output |-> FALSE, reveal |-> FALSE,
         verbose |-> TRUE]
MCRequests == {
    Base, [Base EXCEPT !.output = TRUE], [Base EXCEPT !.reveal = TRUE],
    [Base EXCEPT !.output = TRUE, !.reveal = TRUE],
    [Base EXCEPT !.command = "unicode", !.jsonl = TRUE],
    [Base EXCEPT !.command = "unicode", !.directory = TRUE],
    [Base EXCEPT !.directory = TRUE], [Base EXCEPT !.directory = TRUE, !.reveal = TRUE],
    [Base EXCEPT !.directory = TRUE, !.output = TRUE, !.jsonArray = TRUE],
    [Base EXCEPT !.directory = TRUE, !.output = TRUE, !.jsonl = TRUE, !.verbose = FALSE],
    [Base EXCEPT !.directory = TRUE, !.json = TRUE, !.jsonl = TRUE]}
=============================================================================
