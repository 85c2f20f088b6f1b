---------------------------- MODULE OutputPath ----------------------------
(***************************************************************************)
(* Where a command may put its output: corpusOutputParent of               *)
(* cli/directory.go, resolveOutput and the same walk in publishReveal of   *)
(* cli/reveal.go.  The output's ancestors are resolved, compared with the  *)
(* source directory by path and by identity, and then opened by path,      *)
(* while other programs move directories, also into the source, and put    *)
(* links in their place.                                                   *)
(*                                                                         *)
(* Directories are known by identity, as SameFile knows them.  entry[d][n] *)
(* is what stands in directory d under name n: a directory, a link to a    *)
(* path, or Nothing.  A link that leads to another link is left out.       *)
(***************************************************************************)
EXTENDS Naturals, FiniteSets, Sequences, SequencesExt

CONSTANTS
    Dirs, Names, Nothing,
    Top,            \* the file system's root directory
    Links,          \* links other programs may create: records [to |-> path]
    Standing,       \* Standing[d]: the directories that may come to stand in d
    Worlds,         \* the possible initial values of entry
    SourcePath,     \* the directory to be audited, as the user names it
    OutputDirs,     \* the directories the user may name for the output
    OutputName,     \* the output's own name
    MaxChanges      \* bound on other programs' changes during one walk

Nodes == Dirs \cup Links \cup {Nothing}
MayStand(d) == {Nothing} \cup Links \cup Standing[d]

ASSUME PathAssumptions ==
    /\ Top \in Dirs /\ Nothing \notin Dirs
    /\ Links \subseteq [to : Seq(Names)] /\ Links \cap (Dirs \cup {Nothing}) = {}
    /\ SourcePath \in Seq(Names) /\ OutputDirs \subseteq Seq(Names)
    /\ Worlds \subseteq [Dirs -> [Names -> Nodes]]
    /\ \A w \in Worlds, d \in Dirs, n \in Names : w[d][n] \in MayStand(d)
    /\ MaxChanges \in Nat

\* The file system's root stands in no directory.
ASSUME RootAssumption == Standing \in [Dirs -> SUBSET (Dirs \ {Top})]

VARIABLES
    entry, changes,     \* the name space, and how often it has changed during the walk
    single,             \* did every directory stand under one name as the walk began?
    pc,                 \* the place in the code, shared with the command
    guarded,            \* must the output be apart from the source?
    source,             \* the identity of the pinned source directory
    requested,          \* the directory part of the output the user named
    canon, place,       \* canonical paths of the source and of the output's parent
    ahead,              \* the ancestor to be looked at next
    expected, pinned,   \* identities: of the parent as looked at, as opened
    looked,             \* the changes there had been when the parent was looked at
    outside             \* history: what was neither the source nor in it at that look

pathVars == <<entry, changes, single, pc, guarded, source, requested, canon, place,
              ahead, expected, pinned, looked, outside>>
names == <<entry, changes, single>>
pins == <<expected, pinned, looked, outside>>

----------------------------------------------------------------------------
Child(d, n) == IF d \in Dirs THEN entry[d][n] ELSE Nothing
IsLink(x) == x \notin Dirs \cup {Nothing}

\* What stands along a path and at its end, no link followed.
PlainTo(p) ==
    LET at[i \in 0..Len(p)] == IF i = 0 THEN Top ELSE Child(at[i - 1], p[i]) IN at
Plain(p) == PlainTo(p)[Len(p)]

\* A path with its links followed, component by component: the directory it leads
\* to, and the path without links that leads there (filepath.EvalSymlinks).
Follow(r, n) ==
    LET x == Child(r.node, n)
    IN  IF IsLink(x) THEN [name |-> x.to, node |-> Plain(x.to)]
                     ELSE [name |-> Append(r.name, n), node |-> x]
ResolvedTo(p) ==
    LET to[i \in 0..Len(p)] ==
          IF i = 0 THEN [name |-> <<>>, node |-> Top] ELSE Follow(to[i - 1], p[i])
    IN  to
Opened(p) == ResolvedTo(p)[Len(p)].node
Canonical(p) == ResolvedTo(p)[Len(p)].name

\* What stands at a path, a last link not followed.
Lstat(p) == IF p = <<>> THEN Top ELSE Child(Opened(Front(p)), Last(p))

\* Does no directory stand under two names?
Single ==
    \A d, e \in Dirs, n, m \in Names :
        entry[d][n] \in Dirs /\ entry[d][n] = entry[e][m] => d = e /\ n = m

\* A directory and whatever lies in it now, at any depth.
Below(s) ==
    LET closed == {S \in SUBSET Dirs :
              s \in S /\ \A d \in S, n \in Names : entry[d][n] \in Dirs => entry[d][n] \in S}
    IN  {d \in Dirs : \A S \in closed : d \in S}

\* What lies in s stands nowhere else; s itself may be mounted twice.
Enclosed(s) ==
    LET below == Below(s)
    IN  \A d \in Dirs, n \in Names : entry[d][n] \in below \ {s} => d \in below

\* The two filepath.Rel comparisons: neither path lies in the other.
Apart(c, o) == ~IsPrefix(c, o) /\ ~IsPrefix(o, c)

----------------------------------------------------------------------------
PathInit ==
    /\ entry \in Worlds /\ changes = 0 /\ single = Single
    /\ requested \in OutputDirs
    /\ guarded = FALSE
    /\ source = Nothing /\ canon = <<>> /\ place = <<>> /\ ahead = <<>>
    /\ expected = Nothing /\ pinned = Nothing /\ looked = 0 /\ outside = {}

\* workspace.Open or Pin: the source directory is held by a handle.
PinSource ==
    /\ Opened(SourcePath) \in Dirs
    /\ source' = Opened(SourcePath)

ResolveSource ==
    /\ pc = "canonical" /\ Opened(SourcePath) \in Dirs
    /\ canon' = Canonical(SourcePath)
    /\ pc' = "output"
    /\ UNCHANGED <<names, guarded, source, requested, place, ahead, pins>>

ResolveOutput ==
    /\ pc = "output" /\ Opened(requested) \in Dirs
    /\ place' = Canonical(requested) /\ ahead' = place'
    /\ guarded => Apart(canon, Append(place', OutputName))
    /\ pc' = "ancestors"
    /\ UNCHANGED <<names, guarded, source, requested, canon, pins>>

\* Is the node at an ancestor's path acceptable?
Safe(x) == x \in Dirs /\ (guarded => x # source)

CheckAncestor ==
    /\ pc = "ancestors"
    /\ Safe(Lstat(ahead))
    /\ IF ahead = place
       THEN /\ expected' = Lstat(ahead) /\ looked' = changes
            /\ outside' = IF guarded THEN Dirs \ Below(source) ELSE {}
       ELSE UNCHANGED <<expected, looked, outside>>
    /\ IF ahead = <<>> THEN pc' = "open" /\ UNCHANGED ahead
                       ELSE ahead' = Front(ahead) /\ UNCHANGED pc
    /\ UNCHANGED <<names, guarded, source, requested, canon, place, pinned>>

\* OpenRoot follows the path once more; the handle's identity decides.
SameUnchecked(x) == x \in Dirs /\ (guarded => x # source)
Same(x) == x \in Dirs /\ x = expected /\ (guarded => x # source)
PinParent ==
    /\ pc = "open"
    /\ Same(Opened(place))
    /\ pinned' = Opened(place)
    /\ pc' = "pinned"
    /\ UNCHANGED <<names, guarded, source, requested, canon, place, ahead,
                   expected, looked, outside>>

\* A comparison that fails and a call that fails end in the same way.
Refuse ==
    /\ pc \in {"canonical", "output", "ancestors", "open"}
    /\ pc' = "refused"
    /\ UNCHANGED <<names, guarded, source, requested, canon, place, ahead, pins>>

\* Other programs change names while the walk lasts.  The walk of the reveal command
\* compares nothing with a source.
Restless ==
    /\ pc \in {"canonical", "output", "ancestors", "open"} /\ guarded
    /\ changes < MaxChanges
Change(entries) ==
    /\ entries # entry
    /\ entry' = entries /\ changes' = changes + 1
    /\ UNCHANGED <<pc, single, guarded, source, requested, canon, place, ahead, pins>>

\* What may be put where; no directory goes into itself or into what lies in it.
Fitting == {put \in Nodes \X Dirs :
                put[1] \in MayStand(put[2]) /\ (put[1] \in Dirs => put[2] \notin Below(put[1]))}

\* Something is created, removed, mounted or replaced under a name.
Replace(fitting) ==
    \E d \in Dirs, n \in Names, x \in Nodes :
        <<x, d>> \in fitting /\ Change([entry EXCEPT ![d][n] = x])

\* A directory or a link gets another name, in the same directory or elsewhere; what
\* stood under that name is replaced, or gets the old one (RENAME_EXCHANGE).
Rename(fitting) ==
    \E d, e \in Dirs, n, m \in Names :
        /\ <<d, n>> # <<e, m>>
        /\ entry[d][n] # Nothing /\ <<entry[d][n], e>> \in fitting
        /\ \E left \in {Nothing, entry[e][m]} :
              /\ <<left, d>> \in fitting
              /\ Change([entry EXCEPT ![d][n] = left, ![e][m] = entry[d][n]])

Others == Restless /\ LET fitting == Fitting IN Replace(fitting) \/ Rename(fitting)
PathSteps == ResolveSource \/ ResolveOutput \/ CheckAncestor \/ PinParent \/ Refuse

----------------------------------------------------------------------------
(* The output is not created in the source directory or below it, under    *)
(* whatever name or by whatever way either is reached (corpusOutputParent): *)
(* - the parent lies outside when it has been opened, if no name has       *)
(*   changed since it was looked at and nothing that lies in the source is *)
(*   mounted elsewhere as well;                                            *)
(* - whatever changes after that look, the directory opened is one that    *)
(*   was outside when the parent was looked at, if until then no name had  *)
(*   changed and no directory had a second one.                            *)
(* Nothing in the code sees to it if the parent, or a directory above it,  *)
(* is moved into the source after the look (directory.go:139-158), or if a *)
(* part of the source is mounted elsewhere: the comment of                 *)
(* openCorpusReport leaves these to whoever controls the names.            *)
OutputOutsideSource ==
    pc = "pinned" /\ guarded =>
        /\ changes = looked /\ Enclosed(source) => pinned \notin Below(source)
        /\ looked = 0 /\ single => pinned \in outside
=============================================================================
