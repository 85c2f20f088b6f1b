----------------------------- MODULE PathPlan -----------------------------
(***************************************************************************)
(* The preflight of a reveal tree: NewTree of publication/tree.go.  Before *)
(* anything is written, every path that any outcome may need is planned,   *)
(* and a plan is refused in which two of them would be one on a file       *)
(* system that folds case or normalizes, or one would be both a file and a *)
(* directory.  What it accepts is what Tree assumes of a plan.             *)
(*                                                                         *)
(* A path is a sequence of components and a component the sequence of its  *)
(* pieces between dots; a length is a number of pieces.                    *)
(***************************************************************************)
EXTENDS Naturals, Sequences, SequencesExt, FiniteSetsExt, Plans

CONSTANTS
    None,
    Offered,        \* the lists of sources a caller may pass
    Folded,         \* the pieces that case folding or normalization changes
    Unportable,     \* pieces with characters that some file system refuses
    Reserved,       \* stems that name a device somewhere
    MaxSources, MaxNodes, MaxPath, MaxTotal

ASSUME PlanAssumptions ==
    /\ Offered \subseteq Seq([relative : Seq(Seq(STRING)), candidate : BOOLEAN])
    /\ None \notin {"invalid", "limit", "unportable", "collision", "error", "planned"}
    /\ MaxNodes \in Nat

VARIABLES sources, rootEntries, turn, kind, total, plan, files, dirs, outcome
vars == <<sources, rootEntries, turn, kind, total, plan, files, dirs, outcome>>

Kinds == <<"report", "revealed", "mapping", "faithful", "display">>
Directory == [report |-> "reports", revealed |-> "revealed", mapping |-> "mappings",
              faithful |-> "diffs", display |-> "display-diffs"]
Suffix == [report |-> <<"json">>, revealed |-> <<>>, mapping |-> <<"json">>,
           faithful |-> <<"diff">>, display |-> <<"diff">>]

PathFor(relative, k) ==
    <<<<Directory[k]>>>> \o Front(relative) \o <<Last(relative) \o Suffix[k]>>

Canonical(piece) == IF piece \in DOMAIN Folded THEN Folded[piece] ELSE piece
Key(path) == [i \in DOMAIN path |-> [j \in DOMAIN path[i] |-> Canonical(path[i][j])]]
KeysOf(names) == {Key(n) : n \in names}

Length(path) == FoldLeft(LAMBDA n, c : n + Len(c), 0, path)
\* The directories above a path, the innermost first.
Parents(path) == [i \in 1..(Len(path) - 1) |-> SubSeq(path, 1, Len(path) - i)]

ValidPath(path) == path # <<>> /\ \A c \in Range(path) : c \notin {<<"">>, <<"", "">>, <<"", "", "">>}
Portable(c) ==
    /\ Last(c) # "" /\ Range(c) \cap Unportable = {}
    /\ Canonical(Head(c)) \notin Reserved

----------------------------------------------------------------------------
Init ==
    /\ sources \in Offered
    /\ rootEntries \in BOOLEAN      \* does the output root hold anything?
    /\ turn = 1 /\ kind = 0 /\ total = 0 /\ plan = {}
    /\ files = {} /\ dirs = {} /\ outcome = None

Source == sources[turn]
Return(o) == outcome' = o /\ UNCHANGED <<sources, rootEntries, turn, kind, total, plan, files, dirs>>

Limits ==
    /\ outcome = None /\ turn = 1 /\ kind = 0
    /\ MaxNodes < 2 \/ Len(sources) > MaxSources
    /\ Return("limit")

SourceFault(relative) ==
    IF ~ValidPath(relative) THEN "invalid"
    ELSE IF Length(relative) > MaxPath \/ Length(relative) > MaxTotal - total THEN "limit"
    ELSE IF relative \in plan THEN "collision" ELSE None

Admit ==
    /\ outcome = None /\ turn <= Len(sources) /\ kind = 0
    /\ MaxNodes >= 2 /\ Len(sources) <= MaxSources
    /\ IF SourceFault(Source.relative) # None THEN Return(SourceFault(Source.relative))
       ELSE /\ total' = total + Length(Source.relative)
            /\ plan' = plan \cup {Source.relative}
            /\ IF Source.candidate THEN kind' = 1 /\ UNCHANGED turn
               ELSE turn' = turn + 1 /\ UNCHANGED kind
            /\ UNCHANGED <<sources, rootEntries, files, dirs, outcome>>

\* Mutant of FileFits: a file may be planned where a directory is.
FileFitsAmongFiles(name) == Key(name) \notin KeysOf(files)
FileFits(name) == Key(name) \notin KeysOf(files) \cup KeysOf(dirs)

DirFits(d, fs) ==
    /\ Key(d) \notin KeysOf(fs)
    /\ \A e \in dirs : Key(e) = Key(d) => e = d

PathFault(name) ==
    LET fs == files \cup {name}
        ds == dirs \cup Range(Parents(name))
    IN  IF Length(name) > MaxPath THEN "limit"
        ELSE IF ~\A c \in Range(name) : Portable(c) THEN "unportable"
        ELSE IF ~FileFits(name) \/ ~\A d \in Range(Parents(name)) : DirFits(d, fs) THEN "collision"
        ELSE IF Cardinality(fs) + Cardinality(ds) + 2 > MaxNodes THEN "limit" ELSE None

Place ==
    /\ outcome = None /\ kind > 0
    /\ LET name == PathFor(Source.relative, Kinds[kind]) IN
          IF PathFault(name) # None THEN Return(PathFault(name))
          ELSE /\ files' = files \cup {name}
               /\ dirs' = dirs \cup Range(Parents(name))
               /\ IF kind < Len(Kinds) THEN kind' = kind + 1 /\ UNCHANGED turn
                  ELSE kind' = 0 /\ turn' = turn + 1
               /\ UNCHANGED <<sources, rootEntries, total, plan, outcome>>

\* The output root is read last; it can fail, and must hold nothing.
OpenRoot ==
    /\ outcome = None /\ turn > Len(sources)
    /\ MaxNodes >= 2 /\ Len(sources) <= MaxSources
    /\ \/ Return("error")
       \/ Return(IF rootEntries THEN "collision" ELSE "planned")

Next == Limits \/ Admit \/ Place \/ OpenRoot
Spec == Init /\ [][Next]_vars

----------------------------------------------------------------------------
CandidatePaths == {s.relative : s \in {x \in Range(sources) : x.candidate}}
PathOf == [r \in CandidatePaths |-> [k \in Range(Kinds) |-> PathFor(r, k)]]
Needed == Artifacts(CandidatePaths, Range(Kinds), PathOf)
Above == UNION {Range(Parents(n)) : n \in Needed}
Closing == {<<<<"corpus", "jsonl">>>>, <<<<"manifest", "json">>>>}
AboveOf == [n \in Needed \cup Closing \cup Above |-> Range(Parents(n))]

(* Whatever the order of the sources, a plan is accepted only if writing   *)
(* all of it cannot make two of its nodes one: no source is planned twice  *)
(* and every one has its own paths, no file shares its key with any other  *)
(* file or any directory, no two spellings of a directory have one key,    *)
(* and all of it, with the two closing files, is within the node limit     *)
(* (NewTree).                                                              *)
PlansApart ==
    outcome = "planned" =>
        /\ Cardinality(plan) = Len(sources)
        /\ SoundPlan(plan, CandidatePaths, Range(Kinds), PathOf, Closing, Above, AboveOf)
        /\ \A m, n \in Needed \cup Above : Key(m) = Key(n) => m = n
        /\ Cardinality(Needed \cup Above) + 2 <= MaxNodes
=============================================================================
