----------------------------- MODULE Discovery -----------------------------
(***************************************************************************)
(* The bounded directory walk of internal/workspace/discover.go, while     *)
(* other programs add, remove, replace and move the entries of the         *)
(* directories it reads.                                                   *)
(*                                                                         *)
(* A directory is known by its identity, not by its name: the walk holds   *)
(* handles.  Its stamp is the tick of its last change; a change in the     *)
(* very tick the walk has taken as its stamp leaves the stamp as it is.    *)
(* Comparing sizes finds some of these changes: such a change may be       *)
(* noticed.                                                                *)
(*                                                                         *)
(* Names are numbers, in their sorted order, each one byte long, so the    *)
(* ceiling on a single path is never met.                                  *)
(***************************************************************************)
EXTENDS Naturals, Sequences, FiniteSets

CONSTANTS
  Dirs,          \* identities of directories
  Root,          \* the pinned one
  Names,         \* the names an entry may have
  InvalidNames,  \* those that are not UTF-8
  Leaves,        \* kinds of the entries that are not directories
  Worlds,        \* the trees a walk may start in: what stands under each name
  MaxEntries,    \* options.MaxEntries, capped
  MaxDepth,      \* options.MaxDepth, capped
  PathBytes,     \* options.PathBytes, capped
  Batch,         \* names one ReadDir returns at most
  Edited,        \* bound: the names whose entries other programs change
  MaxChanges,    \* bound: changes by other programs
  MaxTicks,      \* bound: ticks of the file system's clock
  MaxFaults      \* bound: failing system calls

ASSUME DiscoveryAssumptions ==
  /\ Root \in Dirs
  /\ Names \subseteq Nat /\ IsFiniteSet(Names) /\ InvalidNames \subseteq Names /\ Edited \subseteq Names
  /\ Leaves \subseteq {"file", "link", "special"}
  /\ MaxEntries \in Nat \ {0} /\ MaxDepth \in Nat /\ PathBytes \in Nat \ {0}
  /\ Batch \in Nat \ {0}
  /\ MaxChanges \in Nat /\ MaxTicks \in Nat /\ MaxFaults \in Nat

Values == Leaves \cup Dirs \cup {"absent"}

\* The directories in or under x, and those that stand anywhere.
UnderIn(tree, x) ==
  LET near[k \in 0..Cardinality(Dirs)] ==
        IF k = 0 THEN {x}
        ELSE near[k - 1] \cup ({tree[d][n] : d \in near[k - 1], n \in Names} \cap Dirs)
  IN near[Cardinality(Dirs)]
AttachedIn(tree) == {tree[d][n] : d \in Dirs, n \in Names} \cap Dirs

\* A directory stands in at most one place, and never in itself.
IsTree(tree) ==
  /\ tree \in [Dirs -> [Names -> Values]]
  /\ \A x \in Dirs : Cardinality({e \in Dirs \X Names : tree[e[1]][e[2]] = x}) <= 1
  /\ Root \notin AttachedIn(tree)
  /\ \A x \in Dirs : \A d \in UnderIn(tree, x) : x \notin {tree[d][n] : n \in Names}

ASSUME WorldAssumption == \A tree \in Worlds : IsTree(tree)

VARIABLES
  listing,    \* what stands under each name of each directory
  stamp,      \* the tick of each directory's last change
  clock,
  recursive,  \* options.Recursive
  ctx,        \* the context: live or done
  stack,      \* the walk calls in progress, the innermost last
  listed,     \* the relative paths charged: w.seen is their number
  paths,      \* w.paths
  entries,    \* w.result.Entries
  complete,   \* w.result.Complete
  result,     \* none, ok, or the error that DiscoverRoot returns
  begun,      \* history: the directories read, as they were when their walk began
  blurred,    \* history: those changed later in the tick of their stamp
  astray,     \* history: entries recorded while their path led elsewhere
  changes, faults

worldVars == <<listing, stamp, clock, changes>>
walkVars == <<stack, listed, paths, entries, complete, result, begun, astray>>
vars == <<worldVars, walkVars, recursive, ctx, blurred, faults>>

Bytes(path) == 2 * Len(path) - 1
Top == stack[Len(stack)]
Popped == SubSeq(stack, 1, Len(stack) - 1)
WithTop(frame) == [stack EXCEPT ![Len(stack)] = frame]
Walking == result = "none"

Call(dir, path) ==
  [dir |-> dir, path |-> path, stage |-> "open", stamp |-> 0, todo |-> {}, info |-> dir]

Init ==
  /\ listing \in Worlds
  /\ stamp = [d \in Dirs |-> 0]
  /\ clock = 0
  /\ recursive \in BOOLEAN
  /\ ctx = "live"
  /\ stack = <<Call(Root, <<>>)>>
  /\ listed = {}
  /\ paths = 0
  /\ entries = {}
  /\ complete = TRUE
  /\ result = "none"
  /\ begun = {}
  /\ blurred = {}
  /\ astray = {}
  /\ changes = 0
  /\ faults = 0

---------------------------------------------------------------------------
\* The walk.

Same == UNCHANGED <<worldVars, recursive, ctx, blurred>>
NoFault == UNCHANGED faults
Fault == faults < MaxFaults /\ faults' = faults + 1

\* An error that ends the whole discovery: no partial result.
Fail(error) ==
  /\ result' = error
  /\ stack' = <<>>
  /\ entries' = {}
  /\ UNCHANGED <<listed, paths, complete, begun, astray>>

Noticed == stamp[Top.dir] # Top.stamp

\* Each frame's directory stands where the frame above it found it.
OnPath ==
  \A i \in 1..(Len(stack) - 1) :
    listing[stack[i].dir][stack[i + 1].path[i]] = stack[i + 1].dir

\* w.add.
Add(path, kind, state) ==
  /\ entries' = entries \cup {[path |-> path, kind |-> kind, state |-> state]}
  /\ complete' = (complete /\ state # "failed")
  /\ astray' = IF OnPath THEN astray ELSE astray \cup {path}

\* The context's end is seen before a directory, a batch and an entry, not at a
\* directory's end.
Canceled ==
  /\ Walking /\ ctx = "done"
  /\ Top.stage \in {"open", "list"} \/ (Top.stage = "visit" /\ Top.todo # {})
  /\ Fail("canceled")
  /\ Same /\ NoFault

\* openDirectory and the first Stat.
OpenDirectory ==
  /\ Walking /\ ctx = "live" /\ Top.stage = "open"
  /\ stack' = WithTop([Top EXCEPT !.stage = "list", !.stamp = stamp[Top.dir]])
  /\ begun' = begun \cup {[path |-> Top.path, dir |-> Top.dir, saw |-> listing[Top.dir]]}
  /\ UNCHANGED <<listed, paths, entries, complete, result, astray>>
  /\ Same /\ NoFault

Unread == {n \in Names \ Top.todo : listing[Top.dir][n] # "absent"}
Batches == {s \in SUBSET Unread : s # {} /\ Cardinality(s) <= Batch}
Charge(batch) == Cardinality(batch) * Bytes(Append(Top.path, 0))
Fits(batch) ==
  /\ Cardinality(listed) + Cardinality(batch) <= MaxEntries
  /\ paths + Charge(batch) <= PathBytes

Keep(batch) ==
  /\ stack' = WithTop([Top EXCEPT !.todo = @ \cup batch])
  /\ listed' = listed \cup {Append(Top.path, n) : n \in batch}
  /\ paths' = paths + Charge(batch)
  /\ UNCHANGED <<entries, complete, result, begun, astray>>

\* ReadDir returns names that were not returned before, in any order.  Every name is
\* checked and charged before it is kept.
ReadBatch ==
  /\ Walking /\ ctx = "live" /\ Top.stage = "list"
  /\ \E batch \in Batches :
       \/ batch \cap InvalidNames = {} /\ Fits(batch) /\ Keep(batch)
       \/ batch \cap InvalidNames # {} /\ Fail("invalid")
       \/ ~Fits(batch) /\ Fail("limit")
  /\ Same /\ NoFault

\* The end of the directory, the second Stat, and the sort.
EndListing ==
  /\ Walking /\ ctx = "live" /\ Top.stage = "list"
  /\ Unread = {}
  /\ \/ /\ ~Noticed
        /\ stack' = WithTop([Top EXCEPT !.stage = "visit"])
        /\ UNCHANGED <<listed, paths, entries, complete, result, begun, astray>>
     \/ (Noticed \/ Top.path \in blurred) /\ Fail("changed")
  /\ Same /\ NoFault

First == CHOOSE n \in Top.todo : \A m \in Top.todo : n <= m
Here == Append(Top.path, First)
Found == listing[Top.dir][First]
Handled == WithTop([Top EXCEPT !.stage = "visit", !.todo = @ \ {First}])

\* Lstat of the next name, and what follows for everything but a directory that is
\* going to be walked.
VisitEntry ==
  /\ Walking /\ ctx = "live" /\ Top.stage = "visit" /\ Top.todo # {}
  /\ \/ /\ Found = "absent" /\ NoFault
        /\ Add(Here, "unknown", "failed")
     \/ /\ Fault                       \* Lstat fails
        /\ Add(Here, "unknown", "failed")
     \/ Found = "file" /\ Add(Here, "file", "candidate") /\ NoFault
     \/ Found = "link" /\ Add(Here, "symlink", "skipped") /\ NoFault
     \/ Found = "special" /\ Add(Here, "special", "skipped") /\ NoFault
     \/ /\ Found \in Dirs /\ ~recursive /\ NoFault
        /\ Add(Here, "directory", "skipped")
  /\ stack' = Handled
  /\ UNCHANGED <<listed, paths, result, begun>>
  /\ Same

\* Lstat finds a directory: it will be opened by name, in a second call.
ApproachDirectory ==
  /\ Walking /\ ctx = "live" /\ Top.stage = "visit" /\ Top.todo # {}
  /\ Found \in Dirs /\ recursive
  /\ \/ /\ Len(Top.path) < MaxDepth
        /\ stack' = WithTop([Top EXCEPT !.stage = "enter", !.info = Found])
        /\ UNCHANGED <<listed, paths, entries, complete, result, begun, astray>>
     \/ Len(Top.path) >= MaxDepth /\ Fail("limit")
  /\ Same /\ NoFault

\* The directories OpenRoot may open under the next name now: a link may lead to any
\* directory of the root, or nowhere.
Opens == IF Found \in Dirs THEN {Found} ELSE IF Found = "link" THEN UnderIn(listing, Root) ELSE {}

\* OpenRoot and the comparison with what Lstat saw.
EnterDirectory ==
  /\ Walking /\ Top.stage = "enter"
  /\ \/ /\ Top.info \in Opens
        /\ stack' = Append(Handled, Call(Top.info, Here))
        /\ UNCHANGED <<listed, paths, entries, complete, result, begun, astray>>
        /\ NoFault
     \/ Opens \ {Top.info} # {} /\ Fail("changed") /\ NoFault
     \/ /\ Opens # {} /\ Fault         \* the Stat of the handle fails
        /\ Fail("changed")
     \/ /\ \/ Found \notin Dirs /\ NoFault
           \/ Found \in Dirs /\ Fault
        /\ Add(Here, "directory", "failed")
        /\ stack' = Handled
        /\ UNCHANGED <<listed, paths, result, begun>>
  /\ Same

\* Mutant of DirectoryFails: the directory is left without a word.
DirectoryFailsSilently ==
  /\ Walking
  /\ \/ Top.stage \in {"open", "list"} /\ ctx = "live"
     \/ Top.stage = "visit" /\ Top.todo = {}
  /\ IF Len(stack) = 1
     THEN Fail("failed")
     ELSE /\ stack' = Popped
          /\ UNCHANGED <<entries, complete, listed, paths, result, begun, astray>>
  /\ Same /\ Fault

\* Opening, reading, a Stat or the Close of a directory fails.  The parent records it
\* beside the entries that were added before; the root's failure is the discovery's.
DirectoryFails ==
  /\ Walking
  /\ \/ Top.stage \in {"open", "list"} /\ ctx = "live"
     \/ Top.stage = "visit" /\ Top.todo = {}
  /\ IF Len(stack) = 1
     THEN Fail("failed")
     ELSE /\ stack' = Popped
          /\ Add(Top.path, "directory", "failed")
          /\ UNCHANGED <<listed, paths, result, begun>>
  /\ Same /\ Fault

Leave ==
  /\ IF Len(stack) = 1
     THEN result' = "ok" /\ stack' = <<>>
     ELSE stack' = Popped /\ UNCHANGED result
  /\ UNCHANGED <<listed, paths, entries, complete, begun, astray>>

\* Mutant of LeaveDirectory: a directory is compared only after its listing.
LeaveDirectoryUnchecked ==
  /\ Walking /\ Top.stage = "visit" /\ Top.todo = {}
  /\ Leave
  /\ Same /\ NoFault

\* Mutant of LeaveDirectory: only the root is compared again.
LeaveDirectoryRootChecked ==
  /\ Walking /\ Top.stage = "visit" /\ Top.todo = {}
  /\ IF Noticed /\ Len(stack) = 1 THEN Fail("changed") ELSE Leave
  /\ Same /\ NoFault

\* The last Stat of a directory, after its children.
LeaveDirectory ==
  /\ Walking /\ Top.stage = "visit" /\ Top.todo = {}
  /\ \/ ~Noticed /\ Leave
     \/ (Noticed \/ Top.path \in blurred) /\ Fail("changed")
  /\ Same /\ NoFault

---------------------------------------------------------------------------
\* The environment.

Cancel ==
  /\ Walking /\ ctx = "live"
  /\ ctx' = "done"
  /\ UNCHANGED <<worldVars, walkVars, recursive, blurred, faults>>

\* Another program changes one entry of a directory in the root, or of one that the
\* walk holds: a move is a removal and an addition, and a directory that stands nowhere
\* is outside the root.
Change(d, n, value) ==
  /\ Walking /\ n \in Edited /\ changes < MaxChanges
  /\ d \in UnderIn(listing, Root) \cup {stack[i].dir : i \in 1..Len(stack)}
  /\ listing[d][n] # value
  /\ value \in Dirs => value \notin AttachedIn(listing) \cup {Root} /\ d \notin UnderIn(listing, value)
  /\ listing' = [listing EXCEPT ![d][n] = value]
  /\ stamp' = [stamp EXCEPT ![d] = clock]
  /\ changes' = changes + 1
  /\ blurred' = blurred \cup
       {stack[i].path : i \in {j \in 1..Len(stack) :
          stack[j].dir = d /\ stack[j].stage # "open" /\ stack[j].stamp = clock}}
  /\ UNCHANGED <<walkVars, clock, recursive, ctx, faults>>

Tick ==
  /\ Walking /\ clock < MaxTicks
  /\ clock' = clock + 1
  /\ UNCHANGED <<walkVars, listing, stamp, changes, recursive, ctx, blurred, faults>>

---------------------------------------------------------------------------
Next ==
  \/ Canceled \/ OpenDirectory \/ ReadBatch \/ EndListing \/ VisitEntry
  \/ ApproachDirectory \/ EnterDirectory \/ DirectoryFails \/ LeaveDirectory
  \/ Cancel \/ Tick
  \/ \E d \in Dirs, n \in Names, value \in Values : Change(d, n, value)

Spec == Init /\ [][Next]_vars

---------------------------------------------------------------------------
\* Properties

FailedAt(path) == \E e \in entries : e.path = path /\ e.state = "failed"
EntryAt(path, kind, state) == [path |-> path, kind |-> kind, state |-> state] \in entries

\* What the result says of the name n of a directory it has read is what was there, or
\* that it failed.
Settled(b, n) ==
  LET path == Append(b.path, n)
  IN \/ FailedAt(path)
     \/ b.saw[n] = "absent" /\ path \notin listed
     \/ b.saw[n] = "file" /\ EntryAt(path, "file", "candidate")
     \/ b.saw[n] = "link" /\ EntryAt(path, "symlink", "skipped")
     \/ b.saw[n] = "special" /\ EntryAt(path, "special", "skipped")
     \/ /\ b.saw[n] \in Dirs /\ ~recursive
        /\ EntryAt(path, "directory", "skipped")
     \/ /\ b.saw[n] \in Dirs /\ recursive
        /\ \E c \in begun : c.path = path /\ c.dir = b.saw[n]

\* What a successful discovery says of a directory it has read, it had from beginning
\* to end of that directory's walk: every entry with its kind, and no other.  Only a
\* failed entry in its place, or a change within the tick of the stamp, excuses an
\* exception (discover.go:182, 239).
FaithfulListing ==
  result = "ok" =>
    \A b \in begun : b.path \notin blurred /\ ~FailedAt(b.path) =>
      \A n \in Names : Settled(b, n)

\* A directory's relative path and one of something in or under it.
Above(dir, path) == Len(dir) < Len(path) /\ dir = SubSeq(path, 1, Len(dir))

\* Every entry of a successful discovery was recorded while its relative path led,
\* through directories and not through links, to the directory it was read in: a
\* parent is compared once more after its children (discover.go:234-241).
PathsResolved ==
  result = "ok" =>
    \A path \in astray :
      \E b \in begun : Above(b.path, path) /\ (b.path \in blurred \/ FailedAt(b.path))

\* A successful discovery accounts for every name it was charged for: the name has an
\* entry, or its directory was walked, or it lies in a directory reported as failed;
\* and the result calls itself complete only if nothing failed (discover.go:127-131,
\* 225-227).  No discovery is charged for more names, longer paths or deeper
\* directories than its limits allow.
NothingOmitted ==
  /\ Cardinality(listed) <= MaxEntries /\ paths <= PathBytes /\ Len(stack) <= MaxDepth + 1
  /\ result = "ok" =>
    /\ complete <=> \A e \in entries : e.state # "failed"
    /\ \A path \in listed :
         \/ \E e \in entries : e.path = path
         \/ \E b \in begun : b.path = path
         \/ \E k \in 1..(Len(path) - 1) : FailedAt(SubSeq(path, 1, k))
===========================================================================
