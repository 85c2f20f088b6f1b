# Aletharsis in TLA+

Aletharsis is a local, read-only forensic auditor of document signals. It opens files
and directories without changing them, reports what it found together with how far it
got, and can publish derivative views in a new directory. What makes it hard to get
right is not one algorithm but the bookkeeping around failure: sources that change while
they are read, audits that are interrupted, budgets that run out, and publications that
must appear whole, or not at all, in a directory other programs can write to.

This directory models that bookkeeping, checks it with TLC on small instances and proves
with TLAPS, for all values of the constants the assumptions admit, every invariant and every
safety property of steps that a run checks: of the reveal tree and its plan, the acquisition,
the native audit and its report, the validation of reports, the corpus executor, the reveal
command, the delivery of reports and the walk to their place, the directory walk, the reading
of packages and their identification. Liveness is checked by TLC alone. `PROJECT.json` lists
components, runs, mutants, the map from definitions to source lines, hazards and theorems.

## The system

| Component (src/internal/…) | State it keeps | Operations | What is hard |
| --- | --- | --- | --- |
| `publication/tree.go` | plan, receipts, created nodes, byte budget, `active`; the output root | `NewTree`, `Record`, `Commit`, `Abort`; `write`, `fail` | a failing call anywhere, a crash between two writes, foreign nodes, what a rollback may remove |
| `publication/publish.go` | files of one flat bundle | `publish` | the same, without a ledger |
| `cli/directory.go`, `cli.go`, `reveal.go`, `v2.go` | output files, streams and bundles | option dispatch, walk to the output's parent, presentation, delivery | an output that lands in what is audited while names change; short writes, failing closes and removals |
| `audit/read_linux.go`, `root_linux.go` | one descriptor, two stats, bytes consumed | one bounded no-atime read | a source that changes meanwhile; two limits and their codes |
| `audit/audit.go`, `trace.go`, `v2*.go` | trace of completed operations | acquire, parse, six analyzers, report assembly | interruption between operations; a report its own validator must accept |
| `evidence/v2` | the report graph | validation, `AggregateStatus`, views, recount | coverage that must add up, coordinates in four units, precedence of partial, failed and canceled work |
| `corpus/run.go` | budgets, the entry at hand, the summary, the stream | discovery, one audit per candidate, observer callbacks, records | four clocks: context, acquisition budget, output budget, writer |
| `cli/directory_reveal.go` | output root, tree, buffered stream | observer `Prepare`/`Visit`, commit, replay, cleanup | two transactions (stream and tree) that must agree; cleanup that fails |
| `workspace/discover.go` | walk over a pinned root | `Open`, `Pin`, `DiscoverRoot` | directories that change during the walk |
| `packageparts/read.go` | the entries read so far | `Read` of a ZIP package | two directories that may disagree, optional descriptors and signatures, limits |
| `opcrels/relationships.go` | budgets over all relationship parts | `Inspect`, target resolution | what a failed parse is charged, names that differ in case |
| `docxidentify`, `odtidentify` | declarations, manifest entries, issues | `Inspect` | declarations that speak of one part twice; opaque encrypted entries |
| `reveal`, `profiles`, `xmlparts`, office and ODF text, `wire`, `reportimport`, `identity` | none beyond a call | pure or sequential computations | boundaries and limits |

Calls go down this list's middle: the command runs the corpus executor on a pinned root;
the executor asks the workspace for the entries, the native audit for each candidate, and
tells an observer about every entry; the native audit acquires through the snapshot
reader; the observer of the reveal command records every entry in the tree. There are no
threads: what runs concurrently is the user's interrupt (through the context), the
deadline, other programs on the file system, and whoever reads the output. Nothing is
persisted but what is published, and nothing is recovered after a crash; a crash matters
through what a reader then finds.

## Modules

| Module | Models | Depends on |
| --- | --- | --- |
| `Tree` | the reveal-tree transaction, one file-system effect per step | `Plans`, `AtomicTree` (refined) |
| `AtomicTree` | the abstract promise: a reader sees no tree or the whole tree | |
| `Acquisition` | one snapshot read against a changing file | `Charges` |
| `Charges` | what an acquisition may charge and report, as one set | |
| `Aggregate` | `AggregateStatus` | |
| `Discovery` | the directory walk, while other programs change directories | |
| `NativeAudit` | operations, trace and report assembly of one audit | `Aggregate`, `Outcomes` |
| `Outcomes` | what an audit may return, as one set | `Charges` |
| `Corpus` | the corpus executor | `Outcomes`, `Charges` |
| `DirectoryReveal` | the reveal command and its observer | `Corpus` |
| `Plans` | what a plan must be for `Tree` to write it, as one predicate | |
| `PathPlan` | NewTree's preflight; what `Tree` assumes of a plan | `Plans` |
| `OutputPath` | the walk to the output's parent, while other programs create, move and mount | |
| `Delivery` | the commands that deliver a report, a stream or a flat bundle | `OutputPath` |
| `Scopes`, `Records` | scopes and regions; the records of a report and their own rules | |
| `Evidence` | the validation of a report's graph and findings | `Records`, `Aggregate` |
| `NativeAnchors` | the report a native audit assembles, offered to `Evidence` | `Evidence` |
| `PackageParts` | reading a package container | |
| `PartNames` | part names, owners, target resolution | |
| `OpcRelationships` | the relationship inventory and its budgets | `PartNames` |
| `DocxIdentify`, `OdtIdentify` | what decides the format | `OpcRelationships` |
| `Identification` | the three in the order of a call, with cancellation | both |
| `MC…` | the values of the constants for TLC | |
| `Tree_proofs`, `PathPlan_proofs`, `Discovery_proofs` | theorems about the module of that name | that module |
| `NativeAudit_proofs` | theorems about `NativeAudit` and `Acquisition` | both |
| `DirectoryReveal_proofs` | theorems about `Corpus` and `DirectoryReveal` | `DirectoryReveal` |
| `Delivery_proofs` | theorems about `Delivery` and `OutputPath` | `Delivery` |
| `Identification_proofs` | theorems about `PackageParts` and `Identification` | both |
| `Evidence_proofs` | theorems about `Evidence` and `NativeAnchors` | `NativeAnchors` |

Composition is by contract. `Acquisition` shows that what it charges and reports is in
`Charges`; `NativeAudit` shows that what it returns is in `Outcomes`; `Corpus` takes its
audits from exactly these two sets. Both contracts are theorems. `DirectoryReveal` extends `Corpus` and adds the tree
as its callers see it: a call succeeds, or it ends the transaction and rolls back, possibly
leaving nodes behind. `Tree` shows that this is what happens. `Tree` assumes of its plan that it
is a `SoundPlan`, and that `PathPlan` accepts no other is a third contract proved. `Delivery` takes what it delivers by the contract of `Corpus`
(header, entries, summary; nothing after a failed write) and of one audit. `NativeAnchors` puts
what a native audit makes of its observations before the validator of `Evidence`.

### Tree

`phase` is Go's `active` together with the place in the code: `idle` and `writing` are
active; `rollback` is the loop of `fail`; `withdrawn` and `committed` are inactive. `disk`
says what stands at each planned path: nothing, our directory, our incomplete or complete
file, or a stranger's node. `created` is the list the rollback walks, newest first, with a
flag for whether the node's identity is known. `job` is the call that is being carried out,
`remaining` the byte budget.

`Record`, `Commit`, `Abort` are guarded by the argument checks (`Acceptable`, `Affordable`,
`Committable`); the refused call is an action of its own and goes to the rollback, as `fail`
does. `MakeParent`, `CreateFile` and `FillFile` are the effects of `write`, each with its
failing alternatives; `RollbackNode` is one turn of the loop in `fail`. `Plant` and
`Displace` are other programs, `Crash` is the process's end.

Two things are joined that the code does in two calls: Mkdir with the following Lstat, and
Lstat with the following Remove. The type's comment makes it the caller's duty to keep
other writers out of these windows, so they are outside what the code promises.

`PlanAssumption` states what `NewTree` leaves true of the plan, as `SoundPlan` of the module
`Plans`: own paths for every source, no path both a file and a directory, directories that can be
made before what they contain. `PathPlan` is the preflight, and `PlansAreApart` proves the same
`SoundPlan` of what it accepts.

### PathPlan

`Admit` is the head of NewTree's loop for one source, `Place` one turn of its inner loop over
the five files a candidate may need, `OpenRoot` the look at the output root that ends it; each
returns with the error the code returns. A path is a sequence of components, a component the
sequence of its pieces between dots, so that `a.json` as a source and the report of `a` meet.
`Key` is the collision key: `Folded` gives the pieces that case folding or normalization
changes. The order of the sources matters to the code (a directory may come before or after
the file that clashes with it), so every order is offered.

### Delivery and OutputPath

`pc` is the place in the command. `Dispatch` and `Reject` are cli.Run from the parsed
arguments on; the audit of a directory (`CorpusAudit`) goes to the stream (`PinWorkspace`, the walk, `CreateReport`,
`StreamRecord` …), a single source to its report on stdout or in a file (`AuditSource`,
`PrintReport`, `CreateFile`, `FillReport`) or to a comparison and a bundle (`CompareTexts`, the
walk, `MakeBundle`, `PublishFile`, `RollBackFile`, `CloseBundle`, `RemoveBundle`). A text is a
sequence of chunks; a failing write leaves a torn one, a failing close may lose the last. A file
of a bundle whose write or close fails may be whole all the same.
`entries` counts before the write, as the presentation does, and decides the separators of a
JSON array. `faults` bounds failing calls and crashes together.

`OutputPath` has the name space as it is: directories by identity, names, links. Resolution
(`EvalSymlinks`), the two prefix comparisons, one Lstat for every ancestor from the parent up,
and the `OpenRoot` that follows the path again are separate steps, between which other programs
create, remove, mount or replace what stands under a name (`Replace`), or move a directory or a
link, exchanging two names included (`Rename`). `Fitting` says what may be put where: what
`Standing` and `Links` allow, and no directory into itself or what lies in it. A directory that
is moved takes what is in it along, so anything may be moved into the source, or out of it;
`Below` is what lies in a directory now. `outside` is a history variable: what was neither the
source nor below it when the parent was looked at.

`OutputOutsideSource` says when the looks suffice. If no name changes after the parent was looked
at, they do, whatever changed before, unless something that lies in the source is mounted
elsewhere as well (`Enclosed`; the source itself may be). If names change later, the directory
opened is still one that was outside when the parent was looked at, provided that names were the
same until then and no directory stood under two of them (`single`): the paths that were compared
then tell the directories apart, and the parent opened is the parent seen. Neither can be stronger:

* The parent, or a directory above it, is moved into the source between its Lstat
  (directory.go:139) and `OpenRoot` (153), and a link is left at its old name. `SameFile` (158)
  compares identities, which agree, and the output lands in the source. One exchange of two names
  is enough in the run's world `Lured`.
* The source is mounted a second time at `a/b`, over a directory with a link to a directory of
  the source, and the output is named `a/b/b`: the path compared is the source's own child under
  its second name, the parent is looked at there, then the mount at `a/b` is removed; the
  ancestors looked at afterwards are innocent, and the path, followed once more, leads through
  the link to the same parent, inside the source. The run's world `Mounted` holds this case.
* A directory of the source is mounted elsewhere and the output named there: no path and no
  ancestor shows the source.

The comment of openCorpusReport leaves control of the name space, privileged mounts included, to
the caller.

### Evidence, Records and Scopes

`Records` has the Validate methods, one operator each. `Evidence` takes a report through
Graph.index, the passes of Graph.Validate in their order, and the status and findings of
ValidateSemantics; a report that fails one is refused. The state is small and the operators
are large: what is checked is what acceptance implies, for reports that deviate in coverage,
lineage, states, spans and positions. A text's scalars are their UTF-8 lengths and its offsets
are source bytes, so that the three units in which a span is stated can disagree. A selection's
digest is the selection.

### NativeAnchors

nativeSpans (occurrences to spans, adjoining ones joined up to `MaxExtent`), anchorGroups
(spans to anchors of bounded size) and the rest of assembleV2 up to the complete report, for
observations of single scalars and tokens. `Assemble` puts it in place of an offered report;
`NativeAccepted` says the validator never refuses it. `Observed` is what the parser and the
analyzers deliver: a text whose offsets fit the file, and occurrences in order and apart, as
scanning from left to right finds them. nativeSpans looks once more and reports an error where
it is not so; that error is a refusal of observations outside the assumption.

### PackageParts

A ZIP file is its entries as the central directory states them, what stands at each position
when read as a local header, and the marks a descriptor's checksum is compared with. Positions
are in units in which a header and a descriptor are one long. `Directory`, `ReadHeader`,
`Layout`, `ReadPart` and `Cancel` are Read's loops, one entry at a time, with every return.

### Identification and the modules it extends

`InspectPart` is one turn of opcrels.Inspect's loop: the switch that leaves a part out, or the
allowance, the parse and the charge (`Charge`: a failed parse is charged its allowance), and
readPart. `spent` is a history variable: what the parser really used. A package's parts have
their XML as the parser would return it, so the documents are data, not text. `Docx` and `Odt`
are the two Inspect functions as one expression each; they read an immutable package, and
between them only the context can end. Issues are sets: their order is presentation.

### Acquisition

A file is a sequence of bytes, each naming the change that wrote it, with a modification
and a change time. Others overwrite, extend, truncate and re-stamp it at any moment; the
clock advances in ticks and a change carries the tick it happened in. The reader stats,
reads in arbitrary portions up to `limit + 1` bytes, stats again and gives its verdict.
The code compares size, modification time and change time, and a change in the very tick of
the change time already seen leaves no trace: `blurred` marks these runs, and
`SnapshotConsistent` excludes them and nothing else.

### Discovery

`listing` says what stands under each name of each directory, a directory being known by its
identity, as the walk's handles know it; `stamp` is the tick of its last change. `stack`
holds the walk calls in progress, each with its directory, its relative path, the stamp it
took, the names it has still to visit and the identity its last Lstat saw. `OpenDirectory`,
`ReadBatch`, `EndListing`, `VisitEntry`, `ApproachDirectory`, `EnterDirectory` and
`LeaveDirectory` are the walk's system calls in the code's order, with the context check
before each that has one; `DirectoryFails` is every error that the parent turns into an
entry. `Change` adds, removes or replaces any entry, directories included; a move is two
changes. As in `Acquisition`, `blurred` marks what happened in the very tick of a stamp.
Each directory is checked over its own walk only: two siblings may be from different
moments, which the code's documentation says too, so no property claims a single moment for
the whole result. `PathsResolved` claims it for a path: parents are compared after their
children, so all directories above an entry were in place when it was recorded. Sorting is
left out (entries are a set), and so are the checks before the walk (`Open`, `Pin`).

### NativeAudit and Aggregate

`next` and `phase` walk through `Order`: acquire, parse, the analyzers. Schema 2.0 looks at
the context before each operation (`Before`); schema 1.0 has no trace and never stops.
`completed` is the trace, `stopped` and `failure` the two ways to end early. `Assemble` is
assembleV2 with the validator it calls: `Execution` resolves the state of each execution in
the code's order of precedence, `Results`, `Findings` and `Status` follow, and `Valid`
collects the validator's rules about states and links. Coordinates, anchors and
artifacts are `NativeAnchors`' subject and left out here; that they may exceed a limit is an alternative of
`Assemble`. `available` is the platform's reader, `retain` and `view` are options.

### Corpus

One stage per stretch of `run` between two points where something else can happen: the
context ending, the observer being called, the writer failing. `remaining` and `room` are
the acquisition and the output budget, `stream` the records accepted by the writer, `visits`
what the observer was told and what it answered. `TakeEntry` reads the context before an
entry, `Settle` after its audit, `Conclude` at the end, as the code does.

### DirectoryReveal

Extends `Corpus` with the command's own steps. `VisitTree` is treeObserver.Visit and is
composed with the executor's `Visit`; `Withdraw` is the cleanup closure with the messages
that follow it; `Replay` writes the buffered stream to stdout after the commit. `ledger` and
`call` are the receipts and the arguments the tree was given.

## Runs

| Run | Question | Bounds, and why they suffice |
| --- | --- | --- |
| `tree` | Is publication atomic, is rollback restricted to our own nodes, is an incomplete cleanup always reported? | Two candidates, one in a subdirectory, so that parents are shared and nested; thirteen offers that reach every branch of `Record`'s checks; lengths 0 to 2 against a budget of 8, which one revealed source, one failed source and the closing files exhaust exactly; two faults, foreign nodes or displacements at any point: one to start a rollback and one to disturb it. |
| `tree_returns` | Does every call return? | The same plan with a budget for two revealed sources, one fault. |
| `acquisition` | Is accepted evidence a state the file had, and are charge and code right? | Every file and run limit up to a ceiling of three bytes, files up to four, so that each limit is met, missed by one and exceeded; three changes in three ticks of the clock, enough for a write on each side of a read and a re-stamped modification time. |
| `discovery` | What does a successful discovery say of directories that others change? | Three directories and four trees: siblings, one in the other, one beside a link and one outside, a special entry with an invalid name; limits on entries, path bytes and depth that some trees keep and others exceed; batches smaller than a directory; two changes in two ticks and one failing call: enough to move a directory away and put a link or another one in its place. |
| `native_audit` | Is every report valid and truthful about how far the audit got? | Four analyzers, one declared capability; four sets of findings that separate severities and views; the context ends before, between or during any operations. |
| `corpus` | Do stream, summary, exit code and observer agree? | Up to two entries of every kind; an acquisition budget that the first file leaves at 0, 1, 2 or more; an output budget that runs out at every record; both schemas; with and without an observer. |
| `directory_reveal` | Do ledger and stream agree, and does nothing stay behind unsaid, but for a new root that cannot be opened? | Two entries; schema 2.0, whose audits include those of 1.0; every callback, commit, close, replay and cleanup may fail; interrupts, foreign files in the root and crashes at any point. |
| `path_plan` | Is a plan that NewTree accepts one `Tree` may assume? | Every list of up to three sources, candidates or not, from eight names that are each other's directory, suffix or other spelling; lists of four for the limit on sources; names no file system takes; a node limit of 26 that three plain candidates keep and two in directories of their own miss by one, and a path and total limit that some names keep. |
| `delivery` | Is what a command vouches for delivered, does nothing half stand, and when do the looks keep the output out of the source? | Eleven command lines that reach every branch, a directory given to `unicode` among them; two entries, byte budgets of two and four chunks, of which four is a whole stream; two faults or crashes: one to fail and one to disturb the cleanup; six directories, one below the source, two that may hold a second mount of it, outputs up to three directories deep, a link into the source, and one outside change at any point of the walk, moves into the source and exchanges included; four initial name spaces: plain, with a link in the output's path, with a mount that covers one, and with a link in the source that leads to where it stands. |
| `evidence` | What does an accepted report vouch for, and is every native report accepted? | A UTF-16 text of three scalars and four UTF-8 bytes; two analysed and two excluded scopes out of eight; two spans and two positions; a native text of six scalars with every set of single occurrences beside every set of tokens, with three scalars and two spans for the bounds 16384 and 512. |
| `package` | Does every byte of an accepted package belong to one entry? | Two entries of every kind that can be wrong anywhere in four positions with a signature at every place, and three plain ones; a size limit two entries can exceed. |
| `identification` | Are the budgets kept and nothing omitted, and is a format only given where no other reading is possible? | Packages with one or two relationships, three declarations or four manifest entries from a choice of nearly right ones; three relationship parts, with budgets that run out at each. |

Deadlock checking is off in all runs: a transaction, an acquisition, an audit, a validation and
a command end, and a crashed process does nothing.

What each property excludes is in the comment before it. The stream's and the ledger's
properties are conjunctions of statements that only together say what a reader relies on:
`SummaryTrue` (a summary comes last, and agrees with the records before it), `EndIsFinal` (after
the end of the context at most one late read, and the run stays canceled), `ExitMeaning` (the
exit code tells the coverage, and both schemas tell the same), `LedgerFits` (ledger and stream
agree, and the executor makes no call the tree refuses). The runs check no type
invariants: those of the modules with theorems are proved.

Every property has a mutant, an operator beside the definition it changes in the way a
plausible bug would; with it TLC finds the property violated under the same configuration.

### Where code and document disagree

docs/specs/directory-reveal.md:86 says "Cleanup failure has
its own diagnostic." When the new output root cannot be opened, runDirectoryReveal removes it
again, discards the removal's error (directory_reveal.go:107) and reports `output.create_failed`;
if the removal failed too, the root stays, and nothing was said of a cleanup.
`NothingLeftUnsaid`, which holds and is proved, has this one exception, and says that the root
left in that way holds nothing of the command's. Without the exception TLC finds a state in which
it does not hold.

The single-file commands discard a failing removal too (v2.go:80, cli.go:213):
`NothingHalfStands` and `ManifestMeansBundle` except removals that failed, whether or not the
user was told.

### Fairness

`Tree`: weak fairness of `Writes` only. Once a call has begun, its remaining effects are
straight-line code of one goroutine and every system call returns; callers, faults and other
programs owe nothing. `Corpus` and `DirectoryReveal`: weak fairness of the program's own
steps, the callbacks included, since the observer is code of this program; the context need
never end. The other modules state no liveness: their loops are over finite sequences, and
other programs, faults and the context owe them nothing.

## Proofs

Eight modules of theorems, each beside the modules it is about. They hold for every value of
the constants that the named assumptions admit, where the runs check one small instance. The
argument is the same everywhere: an inductive invariant that starts with the types, was
checked with TLC first, is preserved action by action, and implies the properties.

What a loop over data computes is written as a function on 0..n that is defined from its value
at the index before, and unrolled once per module (`Unrolled`). A statement about every round is
proved by descent: of the rounds that break it, one would be the first (`Descent`, from the
library's well-founded induction).

| Module | Theorem | What it says |
|---|---|---|
| `Tree_proofs` | `TypeCorrect` | Types are kept, and what is still to be written of a call fits the remaining budget (`BudgetCoversJob`). |
| | `ReceiptsAreBacked` | A stored receipt's artifacts are complete while the transaction is active or committed. |
| | `CleanWithdrawal` | A withdrawal without a cleanup error leaves nothing the transaction created. |
| | `ManifestIsLast` | A complete manifest stands only while all that it lists is complete. |
| | `StrangersSafe`, `CommitFinal` | Action properties: other programs' nodes survive every step; a commit is final. |
| | `AtomicPublication` | The transaction implements `AtomicTree` under the mapping of `view` and `status`. |
| `PathPlan_proofs` | `PlansAreApart` | An accepted plan is a `SoundPlan`, which `Tree` assumes, and no two of its nodes have one key. |
| `NativeAudit_proofs` | `SnapshotIsConsistent` | Accepted evidence is the file as the first stat saw it. |
| | `CodesAreTrue`, `ChargesAreExpected` | A refusal names what happened; charge and code are among `Charges`. |
| | `CoverageTellsHistory` | The executions of a report tell how far the audit got. |
| | `NoReportRefused` | The validator accepts every report the audit assembles. |
| | `ExitMeansCoverage`, `SnapshotsAreComplete` | Exit code and handed-over source agree with the report. |
| | `OutcomesAreExpected` | What an audit returns is among `AuditOutcomes`. |
| `DirectoryReveal_proofs` | `SummaryIsTrue` | The summary is there exactly after a success, and true. |
| | `LowExitIsEarned`, `EndStaysFinal` | A low exit vouches for every candidate; the end of the context is final. |
| | `ObserverIsTold` | Observer and reader of the stream are told the same. |
| | `LedgerIsTrue` | Ledger and stream agree, and the tree is never called in a way it refuses. |
| | `NothingIsLeft`, `LowExitMeansPublished` | Nothing stays behind unsaid, but an empty root that could not be opened; a low exit means published and replayed. |
| | `PublishedTreeStays` | Action property: no step takes a committed tree away. |
| `Delivery_proofs` | `LowExitIsEarned`, `NoHalfStands` | A low exit means delivered whole; what is left is whole unless a removal failed. |
| | `ManifestComesLast` | A complete manifest stands only in a complete bundle, unless publication and a removal failed. |
| | `OutputIsOutside` | The output's parent is outside the source when it is opened, or was when it was looked at, each under the conditions of `OutputOutsideSource`. |
| `Discovery_proofs` | `ListingIsFaithful` | A successful discovery says of a directory what it held throughout its walk. |
| | `PathsAreResolved`, `NothingIsOmitted` | Paths led where they were read; every charged name is accounted for, within the limits. |
| `Identification_proofs` | `BytesAreClaimedOnce` | A package that is returned has every byte claimed by one entry. |
| | `InventoryIsHonest` | The budgets hold, no relationship part goes unmentioned, a completed inventory is whole. |
| | `FormatsAreUnambiguous` | A format is given only where every reading of the package agrees. |
| `Evidence_proofs` | `CoverageIsAccounted` | An accepted report's coverage adds up. |
| | `FindingsRestOnAnalysis` | An accepted finding's occurrences were analysed and lie in the source. |
| | `WhatIsMadeIsAccepted` | The validator accepts what a native audit assembles of any observations. |

Every module has the invariant itself as a theorem or a lemma too (`Invariance`,
`RevealInvariance`, `NativeInvariant`, …; in `Tree_proofs` it is proved in steps), and its types
are its first part.

### Tree

The inductive invariant is `IInv`, with `EndInv` for the refinement. None of the properties
is inductive by itself; what they need beside each other is

* `JobInv` and `RecordsInv`: a job is the rest of one accepted call, its source is a planned
  candidate without a receipt, and Commit's job starts only when every source has one. This
  is what makes the path of a file a planned one, and Commit's two files the last.
* `OpenInv`: the file being written is still there, or another program took it. Without it
  closing a file would not imply that its path holds a complete one.
* `DoneInv`: what a job no longer has to write is complete. At the last file of a call it
  becomes the receipt's promise (`ReceiptsBacked`); at Commit's last file it gives the corpus.
* `CreatedInv`: until a cleanup error is reported every node of ours is in the created list;
  with an empty list at the end of a rollback this is `CleanMeansGone`.
* `ManifestInv`: once our manifest exists it is the newest created node, so a rollback takes
  it first or becomes dirty, and no call stores a receipt while it stands.
* `EndInv`: a complete manifest belongs to a call that has ended, and a committed tree is
  complete. With `ViewValue` (a reader's view is nothing or all) every step of `Tree` is a
  step of `AtomicTree` or a stutter (`AtomicStep`).

`DiskStep`, `CreatedStep` and `ActiveStep` sort the steps once by what they do to the disk,
to the created list and to the job, so that each preservation proof has few cases.

Assumed: `TreeAssumptions`, the types of the bounds and what `NewTree`'s preflight establishes.
The fold of a call's sizes, `Need`, is a sum over the seven kinds of file, so no induction is
needed.

### PathPlan

`PlansAreApart` is what stands behind the part of `TreeAssumptions` that speaks of paths: both
are instances of `SoundPlan`, here for the plan, paths and directories of the preflight, there for
`Tree`'s constants. `MadeInv` says what `files` and `dirs` are at any moment: the files of the
sources placed so far and all directories above them. `ApartInv` says that no two of them have one
key. `Place` keeps it because a new file is compared with all files and directories and each new
directory with the files; directories above one path differ in length, and of an old one with the
same key the code insists that it is the same name. `OwnInv` says that two artifacts never share a
path, `PlanInv` that the plan holds the sources so far, each once, and `CountInv` gives the number
of files. For `SoundPlan` the paths themselves are looked at, though only this far: a directory
above a path is a prefix of it (`ParentsNest`), and it starts with the directory of a kind, so that
no path is one of `Commit`'s two files (`PathShape`, `ClosingShape`). The lengths of names and the
characters allowed in them only refuse more plans.

Assumed: `PlanAssumptions`, that what is offered are lists of sources with paths of components.

### Acquisition

`SnapshotConsistent` speaks of the end, the invariant of the read. `PrefixInv`: while nothing
shows in the change time and nothing is blurred, what was read is the beginning of the file as it
was at the stat, and after the last read, which met the end of the file, all of it. `StatInv`
says that without a change the file is as the stat saw it, and `ReadInv` that the count never
passes the allowance by more than the sentinel byte nor the largest size the file has had. The
last is what makes the codes true when a file has grown and shrunk again.

Assumed: `LimitAssumption`, natural bounds with a positive ceiling.

### NativeAudit

The report is computed in one expression from the trace, so the properties follow from what the
trace can be. `RunningInv`: while the audit runs, exactly the operations before the one at hand
are completed and nothing has gone wrong. `EndingInv`: it ends whole, or cut short at the
operation at hand in one of three ways (no reader, a failure with a code of that stage, the
context). From there the lemmas about `Execution`, `Results` and `Status` go through the three
ways once; `Order`'s operations are different, so the state of an execution is decided by its
place alone.

Assumed: `NativeAssumptions`: the order names every operation once, the declared capabilities are
not operations, findings have severities.

### Corpus

`StreamInv` fixes the shape of the stream at each stage, a header, a record for each entry up to
the one at hand, a summary. `CountInv` says that the counts are those of the records, which is
kept because a new record adds its index to one of the sets that are counted. `ExitInv` carries
what the summary will claim through the loop: exit 4 exactly when something is incomplete, and
the completeness that discovery left. `CancelInv` and `LateInv` are the executor's three looks at
the context put together: a canceled record means that no audit is under way, so that nothing
after it can be anything but canceled. `BudgetInv` says that an audit starts with more than one
byte left; with `ChargesType` (an audit charges at most its allowance and one byte) the budget
is never overdrawn. `ObserverInv` relates visits and records while an entry is between the two.

Assumed: `CorpusAssumptions`. An audit is any of `AuditOutcomes`, an acquisition any of `Charges`,
which is what the two theorems named for it above prove of `NativeAudit` and `Acquisition`.

### DirectoryReveal

The proof extends that of `Corpus`: every step of the command is a step of the executor, or leaves
the executor's variables alone, so the executor's invariant is the command's too (it is the first
conjunct of `DRInv`) and none of it is proved again. What is added: `TreeInv` and `PhaseInv` say
where the tree stands when the executor is at a stage, and when the command is at a step;
`VisitInv` what the executor says of an entry the observer is about to see, which is why the
observer's calls fit; `LedgerInv` that receipts and visits go together as long as neither side
has failed, which at a commit, with `ObserverInv`, gives `LedgerFits`; `RootInv` that a published
root is never withdrawn, and that nothing is in a root before it has been made and opened;
`CodeInv` how the command ends.

### Delivery

Three families of commands share the module. `FreshInv` says that before the first call that
leaves a trace nothing is there, and which command lines lead to a place; `DispatchedRequest`
that a command line which is not refused means one way of delivery. `ReportInv` carries that a
text which has not failed is the text asked for, so far: a stream of a header and one line for
each entry counted, with the separators of a JSON array from the second on. `BundleInv` gives the
files of a bundle in their order during publication, and during the rollback that what was
removed is gone, and the manifest not whole unless it could not be removed (`ManifestLast`). `EndInv` is what a command leaves.

`EndInv` holds only because `Whole` decides by the same condition as the dispatch,
`CorpusAudit`: `unicode DIR` is not a corpus, and its report is a single source's although a
directory was named. The run has that command line too.

Assumed: `DeliveryAssumptions`, the types of requests and bounds.

### OutputPath

The walk has an invariant of its own, `WalkInv`, of which the property is a part: for the other
steps of the command leave it alone, and its own steps leave the command's invariant alone.
`StageInv` says what is not yet bound at a place. `StillInv`: until the first change the source's
canonical path leads, without links, to the source, the output's to a directory, and neither lies
in the other. `LookInv`: as long as nothing has changed since the parent was looked at, every
ancestor looked at is still what the path leads through, and is not the source.

What lies in the source is `Below`, the smallest set that holds it and is closed under what stands
in its members (`BelowFacts`); the file system's root is in none but its own (`RootLiesNowhere`).
Two arguments end the proof. `OutsideByLooks`: if a directory that lies in the source stands at
the end of a path, and what lies in the source stands nowhere else, the source itself stands
somewhere along the path (`LeadsThrough`, by descent along it), and a look would have met it.
`OutsideByNames`: where every directory has one name, the source is enclosed (`SingleEncloses`)
and one canonical path leads to each directory (`OnePath`, by descent from the longer of two), so
a parent in the source has a path that begins with the source's, which the comparison has refused.
The second gives `ExpectInv`, that the parent was `outside` when it was looked at; the one that is
opened is the same. Where it is when it is opened, a later change decides.

Assumed: `PathAssumptions`, the types of the name space; `RootAssumption`, that the root stands in
no directory.

### Discovery

The walk is recursive in the code, a stack of calls in the model, and the invariant is about the
whole stack. `ChainInv`: every call but the innermost is in its second loop, at the name the next
call is under, and their paths are prefixes of one another. `FreshInv`: a name still to be visited
has nothing under it yet, so no path is charged, recorded or begun twice. `SawInv` and `LinkInv`:
what a call has seen of its directory, and the directory the next call was made for, are still
there, or the directory is stale: its stamp has changed, which the comparison at the end will
find, or the change is blurred. `AccountInv`, `AstrayInv` and `FaithInv` each say of a property
of the result that it holds already or that someone on the stack still has it to do or to
discover; with an empty stack they are the three properties. `LimitInv` and `CompleteInv` are the
limits and the flag. When a call fails, only its own path becomes failed, and everything it left
undone is excused by that.

Assumed: `DiscoveryAssumptions`: directories, names and bounds of the right types, finitely many
names. Names are numbers, so that the order in which they are visited is theirs; the first of a
set is found by well-founded induction on the naturals, from the library.

### PackageParts

`ReaderInv` says of each stage what the entries read so far amount to. `Summed`: their sizes
add up to `total`, as a function from indices to sums that never exceeds the limit, extended by
one entry at a time. `ReadInv`: their spans are those of the headers that were compared.
`InflatedInv`: the parts are those of the entries inflated so far. What the comparison of
neighbouring spans says of all of them takes an argument: in the sorted order each span ends
before any later one starts (`InOrder`), so that entries share no byte (`EntriesApart`), and the
first span that ends after a byte holds it (`EveryByte`).

Assumed: `LimitsAssumption`, a natural limit on the total.

### Identification

`BudgetInv`: what was really used and what is left never exceed what there was, which is kept
because an allowance is at most what is left, and a failed parse is charged all of it
(`ChargeFits`). `RelationshipsInv` and `InventoryInv` say that every relationship recorded is one
of its part's, once, and every part looked at is mentioned once; `Reading` is what "completed"
promises of a part, and stays true while the inventory grows. With the last part it is
`InventoryHonest`.

The decisions are expressions over a package that no longer changes. `DocxKept` and `OdtKept`
take them apart in the code's order: what every early return has excluded gives one declaration
and one target (`OneTarget`, `GovernsAlone`, `OneAtName`), and the absence of issues gives the
conjuncts about "completed". Target resolution and folding are left as they are, functions of
which nothing is needed but that equal arguments have equal results.

Assumed: `BudgetsAssumption`, natural limits, and `NoneAssumption`, that a missing format or code is none of
the formats and codes.

### Evidence and NativeAnchors

The three theorems are about one specification, `NativeSpec`: a report is offered, or made of
an observation, and goes through the validation. `EvidenceInv` collects what each stage leaves
behind; an accepted report satisfies all of it, and each of the first two theorems is then about
one state.

`CoverageIsAccounted`: the scopes of an execution are apart and within the request by their own
rules, so their units are (`ApartFacts`, `WithinFacts`). That they make up the whole request is what
the comparison of merged regions is for: merging keeps the units, round by round and whatever
order the regions are taken in (`JoinFacts`, `MergingKeeps`, `MergedKeeps`), hence equal merged
regions mean equal units (`AllAccounted`).

`FindingsRestOnAnalysis`: a position lies in a span of an anchor of the finding, the span in a
scope of the anchor's execution, and the anchor's execution is the finding's. A scope in bytes is
about the text's UTF-8 form: `TotalsGrow` carries the span's order over to the offsets
(`CoveredFacts`).

`WhatIsMadeIsAccepted`: a report made of an observation passes each stage, by one lemma per stage
(`IndexedMade`, `ArtifactsStandMade` … `FindingsStandMade`). The difficult ones rest on the loops.
`Coalesced` is the invariant of joining: extents are in order and apart, each begins where an
occurrence does, and each occurrence's first scalar is in one; whether two are joined, and so
`MaxExtent`, does not matter. `Gathered` is that of grouping: the spans of the groups, read group
by group, are in order, all of them are spans that were found, and none of those is lost, for any
`MaxSpans` and `MaxScalars`. `OffsetsGrow` gives the order in bytes. The groups become anchors through a set,
whose sequence has each of them once (`SetToSeqFacts`), so that every finding's groups have
anchors and an anchor's reference has one record. The code fixes the order of anchors by
canonical keys; the proof holds for any order.

Assumed: `NoneAssumption`, `BlobAssumption` and `NullAssumption`, that null and a content kept
outside the report are none of the values they are compared with; `ObservationsAssumption`, that
observations are as `Observed` describes.

### Only model-checked

Liveness under fairness, which the proof system does not treat: `CallsReturn`, `Returns` and
`Exits`. Every invariant of the runs and every property of their steps, the refinement of
`AtomicTree` included, is a theorem.

## What is not modelled, and why

* Formatting, JSON encoding and decoding, schema checking (`wire`, `reportimport`), digests and
  canonical identity: they decide no order of events. Where they can fail, the failure is an
  alternative of the step they belong to; where two are compared, they are equal exactly when
  their contents are. The sort keys of findings and anchors are left out with them.
* The XML reader, the text parser and the analyzers: scanners over character data, sequential,
  tested against a reference implementation in the repository. Their results are inputs here.
* `reveal` (escapes, mapping, unified diff) and `profiles`: one call over data in memory. The
  diff's tests apply its result with an independent patch program where one is installed.
* Office and ODF text extraction, analysis and metadata: recognisers with large vocabularies
  over parsed XML, not called from the commands, without interaction.
* Of `evidence/v2`: configuration digests, the raw hash of a text and the rule for the byte
  order mark's finding in findingAnchors. Of `cli.Run`: the parsing of arguments, help and
  version, the finding views of schema 1.0, and a source whose Lstat fails under `--jsonl` or
  `--recursive`.
* `Open` and `Pin` of the workspace are one step of `Delivery`. Of the capability registry the
  catalog appears in `NativeAudit` and `NativeAnchors`; the precedence in NonExecutionReason is
  reduced to the cases a native run meets.
* Inode reuse and the two-call windows of `Tree`, excluded by the caller's duty above. For
  the same reason `DirectoryReveal` keeps the output root in its place; the command removes
  it by name (directory_reveal.go:119), unlike the nodes inside it.
* The Python reference, benchmarks, experiments and scripts.

## Plan

1. Done: the modules above, and proofs of all their safety properties.
2. Proofs next: the contracts by which modules are composed as statements of one module about
   the other (the tree of `DirectoryReveal` is what `Tree` shows of itself, the stream of
   `Delivery` what `Corpus` shows; the plan of `Tree` is done); that the loops of `Evidence` do not depend on the order of equal starts.
3. To model: the unified diff's hunks, `profiles`' override precedence, `Open` and `Pin`.
4. `Corpus` over the results of `Discovery`: its set of plans as a contract both modules name.
