----------------------------- MODULE AtomicTree -----------------------------
(***************************************************************************)
(* What a publication transaction promises to a reader of the output root, *)
(* whatever fails and wherever the writer dies: the reader sees no tree or *)
(* the whole tree, and a tree the writer has confirmed stays.              *)
(***************************************************************************)
CONSTANT Items       \* what a complete tree holds: every source's outcome, the corpus

VARIABLES
  view,      \* the items a reader can rely on: none or all of them
  status     \* open, published, withdrawn, residue or crashed

Init == view = {} /\ status = "open"

\* The manifest becomes complete and the writer confirms the tree.
Publish ==
  /\ status = "open" /\ view = {}
  /\ view' = Items /\ status' = "published"

\* The manifest becomes complete but the writer could not confirm it: it is
\* going to withdraw the tree.
Slip ==
  /\ status = "open" /\ view = {}
  /\ view' = Items /\ UNCHANGED status

\* The manifest is removed before anything it describes, or was never there.
Retract ==
  /\ status = "open"
  /\ view' = {} /\ UNCHANGED status

\* Something the writer created could not be removed; it says so.
Residue ==
  /\ status = "open"
  /\ view' = {} /\ status' = "residue"

Withdraw ==
  /\ status = "open" /\ view = {}
  /\ status' = "withdrawn" /\ UNCHANGED view

Crash ==
  /\ status \in {"open", "residue"}
  /\ status' = "crashed" /\ UNCHANGED view

Next == Publish \/ Slip \/ Retract \/ Residue \/ Withdraw \/ Crash
Spec == Init /\ [][Next]_<<view, status>>
=============================================================================
