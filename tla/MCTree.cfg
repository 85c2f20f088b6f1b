\* Two candidates, one nested; a budget that one revealed and one failed source and
\* the closing files exhaust exactly; up to two faults or outside changes anywhere.
CONSTANTS
  Sources <- MCSources
  Candidates <- MCSources
  Unplanned <- MCUnplanned
  Dirs <- MCDirs
  PathOf <- MCPathOf
  Above <- MCAbove
  Offers <- MCOffers
  Lengths = {0, 1, 2}
  Bytes = 8
  MaxFaults = 2
SPECIFICATION Spec
INVARIANTS
  ReceiptsBacked
  ManifestLast
  CleanMeansGone
  BudgetCoversJob
PROPERTIES
  StrangersSurvive
  CommittedIsFinal
  PublishesAtomically
CHECK_DEADLOCK FALSE
