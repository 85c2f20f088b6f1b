\* Both schemas and views, with and without snapshot and reader; the context may end
\* before, between and during all six operations.
CONSTANTS
  Checks <- MCChecks
  Declared = {"c2pa"}
  FindingSets <- MCFindingSets
  Views = {"audit", "filtered"}
SPECIFICATION Spec
INVARIANTS
  CoverageIsHistory
  NeverRefused
  ExitMeaning
  SnapshotWithCompletion
  OutcomeExpected
CHECK_DEADLOCK FALSE
