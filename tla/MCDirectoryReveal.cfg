\* Two entries; an acquisition budget that the first can exhaust and an output budget
\* that the last record can.
CONSTANTS
  Plans <- MCPlans
  Schemas = {"2.0"}
  InputBytes = 2
  AcquisitionBytes = 3
  OutputBytes = 4
  RecordBytes = {1, 2}
  Severities = {0, 3}
SPECIFICATION DRSpec
INVARIANTS
  LedgerFits
  NothingLeftUnsaid
  LowExitPublished
PROPERTIES
  CommittedStays
  Exits
CHECK_DEADLOCK FALSE
