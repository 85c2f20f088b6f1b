\* Every allowance up to the ceiling; files reach one byte above the ceiling; three
\* changes in three ticks, enough for a write on each side of a read and a re-stamp.
CONSTANTS
  FileLimit = 3
  MaxSize = 4
  MaxChanges = 3
  MaxTicks = 2
SPECIFICATION SnapshotSpec
INVARIANTS
  SnapshotConsistent
  CodesTellTruth
  ChargeExpected
CHECK_DEADLOCK FALSE
