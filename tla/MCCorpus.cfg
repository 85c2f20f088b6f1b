\* Both schemas, with and without an observer.  The second candidate meets
\* every remainder of the acquisition budget, 0 and 1 included; three records of two
\* bytes exhaust the output budget before a summary.
CONSTANTS
  Plans <- MCPlans
  Schemas = {"1.0", "2.0"}
  InputBytes = 2
  AcquisitionBytes = 3
  OutputBytes = 6
  RecordBytes = {1, 2}
  Severities = {0, 3}
SPECIFICATION Spec
INVARIANTS
  SummaryTrue
  LowExitVouches
  EndIsFinal
  ObserverAgrees
PROPERTIES
  Returns
CHECK_DEADLOCK FALSE
