\* The same plan with a budget for two revealed sources and one fault or outside
\* change: every call returns.
CONSTANTS
  Sources <- MCSources
  Candidates <- MCSources
  Unplanned <- MCUnplanned
  Dirs <- MCDirs
  PathOf <- MCPathOf
  Above <- MCAbove
  Offers <- MCOffers
  Lengths = {0, 1, 2}
  Bytes = 12
  MaxFaults = 1
SPECIFICATION Spec
PROPERTIES
  CallsReturn
CHECK_DEADLOCK FALSE
