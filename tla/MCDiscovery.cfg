\* Three directories, three names, one of them not UTF-8; an entry, path and depth limit
\* that some trees meet exactly and others exceed; batches of two names; changes in
\* different ticks of the clock and one fault, anywhere.
CONSTANTS
  d1 = d1
  d2 = d2
  Dirs = {root, d1, d2}
  Root = root
  Names = {1, 2, 3}
  InvalidNames = {3}
  Edited = {1, 2}
  Leaves = {"file", "link", "special"}
  Worlds <- MCWorlds
  MaxEntries = 4
  MaxDepth = 1
  PathBytes = 9
  Batch = 2
  MaxChanges = 2
  MaxTicks = 1
  MaxFaults = 1
SPECIFICATION Spec
INVARIANTS
  FaithfulListing
  PathsResolved
  NothingOmitted
CHECK_DEADLOCK FALSE
