SPECIFICATION Spec
CONSTANTS
  MaxHeight = 5
  QCs = {own, peer}
  snapshot_interval = 9
  max_suffix_blocks = 2
  MaxSync = 1
  MaxEntries = 3
  MaxCrashes = 1
  MaxFaults = 0
  None = None
CHECK_DEADLOCK FALSE
INVARIANT Recoverable
