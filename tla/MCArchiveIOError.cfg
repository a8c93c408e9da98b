SPECIFICATION Spec
CONSTANTS
  MaxHeight = 5
  QCs = {own, peer}
  snapshot_interval = 2
  max_suffix_blocks = 3
  MaxSync = 2
  MaxEntries = 9
  MaxCrashes = 0
  MaxFaults = 1
  None = None
CHECK_DEADLOCK FALSE
INVARIANT Recoverable
