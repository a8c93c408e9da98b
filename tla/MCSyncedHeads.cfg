SPECIFICATION Spec
CONSTANTS
  None = None
  Objects = {1, 2}
  parent <- NoParents
  sequence <- TwoHeads
  MaxStops = 1
INVARIANT SyncedHeadsConverge
