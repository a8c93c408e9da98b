SPECIFICATION Spec
CONSTANTS
  None = None
  Objects = {1, 2}
  parent <- PostAndReply
  sequence <- NoHeads
  MaxStops = 1
INVARIANT RetainedKeepsParent
