SPECIFICATION Spec
CONSTANTS
  N = 4
  None = None
  Topologies <- Bystander
  Mute = {1}
  Slow = {}
CHECK_DEADLOCK FALSE
PROPERTY NobodyHangs
