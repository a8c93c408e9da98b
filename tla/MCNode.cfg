SPECIFICATION NodeSpec
CONSTANTS
  N = 6
  None = None
  Topologies <- MCTopologies
  Mute = {1}
  Slow <- MCSlow
  own = own
  peer = peer
CHECK_DEADLOCK FALSE
INVARIANTS
  AcyclicWaits
  NeverStuck
  ArchiveHoldsChain
PROPERTIES
  MeshEstablished
  EveryoneFinishes
  FloodEnds
  ImplementsFinalizedHeight
  ComesBack
