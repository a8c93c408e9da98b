CONSTANTS
  A = A
  B = B
  X = X
  NIL = NIL
  None = None
  N = 2
  Height = 1
  MaxRound = 2
  U32 = 4
  Faulty = {1}
  Values <- MCValues
  ValidValues <- MCValidValues
  Fresh <- MCFresh
  FaultyMsgs <- PairMsgs
SPECIFICATION NetSpec
CHECK_DEADLOCK FALSE
INVARIANTS
  NeverStalls
  EvidenceIsSound
  RunsToCompletion
  CertificateVerifies
  TimerArmed
  QuadRunsSafely
PROPERTIES
  LockAdvances
  ImplementsVoting
  HeightDecided
