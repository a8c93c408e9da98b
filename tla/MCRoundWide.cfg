CONSTANTS
  A = A
  B = B
  X = X
  NIL = NIL
  None = None
  N = 2
  Height = 1
  MaxRound = 2
  U32 = 4
  Faulty = {1}
  Values <- MCValues
  ValidValues <- MCValidValues
  Fresh <- MCFresh
  FaultyMsgs <- WideMsgs
SPECIFICATION Spec
CHECK_DEADLOCK FALSE
INVARIANTS
  LockHolds
