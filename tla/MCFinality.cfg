CONSTANTS
  n1 = n1
  n2 = n2
  n3 = n3
  f1 = f1
  A = A
  B = B
  NIL = NIL
  None = None
  Validators <- MCValidators
  Faulty <- MCFaulty
  Values <- MCValues
  Rounds <- MCRounds
  Published <- MCPublished
  NoClaim = NoClaim
SYMMETRY Symmetry
SPECIFICATION FinalitySpec
CHECK_DEADLOCK FALSE
INVARIANTS
  Agreement
  DecisionLocksLaterRounds
  MoneyFollowsWinners
  EveryStateRestores
  PoolExecutes
  PaidOnce
