SPECIFICATION ServiceSpec
CONSTANTS
  None = None
  Poisoned = Poisoned
  Unlocking = Unlocking
  a = a
  b = b
  o1 = o1
  o2 = o2
  post = post
  reply = reply
  profile = profile
  photo = photo
  Ops <- MCOps
  Objects <- MCObjects
  Outboxes <- MCOutboxes
  Budgets <- MCBudgets
  MAX_OPERATIONS = 2
  MAX_BACKOFF = 2
  Ceiling = 1
INVARIANTS
  ServiceTypeOK
  StopsAreHeld
  ScheduleIsTrue
  DeliveredIsStored
  SendsUnderAuthority
  SignedOnce
  SequenceUnique
  ReportedIsPublished
  QueryExact
  IndexIsBounded
  ListedHasContent
  RepliesKeepParents
  HeadsConverge
PROPERTIES
  RevokedDeviceStaysOut
  PendingIsKept
  Delivers
  Reopens
