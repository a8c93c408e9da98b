SPECIFICATION Spec
CONSTANTS
  None = None
  Poisoned = Poisoned
  a = a
  Ops <- MCOps
  Objects = {a}
  Outboxes <- MCOutboxes
  Budgets <- MCBudgets
  MAX_OPERATIONS = 1
  MAX_BACKOFF = 2
  Ceiling = 1
INVARIANT CacheAgrees
