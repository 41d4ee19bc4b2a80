SPECIFICATION SessionFairSpec
CONSTANTS
  t1 = t1
  t2 = t2
  Task = {t1, t2}
  None = None
  Key <- Keys
  Revoked <- FirstAttempt
  MaxRuns = 3
  MaxForgotten = 1
INVARIANTS
  NoSilentDrop
PROPERTIES
  RerunOnlyWhenForgotten
  SlotIsFreed
CHECK_DEADLOCK FALSE
