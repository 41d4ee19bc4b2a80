SPECIFICATION SessionSpec
CONSTANTS
  t1 = t1
  t2 = t2
  Task = {t1, t2}
  None = None
  Key <- TwoAttempts
  Revoked <- FirstAttempt
  MaxRuns = 2
  MaxForgotten = 0
PROPERTY StoppedRunIsSilent
CHECK_DEADLOCK FALSE
