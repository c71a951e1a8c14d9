\* The start-up migration charges a retry nobody let in.
SPECIFICATION Spec
CONSTANTS
  Messages = {m1, m2}
  Handlers = {h1}
  Sweeper = sweeper
  NoMessage = none
  DailyLimit = 1
  MaxAttempts = 1
  MaxCrashes = 1
INVARIANTS
  LimitHonoured
CHECK_DEADLOCK FALSE
