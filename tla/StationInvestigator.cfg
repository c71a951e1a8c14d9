\* One message with two webhook requests and the sweep; two messages and one slot.
SPECIFICATION SceneSpec
CONSTANTS
  Messages = {m1, m2}
  Handlers = {h1, h2}
  Sweeper = sweeper
  NoMessage = none
  DailyLimit = 1
  MaxAttempts = 3
  MaxCrashes = 1
INVARIANTS
  WithinLimit
PROPERTIES
  AnswersOnce
  OpenIsResolved
\* The second scene may come to rest; that no job stays open is OpenIsResolved.
CHECK_DEADLOCK FALSE
