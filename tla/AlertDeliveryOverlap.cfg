\* Two ticks that overlap, nothing fails.
SPECIFICATION Spec
CONSTANTS
  Alerts = {a1}
  NoAlert = none
  Ticks = {t1, t2}
  RetryLimit = 1
  RetryWindow = 1
  MaxAlertAge = 1
  MaxTime = 1
  MaxMsgs = 3
  MaxFaults = 0
  MaxCrashes = 0
PROPERTIES
  ReplacedOnlyAfterFailure
CHECK_DEADLOCK FALSE
