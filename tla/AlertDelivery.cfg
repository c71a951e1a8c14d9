\* Two alerts over a fault and a restart, or one alert over a fault and ticks that overlap.
SPECIFICATION FocusedSpec
CONSTANTS
  Alerts = {a1, a2}
  OneAlert = a1
  NoAlert = none
  Ticks = {t1, t2}
  OneTick = t1
  RetryLimit = 1
  RetryWindow = 1
  MaxAlertAge = 1
  MaxTime = 2
  MaxMsgs = 6
  MaxFaults = 1
  MaxCrashes = 1
INVARIANTS
  SentMeansDelivered
  NoVisibleDuplicate
PROPERTIES
  ReplacedUnlessOvertaken
  SavedIsSentOrExpires
CHECK_DEADLOCK TRUE
