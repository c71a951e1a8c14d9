\* Two connectors and rows without one, two ticks in flight, crashes, failed writes, a damaged file.
SPECIFICATION Spec
CONSTANTS
  c1 = c1
  c2 = c2
  Connectors <- MCConnectors
  NoConnector = none
  Errors = {e1}
  Ticks = {t1, t2}
  QueryWindow = 3
  MaxAlertAge = 3
  RebuildWindow = 4
  RebuildMinAge = 3
  IncidentGcAge = 2
  BackoffGcAge = 5
  Tiers <- MCTiers
  MaxTime = 6
  MaxRows = 3
  MaxCrashes = 1
  MaxFileFaults = 1
SYMMETRY Symmetry
INVARIANTS
  NoReburstWhileOpen
  RebuildKeepsSilence
  SilenceHasCause
  BackoffHonoured
CHECK_DEADLOCK FALSE
