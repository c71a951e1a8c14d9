\* One connector, no faults: a recovery older than the detection of the theft it follows.
SPECIFICATION Spec
CONSTANTS
  c1 = c1
  c2 = c2
  Connectors = {c1}
  NoConnector = none
  Errors = {e1}
  Ticks = {t1}
  QueryWindow = 3
  MaxAlertAge = 3
  RebuildWindow = 4
  RebuildMinAge = 3
  IncidentGcAge = 9
  BackoffGcAge = 9
  Tiers <- MCTiers
  MaxTime = 7
  MaxRows = 3
  MaxCrashes = 0
  MaxFileFaults = 0
PROPERTIES
  TheftAfterRecoveryIsFresh
CHECK_DEADLOCK FALSE
