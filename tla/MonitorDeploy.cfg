\* Three pushes, one of them a revert, with a failure or a death and a rerun.
SPECIFICATION Spec
CONSTANTS
  copilot = copilot
  engine = engine
  root = root
  MaxSha = 3
  Services = {copilot, engine, webhook}
  Webhook = webhook
  Probed = {copilot, webhook}
  Packages = {root}
  Code <- MCCode
  Deps <- MCDeps
  None = none
  Missing = missing
  Partial = partial
  Free = free
  Stale = stale
  MaxFaults = 1
  MaxReruns = 1
INVARIANTS
  RunsTheMarkedCode
  InstalledAsRecorded
PROPERTIES
  MarkedIsVerified
  NeverGoesBack
CHECK_DEADLOCK FALSE
