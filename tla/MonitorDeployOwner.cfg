\* Nothing fails: what becomes of the newest push.
SPECIFICATION FairSpec
CONSTANTS
  copilot = copilot
  engine = engine
  root = root
  MaxSha = 3
  Services = {copilot, engine, webhook}
  Webhook = webhook
  Probed = {copilot, webhook}
  Packages = {root}
  Code <- MCCode
  Deps <- MCDeps
  None = none
  Missing = missing
  Partial = partial
  Free = free
  Stale = stale
  MaxFaults = 0
  MaxReruns = 0
PROPERTIES
  SupersedingIsPublished
CHECK_DEADLOCK FALSE
