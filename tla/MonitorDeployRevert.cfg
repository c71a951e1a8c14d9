\* A step fails or a service is recycled, then a revert is pushed.
SPECIFICATION Spec
CONSTANTS
  copilot = copilot
  engine = engine
  root = root
  MaxSha = 2
  Services = {copilot, engine, webhook}
  Webhook = webhook
  Probed = {copilot, webhook}
  Packages = {root}
  Code <- MCCode
  Deps <- MCDeps
  None = none
  Missing = missing
  Partial = partial
  Free = free
  Stale = stale
  MaxFaults = 1
  MaxReruns = 0
PROPERTIES
  MarkedIsDeployed
CHECK_DEADLOCK FALSE
