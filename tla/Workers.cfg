\* What becomes of all that was started, over a restart.
SPECIFICATION WorkersSpec
CONSTANTS
  Mentions = {r1}
  MaxRestarts = 1
  Messages = {r1, r2}
  Operators = {o1}
  MaxQuestions = 2
  MaxRuns = 2
  MaxJobAttempts = 2
  MaxTries = 2
  Findings = {f1, f2}
  NoFinding = none
  BatchSize = 1
  MaxCycles = 1
  MaxObserved = 1
  MaxPushes = 1
  Requests = {q1, q2}
  Keys = {k1, k2}
  CacheTtl = 1
  CacheEntries = 1
  Deadline = 1
  MaxSec = 2
  MaxDeaths = 1
  Uploads = {u1, u2}
  MaxEvents = 2
  Chunk = 1
  MaxSweepFaults = 2
INVARIANTS
  AskedAgainOnlyIfRefused
  AnsweredOnce
PROPERTIES
  BookedByConsent
  ProposalEnds
  JobIsHandled
  ClaimIsHandled
  SweepEnds
  QueryEnds
  ExpiredIsDeleted
CHECK_DEADLOCK FALSE
