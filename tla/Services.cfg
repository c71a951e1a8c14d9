\* Each service by itself; the webhook with its queues over a replay and a restart.
SPECIFICATION ServicesSpec
CONSTANTS
  MaxRestarts = 1
  Messages = {r1, r2}
  Operators = {o1}
  MaxQuestions = 2
  MaxRuns = 2
  MaxJobAttempts = 2
  MaxTries = 2
  MaxMediaAttempts = 1
  MaxEventAttempts = 1
  Delivered = {r1}
  MaxReplays = 1
  MaxMonth = 2
  DaysInMonth = 3
  MonthlyDay = 2
  MaxDay = 6
  Questions = {u1}
  Rounds = {d1, d2}
  AskEvery = 2
  MaxToolCalls = 2
  MaxDate = 2
  MaxTurns = 1
  MaxAttempts = 2
  Chats = {c1}
  Generations = {g1, g2}
  NoChat = none
  MaxWritten = 2
  MaxPending = 2
  Sources = {"ocpp"}
  Routes = {w1}
  LogRoutes = {w1}
  Stations = {t1, t2}
  PricingKinds = {k1}
  Chargers = {h1}
  QueryWindow = 1
  CorrelationWindow = 0
  DebounceWindow = 2
  ForgetAfter = 2
  AlertAge = 0
  StallAfter = 1
  LogErrors = 2
  SlowInAll = 2
  SlowOnRoute = 2
  MaxRows = 2
  MaxNow = 3
  MaxWatched = 1
  MaxFailures = 1
  Cases = {x1, x2}
  Unconfigured = {x2}
  Calls = {q1, q2}
  NoCase = none
  NoticeWindow = 2
  MaxHours = 3
  MaxMishaps = 1
  Releases = {v1, v2}
  NoRelease = none
  ProposalTtl = 1
  Heightened = 1
  Cooldown = 2
  MaxClock = 3
  MaxProduction = 1
  Batches = {b1, b2}
  Entries = {e1, e2}
  MaxPosts = 2
  MaxLogged = 2
  EventEntries = {2}
  Polls = {p1, p2}
  PollLimit = 1
  MaxSeen = 2
  Sockets = {s1, s2, s3}
  Starts = {i1, i2}
  NoSocket = none
  MaxRecords = 2
  MaxRequests = 2
  TrackedChargers = {j1}
  MaxTransaction = 2
  SignOfLife = 1
  SilenceLimit = 0
  RecoveryCooldown = 1
  ZeroPowerLimit = 0
  ErrorLimit = 1
  PlaceholderLimit = 0
  MaxLate = 1
  MaxMinute = 2
  Mails = {m1, m2}
  Phones = {f1, f2}
  Lids = {l1}
  PushNames = {n1}
  NoPhone = nophone
  NoName = noname
  Unreceived = unreceived
  Challenge = challenge
  MaxConversations = 3
  MaxBindings = 1
  DashboardReplies = {y1, y2}
  Texts = {z1, z2}
  Placeholder = placeholder
  NoId = noid
INVARIANTS
  OneOutlet
  OneAnswererInOrder
  ClosedOnceInOrder
  OneAttemptPerWatch
  AckedIsStored
  StoredAsProcessed
  InstanceIsTended
  NoticeYields
  AskedOncePerInterval
  SilencedByAnAlert
  AlertedOncePerWindow
  ToldOncePerWindow
  SparedIsCharging
  FiledWhereFound
PROPERTIES
  HeldIsSilent
  ShownOnce
CHECK_DEADLOCK FALSE
