SPECIFICATION ServicesSpec
CONSTANTS
  \* Observation
  MaxRound = 2
  MaxPending = 1
  Stake = 1
  InitialBalance = 1
  MaxDaily = 1
  MaxTrades = 2
  \* Supervisor
  Managers = {"m1", "m2"}
  NoManager = "no manager"
  \* Browser
  MaxRecoveryAttempts = 2
  \* SheathMode
  EvaluateHighRounds = 2
  EvaluateMediumRounds = 3
  RecoveryRequiredRounds = 2
  MaxRecoveryTries = 2
  \* Recovery
  Bets = {b1, b2}
  Runs = {run1, run2}
  MaxBetsPerSweep = 1
  \* Leases
  LockClients = {"c1", "c2", "c3"}
  ProcessOf <- MCProcessOf
  NoClient = "nobody"
  \* Workers
  Concurrency = 2
  MaxErrors = 2
  MaxQueue = 2
  MaxRestarts = 2
  \* OperatorControl
  Operators = {o1, o2}
  MaxTokens = 2
  \* EntryDecision
  MinWindow = 3
  Grace = 2
  WarmAt = 2
  FailThreshold = 2
  \* ModelRollout
  Models = {"acie", "meta", "new"}
  \* Metrics
  WinPnl = 1
  LossPnl = 2
  MaxOutcomes = 6
  \* DailyEntries
  Rows = {r1, r2, r3, r4, r5, r6}
  MaxEntries = 2
  Releasable = {"RESERVED", "CONFIRMED"}
  Confirmable = {"RESERVED", "RELEASED"}
  MaxUnheld = 2
  \* Application
  AppRounds = {"q1", "q2"}
  MaxRecent = 2
  \* Repositories
  MaxTicks = 3
  BatchSize = 2
  MaxStored = 3
  \* Notices
  MaxNotices = 5
  MinuteLimit = 2
  HourLimit = 3
  Components = {"dom", "db"}
  MaxHistory = 2
  AlertLimit = 2
  DegradedLimit = 1
  MaxMinutes = 1
  Senders = {"u1"}
  CommandLimit = 2
  MaxLaunches = 2
  \* Gates
  Bankroll = 4
  PanicFloor = 1
  MaxDrawdown = 2
  MaxStake = 2
  MaxSnapshots = 2
  MaxLatencies = 3
  EntryNeeds = 1
  MaxPlacements = 2
  MaxDays = 1
  Writers = {"w1", "w2"}
  SlotLimit = 1
  MaxAttempts = 2
  \* AcieEngine
  CrashIds = 2
  Remembered = 3
  KeptCrashes = 2
  HeavyEvery = 2
  SeedFrom = 2
  MaxLearned = 5
  \* GameSources
  GameRounds = 2
  MaxCrashes = 2
  MinAgreeing = 2
  \* Learning
  LagCap = 3
  ShortCap = 2
  MaxPoints = 5
  MaxPairs = 2
  MaxRegimes = 1
  RefitEvery = 2
  MinFit = 1
  Regimes = {"a", "b"}
  MaxObserved = 5
  MaxWindow = 3
  MaxInserted = 5
  RecentCap = 20
  \* LoginPipeline
  MaxRetries = 1
  LoginUrls = 2
  \* Validation
  SimBalance = 3
  SimStake = 2
  WinAmount = 1
  SimDaily = 2
  SimDrawdown = 80
  MaxSimulated = 5
  MaxSimDays = 2
  RoundIds = {"r1", "r2", "r3"}
  MinHistory = 1
  DatasetRounds = 3
  MaxScored = 4
  ShortRounds = 2
  \* BrowserWorker
  Requests = {1, 2}
  ProbeThreshold = 3
  \* JobQueue
  Jobs = {"j1", "j2"}
  JobAttempts = 3
  ShedDepth = 1
  QueueDepth = 1
  MaxJobTime = 5
  BreakAfter = 2
  HalfOpenCalls = 2
  ResetTime = 2
  MaxCalls = 2
INVARIANTS
  ServicesTypeOK RoundsReachBridges StopsHold VirtualMoney StatusIsTruthful
  ClosedStaysClosed VerdictsAreEarned LeaseExclusive WorkIsKept LiveWasAskedFor
  RolloutIsGuarded LearningIsTrue LimitsHold  CountersMatchRows
  EntriesWithinLimit
PROPERTIES
  CrashNeedsStart
\* Sequences of orders, outcomes and rounds end; a closed browser rests.
CHECK_DEADLOCK FALSE
