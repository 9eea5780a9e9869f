SPECIFICATION WorkSpec
CONSTANTS
  u1 = u1
  u2 = u2
  GoldSymbols = {u1, u2}
  GoldScores <- GoldReadings
  Offsets <- GoldOffsets
  Multipliers <- GoldGrid
  MinGecScore = 50
  MinCombined = 60
  SlMultiple = 2
  TpMultiple = 3
  MaxGoldSignals = 1
  InitialBalance = 10
  Prices = {1, 2, 4}
  Bars = 3
  WarmUp = 2
  MaxBars = 2
  RiskPercent = 20
  SlDistance = 1
  TpDistance = 2
  TcSymbols = {1, 2, 3}
  TcPrices = {100, 131}
  Matrix <- Correlations
  MaxPositions = 2
  StopPips = 20
  TargetPips <- ThreeTargets
  TcRetries = 1
  MaxOpened = 3
  Fetched = {{1, 2}, {3}}
  StopGenes = {2, 7}
  TargetGenes = {3, 10}
  GecGenes = {3}
  CombinedGenes = {4}
  PoolSize = 2
  Fitness <- GeneFitness
  SoParams = {1, 2}
  SoData = {1, 2}
  SoFitness <- TradeFitness
  LowThreshold = 0
  HighThreshold = 1
  MaxSaved = 1
  RlPrices = {1, 3}
  Rows = 6
  TrainRows = 4
  EpisodeLength = 1
  StartMargin = 2
  RlBalance0 = 4
  SizePercent = 50
  MaxUnits = 1
  Episodes = 2
  EvalEpisodes = 1
  ReplayCapacity = 3
  BatchSize = 2
  TargetFreq = 2
  RolloutLength = 2
  RecentMax = 3
  MinPredictions = 2
  WindowSize = 3
  RetrainThreshold = 2
  MinSamples = 2
  MaxTotal = 7
  OlModels = {u1, u2}
  NoModel = NoModel
  MaxCompares = 2
  EnsembleSize = 2
  WeightUnit = 200
  MinWeight = 10
  OutcomeWindow = 2
  Injected = 1
  AccuracyThreshold = 55
  MaxClock = 12
  LiveTimeframes = {"M5", "H4"}
  Readings <- AllReadings
  SignalRetries = 2
  IndicatorRetries = 1
  HistoryMax = 4
  HistoryKeep = 2
  PcUsers <- OneTrader
  PcSymbols = {"s1"}
  MaxClosed = 2
  Profits <- WonOrLost
  GeneValues <- GeneRange
  FirstPools <- TwoPools
  TournamentSize = 2
  EliteCount = 1
  Candles <- SevenBars
  LookBack = 1
  Horizon = 4
  MinGec = 30
  MinScore = 40
  Capital = 20
  MinTrades = 3
  Requests = {u1, u2}
  Passwords = {1}
  FailLimit = 2
  LockClock = 1
  MaxDevices = 1
  MaxSessions = 1
  Logins = {u1, u2}
  Balances = {5, 7}
  ScalingThreshold = 6
  KeptBalance = 5
  DistributionPct = 50
  NoRow = NoRow
  GuardThreads = {u1, u2}
  RateWindow = 2
  BucketCapacity <- Capacities
  BlockDuration = 2
  GuardClock = 4
  Devices = {u1, u2}
  MaxDeviceHistory = 1
  BusyRequests = 0
  FloodRequests = 1
  TimeScores = {8}
  Logs <- DetectorLogs
  Window <- DetectorWindows
  KeptFor <- LogAges
  Threshold <- TwoEach
  RateWindows <- MinuteToHour
  SpikeSamples = 2
  SpikeMultiplier = 1
  SizeMultiplier = 1
  SizeSamples = 2
  Volumes = {1, 2}
  LoginUsers = {u1, u2}
  Targets = {u1, u2}
  MaxEntries = 3
  MonitorClock = 5
  EventWorkers = {u1, u2}
  RuleThreshold = 2
  RuleWindow = 2
  MaxEvents = 3
  SourceFiles = {u1, u2}
  Contents = {1, 2}
  GoldEnabled = TRUE
  Standard <- StandardLimits
  Gold <- GoldLimits
  MaxTrades = 2
  MaxStreak = 1
  TargetLock = 40
  StartEquity = 100
  Results <- WinAndLoss
  Drawdowns = {700, 1200, 2500}
  WinRates = {20}
  EquityScales = {90}
  Workers = {u1, u2}
  MaxCount = 2
  MaxDays = 2
  FailuresAllowed = 2
  Cooldown = 1
  Healths = {40, 60, 75, 90}
  TaskRetries = 2
  BackupClock = 3
  MaxLog = 3
  V6Markets <- ThreeMarkets
  V6Symbols <- V6Order
  PartsOf <- V6Parts
  Reports <- TwoReports
  MomentumBars = 3
  FastBars = 5
  SlowBars = 6
  KellyWindow = 3
  KellyLeast = 2
  V6Regimes = {"unknown", "ranging"}
  MaxRates = 2
  Alerters = {u1, u2}
  AlertSubjects = {u1}
  Minute = 1
  MaxAlerts = 1
  AlertChannels <- TwoChannels
  Reachable = {"email", "push"}
  MaxNotes = 2
  NodeNames = {u1, u2}
  NoHolder = "nobody"
  Syncer = u1
  HistoryLength = 2
  LockTtl = 2
  MaxVersions = 2
  u3 = u3
  Readers = {u1, u2}
  DayLength = 2
  PreWindow = 1
  PostWindow = 1
  FetchedCalendars <- TwoCalendars
  DefaultAhead <- FromTomorrow
  MaxTime = 3
  Sockets = {u1, u2, u3}
  StreamSymbols = {1}
  MaxSockets = 2
  CountLife = 2
  BufferLimit = 2
  MaxCandles = 5
  MaxTickets = 1
  MaxQueue = 1
  ConnectTries = 2
  OrderPrices = {0, 1}
  Monitors <- ThreeMonitors
  Makeable = {"alerts"}
  MaxLoops = 2
  FeatureUsers = {u1, u2}
  Stamps = {1, 2}
  FeatureTtl = 1
  FeatureClock = 1
  Missing = Missing
INVARIANTS WorkTypeOK BacktestReconciles BreakevenKept LearnedOnce MismatchMeansMoved FullCountIsLocked RateHeld
CHECK_DEADLOCK FALSE
