SPECIFICATION InfraSpec
CONSTANTS
  b1 = b1
  b2 = b2
  i1 = i1
  i2 = i2
  p1 = p1
  k1 = k1
  k2 = k2
  h1 = h1
  h2 = h2
  h3 = h3
  Clients = {k1, k2}
  MaxConnections = 1
  ErrorLimit = 2
  MaxIds = 2
  MaxErrors = 3
  Brokers = {b1, b2}
  NoBroker = NoBroker
  BrokerPriority <- SamePriority
  Isps = {i1, i2}
  NoIsp = NoIsp
  IspPriority <- WiredFirst
  FailureThreshold = 2
  Books = {p1}
  NoBook = NoBook
  NoRecord = NoRecord
  SyncKeys <- SyncRound
  BufferMax = 2
  MaxSyncs = 3
  Callers = {k1, k2}
  BreakerThreshold = 3
  ConnectRetries = 2
  Healers = {k1, k2}
  HealThreshold = 2
  MaxRestarts = 2
  MaxReconnects = 2
  Checks = {h1, h2, h3}
  CriticalChecks = {h1}
  Channels = {"email"}
INVARIANTS InfraTypeOK PoolBounded ExclusiveUntilReconnect NewestSurvives TroubleIsTold
PROPERTIES
  ErrorsCleared SettlesOnHealthy GivenUpStaysOut FlappingEnds
  CriticalShutsDown CommandOnce DrainEnds
  BreakerFollowsBridge CircuitRecovers
CHECK_DEADLOCK FALSE
