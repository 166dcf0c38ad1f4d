SPECIFICATION ServicesSpec
CONSTANTS
  BackendCalls = 2
  MaxBackends = 3
  BackendKeys = {k1, k2}
  QueueNames = {q1, q2}
  NoKey = NoKey
  AccountCalls = 3
  MaxAccounts = 2
  Emails = {e1}
  NoEmail = NoEmail
  GoogleIds = {g1}
  PassportIds = {h1}
  NoSocial = NoSocial
  Words = {w1, w2}
  ShortWord = ShortWord
  NoWord = NoWord
  FreeQuota = 2
  Grants = {3}
  MaxCharges = 1
  TokenCalls = 3
  MaxTokens = 1
  Forms <- TokenForms
  RabbitCalls = 3
  MaxDeaths = 2
  MaxFailures = 1
  RedisCalls = 3
  PullCount = 2
  MaxStreams = 1
  UnaryCalls = 3
  MaxPullFailures = 1
  MaxRemovals = 1
  MaxLogged = 2
  LogBuffer = 2
  Passes = 2
  ClearLimit = 2
  MaxLogCount = 1
  UsageEvents = 2
  UsageBuffer = 2
  Minutes = 3
  MinutesPerHour = 2
  UsageFailures = 1
  ApiRequests = 2
  MaxSignals = 2
  NotifyPasses = 3
  MaxCounted = 3
  Thresholds = {0, 2}
  LoadMessages = 3
  LoadWorkers = 2
  LoadFaults = 2
CHECK_DEADLOCK FALSE
INVARIANT ServicesTypeOK
INVARIANT BackendsSound
INVARIANT CredentialsSound
INVARIANT QuotaAddsUp
INVARIANT RevokedIsRefused
INVARIANT RabbitSound
INVARIANT StoppedTakesOne
INVARIANT LogSound
INVARIANT UsageAddsUp
INVARIANT ServedBeforeExit
INVARIANT ToolsSound
PROPERTY RedisImplementsQueue
PROPERTY PartsSettle
