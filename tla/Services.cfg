CONSTANTS
  a = a
  b = b
  c = c
  fa = fa
  fb = fb
  fc = fc
  d = d
  fd = fd
  BaseNode <- MCBase
  FallbackNode <- MCFallback
  fallbackId <- MCfallbackId
  Definitions <- MCReplayed
  DefaultDefinition <- MCDefault
  Workers = 2
  MaxKills = 0
  MayAbort = TRUE
  TraceMayFail = FALSE
  MaxReplays = 1
  MaxPendingRpcs = 2
  MaxCalls = 4
  MaxKimis = 3
  Server = {s1, s2}
  NoServer = NoServer
  MaxTransports = 3
  Worker = {n1, n2}
  Jobs <- MCJobs
  DeepSeekRetries = 1
  DeepSeekRunner = TRUE
  Command = {p1, p2}
  MaxIterations = 2
  CronJob = {j1}
  Setting <- MCSetting
  MaxTicks = 2
  MaxRuns = 3
  MaxEdits = 1
SPECIFICATION ServicesSpec
INVARIANTS
  ServicesTypeOK
  DependenciesMet
  ReplayFailsForCause
  WireInv
  NoServerLeftRunning
  NothingOwedWhenIdle
  ReadOnlyForDeepSeek
  OneSwitch
  LoopBounded
  RunsRecorded
PROPERTIES
  ImplementsCalls
  CallsSettle
  HostReplies
  OnlyRetriesWhenDisabled
  ForbidWaits
CHECK_DEADLOCK FALSE
