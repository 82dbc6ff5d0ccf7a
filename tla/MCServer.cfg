SPECIFICATION Spec
CONSTANTS
  NoSession = NoSession
  Sessions <- MCSessions
  MaxSessions = 2
  ReplayWindow = 2
  NoRef = NoRef
  TableLimit <- MCTableLimit
  MaxHopsPerPath = 2
  FreshHorizon = 1
  AgingHorizon = 2
  StaleHorizon = 3
  Reference = "ref"
  None = None
  MaxClockDomains = 3
  MaxUncertainty = 1
  AllowHoldover = FALSE
  RequireMatch = {"generation", "epoch", "incarnation"}
  NoValue = NoValue
  NanosMax = 10
  MaxSamplesPerPath = 3
  MaxQuantileProbes = 2
  MaxHistoryBuckets = 2
  MaxBaselines = 2
  MinSamples = 1
  WatchDelta = 1
  ElevatedDelta = 3
  AllowPartial = TRUE
  ProvenanceLimit = 1
  ExportLimit = 1
  RecordCapacity = 2
  MaxBatch = 1
  Now = 1
  Sources = {"s1"}
  Clients = {"c1", "c2"}
  Wake = "wake"
  Requests <- MCOperations
  MaxSends <- MCOneSend
  Pipelining = {}
  Readers = {"c1", "c2"}
  MaxConnections = 2
  ReapFactor = 1
  PipeSignal = TRUE
  Nobody = Nobody
  Start <- MCStart
  Names <- Refs
  Finds <- Lookup
  Enters <- Inserts
  Exclusive <- Writes
  Unlocked <- Lockless
  Handle <- Call
  NotFound <- MCNotFound
  NoAnswer = NoAnswer
INVARIANTS
  TypeOK
  ConnectionsAccounted
PROPERTIES
  ServesAtomically
CHECK_DEADLOCK FALSE
