SPECIFICATION Spec
CONSTANTS
  NoSession = NoSession
  Sessions <- MCSessions
  MaxSessions = 2
  ReplayWindow = 2
  NoRef = NoRef
  TableLimit <- MCTableLimit
  MaxHopsPerPath = 2
  FreshHorizon = 1
  AgingHorizon = 2
  StaleHorizon = 3
  Reference = "ref"
  None = None
  MaxClockDomains = 3
  MaxUncertainty = 1
  AllowHoldover = FALSE
  RequireMatch = {"generation", "epoch", "incarnation"}
  NoValue = NoValue
  NanosMax = 10
  MaxSamplesPerPath = 3
  MaxQuantileProbes = 2
  MaxHistoryBuckets = 2
  MaxBaselines = 2
  MinSamples = 1
  WatchDelta = 1
  ElevatedDelta = 3
  AllowPartial = TRUE
  Sources = {"s1", "s2"}
  Setup <- MCSetup
  Redefinitions <- MCRedefinitions
  ClockDomains <- MCClockDomains
  Synced <- MCSynced
  Syncs <- MCSyncs
  Measurements <- MCMeasurements
  Requests <- MCRequests
  BaselineNames = {"b1"}
  BaselineRequests <- MCBaselineRequests
  Ends = {2, 3, 4, 5}
  DefaultBuckets = 2
  ProvenanceLimit = 1
  ExportLimit = 1
  RecordCapacity = 2
  TrueOffset <- MCTrueOffset
  Instants = {1, 3}
  MaxRestarts = 1
INVARIANTS
  TypeOK
  DwellsAreTrue
  DistributionsAreExact
  HistoryAgreesWithSummary
  AttributionAgreesWithSummary
  AttributionConserves
  ProvenanceAgreesWithSummary
  OrderIndependent
  BaselinesSpeakForTheirWindow
  RestartPreservesHistory
CHECK_DEADLOCK FALSE
