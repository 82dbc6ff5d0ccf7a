SPECIFICATION Spec
CONSTANTS
  Sessions = {k1, k2}
  NoSession = NoSession
  MaxSessions = 2
  ReplayWindow = 2
  MaxSegmentRecords = 3
  MaxSegmentBytes = 100
  MaxStoreBytes = 5
  HeaderBytes = 1
  FooterBytes = 1
  NoPayload = NoPayload
  FreshHorizon = 1
  AgingHorizon = 2
  StaleHorizon = 3
  Reference = Reference
  None = None
  MaxClockDomains = 2
  MaxUncertainty = 1
  AllowHoldover = TRUE
  RequireMatch = {"generation", "epoch", "incarnation"}
  NoRef = NoRef
  TableLimit <- MCTableLimit
  MaxHopsPerPath = 2
  s1 = s1
  g1 = g1
  g2 = g2
  d1 = d1
  SourceOrder <- MCSourceOrder
  Seqs = {1, 2}
  Definitions <- MCDefinitions
  ClockDomains <- MCClockDomains
  Syncs <- MCSyncs
  MaxBatch = 2
  RecordCapacity = 6
  MaxCalls = 3
  MaxRuns = 3
INVARIANTS
  TypeOK
  AckedIsDurable
  RestartIsFaithful
  AckedStaysFenced
  DefinitionsLoad
SYMMETRY Symmetry
CHECK_DEADLOCK FALSE
