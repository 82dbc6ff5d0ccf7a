SPECIFICATION FairSpec
CONSTANTS
  Workers = {w1, w2}
  Clients = {c1, c2}
  MaxTasks = 3
  QueueDepth = 2
  MaxRefusals = 1
INVARIANTS
  TypeOK
  SettledOnce
  CountersMatchFutures
  QuietAfterShutdown
  CancelledReportsCancelled
  NoLostWakeup
PROPERTIES
  EveryTaskSettles
  ShutdownReturns
CHECK_DEADLOCK FALSE
