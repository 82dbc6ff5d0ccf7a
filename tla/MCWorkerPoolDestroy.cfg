SPECIFICATION FairSpec
CONSTANTS
  Workers = {w1}
  Clients = {c1}
  MaxTasks = 1
  QueueDepth = 1
  MaxRefusals = 0
PROPERTIES
  DestructionStopsWorkers
CHECK_DEADLOCK FALSE
