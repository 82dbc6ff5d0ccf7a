SPECIFICATION Spec
CONSTANTS
  MaxSegmentRecords = 2
  MaxSegmentBytes = 5
  MaxStoreBytes = 6
  HeaderBytes = 1
  FooterBytes = 1
  NoPayload = NoPayload
  Sizes = {1, 4, 5}
  MaxRecords = 3
  MaxRuns = 3
  MaxFailures = 1
  MaxRefusals = 1
INVARIANT
  EveryIntactRecordIsRead
CHECK_DEADLOCK FALSE
