\* Three appends, one of which may fail, and two stops of the process.
CONSTANTS
  Records <- InsertAndEnd
  MaxAppends = 3
  MaxFailures = 1
  MaxStops = 2
SPECIFICATION Spec
CHECK_DEADLOCK FALSE
INVARIANTS
  TypeOK
  RecoversIntactRecords
  FlushedLsnIsOnDisk
  LsnsGrowAlongTheFile
