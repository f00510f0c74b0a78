\* The two records of the test recovery_manager_should_read_appended_records,
\* and one power loss.
CONSTANTS
  Records <- Ends
  MaxAppends = 2
  MaxFailures = 0
  MaxStops = 1
SPECIFICATION Spec
CHECK_DEADLOCK FALSE
INVARIANT
  FlushedRecordsAreRecovered
