SPECIFICATION Spec
CONSTANTS
  Sensors <- TwoSensors
  AlertSize = 3
  NameSize = 2
  BUFFER_SIZE = 4
  MaxWritten = 1
  MaxFailures = 1
INVARIANT SummaryCountsAlerts
CHECK_DEADLOCK FALSE
