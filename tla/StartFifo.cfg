SPECIFICATION Spec
CONSTANTS
  Sensors <- TwoSensors
  AlertSize = 3
  NameSize = 2
  BUFFER_SIZE = 4
  MaxWritten = 1
  MaxFailures = 1
INVARIANT OpensTheNewFifo
CHECK_DEADLOCK FALSE
