SPECIFICATION FairSpec
CONSTANTS
  Sensors <- TwoSensors
  AlertSize = 3
  NameSize = 2
  BUFFER_SIZE = 4
  MaxWritten = 1
  MaxFailures = 1
INVARIANTS
  TypeOK
  NothingLostOrTwice
  SummaryWithinOne
  OutagesAreHeard
PROPERTY AlertsGoOut
CHECK_DEADLOCK FALSE
