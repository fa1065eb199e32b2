SPECIFICATION FairSpec
CONSTANTS
  Rows = 4
  Cols = 5
  Images <- Pictures
  Threads = {1, 2}
  Owner <- Halves
  LowThreshold = 40
  HighThreshold = 80
INVARIANTS
  TypeOK
  StaysInside
  SavedAreTheWeak
  PeaksSurvive
PROPERTY FilterFinishes
CHECK_DEADLOCK FALSE
