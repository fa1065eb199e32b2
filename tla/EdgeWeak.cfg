SPECIFICATION Spec
CONSTANTS
  Rows = 4
  Cols = 5
  Images <- Pictures
  Threads = {1, 2}
  Owner <- Halves
  LowThreshold = 40
  HighThreshold = 80
INVARIANT WeakOnlyIfConnected
CHECK_DEADLOCK FALSE
