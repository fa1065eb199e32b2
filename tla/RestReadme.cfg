SPECIFICATION Spec
CONSTANTS
  FoodDeltas <- Deltas1
  MedicineDeltas <- Deltas0
  MaxStarts = 2
  MaxJobs = 2
  Params <- ParamLists
INVARIANT RestAsInReadme
CHECK_DEADLOCK FALSE
