SPECIFICATION FairSpec
CONSTANTS
  FoodDeltas <- Deltas2
  MedicineDeltas <- Deltas1
  MaxStarts = 3
  MaxJobs = 2
  Params <- ParamLists
INVARIANTS
  TypeOK
  UniqueIds
  LatestIsRecorded
  ReadersSeeWholeSessions
  StockMatchesHistory
  AlertByIdIsExact
  ListsAreExactlyTheHistory
PROPERTIES
  HistoryAppendOnly
  UdpUpdateSurvivesDeath
  ImplementsLog
  HandlersFinish
  PowerFailureStops
CHECK_DEADLOCK FALSE
