SPECIFICATION FairSpec
CONSTANTS
  Images <- Files
  Readable <- Pictures
  Stem <- Stems
  Pieces <- Lengths
  MaxMerged = 2
  MaxRequests = 4
  MaxAlerts = 1
INVARIANTS
  TypeOK
  ZipIsTheEdges
  UpdatesOnlyFromAdmins
  StoppedOnlyWhileAsking
PROPERTIES
  AskingEnds
  ReaderEnds
CHECK_DEADLOCK FALSE
