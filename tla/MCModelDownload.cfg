SPECIFICATION Spec
CONSTANTS
  NDownloads = 3
  Cancelled = {1, 2}
  None = None
INVARIANTS
  TypeOK
  OneWorker
  InstalledIsWhole
  ReportIsTrue
PROPERTIES
  EveryDownloadEnds
CHECK_DEADLOCK FALSE
