SPECIFICATION FairReloadSpec
CONSTANTS
  Caller = {c1, c2}
  MaxInstance = 3
  None = None
INVARIANTS
  ReloadTypeOK
  EntryIsUp
  NoOrphan
  ReusableServices
PROPERTIES
  OldInstanceStops
CHECK_DEADLOCK FALSE
