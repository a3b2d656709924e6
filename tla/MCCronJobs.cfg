SPECIFICATION Spec
CONSTANTS
  e1 = e1
  e2 = e2
  Exec <- MCExec
  NSems = 4
  NStates = 4
  Jobs <- MCJobs
  MaxSaves = 2
  None = None
SYMMETRY MCSymmetry
INVARIANTS
  TypeOK RunningIsTrue ScheduleFollowsStore ConcurrencyLimit
CHECK_DEADLOCK FALSE
