SPECIFICATION FairSpec
CONSTANTS
  Caller = {c1, c2}
  Streaming = {c1}
  MaxConcurrent = 1
  MaxQpm = 2
  Window = 2
  Attempts = 3
  PauseTimes = {1, 3}
  MaxJitter = 1
  BackoffBase = 1
  BackoffCap = 2
INVARIANTS
  TypeOK
  PermitsConserved
PROPERTIES
  CooldownBinds
  EveryCallEnds
