SPECIFICATION FairSpec
CONSTANTS
  Key = {k1}
  Run = {r1, r2}
  Conn = {c1, c2, c3}
  Event = {e1}
  ErrorEvent = err
  Sentinel = sentinel
  NoRun = NoRun
  NoKey = NoKey
  MaxEvents = 1
INVARIANTS
  TypeOK
  OneLiveRunPerKey
  StreamExact
  NoLeakedQueue
PROPERTIES
  ImplementsRunStreams
  StopReleasesReaders
CHECK_DEADLOCK FALSE
