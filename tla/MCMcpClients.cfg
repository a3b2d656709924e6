SPECIFICATION Spec
CONSTANTS
  k1 = k1
  k2 = k2
  v1 = v1
  v2 = v2
  Keys <- MCKeys
  Versions <- MCVersions
  Off = Off
  Configs <- MCConfigs
  Initial <- MCInitial
  NClients = 3
  MaxEdits = 2
  MaxLosses = 1
INVARIANTS
  TypeOK NoSilentLeak
PROPERTIES
  NobodyWaitsForever
CHECK_DEADLOCK FALSE
