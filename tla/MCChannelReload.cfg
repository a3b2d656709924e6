SPECIFICATION Spec
CONSTANTS
  n1 = n1
  n2 = n2
  None = None
  Names <- MCNames
  Optional <- MCOptional
  Beats <- MCBeats
  Broken <- MCBroken
  Versions <- MCVersions
  Channels <- MCChannels
  First <- MCFirst
  MaxEdits = 3
CHECK_DEADLOCK FALSE
INVARIANTS
  TypeOK
  SettledFollowsFile
  NoStrayChannel
PROPERTIES
  EditTakesEffect
