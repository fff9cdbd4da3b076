SPECIFICATION Spec
CONSTANTS
  N = 2
  MinutesPerDay = 2
  SecondsPerMinute = 2
  Modes <- MCModes
  Settable <- MCSettable
  Default <- MCDefault
  RingMax = 2
  Prompt = TRUE
  Days <- MCDays
  MaxOps = 2
INVARIANTS TypeOK StoreAgrees
PROPERTIES DueAlarmsRing RingEnds
CHECK_DEADLOCK FALSE
