SPECIFICATION Spec
CONSTANTS
  N = 2
  MinutesPerDay = 2
  SecondsPerMinute = 2
  Modes <- MCModes
  Settable <- MCSettable
  Default <- MCDefault
  RingMax = 2
  Prompt = FALSE
  Days <- MCDays
  MaxOps = 2
INVARIANT ArmedIsNext
CHECK_DEADLOCK FALSE
