SPECIFICATION FairSpec
CONSTANTS
  FrameLen = 2
  BufLen = 3
  PcmLen = 1
  CutSize = 1
  LimitSize = 1
  HeadLen = 1
  StopTicks = 2
  MediaFails = TRUE
  Sessions = 2
  MaxPcm = 4
INVARIANTS TypeOK NothingLost AnsweredStopIsComplete NobodyUsesWhatIsGone
PROPERTIES KilledAtRest CloseReturns FrameIsTaken
\* Recordings are numbered and bounded: after the last one nothing happens.
CHECK_DEADLOCK FALSE
