SPECIFICATION FairSpec
CONSTANTS
 Logo = {sd0, udisk0}
 Addr = {a1, a2}
 NoAddr = NoAddr
 Files = 1
 Media = {"files", "corrupt", "empty", "bad"}
 Keys = {"next", "prev", "changeDev", "pp", "mode"}
 CycleAll = TRUE
 RamFails = TRUE
 Handles = 16
 Inputs = 3
INVARIANTS TypeOK UsesWhatIsMounted BreakIsConsumed
PROPERTIES ComesToRest
CHECK_DEADLOCK FALSE
