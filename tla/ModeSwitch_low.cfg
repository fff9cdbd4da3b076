SPECIFICATION FairSpec
CONSTANT Inputs = 2
PROPERTY LowBatteryEndsInIdle
CHECK_DEADLOCK FALSE
