SPECIFICATION FairSpec
CONSTANT Inputs = 4
INVARIANTS SwitchTypeOK ModesAreSound
PROPERTY SwitchEnds
CHECK_DEADLOCK FALSE
