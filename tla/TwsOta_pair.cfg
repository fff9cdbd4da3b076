CONSTANTS
  NumPackets = 2
  SnMod = 8
  Prompt = TRUE
  MaxStarts = 2
  MaxFaults = 1
SPECIFICATION Spec
INVARIANTS TypeOK MasterBurnsLast BurnsWhole InStep FreshIsTaken
PROPERTIES SlaveLeaves
CHECK_DEADLOCK FALSE
