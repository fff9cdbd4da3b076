SPECIFICATION Spec
CONSTANTS
  SectorLen = 3
  First = 1
  Last = 3
  HeadLen = 2
  Sizes = {1}
  Offsets = {1}
  Cuts = {0, 1}
  MinLen = 2
  WavLen = 1
  MaxIndex = 4
INVARIANTS TypeOK FlashIsSound SearchEnds RamAgrees
PROPERTIES MountFindsTheNewest OldestGoFirst
CHECK_DEADLOCK FALSE
CONSTRAINT OneStray
