SPECIFICATION FairSpec
CONSTANTS
  NumSectors = 3
  SectorLen = 2
  Bits = {b1}
  fat = fat
  rec = rec
  Parts = {fat, rec}
  CachedParts = {fat}
  Region <- AlignedRegion
  MaxLen = 2
  MaxPolls = 2
  TimeoutMod = 16
  ChipPolls = {1, 2, 3}
INVARIANTS DirtyIsTimed
PROPERTIES OnlyTheLineChanges
