SPECIFICATION Spec
CONSTANTS
  NumSectors = 2
  SectorLen = 2
  Bits = {b1}
  fat = fat
  rec = rec
  Parts = {fat}
  CachedParts = {fat}
  Region <- WholeRegion
  MaxLen = 3
  MaxPolls = 2
  TimeoutMod = 16
  ChipPolls = {1}
INVARIANTS ReadsCoherent
