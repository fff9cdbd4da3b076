-------------------------- MODULE MCNorFlash --------------------------
(* Small flash chips for TLC: a FAT partition behind the cache and a        *)
(* recorder partition that programs the chip itself.                        *)
EXTENDS NorFlash

CONSTANTS fat, rec

\* Sector-aligned partitions, as on the board: two sectors and one.
AlignedRegion == [p \in {fat, rec} |-> IF p = fat THEN 0 .. 2 * SectorLen - 1
                                       ELSE 2 * SectorLen .. 3 * SectorLen - 1]

\* One cached partition on the whole chip.
WholeRegion == [p \in {fat} |-> Blocks]
=============================================================================
