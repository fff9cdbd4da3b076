---------------------------- MODULE FlatDisk ----------------------------
(***************************************************************************)
(* What the flash driver of apps/common/device/norflash/norflash.c        *)
(* promises the file systems above it: one flat array of blocks.  A write *)
(* request is stored front to back in pieces, a raw request is programmed *)
(* (bits can only be cleared) block by block, an erase sets a sector to   *)
(* all ones.  Of the blocks that are stored some may not be safe yet, in  *)
(* at most two sectors, which requests have touched; only when the power  *)
(* is cut may those be lost, and nothing else is.  There is no cache here. *)
(***************************************************************************)
EXTENDS Naturals, Sequences

CONSTANTS NumSectors,   \* sectors of 4096 bytes on the chip
          SectorLen,    \* blocks (of 512 bytes) in a sector
          Bits          \* bits of a block that the model tells apart

Sectors == 0 .. NumSectors - 1
Blocks  == 0 .. NumSectors * SectorLen - 1
Cell    == SUBSET Bits        \* the bits of a block that read as 1
Erased  == Bits

SectorOf(b) == b \div SectorLen

VARIABLES disk,   \* the contents, block by block
          todo,   \* what is left of the request being served
          unsafe, \* the sectors a power cut would damage now
          up      \* the power is on

NoRequest == [addr |-> 0, data |-> << >>, raw |-> FALSE]

\* The first n blocks of r stored over d, or ANDed into it when r is raw.
Stored(d, r, n) ==
    [b \in Blocks |->
        IF b >= r.addr /\ b < r.addr + n
        THEN IF r.raw THEN d[b] \cap r.data[b - r.addr + 1]
                      ELSE r.data[b - r.addr + 1]
        ELSE d[b]]

Rest(r, n) ==
    IF n >= Len(r.data) THEN NoRequest
    ELSE [addr |-> r.addr + n, data |-> SubSeq(r.data, n + 1, Len(r.data)),
          raw  |-> r.raw]

\* A sector becomes unsafe only by a request that reaches it.
SectorsOf(r) == {SectorOf(r.addr + k) : k \in 0 .. Len(r.data) - 1}
Risk == /\ unsafe' \subseteq unsafe \cup SectorsOf(todo) \cup SectorsOf(todo')
        /\ \E s, t \in Sectors : unsafe' \subseteq {s, t}

DiskInit == disk \in [Blocks -> Cell] /\ todo = NoRequest /\ unsafe = {} /\ up = TRUE

Accept ==
    /\ todo = NoRequest
    /\ \E a \in Blocks, raw \in BOOLEAN, n \in 1 .. NumSectors * SectorLen :
         \E data \in [1 .. n -> Cell] :
            todo' = [addr |-> a, data |-> data, raw |-> raw]
    /\ UNCHANGED disk

Store == \E n \in 1 .. Len(todo.data) :
            /\ disk' = Stored(disk, todo, n)
            /\ todo' = Rest(todo, n)

EraseSector == /\ \E s \in Sectors :
                    disk' = [b \in Blocks |-> IF SectorOf(b) = s THEN Erased
                                                                 ELSE disk[b]]
               /\ UNCHANGED todo

\* Blocks get safe, or the stored part of a request does.
Settle == UNCHANGED <<disk, todo>>

PowerCut == /\ up /\ up' = FALSE
            /\ disk' \in [Blocks -> Cell]
            /\ \A b \in Blocks : SectorOf(b) \notin unsafe => disk'[b] = disk[b]
            /\ todo' = NoRequest /\ unsafe' = {}

PowerOn == ~up /\ up' = TRUE /\ UNCHANGED <<disk, todo, unsafe>>

DiskNext == \/ /\ up /\ UNCHANGED up
               /\ Accept \/ Store \/ EraseSector \/ Settle
               /\ Risk
            \/ PowerCut \/ PowerOn

DiskSpec == DiskInit /\ [][DiskNext]_<<disk, todo, unsafe, up>>
=============================================================================
